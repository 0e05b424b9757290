------------------------------- MODULE FieldMath -------------------------------
(***************************************************************************)
(* The modular arithmetic of the kernel (Math.cuh) and of the host         *)
(* (EcInt.cpp) on numbers of a fixed width.  A chain of add.cc / addc.cc   *)
(* over all words of a number is an addition modulo R with a carry, a      *)
(* chain of sub.cc / subc.cc a subtraction modulo R with a borrow; in the  *)
(* code R = 2^256 and K = 2^32 + 977.  The host's numbers have a fifth     *)
(* limb, which holds every carry.                                          *)
(***************************************************************************)
EXTENDS WordProduct

CONSTANTS
  R,   \* a number holds 0 .. R-1
  K    \* the modulus falls short of R by K

ASSUME ModulusAssumption ==
  /\ R \in Nat /\ K \in Nat /\ 0 < K /\ 3*K < R /\ K*K < R - K
  /\ R % 2 = 0 /\ K % 2 = 1

\* A number is N words.
ASSUME WidthAssumption == R = Weight[N]

P == R - K

Number  == 0 .. R-1   \* what fits in four 64-bit limbs
Residue == 0 .. P-1   \* the reduced numbers

\* neg_mod: one subtraction, whose borrow is not looked at.
neg_mod(a) == (P - a) % R

\* add_mod: the sum and its carry, less P; kept as it was if that borrows.
add_mod(a, b) ==
  IF a + b < P THEN a + b ELSE (a + b - P) % R

\* sub_mod: P is added if the subtraction borrows.
sub_mod(a, b) ==
  IF a < b THEN (((a - b) % R) + P) % R ELSE a - b

\* Defect of the next definition: the second borrow replaces the first.
sub_mod3_one_borrow(a, b, c) ==
  LET ab  == (a - b) % R
      abc == (ab - c) % R
      BK  == IF ab < c THEN K ELSE 0
  IN  IF abc < BK THEN (((abc - BK) % R) + P) % R ELSE abc - BK

\* sub_mod3: two subtractions; every borrow is worth K less; P is added if that borrows.
sub_mod3(a, b, c) ==
  LET ab  == (a - b) % R
      abc == (ab - c) % R
      BK  == (IF a < b THEN K ELSE 0) + (IF ab < c THEN K ELSE 0)
  IN  IF abc < BK THEN (((abc - BK) % R) + P) % R ELSE abc - BK

\* sub_mod_is_odd_prefix: a borrow stands for an addition of P, which is odd.
sub_mod_is_odd_prefix(a, b) ==
  LET bit == ((a - b) % R) % 2
  IN  IF a < b THEN 3 - bit ELSE 2 + bit

\* mul_mod and sqr_mod on a double-width product x: the high half times K is added to the low
\* half, and what overflows of that, times K, once more.
Folded(x) == (x % R) + ((x \div R) * K)

FoldedTwice(x) == (Folded(x) % R) + ((Folded(x) \div R) * K)

\* Defect of the next definition: the second folding is forgotten.
ReturnedOnce(x) == Folded(x) % R

\* The last addition has no carry out; what it would be.
ReturnedOf(x) == FoldedTwice(x) % R
LastCarry(x)  == FoldedTwice(x) \div R

mul_mod(a, b) == ReturnedOf(mul512_split(a, b))
sqr_mod(a)    == ReturnedOf(sqr512_split(a))

\* Carries are lost: in the passes of the double-width product, or in the last addition.
MulLost(a, b) == mul512_split(a, b) # a * b \/ LastCarry(mul512_split(a, b)) # 0
SqrLost(a)    == sqr512_split(a) # a * a \/ LastCarry(sqr512_split(a)) # 0

\* AddModP: P is subtracted unless the sum is below it.
AddModP(a, b) == IF a + b < P THEN a + b ELSE a + b - P

\* SubModP: P is added if the subtraction borrows.
SubModP(a, b) == IF a < b THEN a - b + P ELSE a - b

\* MulModP: P is subtracted while the fifth limb is not 0.
MulModP(a, b) ==
  LET g == FoldedTwice(a * b) IN IF g >= R THEN g - P ELSE g
===============================================================================
