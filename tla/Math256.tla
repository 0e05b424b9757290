-------------------------------- MODULE Math256 --------------------------------
(***************************************************************************)
(* Math.h: the host's 256-bit arithmetic on four little-endian u64 limbs,  *)
(* carry by carry, for any number of limbs of any size.  A result comes    *)
(* with the status the function returns.                                   *)
(***************************************************************************)
EXTENDS Integers

CONSTANTS
  Word,    \* a u64 holds 0 .. Word-1; 2^64
  Limbs    \* limbs of a number; 4

ASSUME WordAssumption == Word \in Nat /\ Word > 1
ASSUME LimbAssumption == Limbs \in Nat \ {0}

LimbIndex == 0 .. Limbs-1
U256 == [LimbIndex -> 0 .. Word-1]

\* The weights of the limbs.
Power == LET p[i \in 0..Limbs] == IF i = 0 THEN 1 ELSE Word * p[i-1] IN p

Keys == Power[Limbs]   \* how many numbers there are

\* The number that limbs stand for, and those from the i-th up; the limbs of a number.
ValueFrom(a) == LET v[i \in 0..Limbs] == IF i = Limbs THEN 0 ELSE a[i] + (Word * v[i+1]) IN v
ValueOf(a)   == ValueFrom(a)[0]

LimbsOf(n) == [i \in LimbIndex |-> (n \div Power[i]) % Word]

num_256_1 == LimbsOf(1)

\* The carry into each limb.
Carries(a, b) ==
  LET carry[i \in 0..Limbs] ==
        IF i = 0 THEN 0 ELSE (a[i-1] + b[i-1] + carry[i-1]) \div Word
  IN  carry

add_256(a, b) ==
  [r |-> [i \in LimbIndex |-> (a[i] + b[i] + Carries(a, b)[i]) % Word],
   overflow |-> Carries(a, b)[Limbs] # 0]

\* What goes into each limb of a * m + c from the limbs below it.
Overflows(a, m, c) ==
  LET over[i \in 0..Limbs] == IF i = 0 THEN c ELSE (a[i-1] * m + over[i-1]) \div Word
  IN  over

add_256_u64(a, b) ==
  [r |-> [i \in LimbIndex |-> (a[i] + Overflows(a, 1, b)[i]) % Word],
   overflow |-> Overflows(a, 1, b)[Limbs] # 0]

mul_256_u64(a, b) ==
  [r |-> [i \in LimbIndex |-> (a[i] * b + Overflows(a, b, 0)[i]) % Word],
   overflow |-> Overflows(a, b, 0)[Limbs] # 0]

\* Defect of the next definition: the borrow is added to the subtrahend first, which wraps.
Borrows_folded(a, b) ==
  LET borrow[i \in 0..Limbs] ==
        IF i = 0 THEN 0 ELSE IF a[i-1] < (b[i-1] + borrow[i-1]) % Word THEN 1 ELSE 0
  IN  borrow

\* The borrow out of each limb.
Borrows(a, b) ==
  LET borrow[i \in 0..Limbs] ==
        IF i = 0 THEN 0 ELSE IF a[i-1] - b[i-1] - borrow[i-1] < 0 THEN 1 ELSE 0
  IN  borrow

sub_256(a, b) ==
  [r |-> [i \in LimbIndex |-> (a[i] - b[i] - Borrows(a, b)[i]) % Word],
   borrow |-> Borrows(a, b)[Limbs] # 0]

\* What the long division, from the top limb down, leaves of the limbs from the i-th up; it stands
\* before the next limb.
Remainders(a, d) ==
  LET rem[i \in 0..Limbs] == IF i = Limbs THEN 0 ELSE ((rem[i+1] * Word) + a[i]) % d
  IN  rem

div_256_u64(a, d) ==
  [quotient  |-> [i \in LimbIndex |-> ((Remainders(a, d)[i+1] * Word) + a[i]) \div d],
   remainder |-> Remainders(a, d)[0]]
===============================================================================
