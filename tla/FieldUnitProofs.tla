----------------------------- MODULE FieldUnitProofs -----------------------------
(***************************************************************************)
(* Theorems about the field arithmetic of the kernel and the host, for any *)
(* width of the numbers, of the chunks and of the words: what a call of an *)
(* operation returns, what an inversion returns, and that a double-width   *)
(* product is exact but for the carries its closing adds lose.             *)
(***************************************************************************)
EXTENDS FieldUnit, NumberFacts

-------------------------------------------------------------------------------
(* The operations                                                          *)

\* Division by the word size.
LEMMA DivModR ==
  \A u \in Int : /\ u = R * (u \div R) + (u % R)
                 /\ u % R \in Number /\ u \div R \in Int
  BY ModulusAssumption DEF Number

\* The modulus is at least 1 and below the word size.
LEMMA ModulusRange == P \in Nat /\ 0 < P /\ P < R /\ 2*P > R
  BY ModulusAssumption DEF P

\* Every multiple of P vanishes modulo P.
LEMMA MultipleOfP == \A n \in Int : (n * P) % P = 0
<1> SUFFICES ASSUME NEW n \in Int PROVE (n * P) % P = 0
  OBVIOUS
<1> DEFINE q == (n * P) \div P
           s == (n * P) % P
<1>1. n * P \in Int /\ P \in Nat /\ 0 < P
  BY ModulusRange
<1>2. n * P = P * q + s /\ s \in 0..P-1 /\ q \in Int
  BY <1>1
<1> HIDE DEF q, s
<1>3. P * (n - q) = s
  BY <1>1, <1>2
<1>4. n - q < 1 /\ n - q > -1
  <2>1. CASE n - q >= 1
    <3>1. P * (n - q) >= P
      BY <1>1, <1>2, <2>1
    <3> QED
      BY <1>1, <1>2, <1>3, <3>1
  <2>2. CASE n - q <= -1
    <3>1. P * (n - q) <= -P
      BY <1>1, <1>2, <2>2
    <3> QED
      BY <1>1, <1>2, <1>3, <3>1
  <2> QED
    BY <1>2, <2>1, <2>2
<1>5. n - q = 0
  BY <1>2, <1>4
<1> QED
  BY <1>1, <1>3, <1>5 DEF s

\* A sum of a number and a residue, less P where the code takes it away, fits a number.
LEMMA AddMod ==
  ASSUME NEW u \in Number, NEW y \in Residue
  PROVE  /\ add_mod(u, y) \in Number
         /\ add_mod(u, y) - (u + y) \in {0, -P}
         /\ u \in Residue => add_mod(u, y) \in Residue
  BY ModulusAssumption DEF add_mod, Number, Residue, P

\* A residue taken from a number leaves a number.
LEMMA SubMod ==
  ASSUME NEW u \in Number, NEW y \in Residue
  PROVE  /\ sub_mod(u, y) \in Number
         /\ sub_mod(u, y) - (u - y) \in {0, P}
         /\ u \in Residue => sub_mod(u, y) \in Residue
  BY ModulusAssumption DEF sub_mod, Number, Residue, P

\* Two residues taken from a number leave a number.
LEMMA SubMod3 ==
  ASSUME NEW u \in Number, NEW y \in Residue, NEW z \in Residue
  PROVE  /\ sub_mod3(u, y, z) \in Number
         /\ sub_mod3(u, y, z) - (u - y - z) \in {0, P, 2*P}
         /\ u \in Residue => sub_mod3(u, y, z) \in Residue
<1> DEFINE ab  == (u - y) % R
           abc == (ab - z) % R
           BK  == (IF u < y THEN K ELSE 0) + (IF ab < z THEN K ELSE 0)
<1>1. /\ ab \in Number
      /\ ab = IF u < y THEN u - y + R ELSE u - y
  BY ModulusAssumption DEF Number, Residue, P
<1>2. /\ abc \in Number
      /\ abc = IF ab < z THEN ab - z + R ELSE ab - z
  BY <1>1, ModulusAssumption DEF Number, Residue, P
<1>3. sub_mod3(u, y, z) = IF abc < BK THEN (((abc - BK) % R) + P) % R ELSE abc - BK
  BY DEF sub_mod3
<1> DEFINE borrows == (IF u < y THEN 1 ELSE 0) + (IF ab < z THEN 1 ELSE 0)
<1>4. borrows \in {0, 1, 2}
  OBVIOUS
<1>5. /\ BK = borrows * K
      /\ abc = u - y - z + borrows * R
      /\ borrows = 1 => u - y - z < 0
  BY <1>1, <1>2, ModulusAssumption DEF Number, Residue, P
<1> HIDE DEF ab, abc, BK, borrows
<1>6. CASE borrows = 0
  BY <1>2, <1>3, <1>5, <1>6, ModulusAssumption DEF Number, Residue, P
<1>7. CASE borrows = 1
  <2>1. CASE abc < BK
    <3>1. (abc - BK) % R = abc - BK + R
      BY <1>2, <1>5, <1>7, <2>1, ModulusAssumption DEF Number
    <3>2. ((abc - BK) % R) + P = R + (abc - K + P)
      BY <1>2, <1>5, <1>7, <3>1, ModulusAssumption DEF Number, P
    <3>3. abc - K + P \in Residue
      BY <1>2, <1>5, <1>7, <2>1, ModulusAssumption DEF Number, Residue, P
    <3>4. sub_mod3(u, y, z) = abc - K + P
      BY <1>3, <2>1, <3>2, <3>3, ModulusAssumption DEF Residue, P
    <3> QED
      BY <1>2, <1>5, <1>7, <3>3, <3>4, ModulusAssumption DEF Number, Residue, P
  <2>2. CASE ~(abc < BK)
    BY <1>2, <1>3, <1>5, <1>7, <2>2, ModulusAssumption DEF Number, Residue, P
  <2> QED
    BY <2>1, <2>2
<1>8. CASE borrows = 2
  <2>1. BK = 2*K /\ abc = u - y - z + 2*R /\ ~(abc < BK)
    BY <1>2, <1>5, <1>8, ModulusAssumption DEF Number, Residue, P
  <2> QED
    BY <1>2, <1>3, <2>1, ModulusAssumption DEF Number, Residue, P
<1> QED
  BY <1>4, <1>6, <1>7, <1>8

\* The host's sum and difference, whose first operand may be unreduced.
LEMMA HostSum ==
  ASSUME NEW u \in Number, NEW y \in Residue
  PROVE  /\ AddModP(u, y) \in Int /\ SubModP(u, y) \in Int
         /\ AddModP(u, y) - (u + y) \in {0, -P}
         /\ SubModP(u, y) - (u - y) \in {0, P}
         /\ u \in Residue => AddModP(u, y) \in Residue /\ SubModP(u, y) \in Residue
  BY ModulusAssumption DEF AddModP, SubModP, Number, Residue, P

\* The parity of a difference of residues, from the difference modulo R and its borrow.
LEMMA Parity ==
  ASSUME NEW u \in Residue, NEW y \in Residue
  PROVE  sub_mod_is_odd_prefix(u, y) = 2 + (((u - y) % P) % 2)
<1>1. CASE u < y
  <2>1. (u - y) % R = u - y + R /\ (u - y) % P = u - y + P
    BY <1>1, ModulusAssumption DEF Residue, P
  <2>2. (u - y + P) % 2 = 1 - ((u - y + R) % 2)
    BY ModulusAssumption DEF Residue, P
  <2> QED
    BY <1>1, <2>1, <2>2, ModulusAssumption DEF sub_mod_is_odd_prefix, Residue, P
<1>2. CASE ~(u < y)
  <2>1. (u - y) % R = u - y /\ (u - y) % P = u - y
    BY <1>2, ModulusAssumption DEF Residue, P
  <2> QED
    BY <1>2, <2>1 DEF sub_mod_is_odd_prefix
<1> QED
  BY <1>1, <1>2

\* Folding the high half of a number into its low half, times K, subtracts a multiple of P.
LEMMA FoldingIsCongruent ==
  ASSUME NEW u \in Int
  PROVE  (u % R) + ((u \div R) * K) = u - (u \div R) * P
<1> DEFINE q == u \div R
           s == u % R
<1>1. u = R * q + s /\ s \in Int /\ q \in Int
  BY DivModR DEF Number
<1> HIDE DEF q, s
<1>2. s + q * K = u - q * P
  BY <1>1, ModulusAssumption DEF P
<1> QED
  BY <1>2 DEF q, s

\* The host's product subtracts a multiple of P and fits a number: the second folding can exceed the
\* width by less than K*K, and one subtraction of P takes that back.
LEMMA HostProduct ==
  ASSUME NEW u \in Number, NEW y \in Number
  PROVE  /\ MulModP(u, y) \in Number
         /\ \E n \in Int : MulModP(u, y) - u * y = n * P
<1> DEFINE l == (u * y) % R
           q == (u * y) \div R
           f == Folded(u * y)
           k == f % R
           h == f \div R
           g == FoldedTwice(u * y)
<1>1. u * y \in Nat /\ u * y = R * q + l /\ q \in Int /\ l \in Number /\ P \in Int
  BY DivModR, ModulusRange, ModulusAssumption DEF Number
<1>2. 0 <= q /\ q <= R - 1
  <2>1. u * y <= (R - 1) * (R - 1)
    <3>1. u * y <= (R - 1) * y
      BY ModulusAssumption DEF Number
    <3>2. (R - 1) * y <= (R - 1) * (R - 1)
      BY ModulusAssumption DEF Number
    <3> QED
      BY <3>1, <3>2, <1>1, ModulusAssumption DEF Number
  <2> HIDE DEF l, q
  <2>2. R * q < R * R
    BY <1>1, <2>1, ModulusAssumption DEF Number
  <2>3. R * q > -R
    BY <1>1, ModulusAssumption DEF Number
  <2>4. q < R
    <3>1. CASE q >= R
      <4>1. R * q >= R * R
        BY <3>1, <1>1, ModulusAssumption
      <4> QED
        BY <4>1, <2>2, <1>1, ModulusAssumption
    <3> QED
      BY <3>1, <1>1, ModulusAssumption
  <2>5. q > -1
    <3>1. CASE q <= -1
      <4>1. R * q <= -R
        BY <3>1, <1>1, ModulusAssumption
      <4> QED
        BY <4>1, <2>3, <1>1, ModulusAssumption
    <3> QED
      BY <3>1, <1>1
  <2> QED
    BY <2>4, <2>5, <1>1, ModulusAssumption
<1>3. f = l + q * K /\ f = u * y - q * P
  BY <1>1, FoldingIsCongruent DEF Folded
<1>4. f \in Int /\ f = R * h + k /\ h \in Int /\ k \in Number
  BY <1>1, <1>3, DivModR
<1>5. g = k + h * K /\ g = f - h * P
  BY <1>4, FoldingIsCongruent DEF FoldedTwice
<1>6. MulModP(u, y) = IF g >= R THEN g - P ELSE g
  BY DEF MulModP
<1> HIDE DEF l, q, f, k, h, g
<1>7. 0 <= h /\ h <= K
  <2>1. 0 <= q * K /\ q * K <= (R - 1) * K
    BY <1>1, <1>2, ModulusAssumption
  <2>2. R * h > -R /\ R * h < R * (K + 1)
    BY <1>1, <1>3, <1>4, <2>1, ModulusAssumption DEF Number
  <2>3. h > -1
    <3>1. CASE h <= -1
      <4>1. R * h <= -R
        BY <3>1, <1>4, ModulusAssumption
      <4> QED
        BY <4>1, <2>2, <1>4, ModulusAssumption
    <3> QED
      BY <3>1, <1>4
  <2>4. h < K + 1
    <3>1. CASE h >= K + 1
      <4>1. R * h >= R * (K + 1)
        BY <3>1, <1>4, ModulusAssumption
      <4> QED
        BY <4>1, <2>2, <1>4, ModulusAssumption
    <3> QED
      BY <3>1, <1>4, ModulusAssumption
  <2> QED
    BY <2>3, <2>4, <1>4, ModulusAssumption
<1>8. 0 <= h * K /\ h * K <= K * K
  BY <1>4, <1>7, ModulusAssumption
<1>9. MulModP(u, y) \in Number
  BY <1>4, <1>5, <1>6, <1>8, ModulusAssumption DEF Number, P
<1>10. \E n \in Int : MulModP(u, y) - u * y = n * P
  <2>1. CASE g >= R
    <3>1. MulModP(u, y) - u * y = (0 - q - h - 1) * P
      BY <1>1, <1>3, <1>4, <1>5, <1>6, <2>1
    <3>2. 0 - q - h - 1 \in Int
      BY <1>1, <1>4
    <3> QED
      BY <3>1, <3>2
  <2>2. CASE ~(g >= R)
    <3>1. MulModP(u, y) - u * y = (0 - q - h) * P
      BY <1>1, <1>3, <1>4, <1>5, <1>6, <2>2
    <3>2. 0 - q - h \in Int
      BY <1>1, <1>4
    <3> QED
      BY <3>1, <3>2
  <2> QED
    BY <2>1, <2>2
<1> QED
  BY <1>9, <1>10

-------------------------------------------------------------------------------

\* What the return register holds after each call; the products of the kernel follow further down.
Returned ==
  /\ op = "none" => r = 0
  /\ op = "neg" => r = neg_mod(a)
  /\ op = "add" => r = add_mod(a, b)
  /\ op = "sub" => r = sub_mod(a, b)
  /\ op = "sub3" => r = sub_mod3(a, b, c)
  /\ op = "prefix" => r = sub_mod_is_odd_prefix(a, b)
  /\ op = "AddModP" => r = AddModP(a, b)
  /\ op = "SubModP" => r = SubModP(a, b)
  /\ op = "MulModP" => r = MulModP(a, b)

\* The inductive invariant: the operands are numbers, the register is the operation's result.
CallInv ==
  /\ a \in Number /\ b \in Number /\ c \in Number
  /\ Returned

\* Holds at first and is kept by every step: a call is made once, and nothing else changes its registers.
LEMMA CallInvariant == UnitSpec => []CallInv
<1>1. UnitInit => CallInv
  <2>1. 0 \in Number
    BY ModulusAssumption DEF Number
  <2> QED
    BY <2>1, TriedAssumption DEF UnitInit, Init, NoCall, CallInv, Returned
<1>2. CallInv /\ [UnitNext]_uvars => CallInv'
  <2> SUFFICES ASSUME CallInv, [UnitNext]_uvars PROVE CallInv'
    OBVIOUS
  <2>1. CASE Call
    BY <2>1 DEF CallInv, Returned, Call, Next, Neg, Add, Sub, Sub3, Prefix, HostAdd, HostSub, HostMul,
                Over, Return, vars
  <2>2. CASE Fold
    BY <2>2 DEF CallInv, Returned, Fold
  <2>3. CASE ~Call /\ ~Fold
    <3>1. UNCHANGED vars
      BY <2>3 DEF UnitNext, Invert, Inverting, Inverted, Multiplying, uvars
    <3> QED
      BY <3>1 DEF CallInv, Returned, vars
  <2> QED
    BY <2>1, <2>2, <2>3
<1> QED
  BY <1>1, <1>2, PTL DEF UnitSpec

\* Multiples of P a result may be off by vanish modulo P.
LEMMA OffByMultiple ==
  ASSUME NEW u \in Int, NEW y \in Int, u - y \in {0, P, -P, 2*P}
  PROVE  (u - y) % P = 0
<1>1. u - y = 0 * P \/ u - y = 1 * P \/ u - y = (-1) * P \/ u - y = 2 * P
  BY ModulusRange
<1> QED
  BY <1>1, MultipleOfP

\* The additive operations are exact for every R and K, and reduced if their operands are.
THEOREM AdditiveExact == UnitSpec => []SumsAreExact
<1>1. CallInv => SumsAreExact
  <2> SUFFICES ASSUME CallInv, op \in Additive, b \in Residue, c \in Residue
               PROVE  (r - Ideal) % P = 0 /\ (a \in Residue => r \in Residue)
    BY DEF SumsAreExact
  <2>1. Number \subseteq Int /\ a \in Number /\ a \in Int /\ b \in Int /\ c \in Int
    BY ModulusAssumption DEF CallInv, Number, Residue, P
  <2>2. /\ r \in Int /\ r - Ideal \in {0, P, -P, 2*P} /\ Ideal \in Int
        /\ a \in Residue => r \in Residue
    <3>1. CASE op = "add"
      BY <2>1, <3>1, AddMod DEF CallInv, Returned, Ideal
    <3>2. CASE op = "sub"
      BY <2>1, <3>2, SubMod DEF CallInv, Returned, Ideal
    <3>3. CASE op = "sub3"
      BY <2>1, <3>3, SubMod3 DEF CallInv, Returned, Ideal
    <3>4. CASE op = "AddModP"
      BY <2>1, <3>4, HostSum DEF CallInv, Returned, Ideal
    <3>5. CASE op = "SubModP"
      BY <2>1, <3>5, HostSum DEF CallInv, Returned, Ideal
    <3> QED
      BY <3>1, <3>2, <3>3, <3>4, <3>5 DEF Additive
  <2> QED
    BY <2>2, OffByMultiple
<1> QED
  BY <1>1, CallInvariant, PTL

\* The prefix byte of a reduced pair is the parity of the reduced difference.
THEOREM PrefixExact == UnitSpec => []PrefixIsParity
<1>1. CallInv => PrefixIsParity
  BY Parity DEF CallInv, Returned, PrefixIsParity
<1> QED
  BY <1>1, CallInvariant, PTL

\* The host's product keeps every carry: it is congruent to the product and fits four limbs.
THEOREM HostProductExact == UnitSpec => []HostProductCongruent
<1>1. CallInv => HostProductCongruent
  <2> SUFFICES ASSUME CallInv, op = "MulModP"
               PROVE  r \in Number /\ (r - (a * b)) % P = 0
    BY DEF HostProductCongruent
  <2>1. r \in Number /\ \E n \in Int : r - a * b = n * P
    BY HostProduct DEF CallInv, Returned
  <2>2. PICK n \in Int : r - a * b = n * P
    BY <2>1
  <2> QED
    BY <2>1, <2>2, MultipleOfP
<1> QED
  BY <1>1, CallInvariant, PTL


-------------------------------------------------------------------------------
(* Odd and even numbers                                                    *)

LEMMA OddEven ==
  ASSUME NEW k \in Int, NEW l \in Int
  PROVE  /\ ~Divides(2, k) => Divides(2, k - 1) /\ Divides(2, k + 1)
         /\ ~Divides(2, k) /\ Divides(2, k - l) => ~Divides(2, l)
         /\ ~Divides(2, k) => k # 0
<1>1. ASSUME ~Divides(2, k) PROVE Divides(2, k - 1) /\ Divides(2, k + 1)
  <2>1. k % 2 # 0 /\ k % 2 \in 0..1 /\ Divides(2, k - (k % 2))
    BY <1>1, DividesMod, DivModFacts
  <2>2. Divides(2, k - 1)
    BY <2>1
  <2>3. Divides(2, (k - 1) + 2)
    <3>1. Divides(2, 2)
      BY DividesItself
    <3>. QED BY <2>2, <3>1, DividesSum
  <2>4. (k - 1) + 2 = k + 1
    OBVIOUS
  <2>. QED BY <2>2, <2>3, <2>4
<1>2. ASSUME Divides(2, l), Divides(2, k - l) PROVE Divides(2, k)
  <2>1. Divides(2, (k - l) + l) /\ (k - l) + l = k
    BY <1>2, DividesSum
  <2>. QED BY <2>1
<1>3. Divides(2, 0)
  BY DividesItself
<1>. QED BY <1>1, <1>2, <1>3

-------------------------------------------------------------------------------
(* Powers of two                                                           *)

LEMMA Widths == C \in Nat /\ C > 2 /\ R \in Nat /\ K \in Nat /\ P \in Nat /\ P > 2 /\ P < R
BY ChunkAssumption, ModulusAssumption DEF P

LEMMA Pow2Facts ==
  /\ \A i \in 0..C+2 : Pow2[i] \in Nat \ {0}
  /\ Pow2[0] = 1
  /\ \A i \in 0..C+1 : Pow2[i+1] = 2 * Pow2[i]
<1>. DEFINE Body(f) == [k \in 0..C+2 |-> IF k = 0 THEN 1 ELSE 2 * f[k-1]]
            n == C + 2
<1>0. C \in Nat /\ n \in Nat
  BY Widths
<1>1. \E f : f \in [0..n -> Nat] /\ f = Body(f)
  <2>. DEFINE next == [i \in 1..n |-> [y \in Nat |-> 2 * y]]
  <2>1. next \in [1..n -> [Nat -> Nat]]
    BY <1>0
  <2>2. PICK f : Follows(f, n, Nat, 1, next)
    <3>. HIDE DEF next, n
    <3>. QED BY <1>0, <2>1, UpwardFunction
  <2>3. f \in [0..n -> Nat] /\ f[0] = 1 /\ \A i \in 1..n : f[i] = next[i][f[i-1]]
    BY <2>2 DEF Follows
  <2>4. ASSUME NEW i \in 1..n PROVE f[i] = 2 * f[i-1]
    <3>1. i - 1 \in 0..n
      BY <1>0
    <3>2. f[i-1] \in Nat
      BY <2>3, <3>1
    <3>. QED BY <2>3, <3>2
  <2>5. ASSUME NEW i \in 0..n PROVE f[i] = IF i = 0 THEN 1 ELSE 2 * f[i-1]
    <3>1. CASE i = 0
      BY <2>3, <3>1
    <3>2. CASE i # 0
      BY <1>0, <2>4, <3>2
    <3>. QED BY <3>1, <3>2
  <2>6. f = Body(f)
    BY <2>3, <2>5
  <2>. QED BY <2>3, <2>6
<1>2. Pow2 = Body(Pow2)
  BY <1>1 DEF Pow2
<1>. DEFINE T == {i \in 0..n : Pow2[i] \in Nat /\ Pow2[i] > 0}
<1>3. Pow2[0] = 1 /\ \A i \in 0..C+1 : Pow2[i+1] = 2 * Pow2[i]
  <2>1. \A i \in 0..n : Pow2[i] = IF i = 0 THEN 1 ELSE 2 * Pow2[i-1]
    BY <1>2
  <2>2. \A i \in 0..C+1 : i + 1 \in 0..n /\ i + 1 # 0 /\ (i + 1) - 1 = i
    BY <1>0
  <2>. QED BY <1>0, <2>1, <2>2
<1>4. \A i \in 0..n : i \in T
  <2>1. 0 \in T
    BY <1>0, <1>3
  <2>2. ASSUME NEW i \in 0..n-1, i \in T PROVE i + 1 \in T
    <3>1. Pow2[i+1] = 2 * Pow2[i] /\ Pow2[i] \in Nat /\ Pow2[i] > 0
      BY <1>0, <1>3, <2>2
    <3>. QED BY <1>0, <3>1
  <2>. HIDE DEF T, n
  <2>. QED BY <1>0, <2>1, <2>2, UpTo
<1>. QED BY <1>3, <1>4

LEMMA Pow2Sum ==
  ASSUME NEW i \in Nat, NEW j \in Nat, i + j <= C + 2
  PROVE  Pow2[i+j] = Pow2[i] * Pow2[j]
<1>. DEFINE n == C + 2 - i
            T == {k \in 0..n : Pow2[i+k] = Pow2[i] * Pow2[k]}
<1>0. C \in Nat /\ n \in Nat /\ j \in 0..n /\ i \in 0..C+2
  BY Widths
<1>1. 0 \in T
  <2>1. i + 0 = i /\ Pow2[i] \in Nat /\ Pow2[0] = 1
    BY <1>0, Pow2Facts
  <2>. QED BY <1>0, <2>1
<1>2. ASSUME NEW k \in 0..n-1, k \in T PROVE k + 1 \in T
  <2>1. k \in 0..C+1 /\ i + k \in 0..C+1 /\ k \in 0..C+2 /\ i + (k + 1) = (i + k) + 1
    BY <1>0
  <2>2. Pow2[i+k] = Pow2[i] * Pow2[k]
    BY <1>2
  <2>3. Pow2[k+1] = 2 * Pow2[k] /\ Pow2[(i+k)+1] = 2 * Pow2[i+k]
    BY <2>1, Pow2Facts
  <2>4. Pow2[i] \in Nat /\ Pow2[k] \in Nat
    BY <1>0, <2>1, Pow2Facts
  <2>5. Pow2[i + (k + 1)] = Pow2[i] * Pow2[k+1]
    BY <2>1, <2>2, <2>3, <2>4
  <2>. QED BY <1>0, <2>5
<1>. HIDE DEF T, n
<1>3. \A k \in 0..n : k \in T
  BY <1>0, <1>1, <1>2, UpTo
<1>. QED BY <1>0, <1>3 DEF T

\* The smaller power divides the greater.
LEMMA Pow2Divides ==
  ASSUME NEW i \in Nat, NEW j \in Nat, i <= j, j <= C + 2
  PROVE  Divides(Pow2[i], Pow2[j]) /\ Pow2[i] <= Pow2[j] /\ Pow2[i] \in Nat \ {0} /\ Pow2[j] \in Nat \ {0}
<1>1. C \in Nat /\ j - i \in Nat /\ i + (j - i) = j /\ i \in 0..C+2 /\ j \in 0..C+2 /\ j - i \in 0..C+2
  BY Widths
<1>2. Pow2[j] = Pow2[i] * Pow2[j-i]
  BY <1>1, Pow2Sum
<1>. DEFINE s == Pow2[i]
            t == Pow2[j-i]
<1>3. s \in Nat \ {0} /\ t \in Nat \ {0} /\ Pow2[j] \in Nat \ {0}
  BY <1>1, Pow2Facts
<1>. HIDE DEF s, t
<1>4. s <= s * t
  BY <1>3
<1>. QED BY <1>2, <1>3, <1>4 DEF Divides, s, t

LEMMA SmallPowers == Pow2[0] = 1 /\ Pow2[1] = 2 /\ Pow2[2] = 4 /\ Pow2[3] = 8
<1>1. C \in Nat /\ 0 \in 0..C+1 /\ 1 \in 0..C+1 /\ 2 \in 0..C+1
  BY Widths
<1>2. Pow2[0+1] = 2 * Pow2[0] /\ Pow2[1+1] = 2 * Pow2[1] /\ Pow2[2+1] = 2 * Pow2[2] /\ Pow2[0] = 1
  BY <1>1, Pow2Facts
<1>. QED BY <1>2

\* A word holds four times what a chunk takes off.
LEMMA HalfFacts ==
  /\ Half \in Nat \ {0} /\ Half = 2 * Pow2[C] /\ 2*Half = Pow2[C+2] /\ 2*Half = 4 * Pow2[C]
  /\ Pow2[C] \in Nat \ {0} /\ Divides(2, 2*Half) /\ Divides(2, Pow2[C])
<1>1. C \in 0..C+1 /\ C + 1 \in 0..C+1 /\ C \in 0..C+2 /\ C \in Nat /\ C > 2
  BY Widths
<1>2. Pow2[C+1] = 2 * Pow2[C] /\ Pow2[(C+1)+1] = 2 * Pow2[C+1] /\ Pow2[C] \in Nat \ {0}
  BY <1>1, Pow2Facts
<1>3. (C + 1) + 1 = C + 2
  BY <1>1
<1>4. Divides(2, Pow2[C])
  <2>1. Divides(Pow2[1], Pow2[C])
    BY <1>1, Pow2Divides
  <2>. QED BY <2>1, SmallPowers
<1>5. Half = 2 * Pow2[C] /\ 2*Half = Pow2[C+2]
  BY <1>2, <1>3 DEF Half
<1>6. Half \in Nat \ {0} /\ 2*Half = 4 * Pow2[C]
  BY <1>2, <1>5
<1>7. Divides(2, 2*Half)
  BY <1>6 DEF Divides
<1>. QED BY <1>2, <1>4, <1>5, <1>6, <1>7

LEMMA WrappedFacts ==
  ASSUME NEW n \in Int
  PROVE  Wrapped(n) \in Int /\ Divides(2*Half, n - Wrapped(n))
<1>. DEFINE w == 2*Half
<1>1. Half \in Nat \ {0} /\ w \in Nat \ {0} /\ n + Half \in Int
  BY HalfFacts
<1>. DEFINE s == (n + Half) % w
<1>2. Divides(w, (n + Half) - s) /\ s \in Int
  <2>. DEFINE u == n + Half
  <2>1. u \in Int
    BY <1>1
  <2>. HIDE DEF w, u
  <2>2. u % w \in 0..w-1 /\ Divides(w, u - (u % w))
    BY <1>1, <2>1, DivModFacts, DividesMod
  <2>3. u % w \in Int
    BY <1>1, <2>2
  <2>. QED BY <2>2, <2>3 DEF u
<1>3. Wrapped(n) = s - Half
  BY DEF Wrapped
<1>. HIDE DEF s
<1>4. n - (s - Half) = (n + Half) - s
  BY <1>1, <1>2
<1>. QED BY <1>1, <1>2, <1>3, <1>4

\* Zeros is what it says: there is a greatest power, n at most, that divides.
LEMMA ZerosFacts ==
  ASSUME NEW w \in Int, NEW n \in 0..C
  PROVE  /\ Zeros(w, n) \in 0..n
         /\ Divides(Pow2[Zeros(w, n)], w)
         /\ Zeros(w, n) < n => ~Divides(2, w \div Pow2[Zeros(w, n)])
         /\ \A k \in 0..n : Divides(Pow2[k], w) => k <= Zeros(w, n)
<1>. DEFINE Q(k) == w % Pow2[k] = 0 /\ (k = n \/ w % Pow2[k+1] # 0)
            T == {j \in 0..n : w % Pow2[n-j] = 0}
            z == Zeros(w, n)
<1>0. C \in Nat /\ \A k \in 0..C+2 : Pow2[k] \in Nat \ {0}
  BY Widths, Pow2Facts
<1>1. n \in T
  <2>1. n - n = 0 /\ Pow2[0] = 1 /\ w % 1 = 0
    BY Pow2Facts
  <2>. QED BY <2>1
<1>2. PICK j \in T : \A l \in T : j <= l
  <2>1. T \subseteq Nat /\ T # {}
    BY <1>1
  <2>. HIDE DEF T
  <2>. QED BY <2>1, LeastMember
<1>3. n - j \in 0..n /\ Q(n - j)
  <2>1. j \in 0..n /\ w % Pow2[n-j] = 0
    BY <1>2
  <2>2. ASSUME n - j # n, w % Pow2[(n-j)+1] = 0 PROVE FALSE
    <3>1. j - 1 \in 0..n /\ n - (j - 1) = (n - j) + 1
      BY <2>1, <2>2
    <3>2. j - 1 \in T
      BY <2>2, <3>1
    <3>. QED BY <1>2, <2>1, <3>2
  <2>. QED BY <2>1, <2>2
<1>4. z \in 0..n /\ Q(z)
  <2>1. z = CHOOSE k \in 0..n : Q(k)
    BY DEF Zeros
  <2>. HIDE DEF z, Q
  <2>. QED BY <1>3, <2>1
<1>. HIDE DEF z, T
<1>5. Divides(Pow2[z], w) /\ w = Pow2[z] * (w \div Pow2[z])
  <2>1. z \in 0..C+2
    BY <1>0, <1>4
  <2>. QED BY <1>0, <1>4, <2>1, DividesMod
<1>7. ASSUME z < n PROVE ~Divides(Pow2[z+1], w)
  <2>1. z + 1 \in 0..C+2 /\ w % Pow2[z+1] # 0
    BY <1>0, <1>4, <1>7
  <2>. QED BY <1>0, <2>1, DividesMod
<1>8. ASSUME NEW k \in 0..n, Divides(Pow2[k], w) PROVE k <= z
  <2>1. SUFFICES ASSUME z < k PROVE FALSE
    BY <1>4
  <2>2. z < n /\ z + 1 \in Nat /\ k \in Nat /\ z + 1 <= k /\ k <= C + 2
    BY <1>0, <1>4, <2>1
  <2>3. Divides(Pow2[z+1], Pow2[k]) /\ Pow2[z+1] \in Int /\ Pow2[k] \in Int
    BY <2>2, Pow2Divides
  <2>4. Divides(Pow2[z+1], w)
    BY <1>8, <2>3, DividesThrough
  <2>. QED BY <1>7, <2>2, <2>4
<1>9. ASSUME z < n, Divides(2, w \div Pow2[z]) PROVE FALSE
  <2>. DEFINE g == w \div Pow2[z]
  <2>1. z \in 0..C+1 /\ z \in 0..C+2
    BY <1>0, <1>4
  <2>2. Pow2[z+1] = 2 * Pow2[z] /\ Pow2[z] \in Nat \ {0} /\ w = Pow2[z] * g
    BY <1>5, <2>1, Pow2Facts
  <2>3. PICK i \in Int : g = 2 * i
    BY <1>9 DEF Divides
  <2>. HIDE DEF g
  <2>4. w = Pow2[z+1] * i
    BY <2>2, <2>3
  <2>. QED BY <1>7, <1>9, <2>4 DEF Divides
<1>. QED BY <1>4, <1>5, <1>8, <1>9 DEF z

-------------------------------------------------------------------------------
(* The modulus is odd                                                      *)

LEMMA RemainderIs ==
  ASSUME NEW n \in Nat \ {0}, NEW k \in Int, NEW s \in 0..n-1, Divides(n, k - s)
  PROVE  k % n = s
<1>. DEFINE t == k % n
<1>1. t \in 0..n-1 /\ Divides(n, k - t)
  BY DivModFacts, DividesMod
<1>. HIDE DEF t
<1>2. Divides(n, (k - t) - (k - s)) /\ (k - t) - (k - s) = s - t
  BY <1>1, DividesSum
<1>3. PICK j \in Int : s - t = n * j
  BY <1>2 DEF Divides
<1>4. j = 0
  BY <1>1, <1>3, NoMultiple
<1>. QED BY <1>1, <1>3, <1>4 DEF t

LEMMA OddModulus == ~Divides(2, P)
<1>1. R % 2 = 0 /\ K % 2 = 1 /\ R \in Int /\ K \in Int
  BY ModulusAssumption
<1>2. Divides(2, R) /\ ~Divides(2, K)
  BY <1>1, DividesMod
<1>3. ASSUME Divides(2, P) PROVE FALSE
  <2>1. P \in Int /\ R - P = K
    BY <1>1 DEF P
  <2>2. Divides(2, R - P)
    <3>1. PICK i \in Int, j \in Int : R = 2 * i /\ P = 2 * j
      BY <1>2, <1>3 DEF Divides
    <3>2. R - P = 2 * (i - j)
      BY <3>1
    <3>. QED BY <3>1, <3>2 DEF Divides
  <2>. QED BY <1>2, <2>1, <2>2
<1>. QED BY <1>3

LEMMA InverseFacts == NegInverseP \in Nat /\ Divides(Pow2[C], (P * NegInverseP) + 1)
<1>. DEFINE T == {k \in 0..C : \E q \in Nat : q < Pow2[k] /\ Divides(Pow2[k], (P * q) + 1)}
<1>0. C \in Nat /\ P \in Nat /\ \A k \in 0..C : Pow2[k] \in Nat \ {0} /\ k \in 0..C+1 /\ k \in 0..C+2
  BY Widths, Pow2Facts
<1>1. 0 \in T
  <2>1. Pow2[0] = 1 /\ 0 < 1 /\ (P * 0) + 1 = 1 /\ Divides(1, 1)
    BY <1>0, Pow2Facts, DividesItself
  <2>. QED BY <1>0, <2>1
<1>2. ASSUME NEW k \in 0..C-1, k \in T PROVE k + 1 \in T
  <2>. DEFINE t == Pow2[k]
  <2>1. t \in Nat \ {0} /\ Pow2[k+1] = 2 * t
    BY <1>0, Pow2Facts
  <2>2. PICK q \in Nat : q < t /\ Divides(t, (P * q) + 1)
    BY <1>2
  <2>3. PICK j \in Int : (P * q) + 1 = t * j
    BY <2>2 DEF Divides
  <2>. HIDE DEF t
  <2>6. k + 1 \in 0..C
    BY <1>0
  <2>4. CASE Divides(2, j)
    <3>1. PICK i \in Int : j = 2 * i
      BY <2>4 DEF Divides
    <3>2. (P * q) + 1 = (2 * t) * i
      BY <2>1, <2>3, <3>1
    <3>3. q < 2 * t /\ Divides(2 * t, (P * q) + 1)
      BY <2>1, <2>2, <3>2 DEF Divides
    <3>. QED BY <2>1, <2>6, <3>3
  <2>5. CASE ~Divides(2, j)
    <3>1. Divides(2, j + P)
      <4>1. Divides(2, j + 1) /\ Divides(2, P - 1)
        BY <1>0, <2>5, OddEven, OddModulus
      <4>2. Divides(2, (j + 1) + (P - 1)) /\ (j + 1) + (P - 1) = j + P
        BY <1>0, <4>1, DividesSum
      <4>. QED BY <4>2
    <3>2. PICK i \in Int : j + P = 2 * i
      BY <3>1 DEF Divides
    <3>3. (P * (q + t)) + 1 = t * (j + P)
      BY <1>0, <2>1, <2>3
    <3>4. (P * (q + t)) + 1 = (2 * t) * i
      BY <2>1, <3>2, <3>3
    <3>5. q + t \in Nat /\ q + t < 2 * t /\ Divides(2 * t, (P * (q + t)) + 1)
      BY <2>1, <2>2, <3>4 DEF Divides
    <3>. QED BY <2>1, <2>6, <3>5
  <2>. QED BY <2>4, <2>5
<1>3. C \in T
  <2>. HIDE DEF T
  <2>1. \A k \in 0..C : k \in T
    BY <1>0, <1>1, <1>2, UpTo
  <2>. QED BY <1>0, <2>1
<1>4. PICK q \in Nat : q < Pow2[C] /\ Divides(Pow2[C], (P * q) + 1)
  BY <1>3
<1>. DEFINE t == Pow2[C]
<1>5. t \in Nat \ {0} /\ q \in 0..t-1
  BY <1>0, <1>4
<1>6. (P * q) % t = t - 1
  <2>. DEFINE y == P * q
  <2>1. y \in Int /\ Divides(t, y + 1)
    BY <1>0, <1>4
  <2>2. Divides(t, t)
    BY <1>5, DividesItself
  <2>. HIDE DEF y, t
  <2>3. Divides(t, (y + 1) - t) /\ (y + 1) - t = y - (t - 1)
    BY <1>5, <2>1, <2>2, DividesSum
  <2>4. y % t = t - 1
    <3>1. t - 1 \in 0..t-1
      BY <1>5
    <3>. QED BY <1>5, <2>1, <2>3, <3>1, RemainderIs
  <2>. QED BY <2>4 DEF y
<1>7. NegInverseP \in 0..t-1 /\ (P * NegInverseP) % t = t - 1
  BY <1>5, <1>6 DEF NegInverseP
<1>8. Divides(t, (P * NegInverseP) + 1)
  <2>. DEFINE y == P * NegInverseP
  <2>1. y \in Int /\ y % t = t - 1
    BY <1>0, <1>5, <1>7
  <2>. HIDE DEF y, t
  <2>2. Divides(t, y - (t - 1))
    BY <1>5, <2>1, DividesMod
  <2>3. Divides(t, (y - (t - 1)) + t) /\ (y - (t - 1)) + t = y + 1
    BY <1>5, <2>1, <2>2, DividesItself, DividesSum
  <2>. QED BY <2>3 DEF y
<1>. QED BY <1>5, <1>7, <1>8

\* What Lifted adds is a multiple of P, and makes its argument divisible.
LEMMA LiftedFacts ==
  ASSUME NEW n \in Int
  PROVE  /\ Lifted(n) \in Int /\ Divides(P, Lifted(n) - n) /\ Divides(Pow2[C], Lifted(n))
         /\ n = 0 => Lifted(n) = 0
<1>. DEFINE t == Pow2[C]
            i == NegInverseP
            q == (n * i) % t
<1>1. t \in Nat \ {0} /\ i \in Int /\ n * i \in Int /\ P \in Int /\ Divides(t, (P * i) + 1)
  BY HalfFacts, InverseFacts, Widths
<1>2. q \in 0..t-1 /\ Divides(t, (n * i) - q)
  <2>. DEFINE y == n * i
  <2>1. y \in Int
    BY <1>1
  <2>. HIDE DEF y, t
  <2>2. y % t \in 0..t-1 /\ Divides(t, y - (y % t))
    BY <1>1, <2>1, DivModFacts, DividesMod
  <2>. QED BY <2>2 DEF y
<1>3. Lifted(n) = n + (P * q)
  BY DEF Lifted
<1>4. n = 0 => q = 0
  <2>1. 0 % t = 0 /\ 0 * i = 0
    BY <1>1
  <2>. QED BY <2>1
<1>. HIDE DEF t, i, q
<1>5. q \in Int /\ P * q \in Int /\ (n + (P * q)) - n = P * q
  BY <1>1, <1>2
<1>6. Divides(t, n + (P * q))
  <2>. DEFINE f == (P * i) + 1
              g == (n * i) - q
  <2>1. f \in Int /\ g \in Int /\ Divides(t, f) /\ Divides(t, g) /\ t \in Int
    BY <1>1, <1>2, <1>5
  <2>2. (n * f) - (P * g) = n + (P * q)
    BY <1>1, <1>5
  <2>. HIDE DEF f, g
  <2>3. n * f \in Int /\ P * g \in Int /\ Divides(t, n * f) /\ Divides(t, P * g)
    BY <1>1, <2>1, DividesMultiple
  <2>4. Divides(t, (n * f) - (P * g))
    BY <2>1, <2>3, DividesSum
  <2>. QED BY <2>2, <2>4
<1>7. Divides(P, P * q)
  BY <1>1, <1>5, DividesItself
<1>8. n = 0 => n + (P * q) = 0
  BY <1>1, <1>4
<1>. QED BY <1>3, <1>5, <1>6, <1>7, <1>8 DEF t

\* A power of two has no divisor in common with P.
LEMMA PowerCancels ==
  ASSUME NEW y \in Int, Divides(P, Pow2[C] * y)
  PROVE  Divides(P, y)
<1>. DEFINE t == Pow2[C]
            i == NegInverseP
<1>1. t \in Int /\ i \in Int /\ P \in Int
  BY HalfFacts, InverseFacts, Widths
<1>2. PICK j \in Int, k \in Int : (P * i) + 1 = t * j /\ t * y = P * k
  BY InverseFacts DEF Divides
<1>. HIDE DEF t, i
<1>3. ((P * i) + 1) * y = j * (t * y)
  BY <1>1, <1>2
<1>4. y = P * ((j * k) - (i * y))
  <2>1. ((P * i) + 1) * y = (P * (i * y)) + y
    BY <1>1
  <2>2. j * (t * y) = P * (j * k)
    BY <1>1, <1>2
  <2>3. P * ((j * k) - (i * y)) = (P * (j * k)) - (P * (i * y))
    BY <1>1
  <2>. DEFINE f == P * (j * k)
              g == P * (i * y)
  <2>4. f \in Int /\ g \in Int /\ g + y = f /\ P * ((j * k) - (i * y)) = f - g
    BY <1>1, <1>3, <2>1, <2>2, <2>3
  <2>. HIDE DEF f, g
  <2>. QED BY <2>4
<1>5. (j * k) - (i * y) \in Int
  BY <1>1
<1>. QED BY <1>4, <1>5 DEF Divides

-------------------------------------------------------------------------------
(* The inductive invariant                                                 *)

Steps   == {"idle", "chunk", "divide", "update", "finish", "inverted"}
Chunked == {"chunk", "divide", "update", "finish"}

InversionTyped ==
  /\ a \in Number /\ x \in Number
  /\ step \in Steps /\ device \in BOOLEAN
  /\ modp \in Int /\ val \in Int /\ result \in Int /\ co \in Int
  /\ p \in Int /\ v \in Int /\ kbnt \in Int
  /\ m \in [0..3 -> Int]
  /\ cnt \in 0..C

\* Before the first chunk.
Fresh ==
  step = "idle" =>
    modp = P /\ val = 0 /\ result = 0 /\ co = 1 /\ kbnt = -1

\* What never changes about the whole numbers and their coefficients.
Whole ==
  step \in Chunked =>
    /\ Divides(P, modp - (result * x)) /\ Divides(P, val - (co * x))
    /\ modp \in -(R-1) .. R-1 /\ val \in -(R-1) .. R-1
    /\ ~Divides(2, modp)
    /\ \A d \in Int : Divides(d, modp) /\ Divides(d, val) => Divides(d, P) /\ Divides(d, x)
    /\ x = 0 => result = 0 /\ val = 0

\* The first row of the matrix gives the word p, the second the word v, C - cnt bits up, as far as
\* a word tells; its determinant is what was taken off so far, and its rows are no longer than that.
Related(pw, vw, mat, t) ==
  /\ Divides(2*Half, (modp * mat[0]) + (val * mat[1]) - (pw * t))
  /\ Divides(2*Half, (modp * mat[2]) + (val * mat[3]) - (vw * t))
  /\ (mat[0] * mat[3]) - (mat[1] * mat[2]) = t

Short(y, z, t) ==
  y + z <= t /\ y - z <= t /\ z - y <= t /\ -y - z <= t

InChunk ==
  step \in {"divide", "update"} =>
    /\ Related(p, v, m, Pow2[C - cnt])
    /\ Short(m[0], m[1], Pow2[C - cnt]) /\ Short(m[2], m[3], Pow2[C - cnt])
    /\ ~Divides(2, p)
    /\ step = "divide" => cnt > 0 /\ ~Divides(2, v) /\ x # 0
    /\ step = "update" => cnt = 0 /\ (x = 0 => m[1] = 0 /\ m[2] = 0)

\* What the last chunk leaves.
Finished == step = "finish" => val = 0

Inverse ==
  step = "inverted" /\ device => InverseExact

IInv == InversionTyped /\ Fresh /\ Whole /\ InChunk /\ Finished /\ Inverse

-------------------------------------------------------------------------------
(* The matrix                                                              *)

LEMMA ShortScaled ==
  ASSUME NEW y \in Int, NEW z \in Int, NEW t \in Int, NEW s \in Nat, Short(y, z, t)
  PROVE  Short(y * s, z * s, t * s)
<1>1. \A u \in Int : u <= t => u * s <= t * s
  OBVIOUS
<1>2. /\ (y + z) * s <= t * s /\ (y - z) * s <= t * s
      /\ (z - y) * s <= t * s /\ (-y - z) * s <= t * s
  BY <1>1 DEF Short
<1>3. /\ (y + z) * s = (y * s) + (z * s) /\ (y - z) * s = (y * s) - (z * s)
      /\ (z - y) * s = (z * s) - (y * s) /\ (-y - z) * s = -(y * s) - (z * s)
  OBVIOUS
<1>. QED BY <1>2, <1>3 DEF Short

\* The zeros leave the word and go to the first row.
LEMMA ShiftKeeps ==
  ASSUME modp \in Int, val \in Int,
         NEW pw \in Int, NEW w \in Int, NEW bits \in 0..C, NEW mat \in [0..3 -> Int], NEW k \in 0..bits,
         Related(pw, w, mat, Pow2[C - bits]),
         Short(mat[0], mat[1], Pow2[C - bits]),
         Short(mat[2], mat[3], Pow2[C - bits] * Pow2[k]),
         Divides(Pow2[k], w),
         NEW z, z = Zeros(w, bits),
         NEW new, new = [i \in 0..3 |-> IF i < 2 THEN mat[i] * Pow2[z] ELSE mat[i]]
  PROVE  /\ z \in 0..bits /\ k <= z /\ w \div Pow2[z] \in Int
         /\ new \in [0..3 -> Int]
         /\ Related(pw, w \div Pow2[z], new, Pow2[C - (bits - z)])
         /\ Short(new[0], new[1], Pow2[C - (bits - z)])
         /\ Short(new[2], new[3], Pow2[C - (bits - z)])
         /\ z < bits => ~Divides(2, w \div Pow2[z])
<1>. DEFINE t == Pow2[C - bits]
            s == Pow2[z]
            g == w \div s
            l == 2 * Half
            q == Pow2[k]
<1>1. z \in 0..bits /\ k <= z /\ Divides(s, w) /\ (z < bits => ~Divides(2, g))
  BY ZerosFacts
<1>2. C - (bits - z) = (C - bits) + z /\ C - bits \in Nat /\ z \in Nat /\ k \in Nat
  BY <1>1, Widths
<1>3. Pow2[C - (bits - z)] = t * s /\ t \in Nat \ {0} /\ s \in Nat \ {0} /\ q \in Nat \ {0} /\ q <= s
  <2>1. (C - bits) + z <= C + 2 /\ C - bits \in 0..C+2 /\ z <= C + 2
    BY <1>1, <1>2, Widths
  <2>2. Pow2[(C - bits) + z] = Pow2[C - bits] * Pow2[z]
    BY <1>2, <2>1, Pow2Sum
  <2>3. Pow2[k] <= Pow2[z] /\ Pow2[k] \in Nat \ {0} /\ Pow2[z] \in Nat \ {0}
    BY <1>1, <1>2, <2>1, Pow2Divides
  <2>4. Pow2[C - bits] \in Nat \ {0}
    BY <2>1, Pow2Facts
  <2>. QED BY <1>2, <2>2, <2>3, <2>4
<1>4. w = s * g /\ g \in Int
  BY <1>1, <1>3, DivModFacts, DividesMod
<1>5. l \in Int
  BY HalfFacts
<1>6. mat[0] \in Int /\ mat[1] \in Int /\ mat[2] \in Int /\ mat[3] \in Int
  OBVIOUS
<1>7. new \in [0..3 -> Int] /\ new[0] = mat[0] * s /\ new[1] = mat[1] * s /\ new[2] = mat[2] /\ new[3] = mat[3]
  BY <1>3, <1>6
<1>8. /\ Divides(l, (modp * mat[0]) + (val * mat[1]) - (pw * t))
      /\ Divides(l, (modp * mat[2]) + (val * mat[3]) - (w * t))
      /\ (mat[0] * mat[3]) - (mat[1] * mat[2]) = t
  BY DEF Related
<1>. HIDE DEF t, s, g, l, q
<1>9. Related(pw, g, new, t * s)
  <2>1. Divides(l, (modp * new[0]) + (val * new[1]) - (pw * (t * s)))
    <3>. DEFINE y == (modp * mat[0]) + (val * mat[1]) - (pw * t)
    <3>1. y \in Int /\ (modp * new[0]) + (val * new[1]) - (pw * (t * s)) = y * s
      BY <1>3, <1>6, <1>7
    <3>2. Divides(l, y)
      BY <1>8
    <3>. HIDE DEF y
    <3>3. Divides(l, y * s)
      <4>1. s \in Int
        BY <1>3
      <4>. QED BY <1>5, <3>1, <3>2, <4>1, DividesMultiple
    <3>. QED BY <3>1, <3>3
  <2>2. Divides(l, (modp * new[2]) + (val * new[3]) - (g * (t * s)))
    <3>1. g * (t * s) = w * t
      BY <1>3, <1>4
    <3>. QED BY <1>7, <1>8, <3>1
  <2>3. (new[0] * new[3]) - (new[1] * new[2]) = t * s
    <3>1. ((mat[0] * s) * mat[3]) - ((mat[1] * s) * mat[2]) = ((mat[0] * mat[3]) - (mat[1] * mat[2])) * s
      BY <1>3, <1>6
    <3>. QED BY <1>7, <1>8, <3>1
  <2>. QED BY <2>1, <2>2, <2>3 DEF Related, l
<1>10. Short(new[0], new[1], t * s)
  <2>1. Short(mat[0], mat[1], t)
    BY DEF t
  <2>2. Short(mat[0] * s, mat[1] * s, t * s)
    BY <1>3, <1>6, <2>1, ShortScaled
  <2>. QED BY <1>7, <2>2
<1>11. Short(new[2], new[3], t * s)
  <2>1. Short(mat[2], mat[3], t * q)
    BY DEF t, q
  <2>2. t * q <= t * s /\ t * q \in Int /\ t * s \in Int
    BY <1>3
  <2>. QED BY <1>6, <1>7, <2>1, <2>2 DEF Short
<1>. QED BY <1>1, <1>3, <1>4, <1>7, <1>9, <1>10, <1>11 DEF g, s

\* The words and the rows change places.
LEMMA SwapKeeps ==
  ASSUME modp \in Int, val \in Int, p \in Int, v \in Int, m \in [0..3 -> Int],
         NEW t \in Int, Related(p, v, m, t),
         Short(m[0], m[1], t), Short(m[2], m[3], t), ~Divides(2, p)
  PROVE  /\ Wrapped(-p) \in Int /\ Swapped \in [0..3 -> Int]
         /\ Related(v, Wrapped(-p), Swapped, t)
         /\ Short(Swapped[0], Swapped[1], t) /\ Short(Swapped[2], Swapped[3], t)
<1>. DEFINE w == Wrapped(-p)
            l == 2 * Half
<1>1. -p \in Int /\ w \in Int /\ Divides(l, (-p) - w) /\ l \in Int
  BY WrappedFacts, HalfFacts
<1>2. m[0] \in Int /\ m[1] \in Int /\ m[2] \in Int /\ m[3] \in Int
  OBVIOUS
<1>3. /\ Swapped \in [0..3 -> Int] /\ Swapped[0] = m[2] /\ Swapped[1] = m[3]
      /\ Swapped[2] = -m[0] /\ Swapped[3] = -m[1]
  BY <1>2 DEF Swapped
<1>4. /\ Divides(l, (modp * m[0]) + (val * m[1]) - (p * t))
      /\ Divides(l, (modp * m[2]) + (val * m[3]) - (v * t))
      /\ (m[0] * m[3]) - (m[1] * m[2]) = t
  BY DEF Related
<1>. HIDE DEF w, l
<1>5. Divides(l, (modp * (-m[0])) + (val * (-m[1])) - (w * t))
  <2>. DEFINE y == (modp * m[0]) + (val * m[1]) - (p * t)
              u == (-p) - w
  <2>1. y \in Int /\ u \in Int /\ Divides(l, y) /\ Divides(l, u)
    BY <1>1, <1>2, <1>4
  <2>2. (modp * (-m[0])) + (val * (-m[1])) - (w * t) = (u * t) - y
    BY <1>1, <1>2
  <2>. HIDE DEF y, u
  <2>3. u * t \in Int /\ Divides(l, u * t)
    BY <1>1, <2>1, DividesMultiple
  <2>4. Divides(l, (u * t) - y)
    BY <1>1, <2>1, <2>3, DividesSum
  <2>. QED BY <2>2, <2>4
<1>6. (m[2] * (-m[1])) - (m[3] * (-m[0])) = t
  BY <1>2, <1>4
<1>7. Short(-m[0], -m[1], t)
  BY <1>2 DEF Short
<1>8. Related(v, w, Swapped, t)
  BY <1>3, <1>4, <1>5, <1>6 DEF Related, l
<1>. QED BY <1>1, <1>3, <1>7, <1>8 DEF w

LEMMA RowsAdded ==
  ASSUME modp \in Int, val \in Int,
         NEW pw \in Int, NEW vw \in Int, NEW w \in Int, NEW mul \in Int, NEW t \in Int,
         NEW mat \in [0..3 -> Int], Related(pw, vw, mat, t),
         Divides(2*Half, (vw + (pw * mul)) - w),
         NEW new, new = [i \in 0..3 |-> IF i < 2 THEN mat[i] ELSE mat[i] + (mat[i-2] * mul)]
  PROVE  /\ new \in [0..3 -> Int]
         /\ new[0] = mat[0] /\ new[1] = mat[1]
         /\ new[2] = mat[2] + (mat[0] * mul) /\ new[3] = mat[3] + (mat[1] * mul)
         /\ Related(pw, w, new, t)
<1>. DEFINE l == 2 * Half
            f == (modp * mat[0]) + (val * mat[1]) - (pw * t)
            g == (modp * mat[2]) + (val * mat[3]) - (vw * t)
            u == (vw + (pw * mul)) - w
<1>1. mat[0] \in Int /\ mat[1] \in Int /\ mat[2] \in Int /\ mat[3] \in Int /\ l \in Int
  BY HalfFacts
<1>2. Divides(l, f) /\ Divides(l, g) /\ Divides(l, u) /\ (mat[0] * mat[3]) - (mat[1] * mat[2]) = t
  BY DEF Related
<1>3. f \in Int /\ g \in Int /\ u \in Int
  BY <1>1
<1>4. /\ new \in [0..3 -> Int] /\ new[0] = mat[0] /\ new[1] = mat[1]
      /\ new[2] = mat[2] + (mat[0] * mul) /\ new[3] = mat[3] + (mat[1] * mul)
  BY <1>1
<1>5. (modp * (mat[2] + (mat[0] * mul))) + (val * (mat[3] + (mat[1] * mul))) - (w * t)
      = (g + (f * mul)) + (u * t)
  BY <1>1
<1>6. (mat[0] * (mat[3] + (mat[1] * mul))) - (mat[1] * (mat[2] + (mat[0] * mul))) = t
  <2>1. (mat[0] * (mat[3] + (mat[1] * mul))) - (mat[1] * (mat[2] + (mat[0] * mul)))
        = (mat[0] * mat[3]) - (mat[1] * mat[2])
    BY <1>1
  <2>. QED BY <1>2, <2>1
<1>. HIDE DEF l, f, g, u
<1>7. f * mul \in Int /\ u * t \in Int /\ Divides(l, f * mul) /\ Divides(l, u * t)
  <2>1. Divides(l, f * mul)
    BY <1>1, <1>2, <1>3, DividesMultiple
  <2>2. Divides(l, u * t)
    BY <1>1, <1>2, <1>3, DividesMultiple
  <2>3. f * mul \in Int
    BY <1>3
  <2>4. u * t \in Int
    BY <1>3
  <2>. QED BY <2>1, <2>2, <2>3, <2>4
<1>8. Divides(l, g + (f * mul)) /\ g + (f * mul) \in Int
  BY <1>1, <1>2, <1>3, <1>7, DividesSum
<1>9. Divides(l, (g + (f * mul)) + (u * t))
  BY <1>1, <1>7, <1>8, DividesSum
<1>10. Related(pw, w, new, t)
  BY <1>2, <1>4, <1>5, <1>6, <1>9 DEF Related, l, f
<1>. QED BY <1>4, <1>10

\* A row that gets less than q times another, neither longer than t, is no longer than q*t.
LEMMA ShortSum ==
  ASSUME NEW y \in Int, NEW z \in Int, NEW u \in Int, NEW w \in Int, NEW t \in Nat, NEW q \in Nat,
         NEW k \in 0..q-1, Short(y, z, t), Short(u, w, t)
  PROVE  Short(u + (y * k), w + (z * k), t * q)
<1>1. Short(y * k, z * k, t * k)
  <2>1. k \in Nat /\ t \in Int
    OBVIOUS
  <2>. QED BY <2>1, ShortScaled
<1>2. t + (t * k) <= t * q
  <2>1. t * (1 + k) <= t * q
    <3>1. 1 + k <= q /\ k \in Nat
      OBVIOUS
    <3>2. \A i, j \in Nat : i <= j => t * i <= t * j
      OBVIOUS
    <3>3. 1 + k \in Nat
      BY <3>1
    <3>. QED BY <3>1, <3>2, <3>3
  <2>2. t * (1 + k) = t + (t * k)
    OBVIOUS
  <2>. QED BY <2>1, <2>2
<1>. DEFINE yk == y * k
            zk == z * k
            tk == t * k
            tq == t * q
<1>3. yk \in Int /\ zk \in Int /\ tk \in Int /\ tq \in Int /\ t + tk <= tq /\ Short(yk, zk, tk)
  BY <1>1, <1>2
<1>. HIDE DEF yk, zk, tk, tq
<1>4. Short(u + yk, w + zk, tq)
  BY <1>3 DEF Short
<1>. QED BY <1>4 DEF yk, zk, tq

\* The multiple of an odd word that clears the low bits of another, three at most: a square of an odd
\* number is 1 modulo 8.
LEMMA FactorClears ==
  ASSUME NEW pw \in Int, NEW vw \in Int, NEW bits \in Nat \ {0}, ~Divides(2, pw),
         NEW k, k = IF bits < 3 THEN bits ELSE 3
  PROVE  /\ Pow2[k] \in Nat \ {0} /\ Factor(pw, vw, bits) \in 0..Pow2[k]-1
         /\ Divides(Pow2[k], vw + (pw * Factor(pw, vw, bits)))
<1>. DEFINE q == Pow2[k]
            n == -pw * vw
            s == n % 8
            mul == Factor(pw, vw, bits)
<1>1. k \in 1..3 /\ q \in {2, 4, 8}
  <2>1. k \in {1, 2, 3}
    OBVIOUS
  <2>. QED BY <2>1, SmallPowers
<1>2. Divides(q, 8)
  <2>1. \E j \in Int : 8 = q * j
    <3>1. CASE q = 2
      <4>1. 8 = q * 4
        BY <3>1
      <4>. QED BY <4>1
    <3>2. CASE q = 4
      <4>1. 8 = q * 2
        BY <3>2
      <4>. QED BY <4>1
    <3>3. CASE q = 8
      <4>1. 8 = q * 1
        BY <3>3
      <4>. QED BY <4>1
    <3>. HIDE DEF q
    <3>. QED BY <1>1, <3>1, <3>2, <3>3
  <2>. QED BY <2>1 DEF Divides
<1>3. n \in Int /\ n = -(pw * vw)
  OBVIOUS
<1>. HIDE DEF n
<1>4. s \in Int /\ Divides(8, n - s)
  <2>1. 8 \in Nat \ {0}
    OBVIOUS
  <2>2. n % 8 \in 0..7
    BY <1>3
  <2>3. Divides(8, n - (n % 8))
    BY <1>3, <2>1, DividesMod
  <2>. QED BY <2>2, <2>3
<1>5. mul = s % q
  BY DEF Factor, n
<1>. HIDE DEF s, mul, q
<1>6. mul \in 0..q-1 /\ Divides(q, s - mul)
  <2>1. q \in Nat \ {0}
    BY <1>1
  <2>2. s % q \in 0..q-1 /\ Divides(q, s - (s % q))
    BY <1>4, <2>1, DivModFacts, DividesMod
  <2>. QED BY <1>5, <2>2
<1>7. PICK i \in Int : pw = (2 * i) + 1
  <2>1. Divides(2, pw - 1)
    BY OddEven
  <2>2. PICK j \in Int : pw - 1 = 2 * j
    BY <2>1 DEF Divides
  <2>. QED BY <2>2
<1>8. PICK h \in Int : i * (i + 1) = 2 * h
  <2>1. CASE Divides(2, i)
    <3>1. PICK j \in Int : i = 2 * j
      BY <2>1 DEF Divides
    <3>2. i * (i + 1) = 2 * (j * (i + 1)) /\ j * (i + 1) \in Int
      BY <1>7, <3>1
    <3>. QED BY <3>2
  <2>2. CASE ~Divides(2, i)
    <3>1. Divides(2, i + 1)
      BY <1>7, <2>2, OddEven
    <3>2. PICK j \in Int : i + 1 = 2 * j
      BY <3>1 DEF Divides
    <3>3. i * (i + 1) = 2 * (i * j) /\ i * j \in Int
      BY <1>7, <3>2
    <3>. QED BY <3>3
  <2>. QED BY <2>1, <2>2
<1>9. (pw * pw) - 1 = 8 * h
  <2>1. (pw * pw) - 1 = 4 * (i * (i + 1))
    BY <1>7
  <2>. QED BY <1>8, <2>1
<1>10. Divides(8, vw + (pw * n))
  <2>1. vw + (pw * n) = -(((pw * pw) - 1) * vw)
    BY <1>3
  <2>2. -((8 * h) * vw) = 8 * (-(h * vw)) /\ -(h * vw) \in Int
    BY <1>8
  <2>. QED BY <1>9, <2>1, <2>2 DEF Divides
<1>11. Divides(q, vw + (pw * mul))
  <2>. DEFINE f == vw + (pw * n)
              g == n - s
              u == s - mul
  <2>1. f \in Int /\ g \in Int /\ u \in Int /\ q \in Int /\ mul \in Int
    BY <1>1, <1>3, <1>4, <1>6
  <2>2. Divides(q, f) /\ Divides(q, g) /\ Divides(q, u)
    BY <1>2, <1>4, <1>6, <1>10, <2>1, DividesThrough
  <2>3. vw + (pw * mul) = f - (pw * (g + u))
    <3>1. g + u = n - mul
      BY <1>3, <1>4, <2>1
    <3>2. vw + (pw * mul) = (vw + (pw * n)) - (pw * (n - mul))
      BY <1>3, <2>1
    <3>. QED BY <3>1, <3>2
  <2>. HIDE DEF f, g, u
  <2>4. g + u \in Int /\ Divides(q, g + u)
    BY <2>1, <2>2, DividesSum
  <2>5. pw * (g + u) \in Int /\ Divides(q, pw * (g + u))
    BY <2>1, <2>4, DividesMultiple
  <2>6. Divides(q, f - (pw * (g + u)))
    BY <2>1, <2>2, <2>5, DividesSum
  <2>. QED BY <2>3, <2>6
<1>. QED BY <1>1, <1>6, <1>11 DEF q, mul


\* What a chunk does to its words, as an equation on the matrix, holds of what the shift leaves.
LEMMA ShiftedKeeps ==
  ASSUME InversionTyped,
         NEW pw \in Int, NEW w \in Int, NEW bits \in 1..C, NEW balance \in Int,
         NEW mat \in [0..3 -> Int], NEW k \in 0..bits,
         Related(pw, w, mat, Pow2[C - bits]),
         Short(mat[0], mat[1], Pow2[C - bits]),
         Short(mat[2], mat[3], Pow2[C - bits] * Pow2[k]),
         Divides(Pow2[k], w), ~Divides(2, pw),
         x = 0 => w = 0 /\ bits = C /\ mat[1] = 0 /\ mat[2] = 0,
         p' = pw, Shifted(w, mat, balance, bits), UNCHANGED <<modp, val, x>>
  PROVE  /\ InChunk' /\ step' \in {"divide", "update"}
         /\ p' \in Int /\ v' \in Int /\ m' \in [0..3 -> Int] /\ kbnt' \in Int /\ cnt' \in 0..C
<1>. DEFINE z == Zeros(w, bits)
            new == [i \in 0..3 |-> IF i < 2 THEN mat[i] * Pow2[z] ELSE mat[i]]
<1>0. C \in Nat /\ modp \in Int /\ val \in Int /\ bits \in 0..C
  BY Widths DEF InversionTyped
<1>1. /\ v' = w \div Pow2[z] /\ m' = new /\ kbnt' = balance - z /\ cnt' = bits - z
      /\ step' = IF bits - z > 0 THEN "divide" ELSE "update"
  BY DEF Shifted
<1>3. x = 0 => bits <= z
  <2>1. SUFFICES ASSUME x = 0 PROVE bits <= z
    OBVIOUS
  <2>2. bits \in 0..C+2
    BY <1>0
  <2>3. Pow2[bits] \in Int
    BY <2>2, Pow2Facts
  <2>4. Divides(Pow2[bits], w) /\ bits \in 0..bits
    BY <1>0, <2>1, <2>3, DividesItself
  <2>. QED BY <1>0, <2>4, ZerosFacts
<1>4. new[1] = mat[1] * Pow2[z] /\ new[2] = mat[2]
  OBVIOUS
<1>. HIDE DEF z
<1>2. /\ z \in 0..bits /\ k <= z /\ w \div Pow2[z] \in Int
      /\ new \in [0..3 -> Int]
      /\ Related(pw, w \div Pow2[z], new, Pow2[C - (bits - z)])
      /\ Short(new[0], new[1], Pow2[C - (bits - z)])
      /\ Short(new[2], new[3], Pow2[C - (bits - z)])
      /\ z < bits => ~Divides(2, w \div Pow2[z])
  <2>1. z = Zeros(w, bits)
    BY DEF z
  <2>2. \A u : u = new => /\ z \in 0..bits /\ k <= z /\ w \div Pow2[z] \in Int
                          /\ u \in [0..3 -> Int]
                          /\ Related(pw, w \div Pow2[z], u, Pow2[C - (bits - z)])
                          /\ Short(u[0], u[1], Pow2[C - (bits - z)])
                          /\ Short(u[2], u[3], Pow2[C - (bits - z)])
                          /\ z < bits => ~Divides(2, w \div Pow2[z])
    BY <1>0, <2>1, ShiftKeeps
  <2>. QED BY <2>2
<1>. HIDE DEF new
<1>5. z \in Int /\ bits - z \in 0..C /\ balance - z \in Int /\ (bits - z > 0 <=> z < bits) /\ Pow2[z] \in Int
  <2>1. z \in 0..C+2
    BY <1>0, <1>2
  <2>. QED BY <1>0, <1>2, <2>1, Pow2Facts
<1>6. x = 0 => ~(z < bits) /\ new[1] = 0 /\ new[2] = 0
  BY <1>2, <1>3, <1>4, <1>5
<1>7. step' = IF z < bits THEN "divide" ELSE "update"
  BY <1>1, <1>5
<1>8. Related(p, v, m, Pow2[C - cnt])'
  BY <1>1, <1>2 DEF Related
<1>9. Short(m[0], m[1], Pow2[C - cnt])' /\ Short(m[2], m[3], Pow2[C - cnt])'
  BY <1>1, <1>2 DEF Short
<1>10. step' = "divide" => cnt' > 0 /\ ~Divides(2, v') /\ x' # 0
  BY <1>1, <1>2, <1>5, <1>6, <1>7
<1>11. step' = "update" => cnt' = 0 /\ (x' = 0 => m'[1] = 0 /\ m'[2] = 0)
  BY <1>1, <1>2, <1>5, <1>6, <1>7
<1>12. InChunk'
  BY <1>8, <1>9, <1>10, <1>11 DEF InChunk
<1>. QED BY <1>1, <1>2, <1>5, <1>7, <1>12

\* A multiple of one word is added to the other, and of one row to the other.
LEMMA CombineKeeps ==
  ASSUME modp \in Int, val \in Int, cnt \in 1..C,
         NEW pw \in Int, NEW vw \in Int, NEW rows \in [0..3 -> Int], NEW bal \in Nat,
         Related(pw, vw, rows, Pow2[C - cnt]),
         Short(rows[0], rows[1], Pow2[C - cnt]), Short(rows[2], rows[3], Pow2[C - cnt]),
         ~Divides(2, pw),
         NEW mul, mul = Factor(pw, vw, BitsWanted(bal)),
         NEW w, w = Wrapped(vw + (pw * mul)),
         NEW new, new = [i \in 0..3 |-> IF i < 2 THEN rows[i] ELSE rows[i] + (rows[i-2] * mul)]
  PROVE  /\ w \in Int /\ new \in [0..3 -> Int]
         /\ \E k \in 0..cnt :
              /\ Related(pw, w, new, Pow2[C - cnt])
              /\ Short(new[0], new[1], Pow2[C - cnt])
              /\ Short(new[2], new[3], Pow2[C - cnt] * Pow2[k])
              /\ Divides(Pow2[k], w)
<1>. DEFINE t == Pow2[C - cnt]
            bits == BitsWanted(bal)
            k == IF bits < 3 THEN bits ELSE 3
            l == 2 * Half
            u == vw + (pw * mul)
<1>0. C \in Nat /\ cnt \in Nat
  BY Widths
<1>1. bits \in Nat \ {0} /\ bits <= cnt
  BY <1>0 DEF BitsWanted
<1>. HIDE DEF bits
<1>2. k \in Nat \ {0} /\ k \in 0..cnt /\ k <= C + 2
  BY <1>0, <1>1
<1>3. Pow2[k] \in Nat \ {0} /\ mul \in 0..Pow2[k]-1 /\ Divides(Pow2[k], u)
  <2>1. mul = Factor(pw, vw, bits)
    BY DEF bits
  <2>2. k = IF bits < 3 THEN bits ELSE 3
    OBVIOUS
  <2>. HIDE DEF k
  <2>3. /\ Pow2[k] \in Nat \ {0} /\ Factor(pw, vw, bits) \in 0..Pow2[k]-1
        /\ Divides(Pow2[k], vw + (pw * Factor(pw, vw, bits)))
    BY <1>1, <2>2, FactorClears
  <2>. QED BY <2>1, <2>3
<1>. HIDE DEF k
<1>4. mul \in Int /\ t \in Nat \ {0} /\ l \in Int
  <2>1. C - cnt \in 0..C+2
    BY <1>0
  <2>. QED BY <1>3, <2>1, Pow2Facts, HalfFacts
<1>5. u \in Int
  BY <1>4
<1>6. w \in Int /\ Divides(l, u - w)
  BY <1>5, WrappedFacts
<1>. HIDE DEF u
<1>7. Divides(Pow2[k], w)
  <2>1. Divides(Pow2[k], l)
    <3>1. k \in Nat /\ C + 2 \in Nat /\ k <= C + 2 /\ C + 2 <= C + 2
      BY <1>0, <1>2
    <3>2. Divides(Pow2[k], Pow2[C+2])
      BY <3>1, Pow2Divides
    <3>. QED BY <3>2, HalfFacts
  <2>. DEFINE q == Pow2[k]
  <2>2. q \in Int /\ Divides(q, u) /\ Divides(q, l)
    BY <1>3, <2>1
  <2>. HIDE DEF q, l
  <2>3. u - w \in Int
    BY <1>5, <1>6
  <2>4. Divides(q, u - w)
    BY <1>4, <1>6, <2>2, <2>3, DividesThrough
  <2>5. Divides(q, u - (u - w))
    BY <1>5, <2>2, <2>3, <2>4, DividesSum
  <2>6. u - (u - w) = w
    BY <1>5, <1>6
  <2>. QED BY <2>5, <2>6 DEF q
<1>8. /\ new \in [0..3 -> Int]
      /\ new[0] = rows[0] /\ new[1] = rows[1]
      /\ new[2] = rows[2] + (rows[0] * mul) /\ new[3] = rows[3] + (rows[1] * mul)
      /\ Related(pw, w, new, t)
  <2>1. Divides(2*Half, (vw + (pw * mul)) - w)
    BY <1>6 DEF u
  <2>2. t \in Int /\ Related(pw, vw, rows, t)
    BY <1>4
  <2>. HIDE DEF t
  <2>. QED BY <1>4, <1>6, <2>1, <2>2, RowsAdded
<1>9. Short(new[0], new[1], t) /\ Short(new[2], new[3], t * Pow2[k])
  <2>1. rows[0] \in Int /\ rows[1] \in Int /\ rows[2] \in Int /\ rows[3] \in Int
    OBVIOUS
  <2>. DEFINE q == Pow2[k]
  <2>2. t \in Nat /\ q \in Nat /\ mul \in 0..q-1 /\ Short(rows[0], rows[1], t) /\ Short(rows[2], rows[3], t)
    BY <1>3, <1>4
  <2>. HIDE DEF t, q
  <2>3. Short(rows[2] + (rows[0] * mul), rows[3] + (rows[1] * mul), t * q)
    BY <2>1, <2>2, ShortSum
  <2>. QED BY <1>8, <2>2, <2>3 DEF q
<1>. QED BY <1>2, <1>6, <1>7, <1>8, <1>9

-------------------------------------------------------------------------------
(* The steps of a chunk                                                    *)

LEMMA ChunkKeeps ==
  ASSUME IInv, Chunk, UNCHANGED a
  PROVE  IInv'
<1>0. /\ modp \in Int /\ val \in Int /\ kbnt \in Int /\ ~Divides(2, modp) /\ (x = 0 => val = 0)
      /\ C \in 1..C /\ C \in Nat
  BY Widths DEF IInv, InversionTyped, Whole, Chunk, Chunked
<1>. DEFINE pw == Wrapped(modp)
            w == Wrapped(val)
            l == 2 * Half
<1>1. pw \in Int /\ w \in Int /\ Divides(l, modp - pw) /\ Divides(l, val - w) /\ l \in Int
  BY <1>0, WrappedFacts, HalfFacts
<1>2. p' = pw /\ Shifted(w, Identity, kbnt, C) /\ UNCHANGED <<device, first, modp, val, result, co, x>>
  BY DEF Chunk
<1>3. val = 0 => w = 0
  <2>1. l \in Nat \ {0} /\ Half \in 0..l-1
    BY HalfFacts
  <2>2. Half - Half = 0 /\ 0 + Half = Half /\ Divides(l, Half - Half)
    BY <2>1, DividesItself
  <2>3. (0 + Half) % l = Half
    <3>. HIDE DEF l
    <3>. QED BY <2>1, <2>2, RemainderIs
  <2>. QED BY <2>2, <2>3 DEF Wrapped
<1>. HIDE DEF pw, w
<1>4. ~Divides(2, pw)
  <2>1. modp - pw \in Int
    BY <1>0, <1>1
  <2>2. Divides(2, l)
    BY HalfFacts
  <2>. HIDE DEF l
  <2>3. Divides(2, modp - pw)
    BY <1>1, <2>1, <2>2, DividesThrough
  <2>. QED BY <1>0, <1>1, <2>3, OddEven
<1>5. /\ Identity \in [0..3 -> Int] /\ Identity[0] = 1 /\ Identity[1] = 0
      /\ Identity[2] = 0 /\ Identity[3] = 1
  BY DEF Identity
<1>6. Pow2[C - C] = 1 /\ Pow2[0] = 1
  BY <1>0, Pow2Facts
<1>7. Related(pw, w, Identity, Pow2[C - C])
  <2>1. /\ (modp * 1) + (val * 0) - (pw * 1) = modp - pw
        /\ (modp * 0) + (val * 1) - (w * 1) = val - w
        /\ (1 * 1) - (0 * 0) = 1
    BY <1>0, <1>1
  <2>. QED BY <1>1, <1>5, <1>6, <2>1 DEF Related
<1>8. /\ Short(Identity[0], Identity[1], Pow2[C - C])
      /\ Short(Identity[2], Identity[3], Pow2[C - C] * Pow2[0])
  BY <1>5, <1>6 DEF Short
<1>9. Divides(Pow2[0], w)
  <2>1. w = 1 * w
    BY <1>1
  <2>. QED BY <1>1, <1>6, <2>1 DEF Divides
<1>10. /\ InChunk' /\ step' \in {"divide", "update"}
       /\ p' \in Int /\ v' \in Int /\ m' \in [0..3 -> Int] /\ kbnt' \in Int /\ cnt' \in 0..C
  <2>1. InversionTyped /\ 0 \in 0..C
    BY <1>0 DEF IInv
  <2>2. x = 0 => w = 0 /\ C = C /\ Identity[1] = 0 /\ Identity[2] = 0
    BY <1>0, <1>3, <1>5
  <2>3. UNCHANGED <<modp, val, x>>
    BY <1>2
  <2>. QED BY <1>0, <1>1, <1>2, <1>4, <1>5, <1>7, <1>8, <1>9, <2>1, <2>2, <2>3, ShiftedKeeps
<1>11. InversionTyped'
  BY <1>2, <1>10 DEF IInv, InversionTyped, Steps
<1>12. Whole'
  BY <1>2, <1>10 DEF IInv, Whole, Chunked, Chunk
<1>. QED BY <1>10, <1>11, <1>12 DEF IInv, Fresh, Finished, Inverse

LEMMA DivideKeeps ==
  ASSUME IInv, Divide, UNCHANGED a
  PROVE  IInv'
<1>. DEFINE t == Pow2[C - cnt]
            swap == kbnt < 0
            pw == IF swap THEN v ELSE p
            vw == IF swap THEN Wrapped(-p) ELSE v
            rows == IF swap THEN Swapped ELSE m
            bal == IF swap THEN -kbnt ELSE kbnt
            mul == Factor(pw, vw, BitsWanted(bal))
            w == Wrapped(vw + (pw * mul))
            new == [k \in 0..3 |-> IF k < 2 THEN rows[k] ELSE rows[k] + (rows[k-2] * mul)]
<1>0. /\ modp \in Int /\ val \in Int /\ p \in Int /\ v \in Int /\ kbnt \in Int /\ m \in [0..3 -> Int]
      /\ cnt \in 1..C /\ C \in Nat /\ x # 0
  BY Widths DEF IInv, InversionTyped, InChunk, Divide
<1>1. t \in Int
  <2>1. C - cnt \in 0..C+2
    BY <1>0
  <2>. QED BY <2>1, Pow2Facts
<1>2. /\ Related(p, v, m, t) /\ Short(m[0], m[1], t) /\ Short(m[2], m[3], t)
      /\ ~Divides(2, p) /\ ~Divides(2, v)
  BY DEF IInv, InChunk, Divide
<1>3. p' = pw /\ Shifted(w, new, bal, cnt) /\ UNCHANGED <<device, first, modp, val, result, co, x>>
  BY DEF Divide
<1>4. /\ pw \in Int /\ vw \in Int /\ rows \in [0..3 -> Int] /\ ~Divides(2, pw)
      /\ Related(pw, vw, rows, t) /\ Short(rows[0], rows[1], t) /\ Short(rows[2], rows[3], t)
  <2>1. CASE swap
    <3>. HIDE DEF t
    <3>1. /\ Wrapped(-p) \in Int /\ Swapped \in [0..3 -> Int]
          /\ Related(v, Wrapped(-p), Swapped, t)
          /\ Short(Swapped[0], Swapped[1], t) /\ Short(Swapped[2], Swapped[3], t)
      BY <1>0, <1>1, <1>2, SwapKeeps
    <3>2. pw = v /\ vw = Wrapped(-p) /\ rows = Swapped
      BY <2>1
    <3>. HIDE DEF pw, vw, rows
    <3>. QED BY <1>0, <1>2, <3>1, <3>2
  <2>2. CASE ~swap
    <3>1. pw = p /\ vw = v /\ rows = m
      BY <2>2
    <3>. HIDE DEF pw, vw, rows, t
    <3>. QED BY <1>0, <1>2, <3>1
  <2>. QED BY <2>1, <2>2
<1>5. bal \in Nat
  BY <1>0
<1>. HIDE DEF pw, vw, rows, bal
<1>6. /\ w \in Int /\ new \in [0..3 -> Int]
      /\ \E k \in 0..cnt :
              /\ Related(pw, w, new, Pow2[C - cnt])
              /\ Short(new[0], new[1], Pow2[C - cnt])
              /\ Short(new[2], new[3], Pow2[C - cnt] * Pow2[k])
              /\ Divides(Pow2[k], w)
  <2>. DEFINE old == mul
  <2>1. old = Factor(pw, vw, BitsWanted(bal)) /\ w = Wrapped(vw + (pw * old))
        /\ new = [i \in 0..3 |-> IF i < 2 THEN rows[i] ELSE rows[i] + (rows[i-2] * old)]
    OBVIOUS
  <2>. HIDE DEF old, mul, w, new
  <2>. QED BY <1>0, <1>4, <1>5, <2>1, CombineKeeps
<1>. HIDE DEF w, new, mul
<1>7. /\ InChunk' /\ step' \in {"divide", "update"}
      /\ p' \in Int /\ v' \in Int /\ m' \in [0..3 -> Int] /\ kbnt' \in Int /\ cnt' \in 0..C
  <2>1. PICK k \in 0..cnt :
              /\ Related(pw, w, new, Pow2[C - cnt])
              /\ Short(new[0], new[1], Pow2[C - cnt])
              /\ Short(new[2], new[3], Pow2[C - cnt] * Pow2[k])
              /\ Divides(Pow2[k], w)
    BY <1>6
  <2>2. InversionTyped /\ bal \in Int
    BY <1>5 DEF IInv
  <2>3. UNCHANGED <<modp, val, x>>
    BY <1>3
  <2>. QED BY <1>0, <1>3, <1>4, <1>6, <2>1, <2>2, <2>3, ShiftedKeeps
<1>8. InversionTyped'
  BY <1>3, <1>7 DEF IInv, InversionTyped, Steps
<1>9. Whole'
  BY <1>3, <1>7 DEF IInv, Whole, Chunked, Divide
<1>. QED BY <1>7, <1>8, <1>9 DEF IInv, Fresh, Finished, Inverse

-------------------------------------------------------------------------------
(* The end of a chunk                                                      *)

\* A row times the two numbers is at most its length times the longer of them.
LEMMA RowBound ==
  ASSUME NEW y \in Int, NEW z \in Int, NEW t \in Nat, Short(y, z, t),
         NEW l \in Nat, NEW n \in -l..l, NEW k \in -l..l
  PROVE  (n * y) + (k * z) <= t * l /\ (n * y) + (k * z) >= -(t * l)
<1>1. \A i, j \in Int : \A s \in Nat : i <= j => i * s <= j * s
  OBVIOUS
<1>2. ASSUME NEW i \in Int, NEW h \in -l..l
      PROVE  /\ i >= 0 => h * i <= i * l /\ h * i >= (-i) * l
             /\ i <= 0 => h * i <= (-i) * l /\ h * i >= i * l
  <2>1. CASE i >= 0
    <3>1. i \in Nat /\ h \in Int /\ -l \in Int /\ h <= l /\ -l <= h
      BY <2>1
    <3>2. h * i <= l * i /\ (-l) * i <= h * i
      BY <1>1, <3>1
    <3>3. l * i = i * l /\ (-l) * i = (-i) * l
      BY <3>1
    <3>4. i <= 0 => i = 0
      BY <2>1
    <3>5. i = 0 => h * i = 0 /\ (-i) * l = 0 /\ i * l = 0
      BY <3>1
    <3>. DEFINE hi == h * i
                li == l * i
                il == i * l
                ni == (-i) * l
                nl == (-l) * i
    <3>6. hi \in Int /\ li \in Int /\ il \in Int /\ ni \in Int /\ nl \in Int
      BY <3>1
    <3>7. hi <= li /\ nl <= hi /\ li = il /\ nl = ni /\ (i = 0 => hi = 0 /\ ni = 0 /\ il = 0)
      BY <3>2, <3>3, <3>5
    <3>. HIDE DEF hi, li, il, ni, nl
    <3>8. /\ i >= 0 => hi <= il /\ hi >= ni
          /\ i <= 0 => hi <= ni /\ hi >= il
      BY <3>4, <3>6, <3>7
    <3>. QED BY <3>8 DEF hi, il, ni
  <2>2. CASE i < 0
    <3>1. -i \in Nat /\ h \in Int /\ -l \in Int /\ h <= l /\ -l <= h
      BY <2>2
    <3>2. h * (-i) <= l * (-i) /\ (-l) * (-i) <= h * (-i)
      BY <1>1, <3>1
    <3>3. l * (-i) = (-i) * l /\ (-l) * (-i) = i * l /\ h * (-i) = -(h * i)
      BY <3>1
    <3>4. (-i) * l = -(i * l)
      BY <3>1
    <3>. DEFINE hi == h * i
                il == i * l
                ni == (-i) * l
                hn == h * (-i)
                ln == l * (-i)
                nn == (-l) * (-i)
    <3>5. hi \in Int /\ il \in Int /\ ni \in Int /\ hn \in Int /\ ln \in Int /\ nn \in Int
      BY <3>1
    <3>6. hn <= ln /\ nn <= hn /\ ln = ni /\ nn = il /\ hn = -hi /\ ni = -il
      BY <3>2, <3>3, <3>4
    <3>. HIDE DEF hi, il, ni, hn, ln, nn
    <3>7. hi <= ni /\ hi >= il
      BY <3>5, <3>6
    <3>. QED BY <2>2, <3>7 DEF hi, il, ni
  <2>. QED BY <2>1, <2>2
<1>3. ASSUME NEW i \in Int, NEW j \in Int, i + j <= t
      PROVE  (i * l) + (j * l) <= t * l
  <2>1. (i + j) * l <= t * l
    BY <1>1, <1>3
  <2>2. (i + j) * l = (i * l) + (j * l)
    OBVIOUS
  <2>. QED BY <2>1, <2>2
<1>4. -y \in Int /\ -z \in Int /\ (-y) * l = -(y * l) /\ (-z) * l = -(z * l)
  OBVIOUS
<1>. DEFINE yl == y * l
            zl == z * l
            my == (-y) * l
            mz == (-z) * l
            ny == n * y
            kz == k * z
            tl == t * l
<1>5. yl \in Int /\ zl \in Int /\ ny \in Int /\ kz \in Int /\ tl \in Int /\ my = -yl /\ mz = -zl
  BY <1>4
<1>6. /\ y >= 0 => ny <= yl /\ ny >= my
      /\ y <= 0 => ny <= my /\ ny >= yl
      /\ z >= 0 => kz <= zl /\ kz >= mz
      /\ z <= 0 => kz <= mz /\ kz >= zl
  BY <1>2
<1>7. yl + zl <= tl /\ yl + mz <= tl /\ my + zl <= tl /\ my + mz <= tl
  <2>1. y + z <= t /\ y + (-z) <= t /\ (-y) + z <= t /\ (-y) + (-z) <= t
    BY DEF Short
  <2>. QED BY <1>3, <1>4, <2>1
<1>. HIDE DEF yl, zl, my, mz, ny, kz, tl
<1>8. ny + kz <= tl /\ ny + kz >= -tl
  BY <1>5, <1>6, <1>7
<1>. QED BY <1>8 DEF ny, kz, tl

\* What is within t multiples of l on either side, and is a multiple of t, is within l.
LEMMA QuotientBound ==
  ASSUME NEW t \in Nat \ {0}, NEW l \in Int, NEW n \in Int, t * n <= t * l, t * n >= -(t * l)
  PROVE  n \in -l..l
<1>1. ASSUME n > l PROVE FALSE
  <2>1. n >= l + 1
    BY <1>1
  <2>2. t * n >= t * (l + 1)
    BY <2>1
  <2>3. t * (l + 1) = (t * l) + t
    OBVIOUS
  <2>. DEFINE tn == t * n
              tl == t * l
              ts == t * (l + 1)
  <2>4. tn \in Int /\ tl \in Int /\ tn <= tl /\ tn >= ts /\ ts = tl + t
    BY <2>2, <2>3
  <2>. HIDE DEF tn, tl, ts
  <2>. QED BY <2>4
<1>2. ASSUME n < -l PROVE FALSE
  <2>1. n <= -l - 1
    BY <1>2
  <2>2. t * n <= t * (-l - 1)
    BY <2>1
  <2>3. t * (-l - 1) = -(t * l) - t
    OBVIOUS
  <2>. DEFINE tn == t * n
              tl == t * l
              ts == t * (-l - 1)
  <2>4. tn \in Int /\ tl \in Int /\ tn >= -tl /\ tn <= ts /\ ts = -tl - t
    BY <2>2, <2>3
  <2>. HIDE DEF tn, tl, ts
  <2>. QED BY <2>4
<1>. QED BY <1>1, <1>2

\* The sums of the numbers at the end of a chunk: multiples of 2^C, the first by an odd number.
LEMMA NumbersDivisible ==
  ASSUME IInv, step = "update"
  PROVE  \E y, z \in Int :
           /\ Sums.modp = Pow2[C] * y /\ Sums.val = Pow2[C] * z
           /\ Sums.modp \div Pow2[C] = y /\ Sums.val \div Pow2[C] = z
           /\ ~Divides(2, y) /\ y \in -(R-1)..R-1 /\ z \in -(R-1)..R-1
<1>. DEFINE t == Pow2[C]
            l == 2 * Half
            f == (modp * m[0]) + (val * m[1])
            g == (modp * m[2]) + (val * m[3])
<1>0. /\ modp \in -(R-1)..R-1 /\ val \in -(R-1)..R-1 /\ modp \in Int /\ val \in Int
      /\ p \in Int /\ v \in Int
      /\ m[0] \in Int /\ m[1] \in Int /\ m[2] \in Int /\ m[3] \in Int
      /\ R - 1 \in Nat /\ C - 0 = C /\ C \in Nat
  BY Widths DEF IInv, InversionTyped, Whole, Chunked
<1>1. t \in Nat \ {0} /\ l = 4 * t
  BY HalfFacts
<1>2. /\ Divides(l, f - (p * t)) /\ Divides(l, g - (v * t)) /\ ~Divides(2, p)
      /\ Short(m[0], m[1], t) /\ Short(m[2], m[3], t)
  BY <1>0 DEF IInv, InChunk, Related
<1>3. Sums.modp = f /\ Sums.val = g
  BY DEF Sums
<1>4. f \in Int /\ g \in Int
  BY <1>0
<1>5. PICK i \in Int, j \in Int : f - (p * t) = (4 * t) * i /\ g - (v * t) = (4 * t) * j
  BY <1>1, <1>2 DEF Divides
<1>6. f <= t * (R-1) /\ f >= -(t * (R-1)) /\ g <= t * (R-1) /\ g >= -(t * (R-1))
  <2>1. t \in Nat
    BY <1>1
  <2>2. f <= t * (R-1) /\ f >= -(t * (R-1))
    <3>. HIDE DEF t
    <3>. QED BY <1>0, <1>2, <2>1, RowBound
  <2>3. g <= t * (R-1) /\ g >= -(t * (R-1))
    <3>. HIDE DEF t
    <3>. QED BY <1>0, <1>2, <2>1, RowBound
  <2>. QED BY <2>2, <2>3
<1>. HIDE DEF t, f, g
<1>. DEFINE y == (4 * i) + p
            z == (4 * j) + v
<1>7. f = t * y /\ g = t * z /\ y \in Int /\ z \in Int
  BY <1>0, <1>1, <1>4, <1>5
<1>8. ~Divides(2, y)
  <2>1. p - y = 2 * ((-2) * i) /\ (-2) * i \in Int
    BY <1>0
  <2>2. Divides(2, p - y)
    BY <2>1 DEF Divides
  <2>. HIDE DEF y
  <2>. QED BY <1>0, <1>2, <1>7, <2>2, OddEven
<1>. HIDE DEF y, z
<1>9. y \in -(R-1)..R-1 /\ z \in -(R-1)..R-1
  <2>. DEFINE s == R - 1
  <2>1. s \in Int /\ t * y <= t * s /\ t * y >= -(t * s) /\ t * z <= t * s /\ t * z >= -(t * s)
    BY <1>0, <1>6, <1>7
  <2>. HIDE DEF s
  <2>2. y \in -s..s /\ z \in -s..s
    BY <1>1, <1>7, <2>1, QuotientBound
  <2>. QED BY <2>2 DEF s
<1>10. \A n \in Int : (t * n) \div t = n
  BY <1>1
<1>. QED BY <1>3, <1>7, <1>8, <1>9, <1>10 DEF t

\* The sums of the coefficients: multiples of 2^C, once a multiple of P has been added.
LEMMA CoefficientsDivisible ==
  ASSUME IInv, step = "update"
  PROVE  \E y, z \in Int :
           /\ Sums.result = Pow2[C] * y /\ Sums.co = Pow2[C] * z
           /\ Sums.result \div Pow2[C] = y /\ Sums.co \div Pow2[C] = z
           /\ Divides(P, Sums.result - ((result * m[0]) + (co * m[1])))
           /\ Divides(P, Sums.co - ((result * m[2]) + (co * m[3])))
           /\ x = 0 => y = 0
<1>. DEFINE t == Pow2[C]
            f == (result * m[0]) + (co * m[1])
            g == (result * m[2]) + (co * m[3])
<1>0. /\ result \in Int /\ co \in Int /\ (x = 0 => result = 0 /\ m[1] = 0)
      /\ m[0] \in Int /\ m[1] \in Int /\ m[2] \in Int /\ m[3] \in Int
  BY DEF IInv, InversionTyped, Whole, Chunked, InChunk
<1>1. t \in Nat \ {0}
  BY HalfFacts
<1>2. Sums.result = Lifted(f) /\ Sums.co = Lifted(g)
  BY DEF Sums
<1>3. f \in Int /\ g \in Int /\ (x = 0 => f = 0)
  <2>1. x = 0 => f = (0 * m[0]) + (co * 0)
    BY <1>0
  <2>2. 0 * m[0] = 0 /\ co * 0 = 0
    BY <1>0
  <2>3. f \in Int /\ g \in Int
    BY <1>0
  <2>. QED BY <2>1, <2>2, <2>3
<1>. HIDE DEF f, g, t
<1>4. /\ Lifted(f) \in Int /\ Divides(P, Lifted(f) - f) /\ Divides(t, Lifted(f)) /\ (f = 0 => Lifted(f) = 0)
      /\ Lifted(g) \in Int /\ Divides(P, Lifted(g) - g) /\ Divides(t, Lifted(g))
  BY <1>3, LiftedFacts DEF t
<1>5. PICK y \in Int, z \in Int : Lifted(f) = t * y /\ Lifted(g) = t * z
  BY <1>4 DEF Divides
<1>6. \A n \in Int : (t * n) \div t = n
  BY <1>1
<1>7. x = 0 => y = 0
  <2>1. ASSUME x = 0 PROVE y = 0
    <3>1. t * y = 0
      BY <1>3, <1>4, <1>5, <2>1
    <3>. QED BY <1>1, <3>1
  <2>. QED BY <2>1
<1>. QED BY <1>2, <1>4, <1>5, <1>6, <1>7 DEF t, f, g

\* What the row y, z makes of the two numbers, and of their coefficients modulo P.
NumberOf(y, z, u)      == Pow2[C] * u = (modp * y) + (val * z)
CoefficientOf(y, z, w) == Divides(P, (Pow2[C] * w) - ((result * y) + (co * z)))

\* The relation of one number to its coefficient goes through the matrix, and through the shift.
LEMMA RelationShifted ==
  ASSUME modp \in Int, val \in Int, result \in Int, co \in Int, x \in Int,
         Divides(P, modp - (result * x)), Divides(P, val - (co * x)),
         NEW y \in Int, NEW z \in Int, NEW u \in Int, NEW w \in Int,
         NumberOf(y, z, u), CoefficientOf(y, z, w)
  PROVE  Divides(P, u - (w * x))
<1>. DEFINE n == modp
            k == val
            i == result
            j == co
            q == x
            t == Pow2[C]
            f == n - (i * q)
            g == k - (j * q)
            h == (t * w) - ((i * y) + (j * z))
<1>0. /\ t \in Int /\ P \in Int
      /\ n \in Int /\ k \in Int /\ i \in Int /\ j \in Int /\ q \in Int
  BY HalfFacts, Widths
<1>1. f \in Int /\ g \in Int /\ h \in Int /\ Divides(P, f) /\ Divides(P, g) /\ Divides(P, h)
  BY <1>0 DEF CoefficientOf
<1>2. t * u = (n * y) + (k * z)
  BY DEF NumberOf
<1>. HIDE DEF n, k, i, j, q, t
<1>3. t * (u - (w * q)) = ((f * y) + (g * z)) - (h * q)
  <2>1. t * (u - (w * q)) = (t * u) - ((t * w) * q)
    BY <1>0
  <2>2. (f * y) + (g * z) = ((n * y) + (k * z)) - (((i * y) + (j * z)) * q)
    BY <1>0
  <2>3. h * q = ((t * w) * q) - (((i * y) + (j * z)) * q)
    BY <1>0
  <2>. DEFINE aa == (t * w) * q
              bb == ((i * y) + (j * z)) * q
              cd == (n * y) + (k * z)
              dd == (f * y) + (g * z)
              hq == h * q
              tu == t * u
  <2>4. aa \in Int /\ bb \in Int /\ cd \in Int /\ dd = cd - bb /\ hq = aa - bb /\ tu = cd
    BY <1>0, <1>2, <2>2, <2>3
  <2>. HIDE DEF aa, bb, cd, dd, hq, tu, f, g, h
  <2>5. tu - aa = dd - hq
    BY <2>4
  <2>. QED BY <2>1, <2>5 DEF aa, dd, hq, tu
<1>. HIDE DEF f, g, h
<1>4. f * y \in Int /\ g * z \in Int /\ h * q \in Int
  BY <1>0, <1>1
<1>5. Divides(P, f * y)
  BY <1>0, <1>1, DividesMultiple
<1>6. Divides(P, g * z)
  BY <1>0, <1>1, DividesMultiple
<1>7. Divides(P, h * q)
  BY <1>0, <1>1, DividesMultiple
<1>8. Divides(P, (f * y) + (g * z))
  BY <1>0, <1>4, <1>5, <1>6, DividesSum
<1>12. (f * y) + (g * z) \in Int
  BY <1>4
<1>9. Divides(P, ((f * y) + (g * z)) - (h * q))
  BY <1>0, <1>4, <1>7, <1>8, <1>12, DividesSum
<1>. DEFINE s == u - (w * q)
<1>10. s \in Int /\ Divides(P, t * s)
  BY <1>0, <1>3, <1>9
<1>. HIDE DEF s
<1>11. Divides(P, s)
  BY <1>10, PowerCancels DEF t
<1>. QED BY <1>11 DEF s, q

\* The determinant gives the numbers back: what divides both of the new ones divided the old.
LEMMA DivisorsKept ==
  ASSUME modp \in Int, val \in Int, m \in [0..3 -> Int],
         (m[0] * m[3]) - (m[1] * m[2]) = Pow2[C],
         NEW u \in Int, NEW w \in Int, NumberOf(m[0], m[1], u), NumberOf(m[2], m[3], w),
         NEW d \in Int, Divides(d, u), Divides(d, w)
  PROVE  Divides(d, modp) /\ Divides(d, val)
<1>. DEFINE i == m[0]
            j == m[1]
            q == m[2]
            s == m[3]
            t == Pow2[C]
            n == modp
            k == val
<1>1. i \in Int /\ j \in Int /\ q \in Int /\ s \in Int /\ (i * s) - (j * q) = t
      /\ t * u = (n * i) + (k * j) /\ t * w = (n * q) + (k * s) /\ t \in Nat \ {0}
      /\ n \in Int /\ k \in Int
  BY HalfFacts DEF NumberOf
<1>. HIDE DEF i, j, q, s, t, n, k
<1>2. \A y, z \in Int : t * y = t * z => y = z
  BY <1>1
<1>3. n = (s * u) - (j * w)
  <2>1. t * n = (s * ((n * i) + (k * j))) - (j * ((n * q) + (k * s)))
    <3>1. ((i * s) - (j * q)) * n = (s * ((n * i) + (k * j))) - (j * ((n * q) + (k * s)))
      BY <1>1
    <3>. QED BY <1>1, <3>1
  <2>2. (s * (t * u)) - (j * (t * w)) = t * ((s * u) - (j * w))
    BY <1>1
  <2>3. t * n = t * ((s * u) - (j * w))
    BY <1>1, <2>1, <2>2
  <2>4. (s * u) - (j * w) \in Int
    BY <1>1
  <2>. DEFINE g == (s * u) - (j * w)
  <2>5. t * n = t * g /\ g \in Int
    BY <2>3, <2>4
  <2>. HIDE DEF g
  <2>6. n = g
    BY <1>1, <1>2, <2>5
  <2>. QED BY <2>6 DEF g
<1>4. k = (i * w) - (q * u)
  <2>1. t * k = (i * ((n * q) + (k * s))) - (q * ((n * i) + (k * j)))
    <3>1. ((i * s) - (j * q)) * k = (i * ((n * q) + (k * s))) - (q * ((n * i) + (k * j)))
      BY <1>1
    <3>. QED BY <1>1, <3>1
  <2>2. (i * (t * w)) - (q * (t * u)) = t * ((i * w) - (q * u))
    BY <1>1
  <2>3. t * k = t * ((i * w) - (q * u))
    BY <1>1, <2>1, <2>2
  <2>4. (i * w) - (q * u) \in Int
    BY <1>1
  <2>. DEFINE g == (i * w) - (q * u)
  <2>5. t * k = t * g /\ g \in Int
    BY <2>3, <2>4
  <2>. HIDE DEF g
  <2>6. k = g
    BY <1>1, <1>2, <2>5
  <2>. QED BY <2>6 DEF g
<1>5. s * u \in Int /\ j * w \in Int /\ i * w \in Int /\ q * u \in Int
  BY <1>1
<1>6. Divides(d, s * u) /\ Divides(d, q * u)
  BY <1>1, DividesMultiple
<1>7. Divides(d, j * w) /\ Divides(d, i * w)
  BY <1>1, DividesMultiple
<1>8. Divides(d, (s * u) - (j * w))
  BY <1>5, <1>6, <1>7, DividesSum
<1>9. Divides(d, (i * w) - (q * u))
  BY <1>5, <1>6, <1>7, DividesSum
<1>. QED BY <1>3, <1>4, <1>8, <1>9 DEF n, k

LEMMA UpdateKeeps ==
  ASSUME IInv, Update, UNCHANGED a
  PROVE  IInv'
<1>. DEFINE t == Pow2[C]
<1>0. /\ modp \in Int /\ val \in Int /\ result \in Int /\ co \in Int /\ x \in Int /\ t \in Nat \ {0}
      /\ m \in [0..3 -> Int] /\ m[0] \in Int /\ m[1] \in Int /\ m[2] \in Int /\ m[3] \in Int
      /\ R \in Nat /\ step = "update" /\ C \in Nat /\ C - 0 = C
      /\ step' \in {"chunk", "finish"}
      /\ UNCHANGED <<device, p, v, m, kbnt, cnt, x>>
  BY Widths, HalfFacts DEF IInv, InversionTyped, Update, Number
<1>1. PICK n \in Int, k \in Int :
        /\ Sums.modp = t * n /\ Sums.val = t * k
        /\ Sums.modp \div t = n /\ Sums.val \div t = k
        /\ ~Divides(2, n) /\ n \in -(R-1)..R-1 /\ k \in -(R-1)..R-1
  BY <1>0, NumbersDivisible
<1>2. PICK y \in Int, z \in Int :
        /\ Sums.result = t * y /\ Sums.co = t * z
        /\ Sums.result \div t = y /\ Sums.co \div t = z
        /\ Divides(P, Sums.result - ((result * m[0]) + (co * m[1])))
        /\ Divides(P, Sums.co - ((result * m[2]) + (co * m[3])))
        /\ x = 0 => y = 0
  BY <1>0, CoefficientsDivisible
<1>3. modp' = n /\ val' = k /\ result' = y /\ co' = z
  BY <1>1, <1>2 DEF Update
<1>4. Sums.modp = (modp * m[0]) + (val * m[1]) /\ Sums.val = (modp * m[2]) + (val * m[3])
  BY DEF Sums
<1>5. /\ Divides(P, modp - (result * x)) /\ Divides(P, val - (co * x))
      /\ \A d \in Int : Divides(d, modp) /\ Divides(d, val) => Divides(d, P) /\ Divides(d, x)
      /\ x = 0 => val = 0 /\ m[2] = 0
      /\ (m[0] * m[3]) - (m[1] * m[2]) = t
  BY <1>0 DEF IInv, Whole, Chunked, InChunk, Related
<1>6. NumberOf(m[0], m[1], n) /\ NumberOf(m[2], m[3], k)
  BY <1>1, <1>4 DEF NumberOf
<1>7. CoefficientOf(m[0], m[1], y) /\ CoefficientOf(m[2], m[3], z)
  BY <1>2 DEF CoefficientOf
<1>8. Divides(P, n - (y * x)) /\ Divides(P, k - (z * x))
  <2>1. modp \in Int /\ val \in Int /\ result \in Int /\ co \in Int /\ x \in Int
    BY <1>0
  <2>2. m[0] \in Int /\ m[1] \in Int /\ m[2] \in Int /\ m[3] \in Int
    BY <1>0
  <2>3. Divides(P, modp - (result * x)) /\ Divides(P, val - (co * x))
    BY <1>5
  <2>4. Divides(P, n - (y * x))
    BY ONLY <2>1, <2>2, <2>3, <1>1, <1>2, <1>6, <1>7, RelationShifted
  <2>5. Divides(P, k - (z * x))
    BY ONLY <2>1, <2>2, <2>3, <1>1, <1>2, <1>6, <1>7, RelationShifted
  <2>. QED BY <2>4, <2>5
<1>10. ASSUME NEW d \in Int, Divides(d, n), Divides(d, k)
       PROVE  Divides(d, P) /\ Divides(d, x)
  <2>0. /\ m \in [0..3 -> Int] /\ (m[0] * m[3]) - (m[1] * m[2]) = t
        /\ modp \in Int /\ val \in Int
    BY <1>0, <1>5
  <2>1. Divides(d, modp) /\ Divides(d, val)
    BY ONLY <2>0, <1>1, <1>6, <1>10, DivisorsKept
  <2>. QED BY <1>5, <2>1
<1>11. x = 0 => k = 0
  <2>1. SUFFICES ASSUME x = 0 PROVE k = 0
    OBVIOUS
  <2>4. t * k = (modp * m[2]) + (val * m[3])
    BY <1>6 DEF NumberOf
  <2>2. modp * m[2] = 0 /\ val * m[3] = 0
    <3>1. modp * 0 = 0 /\ 0 * m[3] = 0
      BY <1>0
    <3>. QED BY <1>5, <2>1, <3>1
  <2>. HIDE DEF t
  <2>3. t * k = 0
    BY <2>2, <2>4
  <2>. QED BY <1>0, <2>3
<1>12. Whole'
  <2>1. step' \in Chunked
    BY <1>0 DEF Chunked
  <2>2. /\ Divides(P, modp' - (result' * x')) /\ Divides(P, val' - (co' * x'))
        /\ modp' \in -(R-1) .. R-1 /\ val' \in -(R-1) .. R-1 /\ ~Divides(2, modp')
    BY <1>0, <1>1, <1>3, <1>8
  <2>3. \A d \in Int : Divides(d, modp') /\ Divides(d, val') => Divides(d, P) /\ Divides(d, x')
    BY <1>0, <1>3, <1>10
  <2>4. x' = 0 => result' = 0 /\ val' = 0
    BY <1>0, <1>2, <1>3, <1>11
  <2>. QED BY <2>2, <2>3, <2>4 DEF Whole
<1>13. Finished'
  <2>1. SUFFICES ASSUME step' = "finish" PROVE k = 0
    BY <1>3 DEF Finished
  <2>2. k % R = 0 /\ R \in Nat \ {0}
    <3>1. Exhausted(Sums.val \div t)
      BY <2>1 DEF Update
    <3>. QED BY <1>1, <3>1, ModulusAssumption DEF Exhausted
  <2>3. Divides(R, k)
    BY <2>2, DividesMod
  <2>4. PICK j \in Int : k = R * j
    BY <2>3 DEF Divides
  <2>5. R * j < R /\ R * j > -R
    BY <1>0, <1>1, <2>4
  <2>6. j = 0
    BY <2>2, <2>5, NoMultiple
  <2>. QED BY <1>0, <2>4, <2>6
<1>14. InversionTyped'
  BY <1>0, <1>3 DEF IInv, InversionTyped, Steps
<1>. QED BY <1>0, <1>12, <1>13, <1>14 DEF IInv, Fresh, InChunk, Inverse

-------------------------------------------------------------------------------
(* The end of an inversion                                                 *)

\* What P is added to or taken from until the top word is 0 keeps its remainder, and fits a number.
LEMMA TopWordFacts ==
  ASSUME NEW n \in Int
  PROVE  /\ TopWordCleared(n) \in Number /\ Divides(P, TopWordCleared(n) - n)
         /\ n = 0 => TopWordCleared(n) = 0
<1>0. R \in Nat /\ P \in Nat \ {0} /\ P < R /\ P \in Int
  BY Widths
<1>1. CASE n < 0
  <2>1. TopWordCleared(n) = n % P
    BY <1>0, <1>1 DEF TopWordCleared, Number
  <2>2. n % P \in 0..P-1 /\ Divides(P, n - (n % P))
    BY <1>0, DivModFacts, DividesMod
  <2>. DEFINE s == n % P
  <2>3. s \in 0..P-1 /\ s \in Int /\ Divides(P, n - s)
    BY <1>0, <2>2
  <2>. HIDE DEF s
  <2>4. Divides(P, (n - s) * (-1))
    BY <1>0, <2>3, DividesMultiple
  <2>5. (n - s) * (-1) = s - n
    BY <2>3
  <2>6. s \in Number
    BY <1>0, <2>3 DEF Number
  <2>. QED BY <1>1, <2>1, <2>4, <2>5, <2>6 DEF s
<1>2. CASE n \in Number
  <2>1. TopWordCleared(n) = n
    BY <1>0, <1>2 DEF TopWordCleared, Number
  <2>2. n - n = 0 /\ Divides(P, 0)
    BY <1>0, DividesItself
  <2>. QED BY <1>2, <2>1, <2>2
<1>3. CASE n >= R
  <2>. DEFINE u == n - R
              q == u \div P
              s == u % P
  <2>1. TopWordCleared(n) = n - (P * (q + 1))
    BY <1>0, <1>3 DEF TopWordCleared, Number
  <2>2. u \in Int
    BY <1>0
  <2>. HIDE DEF u
  <2>3. q \in Int /\ s \in 0..P-1 /\ u = P * q + s
    BY <1>0, <2>2, DivModFacts
  <2>. HIDE DEF q, s
  <2>4. P * (q + 1) = (P * q) + P
    BY <1>0, <2>3
  <2>5. P * q \in Int
    BY <1>0, <2>3
  <2>6. n - (P * (q + 1)) = (R + s) - P
    BY <1>0, <2>3, <2>4, <2>5 DEF u
  <2>7. (R + s) - P \in Number
    BY <1>0, <2>3 DEF Number
  <2>8. (n - (P * (q + 1))) - n = P * (-(q + 1)) /\ -(q + 1) \in Int
    BY <1>0, <2>3
  <2>9. Divides(P, (n - (P * (q + 1))) - n)
    BY <2>8 DEF Divides
  <2>. QED BY <1>0, <1>3, <2>1, <2>6, <2>7, <2>9
<1>4. n < 0 \/ n \in Number \/ n >= R
  BY <1>0 DEF Number
<1>. QED BY <1>1, <1>2, <1>3, <1>4

\* The last chunk leaves the greatest common divisor of P and x; its coefficient is the inverse of x if
\* that divisor is 1.
LEMMA DivisorFacts ==
  ASSUME IInv, step = "finish"
  PROVE  /\ Signed \in Int
         /\ Divides(modp, P) /\ Divides(modp, x) /\ modp \in Int /\ modp # 0
         /\ Invertible(x) => modp \in {1, -1}
         /\ modp \in {1, -1} => Divides(P, 1 - (Signed * x))
         /\ x = 0 => Signed = 0
<1>0. /\ modp \in Int /\ val = 0 /\ result \in Int /\ x \in Int /\ P \in Nat /\ P > 2 /\ P \in Int
      /\ Divides(P, modp - (result * x)) /\ ~Divides(2, modp)
      /\ \A d \in Int : Divides(d, modp) /\ Divides(d, val) => Divides(d, P) /\ Divides(d, x)
      /\ x = 0 => result = 0
  BY Widths DEF IInv, InversionTyped, Whole, Chunked, Finished, Number
<1>1. Divides(modp, P) /\ Divides(modp, x) /\ modp # 0
  <2>1. Divides(modp, modp) /\ Divides(modp, 0)
    BY <1>0, DividesItself
  <2>. QED BY <1>0, <2>1, OddEven
<1>2. Signed \in Int /\ (x = 0 => Signed = 0)
  BY <1>0 DEF Signed
<1>3. ASSUME Invertible(x) PROVE modp \in {1, -1}
  <2>1. PICK y \in Residue : (x * y) % P = 1
    BY <1>3 DEF Invertible
  <2>. DEFINE s == x * y
  <2>2. y \in Int /\ s \in Int /\ s % P = 1
    <3>1. y \in Int
      BY <1>0 DEF Residue
    <3>. QED BY <1>0, <2>1, <3>1
  <2>3. Divides(modp, s)
    BY <1>0, <1>1, <2>2, DividesMultiple
  <2>. HIDE DEF s
  <2>4. Divides(P, s - 1)
    <3>1. P \in Nat /\ P > 1
      BY <1>0
    <3>. QED BY <2>2, <3>1, RemainderOne
  <2>5. s - 1 \in Int
    BY <2>2
  <2>6. Divides(modp, s - 1)
    BY <1>0, <1>1, <2>4, <2>5, DividesThrough
  <2>7. Divides(modp, s - (s - 1)) /\ s - (s - 1) = 1
    BY <1>0, <2>2, <2>3, <2>5, <2>6, DividesSum
  <2>8. PICK j \in Int : 1 = modp * j
    BY <2>7 DEF Divides
  <2>9. CASE modp >= 1
    <3>1. j >= 1
      BY <1>0, <2>8, <2>9
    <3>2. modp * j >= modp
      BY <1>0, <2>9, <3>1
    <3>. QED BY <1>0, <2>8, <2>9, <3>2
  <2>10. CASE modp <= -1
    <3>1. j <= -1
      BY <1>0, <2>8, <2>10
    <3>2. modp * j >= -modp
      BY <1>0, <2>10, <3>1
    <3>. QED BY <1>0, <2>8, <2>10, <3>2
  <2>. QED BY <1>0, <1>1, <2>9, <2>10
<1>4. ASSUME modp \in {1, -1} PROVE Divides(P, 1 - (Signed * x))
  <2>1. CASE modp = 1
    <3>1. Signed = result
      BY <2>1 DEF Signed
    <3>. QED BY <1>0, <2>1, <3>1
  <2>2. CASE modp = -1
    <3>1. Signed = -result
      BY <2>2 DEF Signed
    <3>. DEFINE f == modp - (result * x)
    <3>2. f \in Int /\ f * (-1) = 1 - ((-result) * x)
      BY <1>0, <2>2
    <3>3. Divides(P, f)
      BY <1>0
    <3>. HIDE DEF f
    <3>4. Divides(P, f * (-1))
      BY <1>0, <3>2, <3>3, DividesMultiple
    <3>. QED BY <3>1, <3>2, <3>4
  <2>. QED BY <1>4, <2>1, <2>2
<1>. QED BY <1>0, <1>1, <1>2, <1>3, <1>4

\* Whatever is congruent to the coefficient is the inverse as well.
LEMMA Congruent ==
  ASSUME NEW n \in Int, NEW y \in Int, NEW k \in Int, Divides(P, y - n), Divides(P, 1 - (n * k))
  PROVE  (y * k) % P = 1
<1>. DEFINE u == y - n
            h == 1 - (n * k)
            s == y * k
<1>1. u \in Int /\ h \in Int /\ s \in Int /\ (u * k) - h = s - 1 /\ P \in Int /\ P \in Nat /\ P > 1
  BY Widths
<1>2. Divides(P, u) /\ Divides(P, h)
  OBVIOUS
<1>. HIDE DEF u, h, s
<1>3. u * k \in Int /\ Divides(P, u * k)
  <2>1. Divides(P, u * k)
    BY <1>1, <1>2, DividesMultiple
  <2>. QED BY <1>1, <2>1
<1>4. Divides(P, (u * k) - h)
  BY <1>1, <1>2, <1>3, DividesSum
<1>. QED BY <1>1, <1>4, RemainderOne DEF s

LEMMA FinishKeeps ==
  ASSUME IInv, Finish, UNCHANGED a
  PROVE  IInv'
<1>0. /\ step = "finish" /\ step' = "inverted" /\ x \in Int
      /\ result' = IF device THEN TopWordCleared(Signed) ELSE Normalised(Signed)
      /\ UNCHANGED <<device, first, modp, val, co, p, v, m, kbnt, cnt, x>>
      /\ P \in Int
  BY Widths DEF Finish, IInv, InversionTyped, Number
<1>1. /\ Signed \in Int
      /\ Invertible(x) => Divides(P, 1 - (Signed * x))
      /\ x = 0 => Signed = 0
  BY <1>0, DivisorFacts
<1>. DEFINE n == Signed
            y == TopWordCleared(Signed)
<1>2. n \in Int /\ y \in Number /\ y \in Int /\ Divides(P, y - n) /\ (n = 0 => y = 0)
  BY <1>1, TopWordFacts, Widths DEF Number
<1>3. n \in Int /\ Divides(P, 1 - (n * x)) => (y * x) % P = 1
  <2>. HIDE DEF n, y
  <2>. QED BY <1>0, <1>2, Congruent
<1>4. Inverse'
  <2>1. SUFFICES ASSUME device PROVE InverseExact'
    BY <1>0 DEF Inverse
  <2>2. result' = y /\ x' = x /\ device' = device
    BY <1>0, <2>1
  <2>3. Invertible(x') => (result' * x') % P = 1
    BY <1>1, <1>3, <2>2 DEF Invertible
  <2>4. x' = 0 => result' = 0
    BY <1>1, <1>2, <2>2
  <2>. QED BY <1>2, <2>1, <2>2, <2>3, <2>4 DEF InverseExact
<1>5. result' \in Int
  <2>1. CASE device
    BY <1>0, <1>2, <2>1
  <2>2. CASE ~device
    <3>1. Normalised(n) \in Int
      <4>. HIDE DEF n
      <4>. QED BY <1>0, <1>2 DEF Normalised
    <3>. QED BY <1>0, <2>2, <3>1
  <2>. QED BY <2>1, <2>2
<1>6. InversionTyped'
  BY <1>0, <1>5 DEF IInv, InversionTyped, Steps
<1>. QED BY <1>0, <1>4, <1>6 DEF IInv, Fresh, Whole, Chunked, InChunk, Finished

-------------------------------------------------------------------------------
(* Theorems                                                                *)

LEMMA UnitStarts ==
  ASSUME UnitInit
  PROVE  IInv
<1>0. R \in Nat /\ R > 0 /\ P \in Int /\ C \in Nat
  BY Widths
<1>1. a \in Number
  <2>1. CASE Init
    BY <2>1, TriedAssumption DEF Init
  <2>2. CASE NoCall
    BY <1>0, <2>2 DEF NoCall, Number
  <2>. QED BY <2>1, <2>2 DEF UnitInit
<1>2. Idle
  BY DEF UnitInit
<1>. QED BY <1>0, <1>1, <1>2
         DEF IInv, InversionTyped, Idle, Identity, Number, Steps, Fresh, Whole, Chunked, InChunk, Finished, Inverse

LEMMA InvertKeeps ==
  ASSUME IInv, Invert
  PROVE  IInv'
<1>. PICK dev \in BOOLEAN : Begin(a, dev)
  BY DEF Invert
<1>0. /\ step = "idle" /\ step' = "chunk" /\ x' = a /\ val' = a /\ device' = dev /\ a' = a
      /\ UNCHANGED <<first, modp, result, co, p, v, m, kbnt, cnt>>
  BY DEF Begin, Invert, vars
<1>1. modp = P /\ result = 0 /\ co = 1 /\ a \in Number
  BY <1>0 DEF IInv, Fresh, InversionTyped
<1>2. R \in Nat /\ P \in Int /\ P \in -(R-1)..R-1 /\ a \in Int /\ a \in -(R-1)..R-1
  BY <1>1, Widths DEF Number
<1>3. Divides(P, P - (0 * a)) /\ Divides(P, a - (1 * a))
  <2>1. P - (0 * a) = P /\ a - (1 * a) = 0
    BY <1>2
  <2>. QED BY <1>2, <2>1, DividesItself
<1>4. Whole'
  BY <1>0, <1>1, <1>2, <1>3, OddModulus DEF Whole
<1>5. InversionTyped'
  BY <1>0, <1>1, <1>2 DEF IInv, InversionTyped, Steps
<1>. QED BY <1>0, <1>4, <1>5 DEF IInv, Fresh, InChunk, Finished, Inverse

LEMMA UnitKeeps ==
  ASSUME IInv, [UnitNext]_uvars
  PROVE  IInv'
<1>1. CASE UNCHANGED <<ivars, a>>
  BY <1>1 DEF IInv, ivars, InversionTyped, Fresh, Whole, InChunk, Related, Short, Finished, Inverse,
              InverseExact, Invertible
<1>2. CASE Call
  <2>1. UNCHANGED a
    BY <1>2 DEF Call, Next, Return, Neg, Add, Sub, Sub3, Prefix, HostAdd, HostSub, HostMul, Over, vars
  <2>. QED BY <1>1, <1>2, <2>1 DEF Call
<1>3. CASE Invert
  BY <1>3, InvertKeeps
<1>4. CASE Inverting
  <2>1. UNCHANGED a /\ (Chunk \/ Divide \/ Update \/ Finish)
    BY <1>4 DEF Inverting, InversionNext, vars
  <2>. QED BY <2>1, ChunkKeeps, DivideKeeps, UpdateKeeps, FinishKeeps
<1>5. CASE Inverted
  BY <1>1, <1>5 DEF Inverted, uvars, vars
<1>6. CASE Multiplying
  BY <1>1, <1>6 DEF Multiplying, vars
<1>7. CASE Fold
  BY <1>1, <1>7 DEF Fold
<1>8. CASE UNCHANGED uvars
  BY <1>1, <1>8 DEF uvars, vars
<1>. QED BY <1>2, <1>3, <1>4, <1>5, <1>6, <1>7, <1>8 DEF UnitNext

\* The numbers of an inversion, its matrix and its words stay related as long as it lasts, whatever the
\* widths (inv_mod, EcInt::InvModP).
THEOREM InversionInvariant == UnitSpec => []IInv
<1>1. UnitInit => IInv
  BY UnitStarts
<1>2. IInv /\ [UnitNext]_uvars => IInv'
  BY UnitKeeps
<1>. QED BY <1>1, <1>2, PTL DEF UnitSpec

\* What inv_mod returns of any number is its inverse, in four limbs; of 0 it is 0 (Math.cuh).
THEOREM DeviceInverseCorrect == UnitSpec => [](device => InverseExact)
<1>1. IInv => (device => InverseExact)
  BY DEF IInv, Inverse, InverseExact
<1>. QED BY <1>1, InversionInvariant, PTL

LEMMA MatrixIsShort ==
  ASSUME IInv
  PROVE  /\ MatrixFits
         /\ step \in {"divide", "update"} => \A k \in 0..3 : m[k] \in -Pow2[C]..Pow2[C]
<1>. SUFFICES ASSUME step \in {"divide", "update"}
              PROVE  \A k \in 0..3 : m[k] \in -Half..Half-1 /\ m[k] \in -Pow2[C]..Pow2[C]
  BY DEF MatrixFits
<1>. DEFINE t == Pow2[C - cnt]
<1>1. m[0] \in Int /\ m[1] \in Int /\ m[2] \in Int /\ m[3] \in Int /\ cnt \in 0..C /\ C \in Nat
  BY Widths DEF IInv, InversionTyped
<1>2. t \in Nat /\ t <= Pow2[C] /\ Pow2[C] \in Nat \ {0} /\ Half = 2 * Pow2[C]
  <2>1. C - cnt \in Nat /\ C - cnt <= C /\ C <= C + 2
    BY <1>1
  <2>. QED BY <1>1, <2>1, Pow2Divides, HalfFacts
<1>3. Short(m[0], m[1], t) /\ Short(m[2], m[3], t)
  BY DEF IInv, InChunk
<1>. HIDE DEF t
<1>4. m[0] \in -t..t /\ m[1] \in -t..t /\ m[2] \in -t..t /\ m[3] \in -t..t
  BY <1>1, <1>2, <1>3 DEF Short
<1>5. ASSUME NEW k \in 0..3 PROVE m[k] \in -t..t
  <2>1. k = 0 \/ k = 1 \/ k = 2 \/ k = 3
    OBVIOUS
  <2>. QED BY <1>4, <2>1
<1>. QED BY <1>2, <1>5

\* A product of a number within l on either side and one within t.
LEMMA ProductBound ==
  ASSUME NEW t \in Nat, NEW l \in Nat, NEW n \in -l..l, NEW k \in -t..t
  PROVE  n * k <= t * l /\ n * k >= -(t * l)
<1>1. Short(k, 0, t) /\ k \in Int /\ 0 \in -l..l
  BY DEF Short
<1>2. (n * k) + (0 * 0) <= t * l /\ (n * k) + (0 * 0) >= -(t * l)
  BY <1>1, RowBound
<1>. QED BY <1>1, <1>2

LEMMA NumbersAreShort ==
  ASSUME IInv
  PROVE  NumbersFit
<1>. SUFFICES ASSUME step = "update"
              PROVE  {modp * m[0], val * m[1], modp * m[2], val * m[3], Sums.modp, Sums.val} \subseteq Wide
  BY DEF NumbersFit
<1>. DEFINE t == Pow2[C]
            l == R - 1
<1>1. l \in Nat /\ t \in Nat \ {0} /\ Half = 2 * t /\ modp \in -l..l /\ val \in -l..l /\ R = l + 1
  BY HalfFacts, Widths DEF IInv, Whole, Chunked
<1>2. m[0] \in -t..t /\ m[1] \in -t..t /\ m[2] \in -t..t /\ m[3] \in -t..t
  BY MatrixIsShort
<1>. HIDE DEF l, t
<1>3. ASSUME NEW n \in Int, n <= t * l, n >= -(t * l) PROVE n \in Wide
  <2>1. R * Half = (2 * (t * l)) + (2 * t)
    BY <1>1
  <2>2. t * l \in Nat
    BY <1>1
  <2>. QED BY <1>1, <1>3, <2>1, <2>2 DEF Wide
<1>4. ASSUME NEW n \in -l..l, NEW k \in -t..t PROVE n * k \in Wide
  <2>1. n * k <= t * l /\ n * k >= -(t * l) /\ n * k \in Int
    BY <1>1, ProductBound
  <2>. QED BY <1>3, <2>1
<1>5. Sums.modp \in Wide /\ Sums.val \in Wide
  <2>1. PICK y \in Int, z \in Int :
           /\ Sums.modp = t * y /\ Sums.val = t * z
           /\ y \in -l..l /\ z \in -l..l
    BY NumbersDivisible DEF t, l
  <2>2. t \in -t..t
    BY <1>1
  <2>3. y * t = t * y /\ z * t = t * z
    BY <1>1, <2>1
  <2>4. y * t \in Wide /\ z * t \in Wide
    BY <1>4, <2>1, <2>2
  <2>. QED BY <2>1, <2>3, <2>4
<1>6. modp * m[0] \in Wide /\ val * m[1] \in Wide /\ modp * m[2] \in Wide /\ val * m[3] \in Wide
  BY <1>1, <1>2, <1>4
<1>. QED BY <1>5, <1>6

LEMMA NothingLost ==
  ASSUME IInv
  PROVE  NothingIsShiftedOut /\ RelationKept
<1>1. ASSUME step = "update" PROVE \A n \in {Sums.modp, Sums.val, Sums.result, Sums.co} : n % Pow2[C] = 0
  <2>1. Pow2[C] \in Nat \ {0}
    BY HalfFacts
  <2>2. \A j \in Int : (Pow2[C] * j) % Pow2[C] = 0
    BY <2>1
  <2>. QED BY <1>1, <2>2, NumbersDivisible, CoefficientsDivisible
<1>2. ASSUME step \in {"chunk", "finish"}
      PROVE  (modp - (result * x)) % P = 0 /\ (val - (co * x)) % P = 0
  <2>. DEFINE f == modp - (result * x)
              g == val - (co * x)
  <2>1. f \in Int /\ g \in Int /\ P \in Nat \ {0}
    BY Widths DEF IInv, InversionTyped, Number
  <2>2. Divides(P, f) /\ Divides(P, g)
    BY <1>2 DEF IInv, Whole, Chunked
  <2>. HIDE DEF f, g
  <2>3. f % P = 0 /\ g % P = 0
    BY <2>1, <2>2, DividesMod
  <2>. QED BY <2>3 DEF f, g
<1>. QED BY <1>1, <1>2 DEF NothingIsShiftedOut, RelationKept

\* A chunk that saw only the low words makes the whole numbers divisible, and neither its matrix nor the
\* numbers outgrow their registers; that the coefficients do not is the hypothesis.
THEOREM ChunkCorrect == UnitSpec => [](CoefficientsFit => ChunkIsExact)
<1>1. IInv => (CoefficientsFit => ChunkIsExact)
  BY MatrixIsShort, NumbersAreShort, NothingLost DEF ChunkIsExact
<1>. QED BY <1>1, InversionInvariant, PTL

LEMMA HostFinishes ==
  ASSUME IInv, Finish, ~device, Signed \in -(2*P) .. (3*P)-1
  PROVE  InverseExact'
<1>. DEFINE n == Signed
<1>0. /\ step = "finish" /\ result' = Normalised(n) /\ x' = x /\ ~device' /\ x \in Int
      /\ P \in Nat /\ P > 2
  BY Widths DEF Finish, IInv, InversionTyped, Number
<1>1. /\ n \in Int
      /\ Divides(modp, P) /\ modp \in Int /\ modp # 0
      /\ Invertible(x) => modp \in {1, -1}
      /\ modp \in {1, -1} => Divides(P, 1 - (n * x))
      /\ x = 0 => n = 0
  BY <1>0, DivisorFacts
<1>. DEFINE g == IF modp < 0 THEN -modp ELSE modp
            w == 2*Half
<1>2. w \in Nat /\ w > 1
  BY HalfFacts
<1>3. n \in -(2*P) .. (3*P)-1
  OBVIOUS
<1>. HIDE DEF n
<1>4. CASE modp \in {1, -1}
  <2>1. g = 1 /\ 1 % w = 1
    <3>1. 1 - 1 = 0 /\ Divides(w, 0)
      BY <1>2, DividesItself
    <3>. HIDE DEF w
    <3>2. 1 % w = 1
      BY <1>2, <3>1, RemainderOne
    <3>. QED BY <1>4, <3>2
  <2>2. PICK k \in -2..2 : Normalised(n) = n + (P * k) /\ n + (P * k) \in Residue
    <3>1. g % w = 1
      BY <2>1
    <3>. DEFINE up == IF n >= 0 THEN n ELSE IF n + P >= 0 THEN n + P ELSE n + (2*P)
                dn == IF up \in Residue THEN up ELSE up - P
                nn == IF dn \in Residue THEN dn ELSE dn - P
    <3>2. Normalised(n) = nn
      BY <3>1 DEF Normalised
    <3>3. \E k \in -2..2 : nn = n + (P * k) /\ nn \in Residue
      <4>1. nn \in Residue /\ nn \in {n + (P * 2), n + (P * 1), n + (P * 0), n + (P * (-1)), n + (P * (-2))}
        BY <1>0, <1>3 DEF Residue
      <4>. HIDE DEF nn
      <4>2. 2 \in -2..2 /\ 1 \in -2..2 /\ 0 \in -2..2 /\ -1 \in -2..2 /\ -2 \in -2..2
        OBVIOUS
      <4>. QED BY <4>1, <4>2
    <3>. QED BY <3>2, <3>3
  <2>. DEFINE y == n + (P * k)
  <2>3. y \in Int /\ Divides(P, y - n) /\ y \in Residue /\ result' = y
    <3>1. y - n = P * k
      BY <1>0, <1>1
    <3>2. y \in Int
      BY <1>0, <1>1
    <3>3. Divides(P, y - n)
      <4>1. k \in Int
        BY <2>2
      <4>. HIDE DEF y
      <4>. QED BY <3>1, <4>1 DEF Divides
    <3>. QED BY <1>0, <2>2, <3>2, <3>3
  <2>4. (y * x) % P = 1
    <3>. HIDE DEF y
    <3>1. Divides(P, 1 - (n * x))
      BY <1>1, <1>4
    <3>. QED BY <1>0, <1>1, <2>3, <3>1, Congruent
  <2>. HIDE DEF y
  <2>5. Invertible(x)
    <3>1. y * x = x * y
      BY <1>0, <2>3
    <3>. QED BY <2>3, <2>4, <3>1 DEF Invertible
  <2>6. x # 0
    <3>1. x = 0 => y * x = 0
      BY <2>3
    <3>2. 0 % P = 0
      BY <1>0
    <3>. QED BY <2>4, <3>1, <3>2
  <2>. QED BY <1>0, <2>3, <2>4, <2>5, <2>6 DEF InverseExact, Invertible
<1>5. CASE modp \notin {1, -1}
  <2>1. g \in Nat /\ g > 1
    BY <1>1, <1>5
  <2>2. PICK j \in Int : P = g * j
    <3>1. PICK j \in Int : P = modp * j
      BY <1>1 DEF Divides
    <3>2. P = (-modp) * (-j) /\ -j \in Int
      BY <1>1, <3>1
    <3>. QED BY <3>1, <3>2
  <2>. HIDE DEF g
  <2>3. g <= P
    <3>1. j >= 1
      <4>1. ASSUME j <= 0 PROVE FALSE
        <5>1. g * j <= 0
          BY <2>1, <4>1
        <5>. QED BY <1>0, <2>2, <5>1
      <4>. QED BY <4>1
    <3>2. g * j >= g
      BY <2>1, <3>1
    <3>. QED BY <2>2, <3>2
  <2>4. P % g = 0
    BY <2>1, <2>2, DividesMod DEF Divides
  <2>5. g = P
    <3>1. \A d \in 2..P-1 : P % d # 0
      BY PrimeAssumption
    <3>2. g < P => g \in 2..P-1
      BY <1>0, <2>1
    <3>3. ~(g < P)
      BY <2>4, <3>1, <3>2
    <3>. QED BY <1>0, <2>1, <2>3, <3>3
  <2>6. g % w # 1
    BY <2>5, PrimeAssumption
  <2>7. Normalised(n) = 0
    BY <2>6 DEF Normalised, g
  <2>8. ~Invertible(x) /\ 0 \in Residue
    BY <1>0, <1>1, <1>5 DEF Residue
  <2>. QED BY <1>0, <2>7, <2>8 DEF InverseExact, Invertible
<1>. QED BY <1>4, <1>5

\* InvModP returns the reduced inverse, and 0 for what has none: adding P twice or taking it away twice is
\* enough for every coefficient from -2P to 3P - 1 (EcInt.cpp).
THEOREM HostInverseCorrect ==
  UnitSpec => [][(Finish /\ ~device /\ Signed \in -(2*P) .. (3*P)-1) => InverseExact']_uvars
<1>1. IInv /\ [UnitNext]_uvars
        => [(Finish /\ ~device /\ Signed \in -(2*P) .. (3*P)-1) => InverseExact']_uvars
  BY HostFinishes
<1>. QED BY <1>1, InversionInvariant, PTL DEF UnitSpec

-------------------------------------------------------------------------------
(* The double-width product                                                *)
(*                                                                         *)
(* The pairs of words multiplied so far are a set; what the accumulators,  *)
(* the running carry and the lost carries are worth together is the total  *)
(* of the product table over that set.  No step overflows, since the whole *)
(* table is worth less than W^(2N).                                        *)

-------------------------------------------------------------------------------
(* Sums                                                                    *)

\* s[k] is f[0] + ... + f[k-1].
Adds(s, f, n) ==
  s \in [0..n -> Int] /\ s[0] = 0 /\ \A i \in 0..n-1 : s[i+1] = s[i] + f[i]

Sum(f, n) == (CHOOSE s : Adds(s, f, n))[n]

Summable(f, n) == \A i \in 0..n-1 : f[i] \in Int

LEMMA SumsUnique ==
  ASSUME NEW n \in Nat, NEW at \in 0..n, NEW f, NEW s, NEW t, Adds(s, f, n), Adds(t, f, at)
  PROVE  \A k \in 0..at : s[k] = t[k]
<1>. DEFINE T == {k \in 0..at : s[k] = t[k]}
<1>1. 0 \in T
  BY DEF Adds
<1>2. ASSUME NEW k \in 0..at-1, k \in T PROVE k + 1 \in T
  <2>1. k \in 0..n-1 /\ k + 1 \in 0..at
    OBVIOUS
  <2>. QED BY <1>2, <2>1 DEF Adds
<1>. HIDE DEF T
<1>3. \A k \in 0..at : k \in T
  BY <1>1, <1>2, UpTo
<1>. QED BY <1>3 DEF T

LEMMA SumsExist ==
  ASSUME NEW n \in Nat, NEW f, Summable(f, n)
  PROVE  \E s : Adds(s, f, n)
<1>. DEFINE next == [i \in 1..n |-> [y \in Int |-> y + f[i-1]]]
<1>1. next \in [1..n -> [Int -> Int]]
  <2>1. \A i \in 1..n : f[i-1] \in Int
    BY DEF Summable
  <2>. QED BY <2>1
<1>2. PICK s : Follows(s, n, Int, 0, next)
  <2>1. 0 \in Int
    OBVIOUS
  <2>. HIDE DEF next
  <2>. QED BY <1>1, <2>1, UpwardFunction, Zenon
<1>3. ASSUME NEW i \in 0..n-1 PROVE s[i+1] = s[i] + f[i]
  <2>1. i + 1 \in 1..n /\ (i + 1) - 1 = i /\ i \in 0..n
    OBVIOUS
  <2>2. s[i+1] = next[i+1][s[i]] /\ s[i] \in Int
    BY <1>2, <2>1 DEF Follows
  <2>. QED BY <2>1, <2>2
<1>4. Adds(s, f, n)
  BY <1>2, <1>3 DEF Follows, Adds
<1>. QED BY <1>4

\* A sum is any of the functions that add it up.
LEMMA SumIs ==
  ASSUME NEW n \in Nat, NEW at \in 0..n, NEW f, NEW s, Adds(s, f, n)
  PROVE  Sum(f, at) = s[at] /\ Sum(f, at) \in Int
<1>. DEFINE t == [k \in 0..at |-> s[k]]
<1>1. Adds(t, f, at)
  BY DEF Adds
<1>2. PICK u : Adds(u, f, at) /\ Sum(f, at) = u[at]
  <2>. HIDE DEF t
  <2>. QED BY <1>1 DEF Sum
<1>3. s[at] = u[at]
  BY <1>2, SumsUnique
<1>4. s[at] \in Int
  BY DEF Adds
<1>. QED BY <1>2, <1>3, <1>4

LEMMA SumFacts ==
  ASSUME NEW n \in Nat, NEW f, Summable(f, n)
  PROVE  /\ Sum(f, 0) = 0
         /\ \A k \in 0..n : Sum(f, k) \in Int
         /\ \A k \in 0..n-1 : Sum(f, k+1) = Sum(f, k) + f[k]
<1>1. PICK s : Adds(s, f, n)
  BY SumsExist
<1>2. \A at \in 0..n : Sum(f, at) = s[at] /\ Sum(f, at) \in Int
  BY <1>1, SumIs
<1>3. \A k \in 0..n-1 : k \in 0..n /\ k + 1 \in 0..n
  OBVIOUS
<1>. QED BY <1>1, <1>2, <1>3 DEF Adds

\* Two functions that agree everywhere but at m.
LEMMA SumChange ==
  ASSUME NEW n \in Nat, NEW f, NEW g, NEW at \in 0..n-1, Summable(f, n), Summable(g, n),
         \A i \in 0..n-1 : i # at => g[i] = f[i]
  PROVE  Sum(g, n) = Sum(f, n) + (g[at] - f[at])
<1>. DEFINE T == {k \in 0..n : Sum(g, k) = Sum(f, k) + (IF at < k THEN g[at] - f[at] ELSE 0)}
<1>0. f[at] \in Int /\ g[at] \in Int
  BY DEF Summable
<1>1. 0 \in T
  BY SumFacts
<1>2. ASSUME NEW k \in 0..n-1, k \in T PROVE k + 1 \in T
  <2>1. /\ Sum(f, k+1) = Sum(f, k) + f[k] /\ Sum(g, k+1) = Sum(g, k) + g[k]
        /\ f[k] \in Int /\ g[k] \in Int
    BY SumFacts DEF Summable
  <2>2. Sum(f, k) \in Int /\ Sum(g, k) \in Int
    BY SumFacts
  <2>3. Sum(g, k) = Sum(f, k) + (IF at < k THEN g[at] - f[at] ELSE 0)
    BY <1>2
  <2>4. CASE k = at
    BY <1>0, <2>1, <2>2, <2>3, <2>4
  <2>5. CASE k # at
    <3>1. g[k] = f[k]
      BY <2>5
    <3>2. at < k <=> at < k + 1
      BY <2>5
    <3>. QED BY <1>0, <2>1, <2>2, <2>3, <3>1, <3>2
  <2>. QED BY <2>4, <2>5
<1>. HIDE DEF T
<1>3. n \in T
  BY <1>1, <1>2, UpTo
<1>. QED BY <1>3 DEF T

LEMMA SumAtMost ==
  ASSUME NEW n \in Nat, NEW f, NEW g, Summable(f, n), Summable(g, n),
         \A i \in 0..n-1 : f[i] <= g[i]
  PROVE  Sum(f, n) <= Sum(g, n)
<1>. DEFINE T == {k \in 0..n : Sum(f, k) <= Sum(g, k)}
<1>1. 0 \in T
  BY SumFacts
<1>2. ASSUME NEW k \in 0..n-1, k \in T PROVE k + 1 \in T
  <2>1. /\ Sum(f, k+1) = Sum(f, k) + f[k] /\ Sum(g, k+1) = Sum(g, k) + g[k]
        /\ f[k] \in Int /\ g[k] \in Int
    BY SumFacts DEF Summable
  <2>2. Sum(f, k) \in Int /\ Sum(g, k) \in Int
    BY SumFacts
  <2>. QED BY <1>2, <2>1, <2>2
<1>. HIDE DEF T
<1>3. n \in T
  BY <1>1, <1>2, UpTo
<1>. QED BY <1>3 DEF T

LEMMA SumScaled ==
  ASSUME NEW n \in Nat, NEW f, NEW g, NEW y \in Int, Summable(f, n), Summable(g, n),
         \A i \in 0..n-1 : g[i] = y * f[i]
  PROVE  Sum(g, n) = y * Sum(f, n)
<1>. DEFINE T == {k \in 0..n : Sum(g, k) = y * Sum(f, k)}
<1>1. 0 \in T
  BY SumFacts
<1>2. ASSUME NEW k \in 0..n-1, k \in T PROVE k + 1 \in T
  <2>1. /\ Sum(f, k+1) = Sum(f, k) + f[k] /\ Sum(g, k+1) = Sum(g, k) + g[k]
        /\ f[k] \in Int /\ g[k] = y * f[k]
    BY SumFacts DEF Summable
  <2>2. Sum(f, k) \in Int /\ Sum(g, k) = y * Sum(f, k)
    BY <1>2, SumFacts
  <2>. QED BY <2>1, <2>2
<1>. HIDE DEF T
<1>3. n \in T
  BY <1>1, <1>2, UpTo
<1>. QED BY <1>3 DEF T

LEMMA SumAdded ==
  ASSUME NEW n \in Nat, NEW f, NEW g, NEW h, Summable(f, n), Summable(g, n), Summable(h, n),
         \A i \in 0..n-1 : h[i] = f[i] + g[i]
  PROVE  Sum(h, n) = Sum(f, n) + Sum(g, n)
<1>. DEFINE T == {k \in 0..n : Sum(h, k) = Sum(f, k) + Sum(g, k)}
<1>1. 0 \in T
  BY SumFacts
<1>2. ASSUME NEW k \in 0..n-1, k \in T PROVE k + 1 \in T
  <2>1. /\ Sum(f, k+1) = Sum(f, k) + f[k] /\ Sum(g, k+1) = Sum(g, k) + g[k]
        /\ Sum(h, k+1) = Sum(h, k) + h[k] /\ f[k] \in Int /\ g[k] \in Int /\ h[k] = f[k] + g[k]
    BY SumFacts DEF Summable
  <2>2. Sum(f, k) \in Int /\ Sum(g, k) \in Int /\ Sum(h, k) = Sum(f, k) + Sum(g, k)
    BY <1>2, SumFacts
  <2>. QED BY <2>1, <2>2
<1>. HIDE DEF T
<1>3. n \in T
  BY <1>1, <1>2, UpTo
<1>. QED BY <1>3 DEF T

LEMMA SumZero ==
  ASSUME NEW n \in Nat, NEW f, \A i \in 0..n-1 : f[i] = 0
  PROVE  Sum(f, n) = 0
<1>1. Summable(f, n) /\ \A i \in 0..n-1 : f[i] = 0 * f[i]
  BY DEF Summable
<1>2. Sum(f, n) = 0 * Sum(f, n)
  BY <1>1, SumScaled
<1>3. Sum(f, n) \in Int
  BY <1>1, SumFacts
<1>. QED BY <1>2, <1>3

-------------------------------------------------------------------------------
(* Weights and values                                                      *)

\* The words of an operand: eight of them, of 32 bits, in the code.
Sizes == N \in Nat /\ N > 2 /\ W \in Nat /\ W > 1

LEMMA WeightFacts ==
  ASSUME Sizes
  PROVE  /\ \A i \in 0..2*N+1 : Split!Weight[i] \in Nat \ {0}
         /\ Split!Weight[0] = 1
         /\ \A i \in 0..2*N : Split!Weight[i+1] = W * Split!Weight[i]
<1>. DEFINE Body(f) == [k \in 0..2*N+1 |-> IF k = 0 THEN 1 ELSE W * f[k-1]]
            n == 2*N + 1
<1>0. N \in Nat /\ n \in Nat /\ W \in Nat /\ W > 1
  BY DEF Sizes
<1>1. \E f : f \in [0..n -> Nat] /\ f = Body(f)
  <2>. DEFINE next == [i \in 1..n |-> [y \in Nat |-> W * y]]
  <2>1. next \in [1..n -> [Nat -> Nat]]
    <3>1. \A y \in Nat : W * y \in Nat
      BY <1>0
    <3>. QED BY <3>1
  <2>2. PICK f : Follows(f, n, Nat, 1, next)
    <3>1. 1 \in Nat
      OBVIOUS
    <3>. HIDE DEF next, n
    <3>. QED BY <1>0, <2>1, <3>1, UpwardFunction, Zenon
  <2>3. f \in [0..n -> Nat] /\ f[0] = 1 /\ \A i \in 1..n : f[i] = next[i][f[i-1]]
    BY <2>2 DEF Follows
  <2>4. ASSUME NEW i \in 1..n PROVE f[i] = W * f[i-1]
    <3>1. i - 1 \in 0..n
      BY <1>0
    <3>2. f[i-1] \in Nat
      BY <2>3, <3>1
    <3>. QED BY <2>3, <3>2
  <2>5. ASSUME NEW i \in 0..n PROVE f[i] = IF i = 0 THEN 1 ELSE W * f[i-1]
    <3>1. CASE i = 0
      BY <2>3, <3>1
    <3>2. CASE i # 0
      BY <1>0, <2>4, <3>2
    <3>. QED BY <3>1, <3>2
  <2>6. f = Body(f)
    BY <2>3, <2>5
  <2>. QED BY <2>3, <2>6
<1>2. Split!Weight = Body(Split!Weight)
  BY <1>1 DEF Split!Weight
<1>3. Split!Weight[0] = 1 /\ \A i \in 0..2*N : Split!Weight[i+1] = W * Split!Weight[i]
  <2>1. \A i \in 0..n : Split!Weight[i] = IF i = 0 THEN 1 ELSE W * Split!Weight[i-1]
    BY <1>2
  <2>2. \A i \in 0..2*N : i + 1 \in 0..n /\ i + 1 # 0 /\ (i + 1) - 1 = i
    BY <1>0
  <2>. QED BY <1>0, <2>1, <2>2
<1>. DEFINE T == {i \in 0..n : Split!Weight[i] \in Nat /\ Split!Weight[i] > 0}
<1>4. \A i \in 0..n : i \in T
  <2>1. 0 \in T
    BY <1>0, <1>3
  <2>2. ASSUME NEW i \in 0..n-1, i \in T PROVE i + 1 \in T
    <3>1. Split!Weight[i+1] = W * Split!Weight[i] /\ Split!Weight[i] \in Nat /\ Split!Weight[i] > 0
      BY <1>0, <1>3, <2>2
    <3>2. \A y \in Nat : y > 0 => W * y \in Nat /\ W * y > 0
      BY <1>0
    <3>. QED BY <1>0, <3>1, <3>2
  <2>. HIDE DEF T, n
  <2>. QED BY <1>0, <2>1, <2>2, UpTo
<1>. QED BY <1>3, <1>4

LEMMA WeightSum ==
  ASSUME Sizes, NEW i \in Nat, NEW j \in Nat, i + j <= 2*N + 1
  PROVE  Split!Weight[i+j] = Split!Weight[i] * Split!Weight[j]
<1>. DEFINE n == 2*N + 1 - i
            T == {k \in 0..n : Split!Weight[i+k] = Split!Weight[i] * Split!Weight[k]}
<1>0. N \in Nat /\ W \in Nat /\ n \in Nat /\ j \in 0..n /\ i \in 0..2*N+1
  BY DEF Sizes
<1>1. 0 \in T
  <2>1. i + 0 = i /\ Split!Weight[i] \in Nat /\ Split!Weight[0] = 1
    BY <1>0, WeightFacts
  <2>. QED BY <1>0, <2>1
<1>2. ASSUME NEW k \in 0..n-1, k \in T PROVE k + 1 \in T
  <2>1. k \in 0..2*N /\ i + k \in 0..2*N /\ k \in 0..2*N+1 /\ i + (k + 1) = (i + k) + 1
    BY <1>0
  <2>2. Split!Weight[i+k] = Split!Weight[i] * Split!Weight[k]
    BY <1>2
  <2>3. Split!Weight[k+1] = W * Split!Weight[k] /\ Split!Weight[(i+k)+1] = W * Split!Weight[i+k]
    BY <2>1, WeightFacts
  <2>4. Split!Weight[i] \in Nat /\ Split!Weight[k] \in Nat
    BY <1>0, <2>1, WeightFacts
  <2>5. Split!Weight[i + (k + 1)] = Split!Weight[i] * Split!Weight[k+1]
    BY <1>0, <2>1, <2>2, <2>3, <2>4
  <2>. QED BY <1>0, <2>5
<1>. HIDE DEF T, n
<1>3. \A k \in 0..n : k \in T
  BY <1>0, <1>1, <1>2, UpTo
<1>. QED BY <1>0, <1>3 DEF T

\* The first n words of a number.
Words(words, n) == \A i \in 0..n-1 : words[i] \in 0..W-1

Weighed(words) == [i \in 0..2*N |-> words[i] * Split!Weight[i]]

LEMMA WeighedFacts ==
  ASSUME Sizes, NEW n \in 0..2*N, NEW words, Words(words, n)
  PROVE  /\ Summable(Weighed(words), n)
         /\ \A i \in 0..n-1 : Weighed(words)[i] = words[i] * Split!Weight[i]
<1>1. \A i \in 0..n-1 : i \in 0..2*N /\ i \in 0..2*N+1
  BY DEF Sizes
<1>2. \A i \in 0..n-1 : words[i] \in Nat /\ Split!Weight[i] \in Nat
  BY <1>1, WeightFacts DEF Words, Sizes
<1>3. \A i \in 0..n-1 : words[i] * Split!Weight[i] \in Int
  BY <1>2
<1>. QED BY <1>1, <1>3 DEF Weighed, Summable

\* A number is the sum of its words, each at its weight.
LEMMA ValueIsSum ==
  ASSUME Sizes, NEW n \in 0..2*N, NEW words, Words(words, n)
  PROVE  Split!Value(words, n) = Sum(Weighed(words), n)
<1>. DEFINE Body(f) == [k \in 0..n |-> IF k = n THEN 0 ELSE words[k] + W * f[k+1]]
<1>0. n \in Nat /\ W \in Nat /\ 0 \in Int /\ \A i \in 0..n-1 : words[i] \in Int
  BY DEF Words, Sizes
<1>1. \E f : f = Body(f)
  <2>. DEFINE next == [i \in 0..n-1 |-> [y \in Int |-> words[i] + W * y]]
  <2>1. next \in [0..n-1 -> [Int -> Int]]
    <3>1. \A i \in 0..n-1 : \A y \in Int : words[i] + W * y \in Int
      BY <1>0
    <3>. QED BY <3>1
  <2>2. PICK f : Descends(f, n, Int, 0, next)
    <3>. HIDE DEF next
    <3>. QED BY <1>0, <2>1, DownwardFunction, Zenon
  <2>3. f \in [0..n -> Int] /\ f[n] = 0 /\ \A i \in 0..n-1 : f[i] = next[i][f[i+1]]
    BY <2>2 DEF Descends
  <2>4. ASSUME NEW i \in 0..n-1 PROVE f[i] = words[i] + W * f[i+1]
    <3>1. i + 1 \in 0..n
      BY <1>0
    <3>2. f[i+1] \in Int
      BY <2>3, <3>1
    <3>. QED BY <2>3, <3>2
  <2>5. ASSUME NEW i \in 0..n PROVE f[i] = IF i = n THEN 0 ELSE words[i] + W * f[i+1]
    <3>1. CASE i = n
      BY <2>3, <3>1
    <3>2. CASE i # n
      BY <1>0, <2>4, <3>2
    <3>. QED BY <3>1, <3>2
  <2>6. f = Body(f)
    BY <2>3, <2>5
  <2>. QED BY <2>6
<1>2. PICK from : from = Body(from) /\ Split!Value(words, n) = from[0]
  BY <1>1 DEF Split!Value
<1>. DEFINE S == Weighed(words)
            T == {k \in 0..n : from[k] \in Int /\ Split!Weight[k] * from[k] = Sum(S, n) - Sum(S, k)}
<1>3. /\ \A k \in 0..n : Sum(S, k) \in Int /\ Split!Weight[k] \in Nat
      /\ \A k \in 0..n-1 : Sum(S, k+1) = Sum(S, k) + words[k] * Split!Weight[k]
  <2>1. \A k \in 0..n : Split!Weight[k] \in Nat
    BY WeightFacts DEF Sizes
  <2>. HIDE DEF S
  <2>2. Summable(S, n) /\ \A i \in 0..n-1 : S[i] = words[i] * Split!Weight[i]
    BY WeighedFacts DEF S
  <2>. QED BY <1>0, <2>1, <2>2, SumFacts
<1>. HIDE DEF S
<1>4. n \in T
  <2>1. n \in 0..n
    BY <1>0
  <2>2. from[n] = 0
    BY <1>2, <2>1
  <2>. QED BY <1>3, <2>1, <2>2
<1>5. ASSUME NEW k \in 0..n-1, k + 1 \in T PROVE k \in T
  <2>1. k \in 0..n /\ k # n /\ k + 1 \in 0..n /\ k \in 0..2*N
    BY <1>0 DEF Sizes
  <2>2. from[k] = words[k] + W * from[k+1]
    BY <1>2, <2>1
  <2>3. from[k+1] \in Int /\ Split!Weight[k+1] * from[k+1] = Sum(S, n) - Sum(S, k+1)
    BY <1>5
  <2>4. Split!Weight[k+1] = W * Split!Weight[k]
    BY <2>1, WeightFacts
  <2>5. words[k] \in Int /\ Split!Weight[k] \in Nat
    BY <1>0, <1>3, <2>1
  <2>6. Split!Weight[k] * (words[k] + W * from[k+1]) = words[k] * Split!Weight[k] + (W * Split!Weight[k]) * from[k+1]
    BY <1>0, <2>3, <2>5
  <2>7. Sum(S, k+1) = Sum(S, k) + words[k] * Split!Weight[k] /\ Sum(S, k) \in Int /\ Sum(S, n) \in Int
        /\ Sum(S, k+1) \in Int
    BY <1>0, <1>3, <2>1
  <2>8. words[k] * Split!Weight[k] \in Int /\ words[k] + W * from[k+1] \in Int
    BY <1>0, <2>3, <2>5
  <2>9. Split!Weight[k] * from[k] = Sum(S, n) - Sum(S, k)
    BY <2>2, <2>3, <2>4, <2>6, <2>7, <2>8
  <2>. QED BY <2>1, <2>2, <2>8, <2>9
<1>. HIDE DEF T
<1>6. 0 \in T
  BY <1>0, <1>4, <1>5, DownFrom
<1>7. from[0] \in Int /\ Split!Weight[0] * from[0] = Sum(S, n) - Sum(S, 0)
  BY <1>6 DEF T
<1>8. Split!Weight[0] = 1 /\ Sum(S, 0) = 0 /\ Sum(S, n) \in Int
  <2>1. Summable(S, n)
    BY WeighedFacts DEF S
  <2>. QED BY <1>0, <1>3, <2>1, SumFacts, WeightFacts
<1>. QED BY <1>2, <1>7, <1>8 DEF S

LEMMA ValueTop ==
  ASSUME Sizes, NEW n \in 0..2*N-1, NEW words, Words(words, n + 1)
  PROVE  /\ Split!Value(words, n) \in Int
         /\ Split!Value(words, n + 1) = Split!Value(words, n) + words[n] * Split!Weight[n]
<1>. DEFINE S == Weighed(words)
<1>0. n + 1 \in Nat /\ n \in Nat /\ n \in 0..2*N /\ n + 1 \in 0..2*N /\ n \in 0..(n+1)-1 /\ n \in 0..n+1
  BY DEF Sizes
<1>1. Words(words, n)
  BY <1>0 DEF Words
<1>2. Split!Value(words, n) = Sum(S, n) /\ Split!Value(words, n + 1) = Sum(S, n + 1)
  BY <1>0, <1>1, ValueIsSum
<1>3. Summable(S, n + 1) /\ S[n] = words[n] * Split!Weight[n]
  BY <1>0, WeighedFacts
<1>. HIDE DEF S
<1>. QED BY <1>0, <1>2, <1>3, SumFacts

\* A number of n words is less than the weight of the next word.
LEMMA ValueFits ==
  ASSUME Sizes, NEW n \in 0..2*N, NEW words, Words(words, n)
  PROVE  Split!Value(words, n) \in Nat /\ Split!Value(words, n) < Split!Weight[n]
<1>. DEFINE T == {k \in 0..n : Split!Value(words, k) \in Nat /\ Split!Value(words, k) < Split!Weight[k]}
<1>0. n \in Nat /\ W \in Nat /\ W > 1
  BY DEF Sizes
<1>1. 0 \in T
  <2>1. Words(words, 0) /\ 0 \in 0..2*N /\ 0 \in Nat /\ 0 \in 0..n
    BY <1>0 DEF Words, Sizes
  <2>2. Split!Value(words, 0) = Sum(Weighed(words), 0)
    BY <2>1, ValueIsSum
  <2>3. Summable(Weighed(words), 0)
    BY <2>1, WeighedFacts
  <2>4. Sum(Weighed(words), 0) = 0
    BY <2>1, <2>3, SumFacts
  <2>. QED BY <2>1, <2>2, <2>4, WeightFacts
<1>2. ASSUME NEW k \in 0..n-1, k \in T PROVE k + 1 \in T
  <2>1. k \in 0..2*N-1 /\ k \in 0..2*N /\ k \in 0..2*N+1 /\ k + 1 \in 0..n
    BY <1>0 DEF Sizes
  <2>2. Words(words, k + 1) /\ words[k] \in 0..W-1
    BY <1>0 DEF Words
  <2>3. Split!Value(words, k + 1) = Split!Value(words, k) + words[k] * Split!Weight[k]
    BY <2>1, <2>2, ValueTop
  <2>4. Split!Weight[k] \in Nat /\ Split!Weight[k+1] = W * Split!Weight[k]
    BY <2>1, WeightFacts
  <2>5. Split!Value(words, k) \in Nat /\ Split!Value(words, k) < Split!Weight[k]
    BY <1>2
  <2>6. words[k] * Split!Weight[k] \in Nat /\ words[k] * Split!Weight[k] <= (W - 1) * Split!Weight[k]
    BY <1>0, <2>2, <2>4
  <2>7. (W - 1) * Split!Weight[k] = W * Split!Weight[k] - Split!Weight[k] /\ W * Split!Weight[k] \in Nat
    BY <1>0, <2>4
  <2>8. Split!Value(words, k + 1) \in Nat /\ Split!Value(words, k + 1) < Split!Weight[k+1]
    BY <2>3, <2>4, <2>5, <2>6, <2>7
  <2>. QED BY <2>1, <2>8
<1>. HIDE DEF T
<1>3. n \in T
  BY <1>0, <1>1, <1>2, UpTo
<1>. QED BY <1>3 DEF T

\* A number with one word changed.
LEMMA ValueChanged ==
  ASSUME Sizes, NEW n \in 0..2*N, NEW words, NEW new, NEW at \in 0..n-1,
         Words(words, n), Words(new, n), \A i \in 0..n-1 : i # at => new[i] = words[i]
  PROVE  Split!Value(new, n) = Split!Value(words, n) + (new[at] - words[at]) * Split!Weight[at]
<1>. DEFINE S == Weighed(words)
            Z == Weighed(new)
<1>0. n \in Nat /\ at \in 0..2*N+1 /\ words[at] \in Int /\ new[at] \in Int
  BY DEF Sizes, Words
<1>1. Split!Value(words, n) = Sum(S, n) /\ Split!Value(new, n) = Sum(Z, n)
  BY ValueIsSum
<1>2. /\ Summable(S, n) /\ Summable(Z, n)
      /\ \A i \in 0..n-1 : S[i] = words[i] * Split!Weight[i] /\ Z[i] = new[i] * Split!Weight[i]
  BY WeighedFacts
<1>. HIDE DEF S, Z
<1>3. Sum(Z, n) = Sum(S, n) + (Z[at] - S[at])
  <2>1. \A i \in 0..n-1 : i # at => Z[i] = S[i]
    BY <1>2
  <2>. QED BY <1>0, <1>2, <2>1, SumChange
<1>4. Z[at] - S[at] = (new[at] - words[at]) * Split!Weight[at]
  <2>1. Split!Weight[at] \in Nat
    BY <1>0, WeightFacts
  <2>2. Z[at] = new[at] * Split!Weight[at] /\ S[at] = words[at] * Split!Weight[at]
    BY <1>2
  <2>. QED BY <1>0, <2>1, <2>2
<1>. QED BY <1>1, <1>3, <1>4

\* A word of an accumulator replaced.
LEMMA WordReplaced ==
  ASSUME Sizes, NEW words \in [Split!Wide -> 0..W-1], NEW at \in Split!Wide, NEW y \in 0..W-1
  PROVE  /\ [words EXCEPT ![at] = y] \in [Split!Wide -> 0..W-1]
         /\ Split!Value([words EXCEPT ![at] = y], 2*N) = Split!Value(words, 2*N) + (y - words[at]) * Split!Weight[at]
<1>. DEFINE new == [words EXCEPT ![at] = y]
<1>1. new \in [Split!Wide -> 0..W-1] /\ new[at] = y /\ \A i \in Split!Wide : i # at => new[i] = words[i]
  OBVIOUS
<1>. HIDE DEF new
<1>2. Words(new, 2*N) /\ Words(words, 2*N) /\ 2*N \in 0..2*N /\ at \in 0..2*N-1
  BY <1>1 DEF Words, Split!Wide, Sizes
<1>3. Split!Value(new, 2*N) = Split!Value(words, 2*N) + (new[at] - words[at]) * Split!Weight[at]
  <2>1. \A i \in 0..2*N-1 : i # at => new[i] = words[i]
    BY <1>1 DEF Split!Wide
  <2>. QED BY <1>2, <2>1, ValueChanged
<1>. QED BY <1>1, <1>3 DEF new

\* Two neighbouring words replaced, as the two multiply-adds of a column do.
LEMMA WordsReplaced ==
  ASSUME Sizes, NEW words \in [Split!Wide -> 0..W-1], NEW at \in Split!Wide, at + 1 \in Split!Wide,
         NEW y \in 0..W-1, NEW z \in 0..W-1,
         NEW both \in [Split!Wide -> 0..W-1], both[at] = y, both[at+1] = z,
         \A k \in Split!Wide : k # at /\ k # at + 1 => both[k] = words[k]
  PROVE  Split!Value(both, 2*N) =
           Split!Value(words, 2*N) + ((y + W * z) - (words[at] + W * words[at+1])) * Split!Weight[at]
<1>. DEFINE mid == [words EXCEPT ![at] = y]
            new == [mid EXCEPT ![at+1] = z]
<1>1. mid \in [Split!Wide -> 0..W-1] /\ Split!Value(mid, 2*N) = Split!Value(words, 2*N) + (y - words[at]) * Split!Weight[at]
  BY WordReplaced
<1>2. mid[at+1] = words[at+1]
  BY DEF Split!Wide
<1>3. both = new
  <2>1. \A k \in Split!Wide : both[k] = new[k]
    BY DEF Split!Wide
  <2>2. new \in [Split!Wide -> 0..W-1]
    OBVIOUS
  <2>. HIDE DEF new
  <2>. QED BY <2>1, <2>2
<1>. HIDE DEF mid
<1>4. /\ new \in [Split!Wide -> 0..W-1]
      /\ Split!Value(new, 2*N) = Split!Value(mid, 2*N) + (z - mid[at+1]) * Split!Weight[at+1]
  BY <1>1, WordReplaced
<1>5. Split!Weight[at+1] = W * Split!Weight[at] /\ Split!Weight[at] \in Nat
  <2>1. at \in 0..2*N /\ at \in 0..2*N+1
    BY DEF Split!Wide, Sizes
  <2>. QED BY <2>1, WeightFacts
<1>6. Split!Value(words, 2*N) \in Int
  <2>1. Words(words, 2*N) /\ 2*N \in 0..2*N
    BY DEF Words, Split!Wide, Sizes
  <2>. QED BY <2>1, ValueFits
<1>7. W \in Nat /\ words[at] \in Int /\ words[at+1] \in Int
  BY DEF Sizes
<1>8. (y - words[at]) * Split!Weight[at] + (z - words[at+1]) * (W * Split!Weight[at]) =
        ((y + W * z) - (words[at] + W * words[at+1])) * Split!Weight[at]
  BY <1>5, <1>7
<1>9. (y - words[at]) * Split!Weight[at] \in Int /\ (z - words[at+1]) * (W * Split!Weight[at]) \in Int
  BY <1>5, <1>7
<1>. HIDE DEF new
<1>10. Split!Value(new, 2*N) =
         Split!Value(words, 2*N) + ((y + W * z) - (words[at] + W * words[at+1])) * Split!Weight[at]
  BY <1>1, <1>2, <1>4, <1>5, <1>6, <1>8, <1>9
<1>. QED BY <1>3, <1>4, <1>10

-------------------------------------------------------------------------------
(* The product table                                                       *)

Operand == [0..N-1 -> 0..W-1]

Pairs == (0..N-1) \X (0..N-1)

\* What row i of the table, and the whole table, is worth over the pairs of D.
Row(y, z, D, i) ==
  [j \in 0..N-1 |-> IF <<i, j>> \in D THEN (y[i] * z[j]) * Split!Weight[i+j] ELSE 0]

Rows(y, z, D) == [i \in 0..N-1 |-> Sum(Row(y, z, D, i), N)]

Total(y, z, D) == Sum(Rows(y, z, D), N)

LEMMA RowFacts ==
  ASSUME Sizes, NEW y \in Operand, NEW z \in Operand, NEW D, NEW i \in 0..N-1
  PROVE  /\ \A j \in 0..N-1 : (y[i] * z[j]) * Split!Weight[i+j] \in Nat
         /\ Summable(Row(y, z, D, i), N)
         /\ Summable(Rows(y, z, D), N)
<1>1. ASSUME NEW k \in 0..N-1, NEW j \in 0..N-1 PROVE (y[k] * z[j]) * Split!Weight[k+j] \in Nat
  <2>1. y[k] \in Nat /\ z[j] \in Nat
    BY DEF Operand, Sizes
  <2>2. k + j \in 0..2*N+1
    BY DEF Sizes
  <2>3. Split!Weight[k+j] \in Nat
    BY <2>2, WeightFacts
  <2>4. y[k] * z[j] \in Nat
    BY <2>1
  <2>. QED BY <2>3, <2>4
<1>2. ASSUME NEW k \in 0..N-1 PROVE Summable(Row(y, z, D, k), N)
  BY <1>1 DEF Summable, Row
<1>3. ASSUME NEW k \in 0..N-1 PROVE Rows(y, z, D)[k] \in Int
  <2>1. N \in Nat /\ N \in 0..N
    BY DEF Sizes
  <2>2. Sum(Row(y, z, D, k), N) \in Int
    BY <1>2, <2>1, SumFacts
  <2>. QED BY <2>2 DEF Rows
<1>. QED BY <1>1, <1>2, <1>3 DEF Summable

LEMMA TotalEmpty ==
  ASSUME Sizes, NEW y \in Operand, NEW z \in Operand
  PROVE  Total(y, z, {}) = 0
<1>0. N \in Nat
  BY DEF Sizes
<1>1. ASSUME NEW i \in 0..N-1 PROVE Rows(y, z, {})[i] = 0
  <2>1. \A j \in 0..N-1 : Row(y, z, {}, i)[j] = 0
    BY DEF Row
  <2>2. Sum(Row(y, z, {}, i), N) = 0
    BY <1>0, <2>1, SumZero
  <2>. QED BY <2>2 DEF Rows
<1>. QED BY <1>0, <1>1, SumZero DEF Total

\* One more pair adds its product.
LEMMA TotalAdded ==
  ASSUME Sizes, NEW y \in Operand, NEW z \in Operand, NEW D,
         NEW i \in 0..N-1, NEW j \in 0..N-1, <<i, j>> \notin D
  PROVE  Total(y, z, D \union {<<i, j>>}) = Total(y, z, D) + (y[i] * z[j]) * Split!Weight[i+j]
<1>. DEFINE E == D \union {<<i, j>>}
            f == Row(y, z, D, i)
            g == Row(y, z, E, i)
            F == Rows(y, z, D)
            G == Rows(y, z, E)
            worth == (y[i] * z[j]) * Split!Weight[i+j]
<1>0. N \in Nat /\ N \in 0..N
  BY DEF Sizes
<1>1. worth \in Int /\ Summable(f, N) /\ Summable(g, N) /\ Summable(F, N) /\ Summable(G, N)
  <2>. HIDE DEF E
  <2>1. worth \in Int
    <3>1. worth \in Nat
      BY RowFacts, Zenon
    <3>. QED BY <3>1
  <2>2. Summable(f, N) /\ Summable(F, N)
    BY RowFacts, Zenon
  <2>3. Summable(g, N) /\ Summable(G, N)
    BY RowFacts, Zenon
  <2>. QED BY <2>1, <2>2, <2>3
<1>2. g[j] = worth /\ f[j] = 0 /\ \A k \in 0..N-1 : k # j => g[k] = f[k]
  <2>1. g[j] = worth /\ f[j] = 0
    <3>1. <<i, j>> \in E
      OBVIOUS
    <3>. HIDE DEF E
    <3>. QED BY <3>1 DEF Row
  <2>2. ASSUME NEW k \in 0..N-1, k # j PROVE g[k] = f[k]
    <3>1. <<i, k>> \in E <=> <<i, k>> \in D
      BY <2>2
    <3>. QED BY <3>1 DEF Row
  <2>. QED BY <2>1, <2>2
<1>3. F[i] = Sum(f, N) /\ G[i] = Sum(g, N)
  BY DEF Rows
<1>4. ASSUME NEW k \in 0..N-1, k # i PROVE G[k] = F[k]
  <2>1. ASSUME NEW l \in 0..N-1 PROVE <<k, l>> \in E <=> <<k, l>> \in D
    BY <1>4
  <2>2. Row(y, z, E, k) = Row(y, z, D, k)
    BY <2>1 DEF Row
  <2>. QED BY <2>2 DEF Rows
<1>5. Total(y, z, D) = Sum(F, N) /\ Total(y, z, E) = Sum(G, N)
  BY Zenon DEF Total
<1>. HIDE DEF f, g, F, G, worth, E
<1>6. Sum(g, N) = Sum(f, N) + (g[j] - f[j])
  <2>1. \A k \in 0..N-1 : k # j => g[k] = f[k]
    BY <1>2
  <2>. QED BY <1>0, <1>1, <2>1, SumChange, Zenon
<1>7. Sum(G, N) = Sum(F, N) + (G[i] - F[i])
  BY <1>0, <1>1, <1>4, SumChange
<1>8. Sum(f, N) \in Int /\ Sum(F, N) \in Int
  BY <1>0, <1>1, SumFacts
<1>9. Total(y, z, E) = Total(y, z, D) + worth
  BY <1>1, <1>2, <1>3, <1>5, <1>6, <1>7, <1>8
<1>. QED BY <1>9 DEF E, worth

\* More pairs are worth no less.
LEMMA TotalAtMost ==
  ASSUME Sizes, NEW y \in Operand, NEW z \in Operand, NEW D, NEW E, D \subseteq E
  PROVE  /\ Total(y, z, D) \in Int
         /\ Total(y, z, D) <= Total(y, z, E)
<1>0. N \in Nat /\ N \in 0..N /\ 0 \in 0..N-1
  BY DEF Sizes
<1>1. ASSUME NEW i \in 0..N-1 PROVE Rows(y, z, D)[i] <= Rows(y, z, E)[i]
  <2>. DEFINE f == Row(y, z, D, i)
              g == Row(y, z, E, i)
  <2>1. Summable(f, N) /\ Summable(g, N)
    BY RowFacts
  <2>2. ASSUME NEW j \in 0..N-1 PROVE f[j] <= g[j]
    <3>1. (y[i] * z[j]) * Split!Weight[i+j] \in Nat
      BY RowFacts
    <3>. DEFINE worth == (y[i] * z[j]) * Split!Weight[i+j]
    <3>2. f[j] = (IF <<i, j>> \in D THEN worth ELSE 0) /\ g[j] = (IF <<i, j>> \in E THEN worth ELSE 0)
      BY DEF Row
    <3>. HIDE DEF f, g, worth
    <3>3. worth \in Nat
      BY <3>1 DEF worth
    <3>4. CASE <<i, j>> \in D
      BY <3>2, <3>3, <3>4
    <3>5. CASE <<i, j>> \notin D
      BY <3>2, <3>3, <3>5
    <3>. QED BY <3>4, <3>5
  <2>. HIDE DEF f, g
  <2>3. Sum(f, N) <= Sum(g, N)
    BY <1>0, <2>1, <2>2, SumAtMost
  <2>. QED BY <2>3 DEF Rows, f, g
<1>2. Summable(Rows(y, z, D), N) /\ Summable(Rows(y, z, E), N)
  BY <1>0, RowFacts
<1>3. Sum(Rows(y, z, D), N) <= Sum(Rows(y, z, E), N)
  BY <1>0, <1>1, <1>2, SumAtMost
<1>4. Sum(Rows(y, z, D), N) \in Int
  BY <1>0, <1>2, SumFacts
<1>. QED BY <1>3, <1>4 DEF Total

\* The whole table is the product.
LEMMA TotalOfAll ==
  ASSUME Sizes, NEW y \in Operand, NEW z \in Operand
  PROVE  Total(y, z, Pairs) = Split!Value(y, N) * Split!Value(z, N)
<1>. DEFINE Y == Weighed(y)
            Z == Weighed(z)
            F == Rows(y, z, Pairs)
<1>0. N \in Nat /\ N \in 0..N /\ N \in 0..2*N
  BY DEF Sizes
<1>1. Words(y, N) /\ Words(z, N)
  BY DEF Words, Operand
<1>2. /\ Split!Value(y, N) = Sum(Y, N) /\ Split!Value(z, N) = Sum(Z, N)
      /\ Summable(Y, N) /\ Summable(Z, N)
      /\ \A i \in 0..N-1 : Y[i] = y[i] * Split!Weight[i] /\ Z[i] = z[i] * Split!Weight[i]
  BY <1>0, <1>1, ValueIsSum, WeighedFacts
<1>. HIDE DEF Y, Z
<1>3. ASSUME NEW i \in 0..N-1 PROVE F[i] = Sum(Z, N) * Y[i]
  <2>. DEFINE g == Row(y, z, Pairs, i)
  <2>1. Summable(g, N)
    BY RowFacts
  <2>2. ASSUME NEW j \in 0..N-1 PROVE g[j] = Y[i] * Z[j]
    <3>1. g[j] = (y[i] * z[j]) * Split!Weight[i+j]
      BY DEF Row, Pairs
    <3>2. i \in Nat /\ j \in Nat /\ i + j <= 2*N + 1 /\ i \in 0..2*N+1 /\ j \in 0..2*N+1
      BY <1>0
    <3>3. Split!Weight[i+j] = Split!Weight[i] * Split!Weight[j]
      BY <3>2, WeightSum
    <3>4. Split!Weight[i] \in Nat /\ Split!Weight[j] \in Nat
      BY <3>2, WeightFacts
    <3>5. y[i] \in Int /\ z[j] \in Int
      BY DEF Operand
    <3>6. (y[i] * z[j]) * (Split!Weight[i] * Split!Weight[j]) = (y[i] * Split!Weight[i]) * (z[j] * Split!Weight[j])
      BY <3>4, <3>5
    <3>. QED BY <1>2, <3>1, <3>3, <3>6
  <2>. HIDE DEF g
  <2>3. Y[i] \in Int
    BY <1>2 DEF Summable
  <2>4. Sum(g, N) = Y[i] * Sum(Z, N)
    BY <1>0, <1>2, <2>1, <2>2, <2>3, SumScaled
  <2>5. Sum(Z, N) \in Int
    BY <1>0, <1>2, SumFacts
  <2>6. Sum(g, N) = Sum(Z, N) * Y[i]
    BY <2>3, <2>4, <2>5
  <2>. QED BY <2>6 DEF g, Rows
<1>4. Summable(F, N)
  <2>1. 0 \in 0..N-1
    BY DEF Sizes
  <2>. QED BY <2>1, RowFacts
<1>5. Sum(Z, N) \in Int /\ Sum(Y, N) \in Int
  BY <1>0, <1>2, SumFacts
<1>. HIDE DEF F
<1>6. Sum(F, N) = Sum(Z, N) * Sum(Y, N)
  BY <1>0, <1>2, <1>3, <1>4, <1>5, SumScaled
<1>7. Sum(F, N) = Sum(Y, N) * Sum(Z, N)
  BY <1>5, <1>6
<1>. QED BY <1>2, <1>7 DEF Total, F

\* Any part of the table is less than W^(2N).
LEMMA TotalFits ==
  ASSUME Sizes, NEW y \in Operand, NEW z \in Operand, NEW D \in SUBSET Pairs
  PROVE  Total(y, z, D) \in Int /\ Total(y, z, D) < Split!Weight[2*N]
<1>0. N \in Nat /\ N \in 0..2*N /\ N + N <= 2*N + 1 /\ N \in 0..2*N+1 /\ N + N = 2*N
  BY DEF Sizes
<1>1. Words(y, N) /\ Words(z, N)
  BY DEF Words, Operand
<1>2. /\ Split!Value(y, N) \in Nat /\ Split!Value(y, N) < Split!Weight[N]
      /\ Split!Value(z, N) \in Nat /\ Split!Value(z, N) < Split!Weight[N]
  BY <1>0, <1>1, ValueFits
<1>3. Split!Weight[2*N] = Split!Weight[N] * Split!Weight[N] /\ Split!Weight[N] \in Nat
  BY <1>0, WeightSum, WeightFacts
<1>4. ASSUME NEW k \in Nat, NEW l \in Nat, NEW at \in Nat, k < at, l < at PROVE k * l < at * at
  <2>1. k * l <= k * at
    BY <1>4
  <2>2. k * at < at * at
    <3>1. (at - k) * at > 0
      BY <1>4
    <3>2. (at - k) * at = at * at - k * at /\ at * at \in Int /\ k * at \in Int
      OBVIOUS
    <3>. QED BY <3>1, <3>2
  <2>. QED BY <2>1, <2>2
<1>5. Split!Value(y, N) * Split!Value(z, N) < Split!Weight[2*N]
  BY <1>2, <1>3, <1>4
<1>6. Total(y, z, D) \in Int /\ Total(y, z, D) <= Total(y, z, Pairs)
  BY TotalAtMost
<1>7. Total(y, z, Pairs) \in Int /\ Total(y, z, Pairs) = Split!Value(y, N) * Split!Value(z, N)
  BY TotalOfAll, TotalAtMost
<1>8. Split!Weight[2*N] \in Int
  <2>1. 2*N \in 0..2*N+1
    BY <1>0
  <2>. QED BY <2>1, WeightFacts
<1>. QED BY <1>5, <1>6, <1>7, <1>8

-------------------------------------------------------------------------------
(* The diagonal of a square                                                *)

OffDiagonal == {d \in Pairs : d[1] # d[2]}

LEMMA DiagonalSummed ==
  ASSUME Sizes, left \in Operand
  PROVE  /\ Split!DiagonalSum \in Nat
         /\ Total(left, left, OffDiagonal) + Split!DiagonalSum = Total(left, left, Pairs)
<1>. DEFINE Body(f) == [k \in 0..N |-> IF k = N THEN 0 ELSE left[k] * left[k] + W * W * f[k+1]]
            G == [k \in 0..N-1 |-> (left[k] * left[k]) * Split!Weight[k+k]]
<1>0. N \in Nat /\ N \in 0..N /\ 0 \in 0..N-1 /\ W \in Nat /\ 0 \in Nat
      /\ \A k \in 0..N-1 : left[k] * left[k] \in Nat
  <2>1. \A k \in 0..N-1 : left[k] \in Nat
    BY DEF Operand, Sizes
  <2>. QED BY <2>1 DEF Sizes
<1>1. \E f : f \in [0..N -> Nat] /\ f = Body(f)
  <2>. DEFINE next == [k \in 0..N-1 |-> [y \in Nat |-> left[k] * left[k] + W * W * y]]
  <2>1. next \in [0..N-1 -> [Nat -> Nat]]
    <3>1. \A k \in 0..N-1 : \A y \in Nat : left[k] * left[k] + W * W * y \in Nat
      BY <1>0
    <3>. QED BY <3>1
  <2>2. PICK f : Descends(f, N, Nat, 0, next)
    <3>. HIDE DEF next
    <3>. QED BY <1>0, <2>1, DownwardFunction, Zenon
  <2>3. f \in [0..N -> Nat] /\ f[N] = 0 /\ \A k \in 0..N-1 : f[k] = next[k][f[k+1]]
    BY <2>2 DEF Descends
  <2>4. ASSUME NEW k \in 0..N-1 PROVE f[k] = left[k] * left[k] + W * W * f[k+1]
    <3>1. k + 1 \in 0..N
      BY <1>0
    <3>2. f[k+1] \in Nat
      BY <2>3, <3>1
    <3>. QED BY <2>3, <3>2
  <2>5. ASSUME NEW k \in 0..N PROVE f[k] = IF k = N THEN 0 ELSE left[k] * left[k] + W * W * f[k+1]
    <3>1. CASE k = N
      BY <2>3, <3>1
    <3>2. CASE k # N
      BY <1>0, <2>4, <3>2
    <3>. QED BY <3>1, <3>2
  <2>6. f = Body(f)
    BY <2>3, <2>5
  <2>. QED BY <2>3, <2>6
<1>2. PICK sq : sq = Body(sq) /\ Split!DiagonalSum = sq[0]
  BY <1>1 DEF Split!DiagonalSum, Split!SquaresSum
<1>3. /\ Summable(G, N)
      /\ \A k \in 0..N-1 : G[k] = (left[k] * left[k]) * Split!Weight[k+k] /\ Split!Weight[k+k] \in Nat
  <2>1. \A k \in 0..N-1 : k + k \in 0..2*N+1
    BY <1>0
  <2>2. \A k \in 0..N-1 : Split!Weight[k+k] \in Nat
    BY <2>1, WeightFacts
  <2>3. \A k \in 0..N-1 : (left[k] * left[k]) * Split!Weight[k+k] \in Nat
    BY <1>0, <2>2
  <2>. QED BY <2>2, <2>3 DEF Summable
<1>. HIDE DEF G
<1>4. /\ Sum(G, 0) = 0 /\ \A k \in 0..N : Sum(G, k) \in Int
      /\ \A k \in 0..N-1 : Sum(G, k+1) = Sum(G, k) + G[k]
  BY <1>0, <1>3, SumFacts
<1>. DEFINE T == {k \in 0..N : sq[k] \in Nat /\ Split!Weight[k+k] * sq[k] = Sum(G, N) - Sum(G, k)}
<1>5. N \in T
  <2>1. sq[N] = 0
    BY <1>0, <1>2
  <2>2. N + N \in 0..2*N+1
    BY <1>0
  <2>3. Split!Weight[N+N] \in Nat
    BY <2>2, WeightFacts
  <2>. QED BY <1>0, <1>4, <2>1, <2>3
<1>6. ASSUME NEW k \in 0..N-1, k + 1 \in T PROVE k \in T
  <2>1. /\ k \in 0..N /\ k # N /\ k + 1 \in 0..N /\ (k + 1) + (k + 1) = (k + k) + 2
        /\ k + k \in Nat /\ (k + k) + 2 <= 2*N + 1
    BY <1>0
  <2>2. sq[k] = left[k] * left[k] + W * W * sq[k+1]
    BY <1>2, <2>1
  <2>3. sq[k+1] \in Nat /\ Split!Weight[(k+k)+2] * sq[k+1] = Sum(G, N) - Sum(G, k+1)
    BY <1>6, <2>1
  <2>4. Split!Weight[(k+k)+2] = Split!Weight[k+k] * (W * W)
    <3>1. Split!Weight[(k+k)+2] = Split!Weight[k+k] * Split!Weight[2]
      BY <2>1, WeightSum
    <3>2. Split!Weight[0] = 1 /\ Split!Weight[0+1] = W * Split!Weight[0] /\ Split!Weight[1+1] = W * Split!Weight[1]
      <4>1. 0 \in 0..2*N /\ 1 \in 0..2*N
        BY DEF Sizes
      <4>. QED BY <4>1, WeightFacts
    <3>3. Split!Weight[2] = W * W
      BY <1>0, <3>2
    <3>. QED BY <3>1, <3>3
  <2>5. Split!Weight[k+k] \in Nat /\ left[k] * left[k] \in Nat /\ W * W \in Nat
    BY <1>0, <1>3
  <2>6. \A u \in Nat, worth \in Nat, w \in Nat, y \in Nat : u * (worth + w * y) = worth * u + (u * w) * y
    OBVIOUS
  <2>7. Split!Weight[k+k] * sq[k] = G[k] + Split!Weight[(k+k)+2] * sq[k+1]
    BY <1>3, <2>2, <2>3, <2>4, <2>5, <2>6
  <2>8. G[k] \in Int /\ Sum(G, k+1) = Sum(G, k) + G[k] /\ Sum(G, k) \in Int /\ Sum(G, N) \in Int
    BY <1>0, <1>3, <1>4, <2>1 DEF Summable
  <2>9. \A u \in Nat, worth \in Nat, w \in Nat : worth + u * w \in Nat
    OBVIOUS
  <2>10. sq[k] \in Nat
    BY <2>2, <2>3, <2>5, <2>9
  <2>11. Split!Weight[k+k] * sq[k] = Sum(G, N) - Sum(G, k)
    BY <2>3, <2>7, <2>8
  <2>. QED BY <2>1, <2>10, <2>11
<1>. HIDE DEF T
<1>7. 0 \in T
  BY <1>0, <1>5, <1>6, DownFrom
<1>8. Split!DiagonalSum \in Nat /\ Split!DiagonalSum = Sum(G, N)
  <2>1. sq[0] \in Nat /\ Split!Weight[0+0] * sq[0] = Sum(G, N) - Sum(G, 0)
    BY <1>7 DEF T
  <2>2. Split!Weight[0+0] = 1
    BY WeightFacts
  <2>. QED BY <1>0, <1>2, <1>4, <2>1, <2>2
<1>. DEFINE F == Rows(left, left, OffDiagonal)
            H == Rows(left, left, Pairs)
<1>9. ASSUME NEW i \in 0..N-1 PROVE H[i] = F[i] + G[i]
  <2>. DEFINE f == Row(left, left, OffDiagonal, i)
              h == Row(left, left, Pairs, i)
  <2>1. Summable(f, N) /\ Summable(h, N)
    BY RowFacts
  <2>2. h[i] = G[i] /\ f[i] = 0
    BY <1>3 DEF Row, Pairs, OffDiagonal
  <2>3. ASSUME NEW j \in 0..N-1, j # i PROVE h[j] = f[j]
    <3>1. <<i, j>> \in Pairs /\ <<i, j>> \in OffDiagonal
      BY <2>3 DEF Pairs, OffDiagonal
    <3>. QED BY <3>1 DEF Row
  <2>4. H[i] = Sum(h, N) /\ F[i] = Sum(f, N)
    BY DEF Rows
  <2>. HIDE DEF f, h, F, H
  <2>5. Sum(h, N) = Sum(f, N) + (h[i] - f[i])
    <3>1. \A j \in 0..N-1 : j # i => h[j] = f[j]
      BY <2>3
    <3>2. i \in 0..N-1 /\ N \in Nat
      BY <1>0
    <3>. QED BY <2>1, <3>1, <3>2, SumChange
  <2>6. G[i] \in Int
    BY <1>3 DEF Summable
  <2>. QED BY <2>2, <2>4, <2>5, <2>6
<1>10. Summable(F, N) /\ Summable(H, N)
  BY <1>0, RowFacts
<1>. HIDE DEF F, H
<1>11. Sum(H, N) = Sum(F, N) + Sum(G, N)
  BY <1>0, <1>3, <1>9, <1>10, SumAdded
<1>. QED BY <1>8, <1>11 DEF Total, F, H

-------------------------------------------------------------------------------
(* The order of the pairs                                                  *)

ColumnOf(d) == d[1] + d[2]

\* The pass that multiplies a pair.
PassOf(d) == IF ColumnOf(d) < N THEN d[1] ELSE N-1-d[2]

\* The pairs to multiply.
Chosen == IF square THEN {d \in Pairs : d[1] < d[2]} ELSE Pairs

\* Those that are done when column k of pass s is next.
Multiplied(q, s, k) ==
  {d \in Chosen : \/ ColumnOf(d) % 2 < q
                  \/ ColumnOf(d) % 2 = q /\ PassOf(d) < s
                  \/ ColumnOf(d) % 2 = q /\ PassOf(d) = s /\ ColumnOf(d) < k}

\* Every pair has its place in its pass.
LEMMA PlaceOfPair ==
  ASSUME Sizes, square \in BOOLEAN, NEW d \in Chosen
  PROVE  /\ PassOf(d) \in Nat /\ ColumnOf(d) \in Nat
         /\ ColumnOf(d) % 2 \in 0..1
         /\ ColumnOf(d) \in Split!Columns(ColumnOf(d) % 2, PassOf(d))
<1>. DEFINE i == d[1]
            j == d[2]
            k == i + j
            s == IF k < N THEN i ELSE N-1-j
<1>0. N \in Nat /\ N > 2
  BY DEF Sizes
<1>1. i \in 0..N-1 /\ j \in 0..N-1 /\ (square => i < j)
  BY DEF Chosen, Pairs
<1>2. s \in Nat /\ k \in Nat /\ k % 2 \in 0..1
  <2>. HIDE DEF i, j
  <2>. QED BY <1>0, <1>1
<1>3. k \in (IF square THEN 2*s+1 ELSE s) .. (2*N-2-(IF square THEN 2*s+1 ELSE s))
  <2>1. CASE square
    <3>. HIDE DEF i, j
    <3>. QED BY <1>0, <1>1, <2>1
  <2>2. CASE ~square
    <3>. HIDE DEF i, j
    <3>. QED BY <1>0, <1>1, <2>2
  <2>. QED BY <2>1, <2>2
<1>. QED BY <1>2, <1>3 DEF Split!Columns, Split!PassColumns, Split!PassStart, PassOf, ColumnOf

LEMMA ColumnsAre ==
  ASSUME Sizes, square \in BOOLEAN, NEW q \in 0..1, NEW s \in Nat, NEW k \in Split!Columns(q, s)
  PROVE  k \in Nat /\ k <= 2*N-2 /\ k % 2 = q /\ (square => k >= 1 /\ k <= 2*N-3)
BY DEF Split!Columns, Split!PassColumns, Split!PassStart, Sizes

\* The factors of a column are the pair that has its place there.
LEMMA PairOfPlace ==
  ASSUME Sizes, square \in BOOLEAN, NEW q \in 0..1, row \in Nat, NEW k \in Split!Columns(q, row)
  PROVE  /\ Split!Factors(k) \in Chosen
         /\ Split!Factors(k) = <<Split!Factors(k)[1], Split!Factors(k)[2]>>
         /\ Split!Factors(k)[1] \in 0..N-1 /\ Split!Factors(k)[2] \in 0..N-1
         /\ ColumnOf(Split!Factors(k)) = k /\ PassOf(Split!Factors(k)) = row
         /\ \A d \in Chosen : ColumnOf(d) = k /\ PassOf(d) = row => d = Split!Factors(k)
<1>. DEFINE i == IF k < N THEN row ELSE k-(N-1)+row
            j == IF k < N THEN k-row ELSE N-1-row
<1>0. N \in Nat /\ N > 2 /\ k \in Nat
  BY ColumnsAre DEF Sizes
<1>1. k \in (IF square THEN 2*row+1 ELSE row) .. (2*N-2-(IF square THEN 2*row+1 ELSE row))
  BY DEF Split!Columns, Split!PassColumns, Split!PassStart
<1>2. i \in 0..N-1 /\ j \in 0..N-1 /\ i + j = k /\ (square => i < j)
      /\ (IF k < N THEN i ELSE N-1-j) = row
  <2>1. CASE square
    BY <1>0, <1>1, <2>1
  <2>2. CASE ~square
    BY <1>0, <1>1, <2>2
  <2>. QED BY <2>1, <2>2
<1>3. Split!Factors(k) = <<i, j>>
  BY DEF Split!Factors, Split!PassFactors
<1>4. ASSUME NEW d \in Chosen, ColumnOf(d) = k, PassOf(d) = row PROVE d = <<i, j>>
  <2>1. d = <<d[1], d[2]>> /\ d[1] \in 0..N-1 /\ d[2] \in 0..N-1
    BY DEF Chosen, Pairs
  <2>2. d[1] + d[2] = k /\ (IF k < N THEN d[1] ELSE N-1-d[2]) = row
    BY <1>4 DEF ColumnOf, PassOf
  <2>3. d[1] = i /\ d[2] = j
    BY <1>0, <2>1, <2>2
  <2>. HIDE DEF i, j
  <2>. QED BY <2>1, <2>3
<1>. HIDE DEF i, j
<1>5. Split!Factors(k)[1] = i /\ Split!Factors(k)[2] = j
  BY <1>3
<1>6. <<i, j>> \in Chosen
  BY <1>2 DEF Chosen, Pairs
<1>7. ColumnOf(Split!Factors(k)) = k /\ PassOf(Split!Factors(k)) = row
  BY <1>2, <1>5 DEF ColumnOf, PassOf
<1>. QED BY <1>2, <1>3, <1>4, <1>5, <1>6, <1>7

\* A column adds one pair, which has not been multiplied before.
LEMMA ColumnAdded ==
  ASSUME Sizes, square \in BOOLEAN, parity \in 0..1, row \in Nat, NEW k \in Split!Columns(parity, row)
  PROVE  /\ Split!Factors(k) \notin Multiplied(parity, row, k)
         /\ Multiplied(parity, row, k + 2) = Multiplied(parity, row, k) \union {Split!Factors(k)}
<1>. DEFINE D == Multiplied(parity, row, k)
            E == Multiplied(parity, row, k + 2)
<1>1. k \in Nat /\ k % 2 = parity
  BY ColumnsAre
<1>2. Split!Factors(k) \in Chosen /\ ColumnOf(Split!Factors(k)) = k /\ PassOf(Split!Factors(k)) = row
  BY PairOfPlace
<1>3. Split!Factors(k) \notin D
  BY <1>1, <1>2 DEF Multiplied
<1>4. ASSUME NEW d \in Chosen PROVE d \in E <=> d \in D \/ d = Split!Factors(k)
  <2>1. ColumnOf(d) \in Nat /\ PassOf(d) \in Nat
    BY PlaceOfPair
  <2>2. CASE ColumnOf(d) % 2 = parity /\ PassOf(d) = row
    <3>1. ColumnOf(d) < k + 2 <=> ColumnOf(d) < k \/ ColumnOf(d) = k
      BY <1>1, <2>1, <2>2
    <3>2. ColumnOf(d) = k <=> d = Split!Factors(k)
      BY <1>2, <2>2, PairOfPlace
    <3>3. d \in E <=> ColumnOf(d) < k + 2
      BY <2>1, <2>2 DEF Multiplied
    <3>4. d \in D <=> ColumnOf(d) < k
      BY <2>1, <2>2 DEF Multiplied
    <3>. QED BY <3>1, <3>2, <3>3, <3>4
  <2>3. CASE ~(ColumnOf(d) % 2 = parity /\ PassOf(d) = row)
    <3>1. d # Split!Factors(k)
      BY <1>1, <1>2, <2>3
    <3>2. d \in E <=> d \in D
      BY <2>3 DEF Multiplied
    <3>. QED BY <3>1, <3>2
  <2>. QED BY <2>2, <2>3
<1>5. \A d \in E : d \in Chosen
  BY DEF Multiplied
<1>6. \A d \in D : d \in Chosen
  BY DEF Multiplied
<1>. HIDE DEF D, E
<1>7. E = D \union {Split!Factors(k)}
  BY <1>2, <1>4, <1>5, <1>6
<1>. QED BY <1>3, <1>7 DEF D, E

LEMMA FirstColumnIs ==
  ASSUME Sizes, square \in BOOLEAN, NEW q \in 0..1, NEW s \in Nat, Split!Columns(q, s) # {}
  PROVE  /\ Split!FirstColumn(q, s) \in Split!Columns(q, s)
         /\ \A l \in Split!Columns(q, s) : Split!FirstColumn(q, s) <= l
<1>1. Split!Columns(q, s) \subseteq Nat
  BY ColumnsAre
<1>2. \E k \in Split!Columns(q, s) : \A l \in Split!Columns(q, s) : k <= l
  BY <1>1, LeastMember
<1>. QED BY <1>2 DEF Split!FirstColumn

\* The first pass of each half has columns.
LEMMA FirstPass ==
  ASSUME Sizes, square \in BOOLEAN, NEW q \in 0..1
  PROVE  Split!Columns(q, 0) # {}
<1>1. 2 - q \in Split!Columns(q, 0)
  <2>1. 2 - q \in 1..2*N-3 /\ (2 - q) % 2 = q
    BY DEF Sizes
  <2>2. \A k \in 1..2*N-3 : k \in (IF square THEN 2*0+1 ELSE 0) .. (2*N-2-(IF square THEN 2*0+1 ELSE 0))
    BY DEF Sizes
  <2>. QED BY <2>1, <2>2 DEF Split!Columns, Split!PassColumns, Split!PassStart
<1>. QED BY <1>1

\* Nothing is multiplied before the first column.
LEMMA NothingYet ==
  ASSUME Sizes, square \in BOOLEAN
  PROVE  Multiplied(0, 0, Split!FirstColumn(0, 0)) = {}
<1>1. ASSUME NEW d \in Multiplied(0, 0, Split!FirstColumn(0, 0)) PROVE FALSE
  <2>1. d \in Chosen
    BY <1>1 DEF Multiplied
  <2>2. PassOf(d) \in Nat /\ ColumnOf(d) % 2 \in 0..1 /\ ColumnOf(d) \in Nat
        /\ ColumnOf(d) \in Split!Columns(ColumnOf(d) % 2, PassOf(d))
    BY <2>1, PlaceOfPair
  <2>3. ColumnOf(d) % 2 = 0 /\ PassOf(d) = 0 /\ ColumnOf(d) < Split!FirstColumn(0, 0)
    BY <1>1, <2>2 DEF Multiplied
  <2>4. ColumnOf(d) \in Split!Columns(0, 0)
    BY <2>2, <2>3
  <2>5. Split!FirstColumn(0, 0) <= ColumnOf(d) /\ Split!FirstColumn(0, 0) \in Nat
    BY <2>4, FirstColumnIs, ColumnsAre
  <2>. QED BY <2>2, <2>3, <2>5
<1>. QED BY <1>1

\* Past the last column of a pass.
PassOver == parity \in 0..1 /\ row \in Nat /\ column - 2 \in Split!Columns(parity, row) /\ column \notin Split!Columns(parity, row)

LEMMA PassDone ==
  ASSUME Sizes, square \in BOOLEAN, column \in Int, PassOver, NEW d \in Chosen
  PROVE  /\ d \in Multiplied(parity, row, column) <=>
              ColumnOf(d) % 2 < parity \/ (ColumnOf(d) % 2 = parity /\ PassOf(d) <= row)
         /\ column \in Nat /\ column >= 2 /\ column <= 2*N /\ column % 2 = parity
<1>1. column - 2 \in Nat /\ column - 2 <= 2*N-2 /\ (column - 2) % 2 = parity
  BY ColumnsAre DEF PassOver
<1>2. column \in Nat /\ column % 2 = parity /\ column >= 2 /\ column <= 2*N
  BY <1>1 DEF Sizes
<1>3. ASSUME NEW l \in Split!Columns(parity, row) PROVE l < column
  <2>1. l \in Nat
    BY <1>3, ColumnsAre DEF PassOver
  <2>2. SUFFICES ASSUME l >= column PROVE column \in Split!Columns(parity, row)
    BY <1>2, <2>1 DEF PassOver
  <2>3. column - 2 <= column /\ column <= l
    BY <1>2, <2>2
  <2>. DEFINE start == IF square THEN 2*row+1 ELSE row
              last == 2*N-2-start
  <2>4. column - 2 \in start..last /\ l \in start..last
    BY DEF PassOver, Split!Columns, Split!PassColumns, Split!PassStart
  <2>5. start \in Int /\ last \in Int
    BY DEF PassOver, Sizes
  <2>. HIDE DEF start, last
  <2>6. column \in start..last
    BY <1>2, <2>1, <2>3, <2>4, <2>5
  <2>. QED BY <1>2, <2>6 DEF Split!Columns, Split!PassColumns, Split!PassStart, start, last
<1>4. PassOf(d) \in Nat /\ ColumnOf(d) \in Nat
      /\ ColumnOf(d) \in Split!Columns(ColumnOf(d) % 2, PassOf(d))
  BY PlaceOfPair
<1>5. ColumnOf(d) % 2 = parity /\ PassOf(d) = row => ColumnOf(d) < column
  BY <1>3, <1>4
<1>6. row \in Nat
  BY DEF PassOver
<1>. QED BY <1>2, <1>4, <1>5, <1>6 DEF Multiplied

\* The passes get shorter.
LEMMA PassesShrink ==
  ASSUME Sizes, square \in BOOLEAN, NEW q \in 0..1, NEW s \in Nat, NEW t \in Nat, s <= t
  PROVE  Split!Columns(q, t) \subseteq Split!Columns(q, s)
<1>. SUFFICES ASSUME NEW k \in Split!Columns(q, t) PROVE k \in Split!Columns(q, s)
  OBVIOUS
<1>1. k \in Nat /\ k % 2 = q
  BY ColumnsAre
<1>2. k \in (IF square THEN 2*t+1 ELSE t) .. (2*N-2-(IF square THEN 2*t+1 ELSE t))
  BY DEF Split!Columns, Split!PassColumns, Split!PassStart
<1>3. k \in (IF square THEN 2*s+1 ELSE s) .. (2*N-2-(IF square THEN 2*s+1 ELSE s))
  <2>1. CASE square
    BY <1>1, <1>2, <2>1 DEF Sizes
  <2>2. CASE ~square
    BY <1>1, <1>2, <2>2 DEF Sizes
  <2>. QED BY <2>1, <2>2
<1>. QED BY <1>1, <1>3 DEF Split!Columns, Split!PassColumns, Split!PassStart

\* The next pass goes on where this one ends.
LEMMA NextRow ==
  ASSUME Sizes, square \in BOOLEAN, column \in Int, PassOver, Split!Columns(parity, row + 1) # {}
  PROVE  Multiplied(parity, row + 1, Split!FirstColumn(parity, row + 1)) = Multiplied(parity, row, column)
<1>. DEFINE D == Multiplied(parity, row, column)
            E == Multiplied(parity, row + 1, Split!FirstColumn(parity, row + 1))
<1>0. parity \in 0..1 /\ row \in Nat /\ row + 1 \in Nat
  BY DEF PassOver
<1>1. ASSUME NEW d \in Chosen PROVE d \in E <=> d \in D
  <2>1. PassOf(d) \in Nat /\ ColumnOf(d) \in Nat /\ ColumnOf(d) % 2 \in 0..1
        /\ ColumnOf(d) \in Split!Columns(ColumnOf(d) % 2, PassOf(d))
    BY PlaceOfPair
  <2>2. d \in D <=> ColumnOf(d) % 2 < parity \/ (ColumnOf(d) % 2 = parity /\ PassOf(d) <= row)
    BY PassDone
  <2>3. ~(ColumnOf(d) % 2 = parity /\ PassOf(d) = row + 1 /\ ColumnOf(d) < Split!FirstColumn(parity, row + 1))
    <3>1. SUFFICES ASSUME ColumnOf(d) % 2 = parity, PassOf(d) = row + 1
                   PROVE  ~(ColumnOf(d) < Split!FirstColumn(parity, row + 1))
      OBVIOUS
    <3>2. ColumnOf(d) \in Split!Columns(parity, row + 1)
      BY <2>1, <3>1
    <3>3. Split!FirstColumn(parity, row + 1) <= ColumnOf(d) /\ Split!FirstColumn(parity, row + 1) \in Nat
      BY <1>0, <3>2, FirstColumnIs, ColumnsAre
    <3>. QED BY <2>1, <3>3
  <2>4. d \in E <=> ColumnOf(d) % 2 < parity \/ (ColumnOf(d) % 2 = parity /\ PassOf(d) < row + 1)
    BY <2>3 DEF Multiplied
  <2>. QED BY <1>0, <2>1, <2>2, <2>4
<1>2. D \subseteq Chosen /\ E \subseteq Chosen
  BY DEF Multiplied
<1>. HIDE DEF D, E
<1>3. E = D
  BY <1>1, <1>2
<1>. QED BY <1>3 DEF D, E

LEMMA LastRow ==
  ASSUME Sizes, square \in BOOLEAN, column \in Int, PassOver, Split!Columns(parity, row + 1) = {}
  PROVE  /\ parity = 0 => Multiplied(1, 0, Split!FirstColumn(1, 0)) = Multiplied(parity, row, column)
         /\ parity = 1 => Multiplied(parity, row, column) = Chosen
<1>. DEFINE D == Multiplied(parity, row, column)
            E == Multiplied(1, 0, Split!FirstColumn(1, 0))
<1>0. parity \in 0..1 /\ row \in Nat /\ row + 1 \in Nat
  BY DEF PassOver
<1>1. ASSUME NEW d \in Chosen PROVE (d \in D <=> ColumnOf(d) % 2 <= parity) /\ (d \in E <=> ColumnOf(d) % 2 = 0)
  <2>1. PassOf(d) \in Nat /\ ColumnOf(d) \in Nat /\ ColumnOf(d) % 2 \in 0..1
        /\ ColumnOf(d) \in Split!Columns(ColumnOf(d) % 2, PassOf(d))
    BY PlaceOfPair
  <2>2. d \in D <=> ColumnOf(d) % 2 < parity \/ (ColumnOf(d) % 2 = parity /\ PassOf(d) <= row)
    BY PassDone
  <2>3. ColumnOf(d) % 2 = parity => PassOf(d) <= row
    <3>1. SUFFICES ASSUME ColumnOf(d) % 2 = parity, row + 1 <= PassOf(d) PROVE FALSE
      BY <1>0, <2>1
    <3>2. Split!Columns(parity, PassOf(d)) \subseteq Split!Columns(parity, row + 1)
      BY <1>0, <2>1, <3>1, PassesShrink
    <3>. QED BY <2>1, <3>1, <3>2
  <2>4. ~(ColumnOf(d) % 2 = 1 /\ PassOf(d) = 0 /\ ColumnOf(d) < Split!FirstColumn(1, 0))
    <3>1. SUFFICES ASSUME ColumnOf(d) % 2 = 1, PassOf(d) = 0
                   PROVE  ~(ColumnOf(d) < Split!FirstColumn(1, 0))
      OBVIOUS
    <3>2. ColumnOf(d) \in Split!Columns(1, 0) /\ 1 \in 0..1 /\ 0 \in Nat
      BY <2>1, <3>1
    <3>3. Split!FirstColumn(1, 0) <= ColumnOf(d) /\ Split!FirstColumn(1, 0) \in Nat
      BY <3>2, FirstColumnIs, ColumnsAre
    <3>. QED BY <2>1, <3>3
  <2>5. d \in E <=> ColumnOf(d) % 2 < 1
    <3>1. ~(PassOf(d) < 0)
      BY <2>1
    <3>. QED BY <2>4, <3>1 DEF Multiplied
  <2>. QED BY <1>0, <2>1, <2>2, <2>3, <2>5
<1>2. D \subseteq Chosen /\ E \subseteq Chosen
  BY DEF Multiplied
<1>3. \A d \in Chosen : ColumnOf(d) % 2 \in 0..1
  BY PlaceOfPair
<1>. HIDE DEF D, E
<1>4. parity = 0 => E = D
  BY <1>1, <1>2, <1>3
<1>5. parity = 1 => D = Chosen
  BY <1>1, <1>2, <1>3
<1>. QED BY <1>4, <1>5 DEF D, E

-------------------------------------------------------------------------------
(* The invariant                                                           *)

\* The part of the table that multiplied pairs stand for: a square multiplies one pair of two.
Mirrored(D) == IF square THEN D \union {<<d[2], d[1]>> : d \in D} ELSE D

Times == IF square THEN 2 ELSE 1

LEMMA MirroredFacts ==
  ASSUME square \in BOOLEAN, NEW D \in SUBSET Chosen
  PROVE  /\ Mirrored(D) \in SUBSET Pairs
         /\ Mirrored(Chosen) = IF square THEN OffDiagonal ELSE Pairs
<1>1. CASE square
  <2>1. Chosen = {d \in Pairs : d[1] < d[2]}
    BY <1>1 DEF Chosen
  <2>2. Mirrored(D) \subseteq Pairs
    BY <1>1, <2>1 DEF Mirrored, Pairs
  <2>3. ASSUME NEW d \in Mirrored(Chosen) PROVE d \in OffDiagonal
    <3>1. CASE d \in Chosen
      BY <2>1, <3>1 DEF OffDiagonal, Pairs
    <3>2. CASE d \notin Chosen
      <4>1. PICK ij \in Chosen : d = <<ij[2], ij[1]>>
        BY <1>1, <2>3, <3>2 DEF Mirrored
      <4>. QED BY <2>1, <4>1 DEF OffDiagonal, Pairs
    <3>. QED BY <3>1, <3>2
  <2>4. ASSUME NEW d \in OffDiagonal PROVE d \in Mirrored(Chosen)
    <3>1. d \in Pairs /\ d[1] \in Nat /\ d[2] \in Nat /\ d[1] # d[2] /\ d = <<d[1], d[2]>>
      BY DEF OffDiagonal, Pairs
    <3>2. CASE d[1] < d[2]
      BY <1>1, <2>1, <3>1, <3>2 DEF Mirrored
    <3>3. CASE d[2] < d[1]
      <4>. DEFINE ij == <<d[2], d[1]>>
      <4>1. ij \in Chosen /\ ij[1] = d[2] /\ ij[2] = d[1]
        BY <2>1, <3>1, <3>3 DEF Pairs
      <4>. HIDE DEF ij
      <4>2. d = <<ij[2], ij[1]>>
        BY <3>1, <4>1
      <4>. QED BY <1>1, <4>1, <4>2 DEF Mirrored
    <3>. QED BY <3>1, <3>2, <3>3
  <2>. QED BY <1>1, <2>2, <2>3, <2>4
<1>2. CASE ~square
  BY <1>2 DEF Mirrored, Chosen
<1>. QED BY <1>1, <1>2

\* The product of a pair is worth its part of the total.
LEMMA MirroredAdded ==
  ASSUME Sizes, square \in BOOLEAN, left \in Operand, right \in Operand, square => right = left,
         NEW D \in SUBSET Chosen, NEW d \in Chosen, d \notin D
  PROVE  /\ left[d[1]] * right[d[2]] \in Nat
         /\ Total(left, right, Mirrored(D \union {d})) =
              Total(left, right, Mirrored(D)) + Times * ((left[d[1]] * right[d[2]]) * Split!Weight[ColumnOf(d)])
<1>. DEFINE i == d[1]
            j == d[2]
            M == Mirrored(D)
            worth == (left[i] * right[j]) * Split!Weight[i+j]
<1>1. i \in 0..N-1 /\ j \in 0..N-1 /\ d = <<i, j>> /\ (square => i < j)
  BY DEF Chosen, Pairs
<1>. HIDE DEF i, j
<1>2. worth \in Nat /\ left[i] * right[j] \in Nat
  <2>1. left[i] \in Nat /\ right[j] \in Nat
    BY <1>1 DEF Operand, Sizes
  <2>2. i + j \in 0..2*N+1
    BY <1>1 DEF Sizes
  <2>3. Split!Weight[i+j] \in Nat
    BY <2>2, WeightFacts
  <2>4. left[i] * right[j] \in Nat
    BY <2>1
  <2>. QED BY <2>3, <2>4
<1>3. Total(left, right, M) \in Int
  BY TotalAtMost
<1>4. CASE ~square
  <2>1. M = D /\ Mirrored(D \union {d}) = D \union {<<i, j>>}
    BY <1>1, <1>4 DEF Mirrored
  <2>2. Total(left, right, D \union {<<i, j>>}) = Total(left, right, D) + worth
    BY <1>1, TotalAdded
  <2>3. Times = 1
    BY <1>4 DEF Times
  <2>4. Times * worth = worth
    BY <1>2, <2>3
  <2>. HIDE DEF M, worth
  <2>5. Total(left, right, Mirrored(D \union {d})) = Total(left, right, M) + Times * worth
    BY <2>1, <2>2, <2>4
  <2>. QED BY <1>2, <2>5 DEF M, worth, i, j, ColumnOf
<1>5. CASE square
  <2>. DEFINE M1 == M \union {<<i, j>>}
              M2 == M1 \union {<<j, i>>}
  <2>1. Mirrored(D \union {d}) = M2
    BY <1>1, <1>5 DEF Mirrored
  <2>2. \A ij \in D : ij[1] \in 0..N-1 /\ ij[2] \in 0..N-1 /\ ij[1] < ij[2] /\ ij = <<ij[1], ij[2]>>
    BY <1>5 DEF Chosen, Pairs
  <2>3. <<i, j>> \notin M
    <3>1. <<i, j>> \notin D
      BY <1>1
    <3>2. ASSUME NEW ij \in D PROVE <<i, j>> # <<ij[2], ij[1]>>
      BY <1>1, <1>5, <2>2
    <3>. QED BY <1>5, <3>1, <3>2 DEF Mirrored
  <2>4. <<j, i>> \notin M1
    <3>1. <<j, i>> \notin D
      BY <1>1, <1>5, <2>2
    <3>2. ASSUME NEW ij \in D PROVE <<j, i>> # <<ij[2], ij[1]>>
      BY <1>1, <2>2
    <3>3. <<j, i>> # <<i, j>>
      BY <1>1, <1>5
    <3>. QED BY <1>5, <3>1, <3>2, <3>3 DEF Mirrored
  <2>. HIDE DEF M
  <2>5. Total(left, right, M1) = Total(left, right, M) + worth
    BY <1>1, <2>3, TotalAdded
  <2>6. Total(left, right, M2) = Total(left, right, M1) + (left[j] * right[i]) * Split!Weight[j+i]
    <3>. HIDE DEF M1
    <3>. QED BY <1>1, <2>4, TotalAdded
  <2>7. (left[j] * right[i]) * Split!Weight[j+i] = worth
    <3>1. left[j] \in Int /\ left[i] \in Int /\ right = left /\ j + i = i + j
      BY <1>1, <1>5 DEF Operand
    <3>2. left[j] * left[i] = left[i] * left[j]
      BY <3>1
    <3>. QED BY <3>1, <3>2
  <2>8. Times = 2
    BY <1>5 DEF Times
  <2>. HIDE DEF worth, M1, M2
  <2>9. Total(left, right, M2) = Total(left, right, M) + Times * worth
    BY <1>2, <1>3, <2>5, <2>6, <2>7, <2>8
  <2>. QED BY <1>2, <2>1, <2>9 DEF M, worth, i, j, ColumnOf
<1>. QED BY <1>4, <1>5

Typed ==
  /\ square \in BOOLEAN /\ left \in Operand /\ right \in Operand /\ (square => right = left)
  /\ e \in [Split!Wide -> 0..W-1] /\ o \in [Split!Wide -> 0..W-1] /\ product \in Nat
  /\ pc \in {"mac", "close", "merge", "double", "diagonal", "done"}
  /\ parity \in 0..1 /\ row \in Nat /\ column \in Nat /\ cc \in Nat /\ dropped \in Nat

\* What the accumulators and the lost carries are worth.
Held == Split!Value(e, 2*N) + W * Split!Value(o, 2*N) + dropped

Summed ==
  pc \in {"mac", "close"} =>
    Times * (Held + cc * Split!Weight[column]) = Total(left, right, Mirrored(Multiplied(parity, row, column)))

Placed ==
  /\ pc = "mac" => column \in Split!Columns(parity, row)
  /\ pc = "close" => PassOver

Combined ==
  /\ pc = "merge" => Times * Held = Total(left, right, Mirrored(Chosen))
  /\ pc \in {"double", "diagonal"} => square
  /\ pc = "double" => 2 * (product + dropped) = Total(left, right, OffDiagonal)
  /\ pc = "diagonal" => product + dropped = Total(left, right, OffDiagonal)
  /\ pc = "done" => product + dropped = Total(left, right, Pairs)

SInv == Typed /\ Summed /\ Placed /\ Combined

LEMMA HeldFacts ==
  ASSUME Sizes, Typed
  PROVE  /\ Split!Value(e, 2*N) \in Nat /\ Split!Value(o, 2*N) \in Nat /\ Held \in Nat
         /\ Times \in {1, 2}
         /\ Split!Weight[2*N] \in Nat \ {0}
<1>1. 2*N \in 0..2*N /\ 2*N \in 0..2*N+1 /\ W \in Nat
  BY DEF Sizes
<1>2. Words(e, 2*N) /\ Words(o, 2*N)
  BY DEF Words, Split!Wide, Typed
<1>3. Split!Value(e, 2*N) \in Nat /\ Split!Value(o, 2*N) \in Nat
  BY <1>1, <1>2, ValueFits
<1>4. Held \in Nat
  <2>1. W * Split!Value(o, 2*N) \in Nat
    BY <1>1, <1>3
  <2>. QED BY <1>3, <2>1 DEF Held, Typed
<1>. QED BY <1>1, <1>3, <1>4, WeightFacts DEF Times

-------------------------------------------------------------------------------
(* The steps                                                               *)

\* A sum of three words taken apart.
LEMMA ThreeWords ==
  ASSUME Sizes, NEW y \in Nat
  PROVE  /\ y % W \in 0..W-1 /\ (y \div W) % W \in 0..W-1 /\ y \div (W*W) \in Nat
         /\ y = (y % W) + W * ((y \div W) % W) + (W * W) * (y \div (W*W))
<1>. DEFINE q == y \div W
            s == q \div W
            u == y % W
            worth == q % W
            t == y \div (W*W)
            ij == y % (W*W)
<1>0. W \in Nat \ {0} /\ W * W \in Nat \ {0} /\ W > 1
  <2>1. W \in Nat /\ W > 1
    BY DEF Sizes
  <2>2. \A k \in Nat : k > 1 => k * k \in Nat /\ k * k > 0
    OBVIOUS
  <2>. QED BY <2>1, <2>2
<1>1. q \in Int /\ u \in 0..W-1 /\ y = W * q + u
  BY <1>0, DivModFacts
<1>2. s \in Int /\ worth \in 0..W-1 /\ q = W * s + worth
  <2>. HIDE DEF q
  <2>. QED BY <1>0, <1>1, DivModFacts
<1>3. t \in Int /\ ij \in 0..(W*W)-1 /\ y = (W * W) * t + ij
  <2>. DEFINE ww == W * W
  <2>1. ww \in Nat \ {0} /\ y \in Int
    BY <1>0
  <2>. HIDE DEF ww
  <2>2. y \div ww \in Int /\ y % ww \in 0..ww-1 /\ y = ww * (y \div ww) + (y % ww)
    BY <2>1, DivModFacts
  <2>. QED BY <2>2 DEF ww
<1>. HIDE DEF q, s, u, worth, t, ij
<1>4. y = (W * W) * s + (W * worth + u)
  <2>1. W * (W * s + worth) = (W * W) * s + W * worth
    BY <1>0, <1>2
  <2>. QED BY <1>1, <1>2, <2>1, <1>0
<1>5. W * worth + u \in 0..(W*W)-1
  <2>1. W * worth <= W * (W - 1) /\ W * worth \in Nat
    BY <1>0, <1>2
  <2>2. W * (W - 1) = W * W - W
    BY <1>0
  <2>. QED BY <1>0, <1>1, <2>1, <2>2
<1>6. t = s
  <2>. DEFINE ww == W * W
              w == W * worth + u
  <2>1. ww * (t - s) = w - ij
    <3>1. ww * t + ij = ww * s + w
      BY <1>3, <1>4
    <3>2. ww \in Int /\ w \in Int /\ ij \in Int
      BY <1>0, <1>3, <1>5
    <3>. HIDE DEF ww, w
    <3>. QED BY <1>2, <1>3, <3>1, <3>2
  <2>2. ww \in Nat \ {0} /\ w \in 0..ww-1 /\ ij \in 0..ww-1
    BY <1>0, <1>3, <1>5
  <2>3. t - s \in Int
    BY <1>2, <1>3
  <2>. HIDE DEF ww, w
  <2>4. ww * (t - s) < ww /\ ww * (t - s) > -ww
    BY <2>1, <2>2
  <2>5. t - s = 0
    BY <2>2, <2>3, <2>4, NoMultiple
  <2>. QED BY <1>2, <1>3, <2>5
<1>7. t \in Nat
  <2>1. SUFFICES ASSUME t <= -1 PROVE FALSE
    BY <1>3
  <2>. DEFINE ww == W * W
  <2>2. ww \in Nat \ {0} /\ y = ww * t + ij /\ ij <= ww - 1 /\ ij \in Int
    BY <1>0, <1>3
  <2>. HIDE DEF ww
  <2>3. ww * t <= -ww
    BY <1>3, <2>1, <2>2
  <2>. QED BY <2>2, <2>3, <1>3
<1>8. y = u + W * worth + (W * W) * t
  BY <1>0, <1>1, <1>2, <1>3, <1>4, <1>5, <1>6
<1>. QED BY <1>1, <1>2, <1>7, <1>8 DEF q, u, worth, t

LEMMA TableAfter ==
  ASSUME UNCHANGED Split!inputs
  PROVE  /\ Times' = Times
         /\ (Total(left, right, Mirrored(Multiplied(parity, row, column))))' =
              Total(left, right, Mirrored(Multiplied(parity', row', column')))
         /\ (Total(left, right, Mirrored(Chosen)))' = Total(left, right, Mirrored(Chosen))
         /\ (Total(left, right, OffDiagonal))' = Total(left, right, OffDiagonal)
         /\ (Total(left, right, Pairs))' = Total(left, right, Pairs)
<1>1. square' = square /\ left' = left /\ right' = right
  BY DEF Split!inputs
<1>2. Chosen' = Chosen
  BY <1>1 DEF Chosen
<1>3. (Multiplied(parity, row, column))' = Multiplied(parity', row', column')
  BY <1>2 DEF Multiplied
<1>4. (Mirrored(Multiplied(parity, row, column)))' = Mirrored(Multiplied(parity', row', column'))
  BY <1>1, <1>3 DEF Mirrored
<1>5. (Mirrored(Chosen))' = Mirrored(Chosen)
  BY <1>1, <1>2 DEF Mirrored
<1>. QED BY <1>1, <1>4, <1>5 DEF Times

LEMMA MacWords ==
  ASSUME Sizes, SInv, Split!Mac
  PROVE  /\ Split!At(column) \in Split!Wide /\ Split!At(column) + 1 \in Split!Wide
         /\ Split!Acc \in [Split!Wide -> 0..W-1]
         /\ column \in 0..2*N /\ column + 1 \in 0..2*N /\ column \in 0..2*N+1 /\ column + 2 \in 0..2*N+1
         /\ Split!Weight[column] = (IF parity = 0 THEN 1 ELSE W) * Split!Weight[Split!At(column)]
         /\ Split!Weight[Split!At(column)] \in Nat /\ Split!Weight[column] \in Nat
         /\ Split!Weight[column+2] = (W * W) * Split!Weight[column]
<1>0. Typed /\ N \in Nat /\ N > 2 /\ W \in Nat /\ parity \in 0..1 /\ row \in Nat
  BY DEF SInv, Typed, Sizes
<1>1. column \in Nat /\ column <= 2*N-2 /\ column % 2 = parity
  <2>1. column \in Split!Columns(parity, row)
    BY DEF SInv, Placed, Split!Mac
  <2>2. square \in BOOLEAN
    BY <1>0 DEF Typed
  <2>. QED BY <1>0, <2>1, <2>2, ColumnsAre
<1>2. parity = 1 => column >= 1
  BY <1>1
<1>3. Split!At(column) \in Split!Wide /\ Split!At(column) + 1 \in Split!Wide
  BY <1>0, <1>1, <1>2 DEF Split!At, Split!Wide
<1>4. column \in 0..2*N /\ column + 1 \in 0..2*N /\ column \in 0..2*N+1 /\ column + 2 \in 0..2*N+1
  BY <1>0, <1>1
<1>5. Split!Acc \in [Split!Wide -> 0..W-1]
  BY <1>0 DEF Split!Acc, Typed
<1>6. Split!At(column) \in 0..2*N /\ Split!At(column) \in 0..2*N+1
  BY <1>0, <1>3 DEF Split!Wide
<1>7. Split!Weight[Split!At(column)] \in Nat /\ Split!Weight[column] \in Nat
  BY <1>4, <1>6, WeightFacts
<1>8. Split!Weight[column] = (IF parity = 0 THEN 1 ELSE W) * Split!Weight[Split!At(column)]
  <2>1. CASE parity = 0
    <3>1. Split!At(column) = column
      BY <1>1, <2>1 DEF Split!At
    <3>. QED BY <1>7, <2>1, <3>1
  <2>2. CASE parity = 1
    <3>1. Split!At(column) + 1 = column
      BY <1>1, <2>2 DEF Split!At
    <3>2. Split!Weight[Split!At(column) + 1] = W * Split!Weight[Split!At(column)]
      BY <1>6, WeightFacts
    <3>. QED BY <2>2, <3>1, <3>2
  <2>. QED BY <1>0, <2>1, <2>2
<1>9. Split!Weight[column+2] = (W * W) * Split!Weight[column]
  <2>1. Split!Weight[column+1] = W * Split!Weight[column] /\ Split!Weight[(column+1)+1] = W * Split!Weight[column+1] /\ (column + 1) + 1 = column + 2
    BY <1>1, <1>4, WeightFacts
  <2>. QED BY <1>0, <1>7, <2>1
<1>. QED BY <1>3, <1>4, <1>5, <1>7, <1>8, <1>9

LEMMA MacKeeps ==
  ASSUME Sizes, SInv, Split!Mac
  PROVE  SInv'
<1>. DEFINE at == Split!At(column)
            i == Split!Factors(column)[1]
            j == Split!Factors(column)[2]
            x0 == Split!Acc[at]
            x1 == Split!Acc[at+1]
            prod == left[i] * right[j]
            sum == x0 + W * x1 + prod + cc
            y == sum % W
            z == (sum \div W) % W
            worth == sum \div (W*W)
            new == [Split!Acc EXCEPT ![at] = y, ![at+1] = z]
            wm == Split!Weight[at]
            wc == Split!Weight[column]
            F == IF parity = 0 THEN 1 ELSE W
<1>0. Typed /\ W \in Nat /\ W > 1 /\ parity \in 0..1 /\ row \in Nat /\ column \in Nat /\ cc \in Nat
      /\ square \in BOOLEAN /\ left \in Operand /\ right \in Operand /\ (square => right = left)
      /\ column \in Split!Columns(parity, row)
  BY DEF SInv, Typed, Sizes, Placed, Split!Mac
<1>1. /\ at \in Split!Wide /\ at + 1 \in Split!Wide
      /\ Split!Acc \in [Split!Wide -> 0..W-1]
      /\ column + 2 \in 0..2*N+1 /\ wc = F * wm /\ wm \in Nat /\ wc \in Nat
      /\ Split!Weight[column+2] = (W * W) * wc
  BY MacWords
<1>2. x0 \in Nat /\ x1 \in Nat
  BY <1>0, <1>1
<1>3. /\ prod \in Nat
      /\ Total(left, right, Mirrored(Multiplied(parity, row, column + 2))) =
           Total(left, right, Mirrored(Multiplied(parity, row, column))) + Times * (prod * wc)
  <2>. DEFINE D == Multiplied(parity, row, column)
              E == Multiplied(parity, row, column + 2)
              d == Split!Factors(column)
  <2>1. d \in Chosen /\ ColumnOf(d) = column
    BY <1>0, PairOfPlace
  <2>2. d \notin D /\ E = D \union {d}
    BY <1>0, ColumnAdded
  <2>3. D \in SUBSET Chosen
    BY DEF Multiplied
  <2>. HIDE DEF D, E, d
  <2>4. /\ left[d[1]] * right[d[2]] \in Nat
        /\ Total(left, right, Mirrored(D \union {d})) =
             Total(left, right, Mirrored(D)) + Times * ((left[d[1]] * right[d[2]]) * Split!Weight[ColumnOf(d)])
    BY <1>0, <2>1, <2>2, <2>3, MirroredAdded
  <2>5. left[d[1]] * right[d[2]] \in Nat
        /\ Total(left, right, Mirrored(E)) = Total(left, right, Mirrored(D)) + Times * ((left[d[1]] * right[d[2]]) * Split!Weight[column])
    BY <2>1, <2>2, <2>4
  <2>. QED BY <2>5 DEF D, E, d
<1>4. sum \in Nat
  <2>1. W * x1 \in Nat
    BY <1>0, <1>2
  <2>. HIDE DEF x0, x1, prod
  <2>. QED BY <1>0, <1>2, <1>3, <2>1
<1>5. /\ y \in 0..W-1 /\ z \in 0..W-1 /\ worth \in Nat
      /\ sum = y + W * z + (W * W) * worth
  <2>. HIDE DEF sum
  <2>. QED BY <1>4, ThreeWords
<1>6. /\ Split!Store(new) /\ cc' = worth /\ column' = column + 2
      /\ pc' = IF column + 2 \in Split!Columns(parity, row) THEN "mac" ELSE "close"
      /\ UNCHANGED <<Split!inputs, product, parity, row, dropped>>
  BY DEF Split!Mac, Split!NextColumn
<1>7. /\ new \in [Split!Wide -> 0..W-1]
      /\ Split!Value(new, 2*N) = Split!Value(Split!Acc, 2*N) + ((y + W * z) - (x0 + W * x1)) * wm
  <2>. HIDE DEF y, z, at
  <2>1. at \in Split!Wide /\ at + 1 \in Split!Wide /\ at + 1 # at /\ y \in 0..W-1 /\ z \in 0..W-1
    BY <1>1, <1>5 DEF Split!Wide
  <2>2. /\ new \in [Split!Wide -> 0..W-1] /\ new[at] = y /\ new[at+1] = z
        /\ \A k \in Split!Wide : k # at /\ k # at + 1 => new[k] = Split!Acc[k]
    BY <1>1, <2>1
  <2>. HIDE DEF x0, x1, wm, new
  <2>3. Split!Value(new, 2*N) =
          Split!Value(Split!Acc, 2*N) + ((y + W * z) - (Split!Acc[at] + W * Split!Acc[at+1])) * Split!Weight[at]
    BY <1>1, <2>1, <2>2, WordsReplaced
  <2>. QED BY <2>2, <2>3 DEF x0, x1, wm
<1>. HIDE DEF new, y, z, worth, sum, prod, i, j, at, wm, wc, x0, x1
<1>8. Typed'
  <2>1. e' \in [Split!Wide -> 0..W-1] /\ o' \in [Split!Wide -> 0..W-1]
    BY <1>0, <1>6, <1>7 DEF Split!Store, Typed
  <2>2. pc' \in {"mac", "close"}
    BY <1>6
  <2>. QED BY <1>0, <1>5, <1>6, <2>1, <2>2 DEF Typed, Split!inputs
<1>9. Held' = Held + ((y + W * z) - (x0 + W * x1)) * wc
  <2>. DEFINE diff == (y + W * z) - (x0 + W * x1)
              ve == Split!Value(e, 2*N)
              vo == Split!Value(o, 2*N)
  <2>1. diff \in Int
    BY <1>0, <1>2, <1>5
  <2>2. ve \in Nat /\ vo \in Nat /\ dropped \in Nat
    BY <1>0, HeldFacts DEF Typed
  <2>3. Split!Value(new, 2*N) = Split!Value(Split!Acc, 2*N) + diff * wm
    BY <1>7
  <2>. HIDE DEF diff
  <2>4. CASE parity = 0
    <3>1. e' = new /\ o' = o /\ dropped' = dropped /\ Split!Acc = e /\ wc = wm
      BY <1>1, <1>6, <2>4 DEF Split!Store, Split!Acc
    <3>2. Held' = (ve + diff * wm) + W * vo + dropped
      BY <2>3, <3>1 DEF Held
    <3>. HIDE DEF ve, vo
    <3>3. diff * wm \in Int /\ W * vo \in Int
      BY <1>0, <1>1, <2>1, <2>2
    <3>4. Held' = (ve + W * vo + dropped) + diff * wm
      BY <2>2, <3>2, <3>3
    <3>. QED BY <3>1, <3>4 DEF Held, ve, vo, diff
  <2>5. CASE parity = 1
    <3>1. o' = new /\ e' = e /\ dropped' = dropped /\ Split!Acc = o /\ wc = W * wm
      BY <1>1, <1>6, <2>5 DEF Split!Store, Split!Acc
    <3>2. Held' = ve + W * (vo + diff * wm) + dropped
      BY <2>3, <3>1 DEF Held
    <3>. HIDE DEF ve, vo
    <3>3. W * (vo + diff * wm) = W * vo + diff * (W * wm)
      BY <1>0, <1>1, <2>1, <2>2
    <3>4. diff * (W * wm) \in Int /\ W * vo \in Int
      BY <1>0, <1>1, <2>1, <2>2
    <3>5. Held' = (ve + W * vo + dropped) + diff * wc
      BY <2>2, <3>1, <3>2, <3>3, <3>4
    <3>. QED BY <3>5 DEF Held, ve, vo, diff
  <2>. QED BY <1>0, <2>4, <2>5
<1>10. Held' + cc' * Split!Weight[column'] = (Held + cc * wc) + prod * wc
  <2>1. cc' * Split!Weight[column'] = worth * ((W * W) * wc)
    BY <1>1, <1>6
  <2>2. worth * ((W * W) * wc) = ((W * W) * worth) * wc
    BY <1>0, <1>1, <1>5
  <2>. DEFINE hi == (W * W) * worth
              lo == y + W * z
              old == x0 + W * x1
  <2>3. hi \in Int /\ lo \in Int /\ old \in Int
    BY <1>0, <1>2, <1>5
  <2>4. lo + hi = old + prod + cc
    BY <1>5 DEF sum
  <2>5. Held' + cc' * Split!Weight[column'] = (Held + (lo - old) * wc) + hi * wc
    BY <1>9, <2>1, <2>2
  <2>6. Held \in Nat
    BY <1>0, HeldFacts
  <2>. HIDE DEF hi, lo, old
  <2>7. lo - old = prod + cc - hi
    BY <1>0, <1>3, <2>3, <2>4
  <2>8. (prod + cc - hi) * wc = prod * wc + cc * wc - hi * wc
    BY <1>0, <1>1, <1>3, <2>3
  <2>9. prod * wc \in Int /\ cc * wc \in Int /\ hi * wc \in Int
    BY <1>0, <1>1, <1>3, <2>3
  <2>. QED BY <2>5, <2>6, <2>7, <2>8, <2>9
<1>11. Summed'
  <2>1. Times * (Held + cc * wc) = Total(left, right, Mirrored(Multiplied(parity, row, column)))
    BY DEF SInv, Summed, Split!Mac, wc
  <2>2. /\ Times' = Times
        /\ (Total(left, right, Mirrored(Multiplied(parity, row, column))))' =
             Total(left, right, Mirrored(Multiplied(parity, row, column + 2)))
    BY <1>6, TableAfter
  <2>3. Held \in Nat /\ cc * wc \in Nat /\ prod * wc \in Nat /\ Times \in {1, 2}
    BY <1>0, <1>1, <1>3, HeldFacts
  <2>4. Times * ((Held + cc * wc) + prod * wc) = Times * (Held + cc * wc) + Times * (prod * wc)
    BY <2>3
  <2>5. Times * ((Held + cc * wc) + prod * wc) =
          Total(left, right, Mirrored(Multiplied(parity, row, column + 2)))
    BY <1>3, <2>1, <2>4 DEF prod, i, j, wc
  <2>6. Times' * (Held' + cc' * Split!Weight[column']) =
          (Total(left, right, Mirrored(Multiplied(parity, row, column))))'
    BY <1>10, <2>2, <2>5
  <2>. QED BY <2>6 DEF Summed
<1>12. Placed'
  <2>1. (Split!Columns(parity, row))' = Split!Columns(parity, row)
    BY <1>6 DEF Split!Columns, Split!PassColumns, Split!PassStart, Split!inputs
  <2>2. pc' = "mac" => column' \in (Split!Columns(parity, row))'
    BY <1>6, <2>1
  <2>3. pc' = "close" => PassOver'
    <3>1. SUFFICES ASSUME pc' = "close" PROVE PassOver'
      OBVIOUS
    <3>2. column' = column + 2 /\ column' - 2 = column /\ column' \notin Split!Columns(parity, row)
      BY <1>0, <1>6, <3>1
    <3>. QED BY <1>0, <1>6, <2>1, <3>2 DEF PassOver
  <2>. QED BY <2>2, <2>3 DEF Placed
<1>13. Combined'
  BY <1>6 DEF Combined
<1>. QED BY <1>8, <1>11, <1>12, <1>13 DEF SInv

\* Nothing held can reach the word above the product.
LEMMA NothingOverflows ==
  ASSUME Sizes, SInv, pc \in {"mac", "close"}, column \in 0..2*N+1
  PROVE  /\ Held + cc * Split!Weight[column] \in Nat
         /\ Held + cc * Split!Weight[column] < Split!Weight[2*N]
<1>. DEFINE D == Mirrored(Multiplied(parity, row, column))
            sum == Held + cc * Split!Weight[column]
<1>1. Typed
  BY DEF SInv
<1>2. Times * sum = Total(left, right, D)
  BY DEF SInv, Summed
<1>3. D \in SUBSET Pairs
  <2>1. Multiplied(parity, row, column) \in SUBSET Chosen
    BY DEF Multiplied
  <2>2. square \in BOOLEAN
    BY <1>1 DEF Typed
  <2>. QED BY <2>1, <2>2, MirroredFacts
<1>. HIDE DEF D
<1>4. Total(left, right, D) \in Int /\ Total(left, right, D) < Split!Weight[2*N]
  <2>1. left \in Operand /\ right \in Operand
    BY <1>1 DEF Typed
  <2>. QED BY <1>3, <2>1, TotalFits
<1>5. sum \in Nat
  <2>1. Split!Weight[column] \in Nat /\ cc \in Nat /\ Held \in Nat
    BY <1>1, WeightFacts, HeldFacts DEF Typed
  <2>2. cc * Split!Weight[column] \in Nat
    BY <2>1
  <2>. QED BY <2>1, <2>2
<1>6. Times \in {1, 2} /\ Split!Weight[2*N] \in Nat
  BY <1>1, HeldFacts
<1>. HIDE DEF sum
<1>7. sum <= Times * sum
  BY <1>5, <1>6
<1>8. sum < Split!Weight[2*N]
  BY <1>2, <1>4, <1>5, <1>6, <1>7
<1>. QED BY <1>5, <1>8 DEF sum

\* Closing a pass puts its carry where it belongs.
LEMMA ClosingHolds ==
  ASSUME Sizes, SInv, Split!Close
  PROVE  /\ e' \in [Split!Wide -> 0..W-1] /\ o' \in [Split!Wide -> 0..W-1] /\ dropped' \in Nat
         /\ Held' = Held + cc * Split!Weight[column]
<1>. DEFINE at == Split!At(column)
            ij == Split!Acc[at]
            y == Split!Closed % W
            q == Split!Closed \div W
            new == [Split!Acc EXCEPT ![at] = y]
            wm == Split!Weight[at]
            wc == Split!Weight[column]
            F == IF parity = 0 THEN 1 ELSE W
            ve == Split!Value(e, 2*N)
            vo == Split!Value(o, 2*N)
<1>0. /\ Typed /\ W \in Nat \ {0} /\ N \in Nat /\ parity \in 0..1 /\ cc \in Nat /\ dropped \in Nat
      /\ square \in BOOLEAN /\ PassOver /\ column \in Nat
      /\ e \in [Split!Wide -> 0..W-1] /\ o \in [Split!Wide -> 0..W-1]
  BY DEF SInv, Typed, Sizes, Placed, Split!Close
<1>1. column >= 2 /\ column <= 2*N /\ column % 2 = parity
  <2>1. (column - 2) \in Nat /\ column - 2 <= 2*N-2 /\ (column - 2) % 2 = parity
    BY <1>0, ColumnsAre DEF PassOver
  <2>. QED BY <1>0, <2>1
<1>2. column \in 0..2*N+1 /\ column \in 0..2*N
  BY <1>0, <1>1
<1>3. Split!Weight[column] \in Nat /\ Split!Weight[column+1] = W * Split!Weight[column]
  BY <1>2, WeightFacts
<1>4. ve \in Nat /\ vo \in Nat /\ Held \in Nat /\ Split!Weight[2*N] \in Nat \ {0}
  BY <1>0, HeldFacts
<1>5. CASE at \in Split!Wide
  <2>1. Split!Store(new) /\ dropped' = dropped + q * Split!Weight[column+1] /\ Split!Closed = ij + cc
    BY <1>5 DEF Split!Close, Split!Closed
  <2>2. Split!Acc \in [Split!Wide -> 0..W-1]
    BY <1>0 DEF Split!Acc
  <2>3. ij \in Nat /\ ij \in 0..W-1
    BY <1>0, <1>5, <2>2
  <2>4. Split!Closed \in Nat
    <3>. HIDE DEF ij
    <3>. QED BY <1>0, <2>1, <2>3
  <2>5. y \in 0..W-1 /\ q \in Int /\ Split!Closed = W * q + y
    BY <1>0, <2>4, DivModFacts
  <2>6. q \in Nat
    <3>1. SUFFICES ASSUME q <= -1 PROVE FALSE
      BY <2>5
    <3>. HIDE DEF q, y
    <3>2. W * q <= -W
      BY <1>0, <2>5, <3>1
    <3>. QED BY <1>0, <2>4, <2>5, <3>2
  <2>7. new \in [Split!Wide -> 0..W-1] /\ Split!Value(new, 2*N) = Split!Value(Split!Acc, 2*N) + (y - ij) * wm
    <3>. HIDE DEF y, at
    <3>. QED BY <1>5, <2>2, <2>5, WordReplaced
  <2>8. at \in 0..2*N /\ at \in 0..2*N+1
    BY <1>0, <1>5 DEF Split!Wide
  <2>9. wm \in Nat /\ wc = F * wm
    <3>1. Split!Weight[at] \in Nat /\ Split!Weight[at+1] = W * Split!Weight[at]
      BY <2>8, WeightFacts
    <3>2. CASE parity = 0
      BY <1>0, <3>1, <3>2 DEF Split!At
    <3>3. CASE parity = 1
      <4>1. at + 1 = column
        BY <1>0, <3>3 DEF Split!At
      <4>. HIDE DEF at
      <4>. QED BY <3>1, <3>3, <4>1
    <3>. QED BY <1>0, <3>2, <3>3
  <2>. HIDE DEF at, ij, y, q, new, wm, wc, ve, vo
  <2>10. wc \in Nat /\ Split!Weight[column+1] = W * wc
    BY <1>3 DEF wc
  <2>11. q * (W * wc) \in Nat
    BY <1>0, <2>6, <2>10
  <2>12. e' \in [Split!Wide -> 0..W-1] /\ o' \in [Split!Wide -> 0..W-1] /\ dropped' \in Nat
    <3>1. dropped' \in Nat
      BY <1>0, <2>1, <2>10, <2>11
    <3>. QED BY <1>0, <2>1, <2>7, <3>1 DEF Split!Store
  <2>13. (y - ij) * wc + q * (W * wc) = cc * wc
    <3>1. (y - ij) * wc + q * (W * wc) = ((y - ij) + W * q) * wc
      BY <1>0, <2>3, <2>5, <2>10
    <3>2. (y - ij) + W * q = cc
      <4>1. W * q \in Int
        BY <1>0, <2>5
      <4>. QED BY <1>0, <2>1, <2>3, <2>5, <4>1
    <3>. QED BY <3>1, <3>2
  <2>14. (y - ij) * wm \in Int /\ W * ((y - ij) * wm) = (y - ij) * (W * wm) /\ W * vo \in Int
    BY <1>0, <1>4, <2>3, <2>5, <2>9
  <2>15. Held' = Held + ((y - ij) * wc + q * (W * wc))
    <3>1. CASE parity = 0
      <4>1. e' = new /\ o' = o /\ Split!Acc = e /\ wc = wm
        BY <2>1, <2>9, <3>1 DEF Split!Store, Split!Acc
      <4>2. Held' = (ve + (y - ij) * wm) + W * vo + (dropped + q * (W * wc))
        BY <2>1, <2>7, <2>10, <4>1 DEF Held, ve, vo
      <4>3. Held = ve + W * vo + dropped
        BY DEF Held, ve, vo
      <4>. QED BY <1>0, <1>4, <2>11, <2>14, <4>1, <4>2, <4>3
    <3>2. CASE parity = 1
      <4>1. o' = new /\ e' = e /\ Split!Acc = o /\ wc = W * wm
        BY <2>1, <2>9, <3>2 DEF Split!Store, Split!Acc
      <4>2. Held' = ve + W * (vo + (y - ij) * wm) + (dropped + q * (W * wc))
        BY <2>1, <2>7, <2>10, <4>1 DEF Held, ve, vo
      <4>3. Held = ve + W * vo + dropped
        BY DEF Held, ve, vo
      <4>4. W * (vo + (y - ij) * wm) = W * vo + (y - ij) * wc
        BY <1>0, <1>4, <2>14, <4>1
      <4>5. (y - ij) * wc \in Int
        BY <2>3, <2>5, <2>10
      <4>. QED BY <1>0, <1>4, <2>11, <2>14, <4>2, <4>3, <4>4, <4>5
    <3>. QED BY <1>0, <3>1, <3>2
  <2>16. Held' = Held + cc * wc
    BY <2>13, <2>15
  <2>. QED BY <2>12, <2>16 DEF wc
<1>6. CASE at \notin Split!Wide
  <2>1. column = 2*N
    BY <1>0, <1>1, <1>6 DEF Split!At, Split!Wide
  <2>2. e' = e /\ o' = o /\ dropped' = dropped
    BY <1>6 DEF Split!Close
  <2>3. cc = 0
    <3>1. Held + cc * Split!Weight[2*N] < Split!Weight[2*N] /\ Held + cc * Split!Weight[2*N] \in Nat
      BY <1>2, <2>1, NothingOverflows DEF Split!Close
    <3>2. SUFFICES ASSUME cc >= 1 PROVE FALSE
      BY <1>0
    <3>3. cc * Split!Weight[2*N] >= Split!Weight[2*N] /\ cc * Split!Weight[2*N] \in Nat
      BY <1>0, <1>4, <3>2
    <3>. QED BY <1>4, <3>1, <3>3
  <2>4. Held' = Held
    BY <2>2 DEF Held
  <2>. QED BY <1>0, <1>3, <1>4, <2>2, <2>3, <2>4
<1>. QED BY <1>5, <1>6

LEMMA SmallerThanModulus ==
  ASSUME NEW w \in Nat \ {0}, NEW k \in Nat, k < w
  PROVE  k % w = k
<1>. DEFINE q == k \div w
            s == k % w
<1>1. q \in Int /\ s \in 0..w-1 /\ k = w * q + s
  BY DivModFacts
<1>. HIDE DEF q, s
<1>2. w * q < w /\ w * q > -w
  BY <1>1
<1>3. q = 0
  BY <1>1, <1>2, NoMultiple
<1>4. k = s
  BY <1>1, <1>3
<1>. QED BY <1>4 DEF s

LEMMA CloseKeeps ==
  ASSUME Sizes, SInv, Split!Close
  PROVE  SInv'
<1>0. /\ Typed /\ N \in Nat /\ parity \in 0..1 /\ row \in Nat /\ column \in Nat /\ cc \in Nat
      /\ square \in BOOLEAN /\ PassOver /\ pc = "close" /\ row + 1 \in Nat /\ column \in Int
  BY DEF SInv, Typed, Sizes, Placed, Split!Close
<1>1. Split!NextPass /\ cc' = 0 /\ UNCHANGED <<Split!inputs, product>>
  BY DEF Split!Close
<1>2. /\ e' \in [Split!Wide -> 0..W-1] /\ o' \in [Split!Wide -> 0..W-1] /\ dropped' \in Nat
      /\ Held' = Held + cc * Split!Weight[column]
  BY ClosingHolds
<1>3. Times * Held' = Total(left, right, Mirrored(Multiplied(parity, row, column)))
  BY <1>0, <1>2 DEF SInv, Summed
<1>4. \A q \in 0..1, s \in Nat : (Split!Columns(q, s))' = Split!Columns(q, s)
  BY <1>1 DEF Split!Columns, Split!PassColumns, Split!PassStart, Split!inputs
<1>5. \/ /\ pc' = "mac" /\ parity' \in 0..1 /\ row' \in Nat
         /\ column' \in Split!Columns(parity', row')
         /\ Multiplied(parity', row', column') = Multiplied(parity, row, column)
      \/ pc' = "merge" /\ UNCHANGED Split!flow /\ column' = column /\ Multiplied(parity, row, column) = Chosen
  <2>1. CASE Split!Columns(parity, row + 1) # {}
    <3>1. pc' = "mac" /\ parity' = parity /\ row' = row + 1 /\ column' = Split!FirstColumn(parity, row + 1)
      BY <1>0, <1>1, <2>1 DEF Split!NextPass
    <3>2. Split!FirstColumn(parity, row + 1) \in Split!Columns(parity, row + 1)
      BY <1>0, <2>1, FirstColumnIs
    <3>3. Multiplied(parity, row + 1, Split!FirstColumn(parity, row + 1)) = Multiplied(parity, row, column)
      BY <1>0, <2>1, NextRow
    <3>. QED BY <1>0, <3>1, <3>2, <3>3
  <2>2. CASE Split!Columns(parity, row + 1) = {} /\ parity = 0
    <3>1. pc' = "mac" /\ parity' = 1 /\ row' = 0 /\ column' = Split!FirstColumn(1, 0)
      BY <1>0, <1>1, <2>2 DEF Split!NextPass
    <3>2. 1 \in 0..1 /\ 0 \in Nat
      OBVIOUS
    <3>3. Split!FirstColumn(1, 0) \in Split!Columns(1, 0)
      BY <1>0, <3>2, FirstPass, FirstColumnIs
    <3>4. Multiplied(1, 0, Split!FirstColumn(1, 0)) = Multiplied(parity, row, column)
      BY <1>0, <2>2, LastRow
    <3>. QED BY <3>1, <3>2, <3>3, <3>4
  <2>3. CASE Split!Columns(parity, row + 1) = {} /\ parity = 1
    <3>1. pc' = "merge" /\ UNCHANGED Split!flow
      <4>1. parity # 0 /\ ~(Split!Columns(parity, row + 1) # {})
        BY <2>3
      <4>. QED BY <1>1, <2>3, <4>1, Zenon DEF Split!NextPass
    <3>2. Multiplied(parity, row, column) = Chosen
      BY <1>0, <2>3, LastRow
    <3>. QED BY <3>1, <3>2 DEF Split!flow
  <2>. QED BY <1>0, <2>1, <2>2, <2>3
<1>6. UNCHANGED Split!inputs /\ product' = product
  BY <1>1
<1>7. /\ Times' = Times
      /\ (Total(left, right, Mirrored(Multiplied(parity, row, column))))' =
           Total(left, right, Mirrored(Multiplied(parity', row', column')))
      /\ (Total(left, right, Mirrored(Chosen)))' = Total(left, right, Mirrored(Chosen))
  BY <1>6, TableAfter
<1>8. column' \in Nat
  <2>1. CASE pc' = "mac"
    <3>1. parity' \in 0..1 /\ row' \in Nat /\ column' \in Split!Columns(parity', row')
      BY <1>5, <2>1
    <3>. QED BY <1>0, <3>1, ColumnsAre
  <2>2. CASE pc' = "merge"
    BY <1>0, <1>5, <2>2
  <2>. QED BY <1>5, <2>1, <2>2
<1>9. Typed'
  <2>1. parity' \in 0..1 /\ row' \in Nat /\ pc' \in {"mac", "merge"}
    BY <1>0, <1>5 DEF Split!flow
  <2>2. square' = square /\ left' = left /\ right' = right
    BY <1>6 DEF Split!inputs
  <2>. QED BY <1>0, <1>1, <1>2, <1>6, <1>8, <2>1, <2>2 DEF Typed
<1>10. Summed'
  <2>1. SUFFICES ASSUME pc' \in {"mac", "close"}
                 PROVE  Times' * (Held' + cc' * Split!Weight[column']) =
                          (Total(left, right, Mirrored(Multiplied(parity, row, column))))'
    BY DEF Summed
  <2>2. parity' \in 0..1 /\ row' \in Nat /\ column' \in Split!Columns(parity', row')
        /\ Multiplied(parity', row', column') = Multiplied(parity, row, column)
    BY <1>5, <2>1
  <2>3. column' \in 0..2*N+1
    BY <1>0, <2>2, ColumnsAre
  <2>4. Split!Weight[column'] \in Nat
    BY <2>3, WeightFacts
  <2>5. Held' \in Nat
    <3>1. Split!Weight[column] \in Nat
      <4>1. column \in 0..2*N+1
        <5>1. (column - 2) \in Nat /\ column - 2 <= 2*N-2
          BY <1>0, ColumnsAre DEF PassOver
        <5>. QED BY <1>0, <5>1
      <4>. QED BY <4>1, WeightFacts
    <3>2. Held \in Nat
      BY <1>0, HeldFacts
    <3>3. cc * Split!Weight[column] \in Nat
      BY <1>0, <3>1
    <3>. QED BY <1>2, <3>2, <3>3
  <2>6. Held' + cc' * Split!Weight[column'] = Held'
    BY <1>1, <2>4, <2>5
  <2>. QED BY <1>3, <1>7, <2>2, <2>6
<1>11. Placed'
  <2>1. pc' = "mac" => column' \in (Split!Columns(parity, row))'
    <3>1. SUFFICES ASSUME pc' = "mac" PROVE column' \in (Split!Columns(parity, row))'
      OBVIOUS
    <3>2. column' \in Split!Columns(parity', row')
      BY <1>5, <3>1
    <3>. QED BY <1>6, <3>2 DEF Split!Columns, Split!PassColumns, Split!PassStart, Split!inputs
  <2>2. pc' # "close"
    BY <1>5
  <2>. QED BY <2>1, <2>2 DEF Placed
<1>12. Combined'
  <2>1. pc' \in {"mac", "merge"}
    BY <1>5
  <2>2. pc' = "merge" => Times' * Held' = (Total(left, right, Mirrored(Chosen)))'
    BY <1>3, <1>5, <1>7
  <2>. QED BY <2>1, <2>2 DEF Combined
<1>. QED BY <1>9, <1>10, <1>11, <1>12 DEF SInv

LEMMA MergeKeeps ==
  ASSUME Sizes, SInv, Split!Merge
  PROVE  SInv'
<1>. DEFINE ve == Split!Value(e, 2*N)
            vo == Split!Value(o, 2*N)
            low == Split!Value(o, 2*N-1)
            top == o[2*N-1]
            w2 == Split!Weight[2*N]
            w1 == Split!Weight[2*N-1]
            at == ve + W * low
<1>0. /\ Typed /\ N \in Nat /\ N > 2 /\ W \in Nat \ {0} /\ dropped \in Nat
      /\ square \in BOOLEAN /\ left \in Operand /\ right \in Operand /\ (square => right = left)
      /\ o \in [Split!Wide -> 0..W-1]
  BY DEF SInv, Typed, Sizes
<1>1. /\ pc = "merge" /\ product' = at % w2 /\ pc' = (IF square THEN "double" ELSE "done")
      /\ UNCHANGED <<Split!inputs, e, o, Split!flow, cc, dropped>>
  BY DEF Split!Merge, Split!Merged
<1>2. ve \in Nat /\ vo \in Nat /\ Held \in Nat /\ w2 \in Nat \ {0} /\ Times \in {1, 2}
  BY <1>0, HeldFacts
<1>3. /\ low \in Int /\ vo = low + top * w1 /\ top \in Nat /\ low \in Nat
      /\ w1 \in Nat /\ w2 = W * w1
  <2>1. /\ 2*N-1 \in 0..2*N-1 /\ (2*N-1) + 1 = 2*N /\ 2*N-1 \in 0..2*N /\ 2*N-1 \in Split!Wide
        /\ 2*N-1 \in 0..2*N+1
    BY <1>0 DEF Split!Wide
  <2>2. Words(o, (2*N-1) + 1) /\ Words(o, 2*N-1)
    BY <1>0 DEF Words, Split!Wide
  <2>3. low \in Int /\ vo = low + top * w1
    BY <2>1, <2>2, ValueTop
  <2>4. low \in Nat
    BY <2>1, <2>2, ValueFits
  <2>5. top \in Nat
    BY <1>0, <2>1
  <2>6. w1 \in Nat /\ w2 = W * w1
    BY <2>1, WeightFacts
  <2>. QED BY <2>3, <2>4, <2>5, <2>6
<1>4. Held = ve + W * vo + dropped
  BY DEF Held
<1>5. Times * Held = Total(left, right, Mirrored(Chosen))
  BY <1>1 DEF SInv, Combined
<1>6. Mirrored(Chosen) = (IF square THEN OffDiagonal ELSE Pairs) /\ Mirrored(Chosen) \in SUBSET Pairs
  BY <1>0, MirroredFacts
<1>7. Held < w2
  <2>1. Total(left, right, Mirrored(Chosen)) < w2 /\ Total(left, right, Mirrored(Chosen)) \in Int
    BY <1>0, <1>6, TotalFits
  <2>. HIDE DEF w2
  <2>2. Held <= Times * Held
    BY <1>2
  <2>. QED BY <1>2, <1>5, <2>1, <2>2
<1>. HIDE DEF ve, vo, low, top, w1, w2
<1>8. top = 0
  <2>1. SUFFICES ASSUME top >= 1 PROVE FALSE
    BY <1>3
  <2>2. W * vo = W * low + top * w2
    BY <1>0, <1>3
  <2>3. top * w2 >= w2 /\ top * w2 \in Nat /\ W * low \in Nat
    BY <1>0, <1>2, <1>3, <2>1
  <2>. QED BY <1>0, <1>2, <1>4, <1>7, <2>2, <2>3
<1>9. vo = low /\ W * low \in Nat
  <2>1. top * w1 = 0
    BY <1>3, <1>8
  <2>. QED BY <1>0, <1>3, <2>1
<1>10. at \in Nat /\ at < w2 /\ at + dropped = Held
  BY <1>0, <1>2, <1>4, <1>7, <1>9
<1>. HIDE DEF at
<1>11. product' = at
  BY <1>1, <1>2, <1>10, SmallerThanModulus
<1>12. /\ Times' = Times
       /\ (Total(left, right, OffDiagonal))' = Total(left, right, OffDiagonal)
       /\ (Total(left, right, Pairs))' = Total(left, right, Pairs)
       /\ square' = square /\ dropped' = dropped
  BY <1>1, TableAfter DEF Split!inputs
<1>13. Typed'
  BY <1>0, <1>1, <1>10, <1>11 DEF Typed, Split!inputs, Split!flow
<1>14. Summed' /\ Placed'
  BY <1>1 DEF Summed, Placed
<1>15. Combined'
  <2>1. CASE square
    <3>1. pc' = "double" /\ Times = 2 /\ Mirrored(Chosen) = OffDiagonal
      BY <1>1, <1>6, <2>1 DEF Times
    <3>2. 2 * (product' + dropped') = (Total(left, right, OffDiagonal))'
      BY <1>5, <1>10, <1>11, <1>12, <3>1
    <3>. QED BY <1>12, <2>1, <3>1, <3>2 DEF Combined
  <2>2. CASE ~square
    <3>1. pc' = "done" /\ Times = 1 /\ Mirrored(Chosen) = Pairs
      BY <1>1, <1>6, <2>2 DEF Times
    <3>2. product' + dropped' = (Total(left, right, Pairs))'
      BY <1>2, <1>5, <1>10, <1>11, <1>12, <3>1
    <3>. QED BY <3>1, <3>2 DEF Combined
  <2>. QED BY <1>0, <2>1, <2>2
<1>. QED BY <1>13, <1>14, <1>15 DEF SInv

LEMMA DoubleKeeps ==
  ASSUME Sizes, SInv, Split!Double
  PROVE  SInv'
<1>. DEFINE w2 == Split!Weight[2*N]
            t == Total(left, right, OffDiagonal)
<1>0. /\ Typed /\ product \in Nat /\ dropped \in Nat /\ square = TRUE
      /\ left \in Operand /\ right \in Operand /\ square \in BOOLEAN
  BY DEF SInv, Typed, Combined, Split!Double
<1>1. /\ pc = "double" /\ product' = (2 * product) % w2 /\ pc' = "diagonal" /\ dropped' = 2 * dropped
      /\ UNCHANGED <<Split!inputs, e, o, Split!flow, cc>>
  BY DEF Split!Double
<1>2. 2 * (product + dropped) = t
  BY <1>1 DEF SInv, Combined
<1>3. t \in Int /\ t < w2
  <2>1. OffDiagonal \in SUBSET Pairs
    BY DEF OffDiagonal
  <2>. QED BY <1>0, <2>1, TotalFits
<1>4. w2 \in Nat \ {0}
  BY <1>0, HeldFacts
<1>. HIDE DEF w2
<1>5. product' = 2 * product
  <2>1. 2 * product \in Nat /\ 2 * product < w2
    BY <1>0, <1>2, <1>3, <1>4
  <2>. QED BY <1>1, <1>4, <2>1, SmallerThanModulus
<1>6. (Total(left, right, OffDiagonal))' = t /\ square' = square
  BY <1>1, TableAfter DEF Split!inputs
<1>7. Typed'
  <2>1. product' \in Nat /\ dropped' \in Nat
    BY <1>0, <1>1, <1>5
  <2>. QED BY <1>0, <1>1, <2>1 DEF Typed, Split!inputs, Split!flow
<1>8. product' + dropped' = (Total(left, right, OffDiagonal))'
  <2>. HIDE DEF t
  <2>. QED BY <1>0, <1>1, <1>2, <1>5, <1>6
<1>. QED BY <1>0, <1>1, <1>6, <1>7, <1>8 DEF SInv, Summed, Placed, Combined

LEMMA DiagonalKeeps ==
  ASSUME Sizes, SInv, Split!Diagonal
  PROVE  SInv'
<1>. DEFINE w2 == Split!Weight[2*N]
            t == Total(left, right, OffDiagonal)
            all == Total(left, right, Pairs)
<1>0. /\ Typed /\ product \in Nat /\ dropped \in Nat /\ square = TRUE
      /\ left \in Operand /\ right \in Operand /\ right = left
  BY DEF SInv, Typed, Combined, Split!Diagonal
<1>1. /\ pc = "diagonal" /\ product' = (product + Split!DiagonalSum) % w2 /\ pc' = "done"
      /\ UNCHANGED <<Split!inputs, e, o, Split!flow, cc, dropped>>
  BY DEF Split!Diagonal
<1>2. product + dropped = t
  BY <1>1 DEF SInv, Combined
<1>3. all \in Int /\ all < w2
  <2>1. Pairs \in SUBSET Pairs
    OBVIOUS
  <2>. QED BY <1>0, <2>1, TotalFits
<1>4. w2 \in Nat \ {0}
  BY <1>0, HeldFacts
<1>5. Split!DiagonalSum \in Nat /\ t + Split!DiagonalSum = all
  BY <1>0, DiagonalSummed
<1>. HIDE DEF w2, t, all
<1>6. product' = product + Split!DiagonalSum
  <2>1. product + Split!DiagonalSum \in Nat /\ product + Split!DiagonalSum < w2
    BY <1>0, <1>2, <1>3, <1>4, <1>5
  <2>. QED BY <1>1, <1>4, <2>1, SmallerThanModulus
<1>7. (Total(left, right, Pairs))' = all
  BY <1>1, TableAfter DEF all
<1>8. Typed'
  <2>1. product' \in Nat
    BY <1>0, <1>5, <1>6
  <2>. QED BY <1>0, <1>1, <2>1 DEF Typed, Split!inputs, Split!flow
<1>9. product' + dropped' = (Total(left, right, Pairs))'
  BY <1>0, <1>1, <1>2, <1>5, <1>6, <1>7
<1>. QED BY <1>1, <1>8, <1>9 DEF SInv, Summed, Placed, Combined

\* The operands are numbers of N words.
Given == Operands \subseteq Operand /\ Squares \subseteq BOOLEAN

LEMMA Starts ==
  ASSUME Sizes, Given, Split!Init
  PROVE  SInv
<1>1. /\ square \in BOOLEAN /\ left \in Operand /\ right \in Operand /\ (square => right = left)
      /\ pc = "mac" /\ parity = 0 /\ row = 0 /\ column = Split!FirstColumn(0, 0) /\ cc = 0 /\ dropped = 0 /\ product = 0
      /\ e = [k \in Split!Wide |-> 0] /\ o = [k \in Split!Wide |-> 0]
  BY DEF Split!Init, Given
<1>2. 0 \in 0..1 /\ 0 \in Nat /\ N \in Nat /\ W \in Nat /\ 0 \in 0..W-1
  BY DEF Sizes
<1>3. column \in Split!Columns(parity, row) /\ column \in Nat /\ column \in 0..2*N+1
  <2>1. Split!FirstColumn(0, 0) \in Split!Columns(0, 0)
    BY <1>1, <1>2, FirstPass, FirstColumnIs
  <2>2. Split!FirstColumn(0, 0) \in Nat /\ Split!FirstColumn(0, 0) <= 2*N-2
    BY <1>1, <1>2, <2>1, ColumnsAre
  <2>. QED BY <1>1, <1>2, <2>1, <2>2
<1>4. Typed
  BY <1>1, <1>2, <1>3 DEF Typed
<1>5. Summed
  <2>1. Multiplied(parity, row, column) = {}
    BY <1>1, NothingYet
  <2>2. Total(left, right, Mirrored(Multiplied(parity, row, column))) = 0
    <3>1. Mirrored({}) = {}
      BY DEF Mirrored
    <3>2. Total(left, right, {}) = 0
      BY <1>1, TotalEmpty
    <3>. QED BY <2>1, <3>1, <3>2
  <2>3. Split!Value(e, 2*N) = 0 /\ Split!Value(o, 2*N) = 0
    <3>1. 2*N \in 0..2*N /\ 2*N \in Nat /\ \A i \in 0..2*N-1 : i \in Split!Wide /\ i \in 0..2*N /\ i \in 0..2*N+1
      BY <1>2 DEF Split!Wide
    <3>2. Words(e, 2*N) /\ Words(o, 2*N)
      BY <1>1, <1>2, <3>1 DEF Words
    <3>3. \A i \in 0..2*N-1 : Split!Weight[i] \in Nat
      BY <3>1, WeightFacts
    <3>4. \A i \in 0..2*N-1 : Weighed(e)[i] = 0 /\ Weighed(o)[i] = 0
      BY <1>1, <3>1, <3>3 DEF Weighed
    <3>5. Sum(Weighed(e), 2*N) = 0 /\ Sum(Weighed(o), 2*N) = 0
      BY <3>1, <3>4, SumZero
    <3>. QED BY <3>1, <3>2, <3>5, ValueIsSum
  <2>4. Held = 0
    BY <1>1, <1>2, <2>3 DEF Held
  <2>5. Split!Weight[column] \in Nat /\ Times \in {1, 2}
    BY <1>3, <1>4, WeightFacts, HeldFacts
  <2>6. Times * (Held + cc * Split!Weight[column]) = 0
    BY <1>1, <2>4, <2>5
  <2>. QED BY <2>2, <2>6 DEF Summed
<1>6. Placed /\ Combined
  BY <1>1, <1>3 DEF Placed, Combined
<1>. QED BY <1>4, <1>5, <1>6 DEF SInv

LEMMA Stutters ==
  ASSUME SInv, UNCHANGED Split!vars
  PROVE  SInv'
BY DEF Split!vars, Split!inputs, Split!flow, SInv, Typed, Summed, Placed, Combined, Held, Times,
   Mirrored, Multiplied, Chosen, PassOver, Split!Columns, Split!PassColumns, Split!PassStart, ColumnOf, PassOf, Pairs, OffDiagonal

LEMMA Keeps ==
  ASSUME Sizes, SInv, Split!Next
  PROVE  SInv'
<1>1. CASE Split!Mac
  BY <1>1, MacKeeps
<1>2. CASE Split!Close
  BY <1>2, CloseKeeps
<1>3. CASE Split!Merge
  BY <1>3, MergeKeeps
<1>4. CASE Split!Double
  BY <1>4, DoubleKeeps
<1>5. CASE Split!Diagonal
  BY <1>5, DiagonalKeeps
<1>6. CASE Split!Over
  BY <1>6, Stutters DEF Split!Over
<1>. QED BY <1>1, <1>2, <1>3, <1>4, <1>5, <1>6 DEF Split!Next

LEMMA Exact ==
  ASSUME Sizes, SInv
  PROVE  Split!ExactUpToClosingCarries
<1>1. pc = "done" => product + dropped = Total(left, right, Pairs)
  BY DEF SInv, Combined
<1>2. Total(left, right, Pairs) = Split!Value(left, N) * Split!Value(right, N)
  BY TotalOfAll DEF SInv, Typed
<1>. QED BY <1>1, <1>2 DEF Split!ExactUpToClosingCarries

\* As long as a product is taken, what its accumulators, its running carry and its lost carries are worth
\* is the part of the product table that has been multiplied.
ProductInv == pc # "idle" => SInv

LEMMA WordsAreSized == Sizes /\ Given
BY WordAssumption, OperandAssumption DEF Sizes, Given, Operand

\* The accumulators, the running carry and the lost carries of mul512_split and sqr512_split are worth, at
\* every step, what the pairs multiplied so far are worth.
THEOREM SplitInvariant == UnitSpec => []ProductInv
<1>1. UnitInit => ProductInv
  <2>. SUFFICES ASSUME UnitInit, pc # "idle" PROVE SInv
    BY DEF ProductInv
  <2>1. Split!Init
    BY DEF UnitInit, NoProduct
  <2>. QED BY <2>1, WordsAreSized, Starts
<1>2. ProductInv /\ [UnitNext]_uvars => ProductInv'
  <2>. SUFFICES ASSUME ProductInv, [UnitNext]_uvars PROVE ProductInv'
    OBVIOUS
  <2>1. CASE Multiplying
    <3>1. SInv /\ Split!Next
      BY <2>1 DEF Multiplying, ProductInv
    <3>. QED BY <3>1, WordsAreSized, Keeps DEF ProductInv
  <2>2. CASE ~Multiplying
    <3>1. UNCHANGED pvars
      BY <2>2 DEF UnitNext, Call, Invert, Inverting, Inverted, Fold, uvars
    <3>. QED BY <3>1, Stutters DEF ProductInv, pvars, Split!vars, Split!inputs, Split!flow
  <2>. QED BY <2>1, <2>2
<1>. QED BY <1>1, <1>2, PTL DEF UnitSpec

\* mul512_split and sqr512_split multiply every pair of words once and lose nothing but the carries of their
\* closing adds, whatever the number and the size of the words (Math.cuh).
THEOREM SplitProductExact == UnitSpec => []ExactUpToClosingCarries
<1>1. ProductInv => ExactUpToClosingCarries
  <2>. SUFFICES ASSUME ProductInv, pc = "done" PROVE ExactUpToClosingCarries
    BY DEF ExactUpToClosingCarries, Split!ExactUpToClosingCarries
  <2>1. Split!ExactUpToClosingCarries
    BY WordsAreSized, Exact DEF ProductInv
  <2>. QED BY <2>1 DEF ExactUpToClosingCarries
<1>. QED BY <1>1, SplitInvariant, PTL

\* Once mul_mod or sqr_mod has returned, its register holds what the foldings make of the product taken.
FoldInv == IsProduct => pc = "done" /\ r = ReturnedOf(product)

LEMMA FoldInvariant == UnitSpec => []FoldInv
<1>1. UnitInit => FoldInv
  BY DEF UnitInit, Init, NoCall, FoldInv, IsProduct
<1>2. FoldInv /\ [UnitNext]_uvars => FoldInv'
  <2>. SUFFICES ASSUME FoldInv, [UnitNext]_uvars PROVE FoldInv'
    OBVIOUS
  <2>1. CASE Call
    BY <2>1 DEF FoldInv, IsProduct, Call, Next, Neg, Add, Sub, Sub3, Prefix, HostAdd, HostSub, HostMul,
                Over, Return, vars, pvars
  <2>2. CASE Fold
    BY <2>2 DEF FoldInv, IsProduct, Fold, pvars
  <2>3. CASE Multiplying
    <3>1. UNCHANGED <<op, r>>
      BY <2>3 DEF Multiplying, vars
    <3>2. pc = "done" => UNCHANGED <<pc, product>>
      BY <2>3 DEF Multiplying, Split!Next, Split!Mac, Split!Close, Split!Merge, Split!Double, Split!Diagonal,
                  Split!Over, Split!vars
    <3>. QED BY <3>1, <3>2 DEF FoldInv, IsProduct
  <2>4. CASE ~Call /\ ~Fold /\ ~Multiplying
    <3>1. UNCHANGED <<op, r, pc, product>>
      BY <2>4 DEF UnitNext, Invert, Inverting, Inverted, uvars, vars, pvars
    <3>. QED BY <3>1 DEF FoldInv, IsProduct
  <2>. QED BY <2>1, <2>2, <2>3, <2>4
<1>. QED BY <1>1, <1>2, PTL DEF UnitSpec

\* What mul_mod and sqr_mod return falls short of the product, up to multiples of P, by the carries of the
\* closing adds and by the one of the last addition, and by nothing else: it is congruent to the product if
\* no carry was lost, in the passes or at the end, whatever the number and the size of the words (Math.cuh).
THEOREM LossesAreCounted == UnitSpec => []EveryLossCounted
<1>1. ProductInv /\ FoldInv => EveryLossCounted
  <2>. DEFINE exact == LeftValue * RightValue
              q == product \div R
              f == Folded(product)
              h == f \div R
              g == FoldedTwice(product)
  <2>1. SUFFICES ASSUME ProductInv, pc = "done", r = ReturnedOf(product)
                 PROVE  ((g % R) + R * (g \div R) + dropped - exact) % P = 0
    BY DEF EveryLossCounted, FoldInv, ReturnedOf, LastCarry
  <2>2. product \in Int /\ dropped \in Int
    BY <2>1 DEF ProductInv, SInv, Typed
  <2>3. product + dropped = exact
    <3>1. Split!ExactUpToClosingCarries
      BY <2>1, WordsAreSized, Exact DEF ProductInv
    <3>. QED BY <2>1, <3>1 DEF Split!ExactUpToClosingCarries, LeftValue, RightValue
  <2>. HIDE DEF exact
  <2>4. P \in Int /\ R \in Int
    BY ModulusRange, ModulusAssumption
  <2>5. q \in Int /\ f = product - q * P
    BY <2>2, DivModR, FoldingIsCongruent DEF Folded
  <2>. HIDE DEF q, f
  <2>6. f \in Int
    BY <2>2, <2>4, <2>5
  <2>7. h \in Int /\ g = f - h * P
    BY <2>6, DivModR, FoldingIsCongruent DEF FoldedTwice, f
  <2>. HIDE DEF h, g
  <2>8. g \in Int
    BY <2>4, <2>6, <2>7
  <2>9. (g % R) + R * (g \div R) = g
    <3>1. g = R * (g \div R) + (g % R) /\ g % R \in Int /\ g \div R \in Int
      BY <2>8, DivModR DEF Number
    <3>. DEFINE part1 == R * (g \div R)
                part2 == g % R
    <3>2. part1 \in Int /\ part2 \in Int /\ g = part1 + part2
      BY <2>4, <3>1
    <3>. HIDE DEF part1, part2
    <3>3. part2 + part1 = g
      BY <3>2
    <3>. QED BY <3>3 DEF part1, part2
  <2>10. g + dropped - exact = (0 - q - h) * P
    <3>1. (0 - q - h) * P = 0 - q * P - h * P
      BY <2>4, <2>5, <2>7
    <3>. DEFINE part1 == q * P
                part2 == h * P
    <3>2. part1 \in Int /\ part2 \in Int /\ f = product - part1 /\ g = f - part2 /\ (0 - q - h) * P = 0 - part1 - part2
      BY <2>4, <2>5, <2>7, <3>1
    <3>. HIDE DEF part1, part2
    <3>. QED BY <2>2, <2>3, <3>2
  <2>11. (g + dropped - exact) % P = 0
    <3>. DEFINE n == 0 - q - h
    <3>1. n \in Int /\ g + dropped - exact = n * P
      BY <2>5, <2>7, <2>10
    <3>. HIDE DEF n
    <3>. QED BY <3>1, MultipleOfP
  <2>. QED BY <2>9, <2>11
<1>. QED BY <1>1, SplitInvariant, FoldInvariant, PTL
===============================================================================
