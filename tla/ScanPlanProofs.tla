---------------------------- MODULE ScanPlanProofs -----------------------------
(***************************************************************************)
(* Proofs about Math256, RangeSplit and ScanPlan: the limbs count as their *)
(* numbers do, the parts of the GPUs tile the range, and the scan of a     *)
(* part tests every key of it, and none twice.                             *)
(***************************************************************************)
EXTENDS ScanPlan, NumberFacts, SequenceTheorems, FiniteSetTheorems

-------------------------------------------------------------------------------
(* The weights                                                             *)

LEMMA PowerFacts ==
  /\ Power \in [0..Limbs -> Nat] /\ Power[0] = 1
  /\ \A i \in LimbIndex : Power[i+1] = Word * Power[i]
  /\ \A i \in 0..Limbs : Power[i] > 0
<1>. DEFINE Body(p) == [i \in 0..Limbs |-> IF i = 0 THEN 1 ELSE Word * p[i-1]]
<1>0. Limbs \in Nat /\ Word \in Nat /\ Word > 1
  BY WordAssumption, LimbAssumption
<1>1. \E p : p \in [0..Limbs -> Nat] /\ p = Body(p)
  <2>. DEFINE next == [i \in 1..Limbs |-> [x \in Nat |-> Word * x]]
  <2>1. next \in [1..Limbs -> [Nat -> Nat]]
    BY <1>0
  <2>2. PICK p : Follows(p, Limbs, Nat, 1, next)
    <3>. HIDE DEF next
    <3>. QED BY <1>0, <2>1, UpwardFunction
  <2>3. p \in [0..Limbs -> Nat] /\ p[0] = 1 /\ \A i \in 1..Limbs : p[i] = next[i][p[i-1]]
    BY <2>2 DEF Follows
  <2>4. ASSUME NEW i \in 1..Limbs PROVE p[i] = Word * p[i-1]
    <3>1. i - 1 \in 0..Limbs
      BY <1>0
    <3>2. p[i-1] \in Nat
      BY <2>3, <3>1
    <3>. QED BY <2>3, <3>2
  <2>5. ASSUME NEW i \in 0..Limbs PROVE p[i] = IF i = 0 THEN 1 ELSE Word * p[i-1]
    <3>1. CASE i = 0
      BY <2>3, <3>1
    <3>2. CASE i # 0
      BY <1>0, <2>4, <3>2
    <3>. QED BY <3>1, <3>2
  <2>6. p = Body(p)
    BY <2>3, <2>5
  <2>. QED BY <2>3, <2>6
<1>2. Power = Body(Power)
  BY <1>1 DEF Power
<1>. DEFINE T == {i \in 0..Limbs : Power[i] \in Nat /\ Power[i] > 0}
<1>3. Power[0] = 1 /\ \A i \in LimbIndex : Power[i+1] = Word * Power[i]
  <2>1. \A i \in 0..Limbs : Power[i] = IF i = 0 THEN 1 ELSE Word * Power[i-1]
    BY <1>2
  <2>2. \A i \in LimbIndex : i + 1 \in 0..Limbs /\ i + 1 # 0 /\ (i + 1) - 1 = i
    BY <1>0 DEF LimbIndex
  <2>. QED BY <1>0, <2>1, <2>2
<1>4. \A i \in 0..Limbs : i \in T
  <2>1. 0 \in T
    BY <1>0, <1>3
  <2>2. ASSUME NEW i \in 0..Limbs-1, i \in T PROVE i + 1 \in T
    <3>1. Power[i+1] = Word * Power[i] /\ Power[i] \in Nat /\ Power[i] > 0
      BY <1>3, <2>2 DEF LimbIndex
    <3>2. \A y \in Nat : y > 0 => Word * y \in Nat /\ Word * y > 0
      BY <1>0
    <3>. QED BY <1>0, <3>1, <3>2
  <2>. HIDE DEF T
  <2>. QED BY <1>0, <2>1, <2>2, UpTo
<1>5. Power \in [0..Limbs -> Nat]
  BY <1>2, <1>4
<1>. QED BY <1>3, <1>4, <1>5

LEMMA Digits == Limbs \in Nat /\ Limbs > 0 /\ Word \in Nat /\ Word > 1 /\ Keys \in Nat /\ Keys > 0
BY WordAssumption, LimbAssumption, PowerFacts DEF Keys

LEMMA Products == \A x, y \in Nat : x * y \in Nat
OBVIOUS

-------------------------------------------------------------------------------
(* What limbs stand for                                                    *)

LEMMA ValueFromFacts ==
  ASSUME NEW a \in [LimbIndex -> Nat]
  PROVE  /\ ValueFrom(a) \in [0..Limbs -> Nat] /\ ValueFrom(a)[Limbs] = 0
         /\ \A i \in LimbIndex : ValueFrom(a)[i] = a[i] + (Word * ValueFrom(a)[i+1])
<1>. DEFINE Body(v) == [i \in 0..Limbs |-> IF i = Limbs THEN 0 ELSE a[i] + (Word * v[i+1])]
<1>0. Limbs \in Nat /\ Word \in Nat /\ LimbIndex = 0..Limbs-1
  BY WordAssumption, LimbAssumption DEF LimbIndex
<1>1. \E v : v \in [0..Limbs -> Nat] /\ v = Body(v)
  <2>. DEFINE next == [i \in 0..Limbs-1 |-> [x \in Nat |-> a[i] + (Word * x)]]
  <2>1. next \in [0..Limbs-1 -> [Nat -> Nat]]
    BY <1>0
  <2>2. PICK v : Descends(v, Limbs, Nat, 0, next)
    <3>. HIDE DEF next
    <3>. QED BY <1>0, <2>1, DownwardFunction
  <2>3. v \in [0..Limbs -> Nat] /\ v[Limbs] = 0 /\ \A i \in 0..Limbs-1 : v[i] = next[i][v[i+1]]
    BY <2>2 DEF Descends
  <2>4. ASSUME NEW i \in 0..Limbs-1 PROVE v[i] = a[i] + (Word * v[i+1])
    <3>1. i + 1 \in 0..Limbs
      BY <1>0
    <3>2. v[i+1] \in Nat
      BY <2>3, <3>1
    <3>. QED BY <2>3, <3>2
  <2>5. ASSUME NEW i \in 0..Limbs PROVE v[i] = IF i = Limbs THEN 0 ELSE a[i] + (Word * v[i+1])
    <3>1. CASE i = Limbs
      BY <2>3, <3>1
    <3>2. CASE i # Limbs
      BY <1>0, <2>4, <3>2
    <3>. QED BY <3>1, <3>2
  <2>6. v = Body(v)
    BY <2>3, <2>5
  <2>. QED BY <2>3, <2>6
<1>2. ValueFrom(a) = Body(ValueFrom(a))
  BY <1>1 DEF ValueFrom
<1>3. /\ ValueFrom(a)[Limbs] = 0
      /\ \A i \in LimbIndex : ValueFrom(a)[i] = a[i] + (Word * ValueFrom(a)[i+1])
  <2>1. \A i \in 0..Limbs :
          ValueFrom(a)[i] = IF i = Limbs THEN 0 ELSE a[i] + (Word * ValueFrom(a)[i+1])
    BY <1>2
  <2>. QED BY <1>0, <2>1
<1>. DEFINE T == {i \in 0..Limbs : ValueFrom(a)[i] \in Nat}
<1>4. \A i \in 0..Limbs : i \in T
  <2>1. Limbs \in T
    BY <1>0, <1>3
  <2>2. ASSUME NEW i \in 0..Limbs-1, i + 1 \in T PROVE i \in T
    <3>1. ValueFrom(a)[i] = a[i] + (Word * ValueFrom(a)[i+1]) /\ ValueFrom(a)[i+1] \in Nat /\ a[i] \in Nat
      BY <1>0, <1>3, <2>2
    <3>2. Word * ValueFrom(a)[i+1] \in Nat
      BY <1>0, <3>1, Products
    <3>3. ValueFrom(a)[i] \in Nat
      BY <3>1, <3>2
    <3>. QED BY <1>0, <3>3
  <2>. HIDE DEF T
  <2>. QED BY <1>0, <2>1, <2>2, DownFrom
<1>5. ValueFrom(a) \in [0..Limbs -> Nat]
  BY <1>2, <1>4
<1>. QED BY <1>3, <1>5

LEMMA ValueBound ==
  ASSUME NEW a \in U256
  PROVE  ValueOf(a) \in 0 .. Keys-1
<1>0. /\ a \in [LimbIndex -> Nat] /\ LimbIndex = 0..Limbs-1 /\ Limbs \in Nat /\ Word \in Nat
      /\ \A i \in LimbIndex : a[i] < Word
  BY Digits DEF U256, LimbIndex
<1>. DEFINE v == ValueFrom(a)
            T == {i \in 0..Limbs : v[i] < Power[Limbs-i]}
<1>1. \A i \in 0..Limbs : i \in T
  <2>1. Limbs \in T
    BY <1>0, ValueFromFacts, PowerFacts
  <2>2. ASSUME NEW i \in 0..Limbs-1, i + 1 \in T PROVE i \in T
    <3>. DEFINE k == Limbs-(i+1)
                x == Word * v[i+1]
                y == Word * Power[k]
    <3>1. i \in LimbIndex /\ i + 1 \in 0..Limbs /\ k \in LimbIndex /\ k \in 0..Limbs /\ k + 1 = Limbs-i
      BY <1>0
    <3>2. v[i] = a[i] + x /\ v[i+1] \in Nat /\ a[i] \in Nat /\ a[i] < Word
      BY <1>0, <3>1, ValueFromFacts
    <3>. HIDE DEF v, k
    <3>3. Power[Limbs-i] = y /\ Power[k] \in Nat
      BY <3>1, PowerFacts
    <3>4. \A m, n \in Nat : m < n => Word * m + Word <= Word * n
      BY <1>0
    <3>5. v[i+1] < Power[k]
      BY <2>2 DEF k
    <3>6. x + Word <= y /\ x \in Nat /\ y \in Nat
      BY <1>0, <3>2, <3>3, <3>4, <3>5, Products
    <3>. HIDE DEF x, y
    <3>7. v[i] < Power[Limbs-i]
      BY <1>0, <3>2, <3>3, <3>6
    <3>. QED BY <1>0, <3>7
  <2>. HIDE DEF T
  <2>. QED BY <1>0, <2>1, <2>2, DownFrom
<1>2. 0 \in T
  BY <1>0, <1>1
<1>. QED BY <1>0, <1>2, ValueFromFacts, Digits DEF ValueOf, Keys

-------------------------------------------------------------------------------
(* Addition and subtraction                                                *)

LEMMA Digit ==
  ASSUME NEW n \in Nat, NEW w \in Nat, w > 0
  PROVE  /\ n \div w \in Nat /\ n % w \in 0..w-1
         /\ n = (n % w) + w * (n \div w)
OBVIOUS

Chained(a, b, r, c) ==
  /\ a \in [LimbIndex -> Nat] /\ b \in [LimbIndex -> Nat] /\ r \in [LimbIndex -> Nat]
  /\ c \in [0..Limbs -> 0..1] /\ c[0] = 0
  /\ \A i \in LimbIndex : a[i] + b[i] + c[i] = r[i] + Word * c[i+1]

\* A chain of carries adds up to one carry out of the top limb.
LEMMA CarryChain ==
  ASSUME NEW a, NEW b, NEW r, NEW c, Chained(a, b, r, c)
  PROVE  ValueOf(r) + c[Limbs] * Keys = ValueOf(a) + ValueOf(b)
<1>. DEFINE T == {i \in 0..Limbs : ValueFrom(r)[i] + c[Limbs] * Power[Limbs-i] =
                                     ValueFrom(a)[i] + ValueFrom(b)[i] + c[i]}
<1>0. /\ Limbs \in Nat /\ Word \in Nat /\ Word > 1 /\ LimbIndex = 0..Limbs-1
      /\ a \in [LimbIndex -> Nat] /\ b \in [LimbIndex -> Nat] /\ r \in [LimbIndex -> Nat]
      /\ c \in [0..Limbs -> 0..1] /\ c[0] = 0
  BY Digits DEF LimbIndex, Chained
<1>1. \A i \in 0..Limbs : i \in T
  <2>1. Limbs \in T
    <3>1. ValueFrom(r)[Limbs] = 0 /\ ValueFrom(a)[Limbs] = 0 /\ ValueFrom(b)[Limbs] = 0
      BY <1>0, ValueFromFacts
    <3>2. Limbs - Limbs = 0 /\ Power[0] = 1 /\ c[Limbs] \in 0..1 /\ Limbs \in 0..Limbs
      BY <1>0, PowerFacts
    <3>. QED BY <3>1, <3>2
  <2>2. ASSUME NEW i \in 0..Limbs-1, i + 1 \in T PROVE i \in T
    <3>. DEFINE x == ValueFrom(r)[i+1]
                y == ValueFrom(a)[i+1]
                z == ValueFrom(b)[i+1]
                p == Power[Limbs-(i+1)]
    <3>0. i \in LimbIndex /\ i + 1 \in 0..Limbs /\ i \in 0..Limbs
      BY <1>0
    <3>1. /\ ValueFrom(r)[i] = r[i] + (Word * x) /\ ValueFrom(a)[i] = a[i] + (Word * y)
          /\ ValueFrom(b)[i] = b[i] + (Word * z)
      BY <1>0, <3>0, ValueFromFacts
    <3>2. x \in Nat /\ y \in Nat /\ z \in Nat
      BY <1>0, <3>0, ValueFromFacts
    <3>3. Power[Limbs-i] = Word * p /\ p \in Nat
      <4>1. Limbs-(i+1) \in LimbIndex /\ (Limbs-(i+1)) + 1 = Limbs-i /\ Limbs-(i+1) \in 0..Limbs
        BY <1>0
      <4>. QED BY <4>1, PowerFacts
    <3>4. x + c[Limbs] * p = y + z + c[i+1]
      BY <2>2
    <3>5. c[Limbs] \in 0..1 /\ c[i+1] \in 0..1 /\ c[i] \in 0..1 /\ a[i] \in Nat /\ b[i] \in Nat
      BY <1>0, <3>0
    <3>6. a[i] + b[i] + c[i] = r[i] + Word * c[i+1]
      BY <3>0 DEF Chained
    <3>6a. r[i] \in Nat
      BY <1>0, <3>0
    <3>. HIDE DEF x, y, z, p
    <3>7. Word * x + c[Limbs] * (Word * p) = Word * y + Word * z + Word * c[i+1]
      <4>1. ASSUME NEW l \in Nat, NEW m \in Nat, x + l * p = y + z + m
            PROVE  Word * x + l * (Word * p) = Word * y + Word * z + Word * m
        <5>1. Word * (x + l * p) = Word * x + l * (Word * p)
          BY <1>0, <3>2, <3>3
        <5>2. Word * (y + z + m) = Word * y + Word * z + Word * m
          BY <1>0, <3>2, <3>3
        <5>. QED BY <4>1, <5>1, <5>2
      <4>2. c[Limbs] \in Nat /\ c[i+1] \in Nat
        BY <3>5
      <4>. QED BY <3>4, <4>1, <4>2
    <3>8. ValueFrom(r)[i] + c[Limbs] * Power[Limbs-i] = ValueFrom(a)[i] + ValueFrom(b)[i] + c[i]
      <4>. DEFINE wx == Word * x
                  wy == Word * y
                  wz == Word * z
                  wc == Word * c[i+1]
                  wp == c[Limbs] * (Word * p)
      <4>1. wx \in Nat /\ wy \in Nat /\ wz \in Nat /\ wc \in Nat /\ wp \in Nat
        <5>1. c[Limbs] \in Nat /\ c[i+1] \in Nat
          BY <3>5
        <5>. QED BY <1>0, <3>2, <3>3, <5>1, Products
      <4>2. /\ wx + wp = wy + wz + wc /\ a[i] + b[i] + c[i] = r[i] + wc
            /\ ValueFrom(r)[i] = r[i] + wx /\ ValueFrom(a)[i] = a[i] + wy
            /\ ValueFrom(b)[i] = b[i] + wz
        BY <3>1, <3>6, <3>7
      <4>3. c[Limbs] * Power[Limbs-i] = wp
        BY <3>3
      <4>. HIDE DEF wx, wy, wz, wc, wp
      <4>4. ValueFrom(r)[i] + wp = ValueFrom(a)[i] + ValueFrom(b)[i] + c[i]
        BY <3>5, <3>6a, <4>1, <4>2
      <4>. QED BY <4>3, <4>4
    <3>. QED BY <3>0, <3>8
  <2>. HIDE DEF T
  <2>. QED BY <1>0, <2>1, <2>2, DownFrom
<1>2. 0 \in T
  BY <1>0, <1>1
<1>3. 0 \in 0..Limbs /\ Limbs - 0 = Limbs
  BY <1>0
<1>4. ValueFrom(a) \in [0..Limbs -> Nat] /\ ValueFrom(b) \in [0..Limbs -> Nat]
  BY <1>0, ValueFromFacts
<1>5. ValueFrom(a)[0] \in Nat /\ ValueFrom(b)[0] \in Nat
  BY <1>3, <1>4
<1>. QED BY <1>0, <1>2, <1>3, <1>5 DEF ValueOf, Keys

LEMMA CarryFacts ==
  ASSUME NEW a \in U256, NEW b \in U256
  PROVE  /\ Carries(a, b) \in [0..Limbs -> 0..1] /\ Carries(a, b)[0] = 0
         /\ \A i \in LimbIndex :
              Carries(a, b)[i+1] = (a[i] + b[i] + Carries(a, b)[i]) \div Word
<1>. DEFINE Body(c) == [i \in 0..Limbs |-> IF i = 0 THEN 0 ELSE (a[i-1] + b[i-1] + c[i-1]) \div Word]
<1>0. /\ Limbs \in Nat /\ Word \in Nat /\ Word > 1 /\ LimbIndex = 0..Limbs-1
      /\ \A i \in LimbIndex : a[i] \in 0..Word-1 /\ b[i] \in 0..Word-1
  BY Digits DEF LimbIndex, U256
<1>1. ASSUME NEW i \in LimbIndex, NEW x \in 0..1 PROVE (a[i] + b[i] + x) \div Word \in 0..1
  <2>. DEFINE n == a[i] + b[i] + x
  <2>1. \A k, w \in Nat : w > 0 /\ k < w + w => k \div w \in 0..1
    OBVIOUS
  <2>2. n \in Nat /\ n < Word + Word
    BY <1>0
  <2>. HIDE DEF n
  <2>3. n \div Word \in 0..1
    BY <1>0, <2>1, <2>2
  <2>. QED BY <2>3 DEF n
<1>2. \E c : c \in [0..Limbs -> 0..1] /\ c = Body(c)
  <2>. DEFINE next == [i \in 1..Limbs |-> [x \in 0..1 |-> (a[i-1] + b[i-1] + x) \div Word]]
  <2>1. next \in [1..Limbs -> [0..1 -> 0..1]]
    <3>1. \A i \in 1..Limbs : i - 1 \in LimbIndex
      BY <1>0
    <3>. QED BY <1>1, <3>1
  <2>2. PICK c : Follows(c, Limbs, 0..1, 0, next)
    <3>. HIDE DEF next
    <3>1. 0 \in 0..1
      OBVIOUS
    <3>. QED BY <1>0, <2>1, <3>1, UpwardFunction
  <2>3. c \in [0..Limbs -> 0..1] /\ c[0] = 0 /\ \A i \in 1..Limbs : c[i] = next[i][c[i-1]]
    BY <2>2 DEF Follows
  <2>4. ASSUME NEW i \in 1..Limbs PROVE c[i] = (a[i-1] + b[i-1] + c[i-1]) \div Word
    <3>1. i - 1 \in 0..Limbs
      BY <1>0
    <3>2. c[i-1] \in 0..1
      BY <2>3, <3>1
    <3>. QED BY <2>3, <3>2
  <2>5. ASSUME NEW i \in 0..Limbs
        PROVE  c[i] = IF i = 0 THEN 0 ELSE (a[i-1] + b[i-1] + c[i-1]) \div Word
    <3>1. CASE i = 0
      BY <2>3, <3>1
    <3>2. CASE i # 0
      BY <1>0, <2>4, <3>2
    <3>. QED BY <3>1, <3>2
  <2>6. c = Body(c)
    BY <2>3, <2>5
  <2>. QED BY <2>3, <2>6
<1>3. Carries(a, b) = Body(Carries(a, b))
  BY <1>2 DEF Carries
<1>4. /\ Carries(a, b)[0] = 0
      /\ \A i \in LimbIndex : Carries(a, b)[i+1] = (a[i] + b[i] + Carries(a, b)[i]) \div Word
  <2>1. \A i \in 0..Limbs : Carries(a, b)[i] =
          IF i = 0 THEN 0 ELSE (a[i-1] + b[i-1] + Carries(a, b)[i-1]) \div Word
    BY <1>3
  <2>2. \A i \in LimbIndex : i + 1 \in 0..Limbs /\ i + 1 # 0 /\ (i + 1) - 1 = i
    BY <1>0
  <2>. QED BY <1>0, <2>1, <2>2
<1>. DEFINE T == {i \in 0..Limbs : Carries(a, b)[i] \in 0..1}
<1>5. \A i \in 0..Limbs : i \in T
  <2>1. 0 \in T
    BY <1>0, <1>4
  <2>2. ASSUME NEW i \in 0..Limbs-1, i \in T PROVE i + 1 \in T
    <3>1. Carries(a, b)[i+1] \in 0..1
      BY <1>0, <1>1, <1>4, <2>2
    <3>. QED BY <1>0, <3>1
  <2>. HIDE DEF T
  <2>. QED BY <1>0, <2>1, <2>2, UpTo
<1>6. Carries(a, b) \in [0..Limbs -> 0..1]
  BY <1>3, <1>5
<1>. QED BY <1>4, <1>6

\* The limbs of a sum stand for the sum, but for a carry out of the top limb.
THEOREM AdditionExact ==
  ASSUME NEW a \in U256, NEW b \in U256
  PROVE  /\ add_256(a, b).r \in U256
         /\ add_256(a, b).overflow \in BOOLEAN
         /\ ValueOf(add_256(a, b).r) + (IF add_256(a, b).overflow THEN Keys ELSE 0) =
              ValueOf(a) + ValueOf(b)
<1>. DEFINE c == Carries(a, b)
            r == add_256(a, b).r
<1>0. /\ Limbs \in Nat /\ Word \in Nat /\ Word > 1 /\ LimbIndex = 0..Limbs-1
      /\ a \in [LimbIndex -> Nat] /\ b \in [LimbIndex -> Nat]
  BY Digits DEF LimbIndex, U256
<1>1. /\ c \in [0..Limbs -> 0..1] /\ c[0] = 0
      /\ \A i \in LimbIndex : c[i+1] = (a[i] + b[i] + c[i]) \div Word
  BY CarryFacts
<1>. HIDE DEF c
<1>2. r = [i \in LimbIndex |-> (a[i] + b[i] + c[i]) % Word]
  BY DEF add_256, c
<1>. HIDE DEF r
<1>3. ASSUME NEW i \in LimbIndex
      PROVE  /\ r[i] \in 0..Word-1
             /\ a[i] + b[i] + c[i] = r[i] + Word * c[i+1]
  <2>. DEFINE n == a[i] + b[i] + c[i]
  <2>1. i \in 0..Limbs /\ a[i] \in Nat /\ b[i] \in Nat
    BY <1>0
  <2>2. n \in Nat
    BY <1>1, <2>1
  <2>3. r[i] = n % Word /\ c[i+1] = n \div Word
    BY <1>1, <1>2
  <2>. HIDE DEF n
  <2>4. r[i] \in 0..Word-1 /\ n = r[i] + Word * c[i+1]
    BY <1>0, <2>2, <2>3, Digit
  <2>. QED BY <2>4 DEF n
<1>4. r \in U256 /\ r \in [LimbIndex -> Nat]
  BY <1>0, <1>2, <1>3 DEF U256
<1>5. ValueOf(r) + c[Limbs] * Keys = ValueOf(a) + ValueOf(b)
  <2>1. Chained(a, b, r, c)
    BY <1>0, <1>1, <1>3, <1>4 DEF Chained
  <2>. QED BY <2>1, CarryChain
<1>7. (add_256(a, b).overflow <=> c[Limbs] # 0) /\ add_256(a, b).overflow \in BOOLEAN
  BY DEF add_256, c
<1>8. c[Limbs] * Keys = IF add_256(a, b).overflow THEN Keys ELSE 0
  BY <1>0, <1>1, <1>7, Digits
<1>9. ValueOf(r) + (IF add_256(a, b).overflow THEN Keys ELSE 0) = ValueOf(a) + ValueOf(b)
  BY <1>5, <1>8
<1>. QED BY <1>4, <1>7, <1>9 DEF r

LEMMA BorrowFacts ==
  ASSUME NEW a \in U256, NEW b \in U256
  PROVE  /\ Borrows(a, b) \in [0..Limbs -> 0..1] /\ Borrows(a, b)[0] = 0
         /\ \A i \in LimbIndex :
              Borrows(a, b)[i+1] = IF a[i] - b[i] - Borrows(a, b)[i] < 0 THEN 1 ELSE 0
<1>. DEFINE Body(c) == [i \in 0..Limbs |-> IF i = 0 THEN 0 ELSE IF a[i-1] - b[i-1] - c[i-1] < 0 THEN 1 ELSE 0]
<1>0. /\ Limbs \in Nat /\ Word \in Nat /\ Word > 1 /\ LimbIndex = 0..Limbs-1
      /\ \A i \in LimbIndex : a[i] \in 0..Word-1 /\ b[i] \in 0..Word-1
  BY Digits DEF LimbIndex, U256
<1>2. \E c : c \in [0..Limbs -> 0..1] /\ c = Body(c)
  <2>. DEFINE next == [i \in 1..Limbs |-> [x \in 0..1 |-> IF a[i-1] - b[i-1] - x < 0 THEN 1 ELSE 0]]
  <2>1. next \in [1..Limbs -> [0..1 -> 0..1]]
    OBVIOUS
  <2>2. PICK c : Follows(c, Limbs, 0..1, 0, next)
    <3>. HIDE DEF next
    <3>1. 0 \in 0..1
      OBVIOUS
    <3>. QED BY <1>0, <2>1, <3>1, UpwardFunction
  <2>3. c \in [0..Limbs -> 0..1] /\ c[0] = 0 /\ \A i \in 1..Limbs : c[i] = next[i][c[i-1]]
    BY <2>2 DEF Follows
  <2>4. ASSUME NEW i \in 1..Limbs PROVE c[i] = IF a[i-1] - b[i-1] - c[i-1] < 0 THEN 1 ELSE 0
    <3>1. i - 1 \in 0..Limbs
      BY <1>0
    <3>2. c[i-1] \in 0..1
      BY <2>3, <3>1
    <3>. QED BY <2>3, <3>2
  <2>5. ASSUME NEW i \in 0..Limbs
        PROVE  c[i] = IF i = 0 THEN 0 ELSE IF a[i-1] - b[i-1] - c[i-1] < 0 THEN 1 ELSE 0
    <3>1. CASE i = 0
      BY <2>3, <3>1
    <3>2. CASE i # 0
      BY <1>0, <2>4, <3>2
    <3>. QED BY <3>1, <3>2
  <2>6. c = Body(c)
    BY <2>3, <2>5
  <2>. QED BY <2>3, <2>6
<1>3. Borrows(a, b) = Body(Borrows(a, b))
  BY <1>2 DEF Borrows
<1>4. /\ Borrows(a, b)[0] = 0
      /\ \A i \in LimbIndex : Borrows(a, b)[i+1] = IF a[i] - b[i] - Borrows(a, b)[i] < 0 THEN 1 ELSE 0
  <2>1. \A i \in 0..Limbs : Borrows(a, b)[i] =
          IF i = 0 THEN 0 ELSE IF a[i-1] - b[i-1] - Borrows(a, b)[i-1] < 0 THEN 1 ELSE 0
    BY <1>3
  <2>2. \A i \in LimbIndex : i + 1 \in 0..Limbs /\ i + 1 # 0 /\ (i + 1) - 1 = i
    BY <1>0
  <2>. QED BY <1>0, <2>1, <2>2
<1>. DEFINE T == {i \in 0..Limbs : Borrows(a, b)[i] \in 0..1}
<1>5. \A i \in 0..Limbs : i \in T
  <2>1. 0 \in T
    BY <1>0, <1>4
  <2>2. ASSUME NEW i \in 0..Limbs-1, i \in T PROVE i + 1 \in T
    <3>1. Borrows(a, b)[i+1] \in 0..1
      BY <1>0, <1>4, <2>2
    <3>. QED BY <1>0, <3>1
  <2>. HIDE DEF T
  <2>. QED BY <1>0, <2>1, <2>2, UpTo
<1>6. Borrows(a, b) \in [0..Limbs -> 0..1]
  BY <1>3, <1>5
<1>. QED BY <1>4, <1>6

LEMMA SmallModulus ==
  ASSUME NEW w \in Nat \ {0}, NEW k \in -w..w-1
  PROVE  k % w = IF k < 0 THEN k + w ELSE k
OBVIOUS

\* The limbs of a difference stand for the difference, but for a borrow out of the top limb.
THEOREM SubtractionExact ==
  ASSUME NEW a \in U256, NEW b \in U256
  PROVE  /\ sub_256(a, b).r \in U256
         /\ sub_256(a, b).borrow \in BOOLEAN
         /\ ValueOf(sub_256(a, b).r) + ValueOf(b) =
              ValueOf(a) + (IF sub_256(a, b).borrow THEN Keys ELSE 0)
<1>. DEFINE c == Borrows(a, b)
            r == sub_256(a, b).r
<1>0. /\ Limbs \in Nat /\ Word \in Nat /\ Word > 1 /\ LimbIndex = 0..Limbs-1
      /\ a \in [LimbIndex -> Nat] /\ b \in [LimbIndex -> Nat]
      /\ \A i \in LimbIndex : a[i] < Word /\ b[i] < Word
  BY Digits DEF LimbIndex, U256
<1>1. /\ c \in [0..Limbs -> 0..1] /\ c[0] = 0
      /\ \A i \in LimbIndex : c[i+1] = IF a[i] - b[i] - c[i] < 0 THEN 1 ELSE 0
  BY BorrowFacts
<1>. HIDE DEF c
<1>2. r = [i \in LimbIndex |-> (a[i] - b[i] - c[i]) % Word]
  BY DEF sub_256, c
<1>. HIDE DEF r
<1>3. ASSUME NEW i \in LimbIndex
      PROVE  /\ r[i] \in 0..Word-1
             /\ r[i] + b[i] + c[i] = a[i] + Word * c[i+1]
  <2>. DEFINE n == a[i] - b[i] - c[i]
  <2>1. i \in 0..Limbs /\ a[i] \in 0..Word-1 /\ b[i] \in 0..Word-1 /\ c[i] \in 0..1
    BY <1>0, <1>1
  <2>2. n \in -Word..Word-1
    BY <1>0, <2>1
  <2>3. r[i] = n % Word /\ c[i+1] = IF n < 0 THEN 1 ELSE 0
    BY <1>1, <1>2
  <2>. HIDE DEF n
  <2>4. n % Word = IF n < 0 THEN n + Word ELSE n
    <3>1. Word \in Nat \ {0}
      BY <1>0
    <3>. QED BY <2>2, <3>1, SmallModulus
  <2>5. r[i] \in 0..Word-1 /\ n + Word * c[i+1] = r[i]
    BY <1>0, <2>2, <2>3, <2>4
  <2>. DEFINE w == Word * c[i+1]
  <2>6. w \in Nat
    BY <1>0, <2>3
  <2>7. n + w = r[i]
    BY <2>5
  <2>. HIDE DEF w
  <2>8. r[i] + b[i] + c[i] = a[i] + w
    BY <2>1, <2>2, <2>6, <2>7 DEF n
  <2>. QED BY <2>5, <2>8 DEF w
<1>4. r \in U256 /\ r \in [LimbIndex -> Nat]
  BY <1>0, <1>2, <1>3 DEF U256
<1>5. ValueOf(a) + c[Limbs] * Keys = ValueOf(r) + ValueOf(b)
  <2>1. Chained(r, b, a, c)
    BY <1>0, <1>1, <1>3, <1>4 DEF Chained
  <2>. QED BY <2>1, CarryChain
<1>6. (sub_256(a, b).borrow <=> c[Limbs] # 0) /\ sub_256(a, b).borrow \in BOOLEAN
  BY DEF sub_256, c
<1>7. c[Limbs] * Keys = IF sub_256(a, b).borrow THEN Keys ELSE 0
  BY <1>0, <1>1, <1>6, Digits
<1>8. ValueOf(r) + ValueOf(b) = ValueOf(a) + (IF sub_256(a, b).borrow THEN Keys ELSE 0)
  BY <1>5, <1>7
<1>. QED BY <1>4, <1>6, <1>8 DEF r

-------------------------------------------------------------------------------
(* Division, and the limbs of a number                                     *)

LEMMA RemainderFacts ==
  ASSUME NEW a \in U256, NEW d \in Nat \ {0}
  PROVE  /\ Remainders(a, d) \in [0..Limbs -> 0..d-1] /\ Remainders(a, d)[Limbs] = 0
         /\ \A i \in LimbIndex :
              Remainders(a, d)[i] = ((Remainders(a, d)[i+1] * Word) + a[i]) % d
<1>. DEFINE Body(v) == [i \in 0..Limbs |-> IF i = Limbs THEN 0 ELSE ((v[i+1] * Word) + a[i]) % d]
<1>0. /\ Limbs \in Nat /\ Word \in Nat /\ LimbIndex = 0..Limbs-1
      /\ \A i \in LimbIndex : a[i] \in Nat
  BY Digits DEF LimbIndex, U256
<1>1. ASSUME NEW i \in LimbIndex, NEW x \in 0..d-1 PROVE ((x * Word) + a[i]) % d \in 0..d-1
  <2>. DEFINE n == (x * Word) + a[i]
  <2>1. n \in Nat
    BY <1>0, Products
  <2>. HIDE DEF n
  <2>2. n % d \in 0..d-1
    BY <2>1, Digit
  <2>. QED BY <2>2 DEF n
<1>2. \E v : v \in [0..Limbs -> 0..d-1] /\ v = Body(v)
  <2>. DEFINE next == [i \in 0..Limbs-1 |-> [x \in 0..d-1 |-> ((x * Word) + a[i]) % d]]
  <2>1. next \in [0..Limbs-1 -> [0..d-1 -> 0..d-1]] /\ 0 \in 0..d-1
    BY <1>0, <1>1
  <2>2. PICK v : Descends(v, Limbs, 0..d-1, 0, next)
    <3>. HIDE DEF next
    <3>. QED BY <1>0, <2>1, DownwardFunction
  <2>3. v \in [0..Limbs -> 0..d-1] /\ v[Limbs] = 0 /\ \A i \in 0..Limbs-1 : v[i] = next[i][v[i+1]]
    BY <2>2 DEF Descends
  <2>4. ASSUME NEW i \in 0..Limbs-1 PROVE v[i] = ((v[i+1] * Word) + a[i]) % d
    <3>1. i + 1 \in 0..Limbs
      BY <1>0
    <3>2. v[i+1] \in 0..d-1
      BY <2>3, <3>1
    <3>. QED BY <2>3, <3>2
  <2>5. ASSUME NEW i \in 0..Limbs
        PROVE  v[i] = IF i = Limbs THEN 0 ELSE ((v[i+1] * Word) + a[i]) % d
    <3>1. CASE i = Limbs
      BY <2>3, <3>1
    <3>2. CASE i # Limbs
      BY <1>0, <2>4, <3>2
    <3>. QED BY <3>1, <3>2
  <2>6. v = Body(v)
    BY <2>3, <2>5
  <2>. QED BY <2>3, <2>6
<1>3. Remainders(a, d) = Body(Remainders(a, d))
  BY <1>2 DEF Remainders
<1>4. /\ Remainders(a, d)[Limbs] = 0
      /\ \A i \in LimbIndex : Remainders(a, d)[i] = ((Remainders(a, d)[i+1] * Word) + a[i]) % d
  <2>1. \A i \in 0..Limbs : Remainders(a, d)[i] =
          IF i = Limbs THEN 0 ELSE ((Remainders(a, d)[i+1] * Word) + a[i]) % d
    BY <1>3
  <2>. QED BY <1>0, <2>1
<1>. DEFINE T == {i \in 0..Limbs : Remainders(a, d)[i] \in 0..d-1}
<1>5. \A i \in 0..Limbs : i \in T
  <2>1. Limbs \in T
    BY <1>0, <1>4
  <2>2. ASSUME NEW i \in 0..Limbs-1, i + 1 \in T PROVE i \in T
    <3>0. i \in LimbIndex /\ i \in 0..Limbs /\ Remainders(a, d)[i+1] \in 0..d-1
      BY <1>0, <2>2
    <3>1. ((Remainders(a, d)[i+1] * Word) + a[i]) % d \in 0..d-1
      BY <1>1, <3>0
    <3>2. Remainders(a, d)[i] = ((Remainders(a, d)[i+1] * Word) + a[i]) % d
      BY <1>4, <3>0
    <3>. QED BY <3>0, <3>1, <3>2
  <2>. HIDE DEF T
  <2>. QED BY <1>0, <2>1, <2>2, DownFrom
<1>6. Remainders(a, d) \in [0..Limbs -> 0..d-1]
  BY <1>3, <1>5
<1>. QED BY <1>4, <1>6

LEMMA QuotientBound ==
  ASSUME NEW d \in Nat \ {0}, NEW w \in Nat, NEW x \in 0..d-1, NEW y \in 0..w-1
  PROVE  (x * w) + y \in Nat /\ ((x * w) + y) \div d \in 0..w-1
<1>. DEFINE n == (x * w) + y
            q == n \div d
<1>1. n \in Nat /\ n < d * w
  <2>1. x * w \in Nat /\ x * w + w <= d * w
    OBVIOUS
  <2>. QED BY <2>1
<1>. HIDE DEF n
<1>2. q \in Nat /\ n = (n % d) + d * q /\ n % d \in Nat
  BY <1>1, Digit
<1>. HIDE DEF q
<1>3. q < w
  <2>1. SUFFICES ASSUME q >= w PROVE FALSE
    BY <1>2
  <2>2. d * q >= d * w
    BY <1>2, <2>1
  <2>3. d * q \in Nat /\ d * w \in Nat
    BY <1>2, Products
  <2>. DEFINE dq == d * q
              dw == d * w
  <2>4. dq >= dw /\ dq \in Nat /\ dw \in Nat /\ n < dw /\ n = (n % d) + dq
    BY <1>1, <1>2, <2>2, <2>3
  <2>. HIDE DEF dq, dw
  <2>. QED BY <1>1, <1>2, <2>4
<1>. QED BY <1>1, <1>2, <1>3 DEF n, q

\* A long division by one word gives the quotient and the remainder of the number.
THEOREM DivisionExact ==
  ASSUME NEW a \in U256, NEW d \in Nat \ {0}
  PROVE  /\ div_256_u64(a, d).quotient \in U256
         /\ div_256_u64(a, d).remainder \in 0..d-1
         /\ ValueOf(a) = d * ValueOf(div_256_u64(a, d).quotient) + div_256_u64(a, d).remainder
<1>. DEFINE rem == Remainders(a, d)
            q == div_256_u64(a, d).quotient
            T == {i \in 0..Limbs : ValueFrom(a)[i] = d * ValueFrom(q)[i] + rem[i]}
<1>0. /\ Limbs \in Nat /\ Word \in Nat /\ LimbIndex = 0..Limbs-1
      /\ a \in [LimbIndex -> Nat]
      /\ \A i \in LimbIndex : a[i] \in 0..Word-1
  BY Digits DEF LimbIndex, U256
<1>1. /\ rem \in [0..Limbs -> 0..d-1] /\ rem[Limbs] = 0
      /\ \A i \in LimbIndex : rem[i] = ((rem[i+1] * Word) + a[i]) % d
  BY RemainderFacts
<1>. HIDE DEF rem
<1>2. /\ q = [i \in LimbIndex |-> ((rem[i+1] * Word) + a[i]) \div d]
      /\ div_256_u64(a, d).remainder = rem[0]
  BY DEF div_256_u64, rem
<1>. HIDE DEF q
<1>3. ASSUME NEW i \in LimbIndex
      PROVE  q[i] \in 0..Word-1 /\ (rem[i+1] * Word) + a[i] = rem[i] + d * q[i]
  <2>. DEFINE n == (rem[i+1] * Word) + a[i]
  <2>1. rem[i+1] \in 0..d-1 /\ a[i] \in 0..Word-1
    <3>1. i + 1 \in 0..Limbs
      BY <1>0
    <3>2. rem \in [0..Limbs -> 0..d-1]
      BY <1>1
    <3>. QED BY <1>0, <3>1, <3>2
  <2>2. n \in Nat /\ n \div d \in 0..Word-1
    BY <1>0, <2>1, QuotientBound
  <2>3. q[i] = n \div d /\ rem[i] = n % d
    BY <1>1, <1>2
  <2>. HIDE DEF n
  <2>4. n = rem[i] + d * q[i]
    <3>1. d \in Nat /\ d > 0 /\ n \in Nat
      BY <2>2
    <3>2. n = (n % d) + d * (n \div d)
      BY <3>1, Digit
    <3>. QED BY <2>3, <3>2
  <2>. QED BY <2>2, <2>3, <2>4 DEF n
<1>4. q \in U256 /\ q \in [LimbIndex -> Nat]
  BY <1>0, <1>2, <1>3 DEF U256
<1>5. \A i \in 0..Limbs : i \in T
  <2>1. Limbs \in T
    <3>1. ValueFrom(a)[Limbs] = 0 /\ ValueFrom(q)[Limbs] = 0
      BY <1>0, <1>4, ValueFromFacts
    <3>2. d * 0 = 0
      OBVIOUS
    <3>. QED BY <1>0, <1>1, <3>1, <3>2
  <2>2. ASSUME NEW i \in 0..Limbs-1, i + 1 \in T PROVE i \in T
    <3>. DEFINE x == ValueFrom(a)[i+1]
                y == ValueFrom(q)[i+1]
    <3>0. i \in LimbIndex /\ i + 1 \in 0..Limbs /\ i \in 0..Limbs
      BY <1>0
    <3>1. ValueFrom(a)[i] = a[i] + (Word * x) /\ ValueFrom(q)[i] = q[i] + (Word * y)
      BY <1>0, <1>4, <3>0, ValueFromFacts
    <3>2. x \in Nat /\ y \in Nat
      BY <1>0, <1>4, <3>0, ValueFromFacts
    <3>3. x = d * y + rem[i+1]
      BY <2>2
    <3>4. rem[i] \in Nat /\ rem[i+1] \in Nat /\ a[i] \in Nat /\ q[i] \in Nat
      BY <1>0, <1>1, <1>3, <3>0
    <3>5. (rem[i+1] * Word) + a[i] = rem[i] + d * q[i]
      BY <1>3, <3>0
    <3>. DEFINE e == rem[i+1]
                f == rem[i]
                g == a[i]
                h == q[i]
    <3>6. /\ e \in Nat /\ f \in Nat /\ g \in Nat /\ h \in Nat
          /\ x = d * y + e /\ (e * Word) + g = f + d * h
      BY <3>3, <3>4, <3>5
    <3>. HIDE DEF x, y, e, f, g, h
    <3>7. g + (Word * x) = d * (h + (Word * y)) + f
      <4>1. Word * x = d * (Word * y) + e * Word
        BY <1>0, <3>2, <3>6
      <4>2. d * (h + (Word * y)) = d * h + d * (Word * y)
        BY <1>0, <3>2, <3>6
      <4>3. d * h \in Nat /\ d * (Word * y) \in Nat /\ e * Word \in Nat
        BY <1>0, <3>2, <3>6, Products
      <4>. QED BY <3>6, <4>1, <4>2, <4>3
    <3>8. ValueFrom(a)[i] = d * ValueFrom(q)[i] + rem[i]
      BY <3>1, <3>7 DEF f, g, h
    <3>. QED BY <3>0, <3>8
  <2>. HIDE DEF T
  <2>. QED BY <1>0, <2>1, <2>2, DownFrom
<1>6. ValueOf(a) = d * ValueOf(q) + rem[0]
  <2>1. 0 \in T
    BY <1>0, <1>5
  <2>. QED BY <2>1 DEF ValueOf
<1>7. rem[0] \in 0..d-1
  BY <1>0, <1>1
<1>. QED BY <1>2, <1>4, <1>6, <1>7 DEF q

LEMMA QuotientUnique ==
  ASSUME NEW m \in Nat \ {0}, NEW q \in Nat, NEW t \in 0..m-1, NEW n \in Nat, n = m * q + t
  PROVE  n \div m = q
<1>. DEFINE k == n \div m
            s == n % m
<1>1. k \in Nat /\ s \in 0..m-1 /\ n = s + m * k
  BY Digit
<1>. HIDE DEF k, s
<1>2. \A x, y \in Nat : x < y => m * x + m <= m * y
  OBVIOUS
<1>3. m * k \in Nat /\ m * q \in Nat
  BY <1>1, Products
<1>. DEFINE mk == m * k
            mq == m * q
<1>4. /\ mk \in Nat /\ mq \in Nat /\ mq + t = mk + s
      /\ k < q => mk + m <= mq
      /\ q < k => mq + m <= mk
  BY <1>1, <1>2, <1>3
<1>. HIDE DEF mk, mq
<1>5. k = q
  BY <1>1, <1>4
<1>. QED BY <1>5 DEF k

LEMMA QuotientTwice ==
  ASSUME NEW n \in Nat, NEW p \in Nat \ {0}, NEW w \in Nat \ {0}, NEW m, m = w * p
  PROVE  n \div m = (n \div p) \div w
<1>. DEFINE q == n \div p
            r == n % p
            k == q \div w
            s == q % w
<1>1. q \in Nat /\ r \in 0..p-1 /\ n = r + p * q
  BY Digit
<1>. HIDE DEF q, r
<1>2. k \in Nat /\ s \in 0..w-1 /\ q = s + w * k
  BY <1>1, Digit
<1>. HIDE DEF k, s
<1>3. w * p \in Nat \ {0}
  OBVIOUS
<1>4. n = (w * p) * k + (p * s + r)
  <2>. DEFINE pq == p * q
              ps == p * s
              wpk == (w * p) * k
  <2>1. pq = ps + wpk
    BY <1>1, <1>2
  <2>2. pq \in Nat /\ ps \in Nat /\ wpk \in Nat
    BY <1>1, <1>2, <1>3, Products
  <2>3. n = r + pq /\ r \in Nat
    BY <1>1
  <2>. HIDE DEF pq, ps, wpk
  <2>4. n = wpk + (ps + r)
    BY <2>1, <2>2, <2>3
  <2>. QED BY <2>4 DEF wpk, ps
<1>5. p * s + r \in 0 .. w*p - 1
  <2>1. p * s + p <= w * p /\ p * s \in Nat
    BY <1>2
  <2>. QED BY <1>1, <1>3, <2>1
<1>. DEFINE t == p * s + r
<1>6. n = m * k + t /\ t \in 0..m-1 /\ m \in Nat \ {0}
  BY <1>3, <1>4, <1>5
<1>. HIDE DEF t
<1>7. n \div m = k
  BY <1>2, <1>6, QuotientUnique
<1>. QED BY <1>7 DEF k, q

\* The limbs of a number stand for it, if there are enough of them.
THEOREM LimbsExact ==
  ASSUME NEW n \in 0 .. Keys-1
  PROVE  LimbsOf(n) \in U256 /\ ValueOf(LimbsOf(n)) = n
<1>. DEFINE a == LimbsOf(n)
            T == {i \in 0..Limbs : ValueFrom(a)[i] = n \div Power[i]}
<1>0. /\ Limbs \in Nat /\ Word \in Nat \ {0} /\ LimbIndex = 0..Limbs-1 /\ n \in Nat
      /\ \A i \in 0..Limbs : Power[i] \in Nat \ {0}
  BY Digits, PowerFacts DEF LimbIndex
<1>1. a = [i \in LimbIndex |-> (n \div Power[i]) % Word]
  BY DEF LimbsOf
<1>. HIDE DEF a
<1>2. ASSUME NEW i \in LimbIndex
      PROVE  /\ a[i] \in 0..Word-1 /\ n \div Power[i] \in Nat
             /\ n \div Power[i] = a[i] + Word * (n \div Power[i+1])
  <2>. DEFINE p == Power[i]
              k == n \div p
  <2>1. p \in Nat \ {0} /\ Power[i+1] = Word * p
    BY <1>0, PowerFacts
  <2>. HIDE DEF p
  <2>2. k \in Nat
    BY <1>0, <2>1, Digit
  <2>3. n \div Power[i+1] = k \div Word
    <3>1. n \div Power[i+1] = (n \div p) \div Word
      <4>1. n \in Nat /\ p \in Nat \ {0} /\ Word \in Nat \ {0}
        BY <1>0, <2>1
      <4>. DEFINE m == Power[i+1]
      <4>2. m = Word * p
        BY <2>1
      <4>. HIDE DEF m
      <4>3. n \div m = (n \div p) \div Word
        BY ONLY <4>1, <4>2, QuotientTwice
      <4>. QED BY <4>3 DEF m
    <3>. QED BY <2>1, <3>1
  <2>4. a[i] = k % Word
    BY <1>1 DEF p
  <2>. HIDE DEF k
  <2>5. Word \in Nat /\ Word > 0
    BY <1>0
  <2>6. k % Word \in 0..Word-1 /\ k = (k % Word) + Word * (k \div Word)
    BY <2>2, <2>5, Digit
  <2>. QED BY <2>2, <2>3, <2>4, <2>6 DEF k, p
<1>3. a \in U256 /\ a \in [LimbIndex -> Nat]
  BY <1>0, <1>1, <1>2 DEF U256
<1>4. \A i \in 0..Limbs : i \in T
  <2>1. Limbs \in T
    <3>1. ValueFrom(a)[Limbs] = 0
      BY <1>3, ValueFromFacts
    <3>2. n \div Keys = 0
      <4>1. Keys \in Nat \ {0} /\ n = Keys * 0 + n
        BY <1>0, Digits
      <4>. QED BY <1>0, <4>1, QuotientUnique
    <3>. QED BY <1>0, <3>1, <3>2 DEF Keys
  <2>2. ASSUME NEW i \in 0..Limbs-1, i + 1 \in T PROVE i \in T
    <3>0. i \in LimbIndex /\ i \in 0..Limbs
      BY <1>0
    <3>1. ValueFrom(a)[i] = a[i] + (Word * ValueFrom(a)[i+1])
      BY <1>3, <3>0, ValueFromFacts
    <3>2. ValueFrom(a)[i+1] = n \div Power[i+1]
      BY <2>2
    <3>3. ValueFrom(a)[i] = n \div Power[i]
      BY <1>2, <3>0, <3>1, <3>2
    <3>. QED BY <3>0, <3>3
  <2>. HIDE DEF T
  <2>. QED BY <1>0, <2>1, <2>2, DownFrom
<1>5. ValueFrom(a)[0] = n
  <2>1. 0 \in T
    BY <1>0, <1>4
  <2>2. n \div 1 = n
    BY <1>0
  <2>. QED BY <2>1, <2>2, PowerFacts
<1>. QED BY <1>3, <1>5 DEF ValueOf, a

LEMMA OneFacts == num_256_1 \in U256 /\ ValueOf(num_256_1) = 1 /\ Keys > 1
<1>1. Keys > 1
  <2>1. Limbs - 1 \in LimbIndex /\ (Limbs - 1) + 1 = Limbs /\ Limbs - 1 \in 0..Limbs
    BY Digits DEF LimbIndex
  <2>. DEFINE p == Power[Limbs-1]
  <2>2. Keys = Word * p /\ p \in Nat /\ p > 0
    BY <2>1, PowerFacts DEF Keys
  <2>. HIDE DEF p
  <2>3. \A w, k \in Nat : w > 1 /\ k > 0 => w * k > 1
    OBVIOUS
  <2>. QED BY <2>2, <2>3, Digits
<1>. QED BY <1>1, LimbsExact, Digits DEF num_256_1

-------------------------------------------------------------------------------
(* The invariant of the split                                              *)

Splitting == {"validate", "usage", "divide", "deal"}
Sizing    == {"size", "shrink", "host", "refused"}
Scanning  == {"run", "done"}

\* The keys that were asked for.
Asked == request.last - request.first + 1

\* The keys of the first g GPUs: each has a chunk, and the first ones one key of the remainder.
Share(g) == g * ValueOf(chunk) + Least(g, extra)

SplitTyped ==
  /\ phase \in Splitting \union Sizing \union Scanning
  /\ request \in Requests
  /\ length \in U256 /\ chunk \in U256 /\ current \in U256 /\ extra \in Nat
  /\ parts \in Seq(U256 \X U256)

\* What is refused, what is not, and how many keys are left to split.
Validated ==
  /\ phase \in {"validate", "usage", "divide"} => parts = <<>>
  /\ phase = "usage" => Asked \notin 1 .. Keys-1 \/ BadBatch(request.batch)
  /\ phase \notin {"validate", "usage"} =>
       Asked \in 1 .. Keys-1 /\ ValueOf(length) = Asked /\ ~BadBatch(request.batch)

\* A part starts where the ones before it end.
Tiled ==
  phase \notin {"validate", "usage", "divide"} =>
    /\ extra < request.gpus /\ ValueOf(length) = request.gpus * ValueOf(chunk) + extra
    /\ Len(parts) <= request.gpus
    /\ ValueOf(current) = (request.first + Share(Len(parts))) % Keys
    /\ \A g \in 1..Len(parts) :
         /\ Size(g) = ValueOf(chunk) + (IF g <= extra THEN 1 ELSE 0)
         /\ First(g) = (request.first + Share(g-1)) % Keys

SplitInv == SplitTyped /\ Validated /\ Tiled

-------------------------------------------------------------------------------
(* The invariant of the scan                                               *)

ScanTyped ==
  /\ start \in 0..Keys-1 /\ range \in 0..Keys-1
  /\ batch \in Nat \ {0} /\ slices \in Nat \ {0}
  /\ {tpb, threads, budget, runs_total, runs_done, batches_left} \subseteq Nat
  /\ phase \notin Splitting => device \in Devices /\ batch % 2 = 0

\* Only whole blocks are launched, and at least one.
Sized ==
  phase \notin Splitting \union {"size"} =>
    tpb > 0 /\ threads > 0 /\ threads = (threads \div tpb) * tpb

\* The centre of the k-th batch of a thread, and the keys of the first n batches of all of them.
Centre(t, k) == start + t * budget * batch + half + k * batch
Covered(n)   == UNION {BatchOf(Centre(t, k)) : t \in 0..threads-1, k \in 0..n-1}

\* What per_thread_batches stands for.
PerThreadBatches == CeilDiv(CeilDiv(range, batch), threads)

Spent == budget - batches_left

\* The keys tested are those of the batches spent; the batches left are what the launches have not
\* taken, a slice each.
Spending ==
  /\ phase \notin Scanning => tested = {} /\ runs_done = 0
  /\ phase \in Scanning =>
       /\ budget = PerThreadBatches /\ runs_total = RunsTotal(budget)
       /\ batches_left = Greatest(0, budget - runs_done * slices)
       /\ scalar = [t \in 0..threads-1 |-> Centre(t, Spent)]
       /\ tested = Covered(Spent)
  /\ phase = "done" => ~MoreLaunches

IInv == SplitInv /\ ScanTyped /\ Sized /\ Spending

NoWrap == budget + slices - 1 < Word

-------------------------------------------------------------------------------
(* The split                                                               *)

LEMMA Requested ==
  ASSUME request \in Requests
  PROVE  /\ request.first \in 0 .. Keys-1 /\ request.last \in 0 .. Keys-1
         /\ request.batch \in 1 .. Word-1 /\ request.blocks \in 1 .. Word-1
         /\ request.slices \in 1 .. Word-1 /\ request.gpus \in 1 .. Word-1
BY RequestAssumption

LEMMA ZeroLimbs == LimbsOf(0) \in U256
BY LimbsExact, Digits

\* The limbs of the length, and what BadRange refuses.
LEMMA LengthFacts ==
  ASSUME NEW f \in 0 .. Keys-1, NEW l \in 0 .. Keys-1, NEW diff, NEW len,
         diff = sub_256(LimbsOf(l), LimbsOf(f)), len = add_256(diff.r, num_256_1)
  PROVE  /\ len.r \in U256
         /\ BadRange(diff, len) => l - f + 1 \notin 1 .. Keys-1
         /\ ~BadRange(diff, len) => ValueOf(len.r) = l - f + 1 /\ l - f + 1 \in 1 .. Keys-1
<1>1. /\ LimbsOf(l) \in U256 /\ ValueOf(LimbsOf(l)) = l
      /\ LimbsOf(f) \in U256 /\ ValueOf(LimbsOf(f)) = f
  BY LimbsExact
<1>2. /\ diff.r \in U256 /\ diff.borrow \in BOOLEAN
      /\ ValueOf(diff.r) + f = l + (IF diff.borrow THEN Keys ELSE 0)
  BY <1>1, SubtractionExact
<1>3. /\ len.r \in U256 /\ len.overflow \in BOOLEAN
      /\ ValueOf(len.r) + (IF len.overflow THEN Keys ELSE 0) = ValueOf(diff.r) + 1
  BY <1>2, OneFacts, AdditionExact
<1>4. ValueOf(diff.r) \in 0 .. Keys-1 /\ ValueOf(len.r) \in 0 .. Keys-1 /\ Keys \in Nat
  BY <1>2, <1>3, ValueBound, Digits
<1>5. CASE diff.borrow
  <2>1. ValueOf(diff.r) + f = l + Keys
    BY <1>2, <1>5
  <2>2. l - f + 1 \notin 1 .. Keys-1
    BY <1>4, <2>1
  <2>. QED BY <1>3, <1>5, <2>2 DEF BadRange
<1>6. CASE ~diff.borrow /\ len.overflow
  BY <1>2, <1>3, <1>4, <1>6 DEF BadRange
<1>7. CASE ~diff.borrow /\ ~len.overflow
  BY <1>2, <1>3, <1>4, <1>7 DEF BadRange
<1>. QED BY <1>3, <1>5, <1>6, <1>7

LEMMA RemainderUnique ==
  ASSUME NEW m \in Nat \ {0}, NEW q \in Nat, NEW t \in 0..m-1, NEW n \in Nat, n = m * q + t
  PROVE  n % m = t
<1>1. n \div m = q
  BY QuotientUnique
<1>2. n = (n % m) + m * q /\ n % m \in Nat
  BY <1>1, Digit
<1>3. m * q \in Nat
  BY Products
<1>. DEFINE x == m * q
            y == n % m
<1>4. n = x + t /\ n = y + x /\ x \in Nat /\ y \in Nat
  BY <1>2, <1>3
<1>. HIDE DEF x, y
<1>5. y = t
  BY <1>4
<1>. QED BY <1>5 DEF y

LEMMA SumModulo ==
  ASSUME NEW k \in Nat \ {0}, NEW x \in Nat, NEW y \in Nat
  PROVE  ((x % k) + y) % k = (x + y) % k
<1>. DEFINE r == x % k
            q == x \div k
            n == r + y
            t == n % k
            p == n \div k
<1>1. r \in Nat /\ q \in Nat /\ x = r + k * q
  BY Digit
<1>. HIDE DEF r, q
<1>2. t \in 0..k-1 /\ p \in Nat /\ n = t + k * p /\ n \in Nat
  BY <1>1, Digit
<1>. HIDE DEF t, p
<1>3. x + y = n + k * q
  BY <1>1, Products
<1>. HIDE DEF n
<1>4. (x + y) % k = t
  <2>1. n + k * q = k * (p + q) + t
    BY <1>1, <1>2
  <2>. DEFINE u == p + q
              z == x + y
  <2>2. u \in Nat /\ z \in Nat /\ z = k * u + t
    BY <1>1, <1>2, <1>3, <2>1
  <2>. HIDE DEF u, z
  <2>3. z % k = t
    BY <1>2, <2>2, RemainderUnique
  <2>. QED BY <2>3 DEF z
<1>. QED BY <1>4 DEF t, n, r

LEMMA Reduced ==
  ASSUME NEW k \in Nat \ {0}, NEW x \in 0..k-1, NEW y \in Nat, y = x \/ y = x + k
  PROVE  x = y % k
OBVIOUS

\* A sum in limbs is the sum modulo the number of keys.
LEMMA LimbSum ==
  ASSUME NEW a \in U256, NEW b \in U256
  PROVE  /\ add_256(a, b).r \in U256
         /\ ValueOf(add_256(a, b).r) = (ValueOf(a) + ValueOf(b)) % Keys
<1>. DEFINE s == add_256(a, b).r
<1>1. /\ s \in U256 /\ add_256(a, b).overflow \in BOOLEAN
      /\ ValueOf(s) + (IF add_256(a, b).overflow THEN Keys ELSE 0) = ValueOf(a) + ValueOf(b)
  BY AdditionExact
<1>. HIDE DEF s
<1>2. ValueOf(a) \in 0 .. Keys-1 /\ ValueOf(b) \in 0 .. Keys-1 /\ ValueOf(s) \in 0 .. Keys-1
  BY <1>1, ValueBound
<1>. DEFINE x == ValueOf(s)
            y == ValueOf(a) + ValueOf(b)
<1>3. Keys \in Nat \ {0} /\ x \in 0..Keys-1 /\ y \in Nat /\ (y = x \/ y = x + Keys)
  BY <1>1, <1>2, Digits
<1>. HIDE DEF x, y
<1>4. x = y % Keys
  BY <1>3, Reduced
<1>. QED BY <1>1, <1>4 DEF s, x, y

\* The share of one more GPU.
LEMMA ShareFacts ==
  ASSUME chunk \in U256, extra \in Nat
  PROVE  /\ \A g \in Nat : Share(g) \in Nat
         /\ Share(0) = 0
         /\ \A g \in Nat \ {0} :
              Share(g) = Share(g-1) + (ValueOf(chunk) + (IF g <= extra THEN 1 ELSE 0))
<1>. DEFINE c == ValueOf(chunk)
<1>1. c \in Nat
  BY ValueBound, Digits
<1>2. \A g \in Nat : Share(g) = g * c + Least(g, extra)
  BY DEF Share
<1>. HIDE DEF c
<1>3. ASSUME NEW g \in Nat PROVE Share(g) \in Nat
  <2>1. g * c \in Nat /\ Least(g, extra) \in Nat
    BY <1>1, Products DEF Least
  <2>. QED BY <1>2, <2>1
<1>4. Share(0) = 0
  BY <1>1, <1>2 DEF Least
<1>5. ASSUME NEW g \in Nat \ {0} PROVE Share(g) = Share(g-1) + (c + (IF g <= extra THEN 1 ELSE 0))
  <2>1. g * c = (g-1) * c + c
    BY <1>1
  <2>2. Share(g) = g * c + Least(g, extra) /\ Share(g-1) = (g-1) * c + Least(g-1, extra)
    BY <1>2
  <2>. DEFINE x == g * c
              y == (g-1) * c
  <2>3. x \in Nat /\ y \in Nat /\ x = y + c
    BY <1>1, <2>1, Products
  <2>4. Share(g) = x + Least(g, extra) /\ Share(g-1) = y + Least(g-1, extra)
    BY <2>2
  <2>. HIDE DEF x, y
  <2>5. Least(g, extra) = Least(g-1, extra) + (IF g <= extra THEN 1 ELSE 0) /\ Least(g-1, extra) \in Nat
    BY DEF Least
  <2>. QED BY <1>1, <2>3, <2>4, <2>5
<1>. QED BY <1>3, <1>4, <1>5 DEF c

LEMMA SplitStart == ASSUME SplitInit PROVE SplitInv
<1>1. SplitTyped
  BY ZeroLimbs DEF SplitInit, SplitTyped, Splitting
<1>2. Validated /\ Tiled
  BY DEF SplitInit, Validated, Tiled
<1>. QED BY <1>1, <1>2 DEF SplitInv

LEMMA ValidateStep == ASSUME SplitInv, Validate PROVE SplitInv'
<1>. DEFINE diff == sub_256(LimbsOf(request.last), LimbsOf(request.first))
            len  == add_256(diff.r, num_256_1)
<1>1. /\ phase = "validate" /\ request \in Requests /\ parts = <<>>
      /\ length \in U256 /\ chunk \in U256 /\ current \in U256 /\ extra \in Nat
      /\ parts \in Seq(U256 \X U256)
  BY DEF SplitInv, SplitTyped, Validated, Validate
<1>2. request.first \in 0 .. Keys-1 /\ request.last \in 0 .. Keys-1
  BY <1>1, Requested
<1>3. /\ len.r \in U256
      /\ BadRange(diff, len) => Asked \notin 1 .. Keys-1
      /\ ~BadRange(diff, len) => ValueOf(len.r) = Asked /\ Asked \in 1 .. Keys-1
  BY <1>2, LengthFacts DEF Asked
<1>4. /\ UNCHANGED <<request, chunk, extra, current, parts>>
      /\ \/ (BadRange(diff, len) \/ BadBatch(request.batch)) /\ phase' = "usage" /\ length' = length
         \/ ~BadRange(diff, len) /\ ~BadBatch(request.batch) /\ phase' = "divide" /\ length' = len.r
  BY DEF Validate
<1>. HIDE DEF len, diff
<1>5. Asked' = Asked
  BY <1>4 DEF Asked
<1>6. SplitTyped'
  BY <1>1, <1>3, <1>4 DEF SplitTyped, Splitting
<1>7. Validated'
  <2>1. CASE (BadRange(diff, len) \/ BadBatch(request.batch)) /\ phase' = "usage" /\ length' = length
    <3>1. BadBatch(request.batch)' <=> BadBatch(request.batch)
      BY <1>4 DEF BadBatch, IsPow2
    <3>. QED BY <1>1, <1>3, <1>4, <1>5, <2>1, <3>1 DEF Validated
  <2>2. CASE ~BadRange(diff, len) /\ ~BadBatch(request.batch) /\ phase' = "divide" /\ length' = len.r
    <3>1. BadBatch(request.batch)' <=> BadBatch(request.batch)
      BY <1>4 DEF BadBatch, IsPow2
    <3>2. ValueOf(length)' = ValueOf(len.r)
      BY <2>2
    <3>. QED BY <1>1, <1>3, <1>4, <1>5, <2>2, <3>1, <3>2 DEF Validated
  <2>. QED BY <1>4, <2>1, <2>2
<1>8. Tiled'
  BY <1>4 DEF Tiled
<1>. QED BY <1>6, <1>7, <1>8 DEF SplitInv

LEMMA DivideStep == ASSUME SplitInv, Divide PROVE SplitInv'
<1>. DEFINE q == div_256_u64(length, request.gpus)
<1>1. /\ phase = "divide" /\ request \in Requests /\ parts = <<>>
      /\ length \in U256 /\ parts \in Seq(U256 \X U256)
      /\ Asked \in 1 .. Keys-1 /\ ValueOf(length) = Asked /\ ~BadBatch(request.batch)
  BY DEF SplitInv, SplitTyped, Validated, Divide
<1>2. request.first \in 0 .. Keys-1 /\ request.gpus \in Nat \ {0}
  BY <1>1, Requested, Digits
<1>3. /\ q.quotient \in U256 /\ q.remainder \in 0 .. request.gpus-1
      /\ ValueOf(length) = request.gpus * ValueOf(q.quotient) + q.remainder
  BY <1>1, <1>2, DivisionExact
<1>4. /\ UNCHANGED <<request, length, parts>>
      /\ phase' = "deal" /\ chunk' = q.quotient /\ extra' = q.remainder
      /\ current' = LimbsOf(request.first)
  BY DEF Divide
<1>. HIDE DEF q
<1>5. LimbsOf(request.first) \in U256 /\ ValueOf(LimbsOf(request.first)) = request.first
  BY <1>2, LimbsExact
<1>6. SplitTyped'
  BY <1>1, <1>2, <1>3, <1>4, <1>5 DEF SplitTyped, Splitting
<1>7. Validated'
  <2>1. /\ Asked' = Asked /\ ValueOf(length)' = ValueOf(length)
        /\ BadBatch(request.batch)' <=> BadBatch(request.batch)
    BY <1>4 DEF Asked, BadBatch, IsPow2
  <2>. QED BY <1>1, <1>4, <2>1 DEF Validated
<1>8. Tiled'
  <2>1. extra' < request'.gpus /\ ValueOf(length)' = request'.gpus * ValueOf(chunk)' + extra'
    BY <1>2, <1>3, <1>4
  <2>2. Len(parts') = 0 /\ Len(parts') <= request'.gpus
    BY <1>1, <1>2, <1>4
  <2>3. Share(0)' = 0
    <3>1. (chunk \in U256 /\ extra \in Nat)'
      BY <1>6 DEF SplitTyped
    <3>2. 0 * ValueOf(chunk') = 0 /\ Least(0, extra') = 0
      <4>1. ValueOf(chunk') \in Nat
        BY <3>1, ValueBound, Digits
      <4>2. \A v \in Nat : 0 * v = 0
        OBVIOUS
      <4>. QED BY <3>1, <4>1, <4>2 DEF Least
    <3>. QED BY <3>2 DEF Share
  <2>4. ValueOf(current)' = (request'.first + Share(Len(parts))') % Keys
    <3>1. ValueOf(current)' = request.first
      BY <1>4, <1>5
    <3>2. Share(Len(parts))' = 0
      BY <2>2, <2>3
    <3>3. (request.first + 0) % Keys = request.first
      BY <1>2, Digits
    <3>. QED BY <1>4, <3>1, <3>2, <3>3
  <2>. QED BY <2>1, <2>2, <2>4 DEF Tiled
<1>. QED BY <1>6, <1>7, <1>8 DEF SplitInv

\* One key of the remainder more still fits: the chunk is a proper share of a length that does.
LEMMA ChunkEffectiveFacts ==
  ASSUME SplitInv, phase = "deal", Len(parts) < request.gpus
  PROVE  /\ ChunkEffective \in U256
         /\ ValueOf(ChunkEffective) = ValueOf(chunk) + (IF Len(parts) + 1 <= extra THEN 1 ELSE 0)
<1>1. /\ request \in Requests /\ chunk \in U256 /\ extra \in Nat /\ parts \in Seq(U256 \X U256)
      /\ ValueOf(length) \in 1 .. Keys-1
      /\ ValueOf(length) = request.gpus * ValueOf(chunk) + extra
  BY DEF SplitInv, SplitTyped, Validated, Tiled
<1>2. request.gpus \in Nat \ {0} /\ ValueOf(chunk) \in Nat /\ Len(parts) \in Nat /\ Keys \in Nat
  <2>1. request \in Requests /\ chunk \in U256 /\ parts \in Seq(U256 \X U256)
    BY <1>1
  <2>2. request.gpus \in Nat \ {0} /\ Keys \in Nat
    BY <2>1, Requested, Digits
  <2>3. ValueOf(chunk) \in Nat
    BY <2>1, ValueBound, Digits
  <2>. QED BY <2>1, <2>2, <2>3
<1>3. CASE Len(parts) < extra
  <2>. DEFINE s == add_256(chunk, num_256_1)
              m == request.gpus * ValueOf(chunk)
  <2>1. /\ s.r \in U256 /\ s.overflow \in BOOLEAN
        /\ ValueOf(s.r) + (IF s.overflow THEN Keys ELSE 0) = ValueOf(chunk) + 1
    BY <1>1, OneFacts, AdditionExact
  <2>2. m \in Nat /\ m >= ValueOf(chunk)
    <3>1. \A g \in Nat \ {0}, c \in Nat : g * c \in Nat /\ g * c >= c
      OBVIOUS
    <3>. QED BY <1>2, <3>1
  <2>3. ValueOf(length) = m + extra
    BY <1>1
  <2>4. ValueOf(s.r) \in Nat
    BY <2>1, ValueBound, Digits
  <2>5. ChunkEffective = s.r
    BY <1>3 DEF ChunkEffective
  <2>. HIDE DEF s, m
  <2>6. ValueOf(chunk) + 1 < Keys
    BY <1>1, <1>2, <1>3, <2>2, <2>3
  <2>7. ~s.overflow
    BY <1>2, <2>1, <2>4, <2>6
  <2>. QED BY <1>1, <1>2, <1>3, <2>1, <2>4, <2>5, <2>7
<1>4. CASE ~(Len(parts) < extra)
  BY <1>1, <1>2, <1>4 DEF ChunkEffective
<1>. QED BY <1>3, <1>4

LEMMA DealStep == ASSUME SplitInv, Deal PROVE SplitInv'
<1>. DEFINE n == Len(parts)
            e == ChunkEffective
<1>1. /\ phase = "deal" /\ request \in Requests /\ n < request.gpus
      /\ length \in U256 /\ chunk \in U256 /\ current \in U256 /\ extra \in Nat
      /\ parts \in Seq(U256 \X U256)
  BY DEF SplitInv, SplitTyped, Deal
<1>2. /\ UNCHANGED <<phase, request, length, chunk, extra>>
      /\ parts' = Append(parts, <<current, e>>)
      /\ current' = add_256(current, e).r
  BY DEF Deal
<1>3. e \in U256 /\ ValueOf(e) = ValueOf(chunk) + (IF n + 1 <= extra THEN 1 ELSE 0)
  BY <1>1, ChunkEffectiveFacts
<1>. HIDE DEF e
<1>4. n \in Nat /\ request.gpus \in Nat /\ request.first \in Nat /\ ValueOf(e) \in Nat /\ Keys \in Nat \ {0}
  <2>1. request.gpus \in Nat /\ request.first \in Nat /\ Keys \in Nat \ {0}
    BY <1>1, Requested, Digits
  <2>2. ValueOf(e) \in Nat
    BY <1>3, ValueBound, Digits
  <2>3. n \in Nat
    BY <1>1
  <2>. QED BY <2>1, <2>2, <2>3
<1>5. /\ parts' \in Seq(U256 \X U256) /\ Len(parts') = n + 1
      /\ parts'[n+1] = <<current, e>> /\ \A g \in 1..n : parts'[g] = parts[g]
  <2>1. <<current, e>> \in U256 \X U256
    BY <1>1, <1>3
  <2>. QED BY <1>1, <1>2, <2>1
<1>6. current' \in U256 /\ ValueOf(current') = (ValueOf(current) + ValueOf(e)) % Keys
  BY <1>1, <1>2, <1>3, LimbSum
<1>7. SplitTyped'
  BY <1>1, <1>2, <1>5, <1>6 DEF SplitTyped, Splitting
<1>8. Validated'
  <2>1. Asked' = Asked /\ (BadBatch(request.batch)' <=> BadBatch(request.batch)) /\ ValueOf(length)' = ValueOf(length)
    BY <1>2 DEF Asked, BadBatch, IsPow2
  <2>2. Asked \in 1 .. Keys-1 /\ ValueOf(length) = Asked /\ ~BadBatch(request.batch)
    BY <1>1 DEF SplitInv, Validated
  <2>. QED BY <1>1, <1>2, <2>1, <2>2 DEF Validated
<1>9. Tiled'
  <2>1. /\ extra < request.gpus /\ ValueOf(length) = request.gpus * ValueOf(chunk) + extra
        /\ ValueOf(current) = (request.first + Share(n)) % Keys
        /\ \A g \in 1..n :
             /\ Size(g) = ValueOf(chunk) + (IF g <= extra THEN 1 ELSE 0)
             /\ First(g) = (request.first + Share(g-1)) % Keys
    BY <1>1 DEF SplitInv, Tiled
  <2>2. \A g \in Nat : Share(g) \in Nat /\ Share(g)' = Share(g)
    BY <1>1, <1>2, ShareFacts DEF Share
  <2>3. Share(n+1) = Share(n) + ValueOf(e)
    <3>1. n + 1 \in Nat \ {0} /\ (n + 1) - 1 = n
      BY <1>4
    <3>. QED BY <1>1, <1>3, <3>1, ShareFacts
  <2>4. ValueOf(current)' = (request.first + Share(n+1)) % Keys
    <3>. DEFINE x == request.first + Share(n)
                y == ValueOf(e)
    <3>1. x \in Nat /\ y \in Nat /\ x + y = request.first + Share(n+1) /\ ValueOf(current) = x % Keys
      <4>1. Share(n) \in Nat
        BY <1>4, <2>2
      <4>2. x \in Nat /\ y \in Nat /\ x + y = request.first + Share(n+1)
        BY <1>4, <2>3, <4>1
      <4>. QED BY <2>1, <4>2
    <3>. HIDE DEF x
    <3>2. ((x % Keys) + y) % Keys = (x + y) % Keys
      BY <1>4, <3>1, SumModulo
    <3>. QED BY <1>6, <3>1, <3>2
  <2>5. ASSUME NEW g \in 1..n+1
        PROVE  /\ Size(g)' = ValueOf(chunk) + (IF g <= extra THEN 1 ELSE 0)
               /\ First(g)' = (request.first + Share(g-1)) % Keys
    <3>1. CASE g = n + 1
      <4>1. Size(g)' = ValueOf(e) /\ First(g)' = ValueOf(current)
        BY <1>5, <3>1 DEF Size, First
      <4>2. g - 1 = n
        BY <1>4, <3>1
      <4>. QED BY <1>3, <2>1, <3>1, <4>1, <4>2
    <3>2. CASE g \in 1..n
      <4>1. Size(g)' = Size(g) /\ First(g)' = First(g)
        BY <1>5, <3>2 DEF Size, First
      <4>. QED BY <2>1, <3>2, <4>1
    <3>. QED BY <1>4, <3>1, <3>2
  <2>6. \A g \in 1..n+1 : g - 1 \in Nat
    BY <1>4
  <2>7. extra' < request'.gpus /\ ValueOf(length)' = request'.gpus * ValueOf(chunk)' + extra'
    BY <1>2, <2>1
  <2>8. Len(parts') <= request'.gpus
    BY <1>1, <1>2, <1>4, <1>5
  <2>9. ValueOf(current)' = (request'.first + Share(Len(parts))') % Keys
    BY <1>2, <1>4, <1>5, <2>2, <2>4
  <2>10. \A g \in 1..Len(parts') :
           /\ Size(g)' = ValueOf(chunk)' + (IF g <= extra' THEN 1 ELSE 0)
           /\ First(g)' = (request'.first + Share(g-1)') % Keys
    BY <1>2, <1>5, <2>2, <2>5, <2>6
  <2>. QED BY <2>7, <2>8, <2>9, <2>10 DEF Tiled
<1>. QED BY <1>7, <1>8, <1>9 DEF SplitInv

\* From the first Prepare on the split is left alone.
LEMMA SplitKept ==
  ASSUME SplitInv, UNCHANGED rvars,
         phase' = phase \/ (phase \notin {"validate", "usage", "divide"} /\ phase' \in {"deal"} \union Sizing \union Scanning)
  PROVE  SplitInv'
<1>1. UNCHANGED <<request, length, chunk, extra, current, parts>>
  BY DEF rvars
<1>2. SplitTyped'
  BY <1>1 DEF SplitInv, SplitTyped, Splitting, Sizing, Scanning
<1>3. /\ Asked' = Asked /\ ValueOf(length)' = ValueOf(length)
      /\ BadBatch(request.batch)' <=> BadBatch(request.batch)
  BY <1>1 DEF Asked, BadBatch, IsPow2
<1>4. Validated'
  BY <1>1, <1>3 DEF SplitInv, Validated, Sizing, Scanning
<1>5. Tiled'
  <2>1. /\ ValueOf(chunk)' = ValueOf(chunk) /\ ValueOf(current)' = ValueOf(current)
        /\ \A g : Share(g)' = Share(g) /\ Size(g)' = Size(g) /\ First(g)' = First(g)
    BY <1>1 DEF Share, Size, First
  <2>. QED BY <1>1, <1>3, <2>1 DEF SplitInv, Tiled, Sizing, Scanning
<1>. QED BY <1>2, <1>4, <1>5 DEF SplitInv

-------------------------------------------------------------------------------
(* The keys of the parts                                                   *)

\* What the first parts add up to.
LEMMA DealtFacts ==
  ASSUME SplitInv, phase \notin {"validate", "usage", "divide"}
  PROVE  \A g \in 0..Len(parts) : Dealt[g] = Share(g)
<1>. DEFINE n == Len(parts)
            Body(s) == [g \in 0..n |-> IF g = 0 THEN 0 ELSE s[g-1] + Size(g)]
<1>1. /\ n \in Nat /\ chunk \in U256 /\ extra \in Nat /\ ValueOf(chunk) \in Nat
      /\ \A g \in 1..n : Size(g) = ValueOf(chunk) + (IF g <= extra THEN 1 ELSE 0)
  <2>1. chunk \in U256 /\ parts \in Seq(U256 \X U256)
    BY DEF SplitInv, SplitTyped
  <2>. QED BY <2>1, ValueBound, Digits DEF SplitInv, SplitTyped, Tiled
<1>. HIDE DEF n
<1>2. /\ \A g \in Nat : Share(g) \in Nat
      /\ Share(0) = 0
      /\ \A g \in 1..n : Share(g) = Share(g-1) + Size(g)
  BY <1>1, ShareFacts
<1>3. \E s : s \in [0..n -> Nat] /\ s = Body(s)
  <2>. DEFINE s == [g \in 0..n |-> Share(g)]
  <2>1. s \in [0..n -> Nat]
    BY <1>1, <1>2
  <2>2. ASSUME NEW g \in 0..n PROVE s[g] = IF g = 0 THEN 0 ELSE s[g-1] + Size(g)
    <3>1. CASE g = 0
      BY <1>2, <3>1
    <3>2. CASE g # 0
      <4>1. g \in 1..n /\ g - 1 \in 0..n
        BY <1>1, <3>2
      <4>. QED BY <1>2, <3>2, <4>1
    <3>. QED BY <3>1, <3>2
  <2>. HIDE DEF s
  <2>3. s = Body(s)
    BY <2>1, <2>2
  <2>. QED BY <2>1, <2>3
<1>4. Dealt = Body(Dealt)
  BY <1>3 DEF Dealt, n
<1>. DEFINE T == {g \in 0..n : Dealt[g] = Share(g)}
<1>5. \A g \in 0..n : g \in T
  <2>1. 0 \in T
    BY <1>1, <1>2, <1>4
  <2>2. ASSUME NEW g \in 0..n-1, g \in T PROVE g + 1 \in T
    <3>1. g + 1 \in 1..n /\ g + 1 \in 0..n /\ (g + 1) - 1 = g /\ g + 1 # 0
      BY <1>1
    <3>2. Dealt[g+1] = Dealt[g] + Size(g+1)
      BY <1>4, <3>1
    <3>3. Share(g+1) = Share(g) + Size(g+1)
      BY <1>2, <3>1
    <3>. QED BY <2>2, <3>1, <3>2, <3>3
  <2>. HIDE DEF T
  <2>. QED BY <1>1, <2>1, <2>2, UpTo
<1>. QED BY <1>5 DEF n

LEMMA TilesFollow == ASSUME SplitInv PROVE PartsTile
<1>1. CASE phase \in {"validate", "usage", "divide"}
  <2>1. parts = <<>> /\ request.gpus \in Nat \ {0}
    BY <1>1, Requested, Digits DEF SplitInv, SplitTyped, Validated
  <2>2. Len(parts) = 0
    BY <2>1
  <2>. QED BY <2>1, <2>2 DEF PartsTile
<1>2. CASE phase \notin {"validate", "usage", "divide"}
  <2>. DEFINE n == Len(parts)
  <2>1. /\ n \in Nat /\ extra \in Nat /\ extra < request.gpus /\ request.gpus \in Nat
        /\ ValueOf(length) = Asked /\ ValueOf(length) = request.gpus * ValueOf(chunk) + extra
        /\ \A g \in 1..n :
             /\ Size(g) = ValueOf(chunk) + (IF g <= extra THEN 1 ELSE 0)
             /\ First(g) = (request.first + Share(g-1)) % Keys
    BY <1>2, Requested DEF SplitInv, SplitTyped, Validated, Tiled
  <2>2. ValueOf(chunk) \in Nat
    BY ValueBound, Digits DEF SplitInv, SplitTyped
  <2>3. \A g \in 0..n : Dealt[g] = Share(g)
    BY <1>2, DealtFacts
  <2>4. \A g \in 1..n : First(g) = (request.first + Dealt[g-1]) % Keys
    <3>1. \A g \in 1..n : g - 1 \in 0..n
      BY <2>1
    <3>. QED BY <2>1, <2>3, <3>1
  <2>5. \A g, h \in 1..n : Size(g) - Size(h) \in -1 .. 1
    <3>1. \A g \in 1..n : Size(g) \in Nat /\ Size(g) \in {ValueOf(chunk), ValueOf(chunk) + 1}
      BY <2>1, <2>2
    <3>. QED BY <2>2, <3>1
  <2>6. n = request.gpus => Dealt[request.gpus] = Asked
    <3>1. Least(request.gpus, extra) = extra
      BY <2>1 DEF Least
    <3>2. Share(request.gpus) = ValueOf(length)
      BY <2>1, <3>1 DEF Share
    <3>3. n = request.gpus => request.gpus \in 0..n
      BY <2>1
    <3>. QED BY <2>1, <2>3, <3>2, <3>3
  <2>. QED BY <2>4, <2>5, <2>6 DEF PartsTile, Asked
<1>. QED BY <1>1, <1>2

-------------------------------------------------------------------------------
(* Each key has its GPU                                                    *)

Rising(s, n) == /\ s \in [0..n -> Nat] /\ s[0] = 0
                /\ \A g \in 1..n : s[g-1] <= s[g]

\* The g-th step of a rising sequence takes it past x.
Passes(s, g, x) == s[g-1] <= x /\ x < s[g]

LEMMA RisingMonotone ==
  ASSUME NEW n \in Nat, NEW s, Rising(s, n), NEW i \in 0..n
  PROVE  \A j \in 0..n : i <= j => s[i] <= s[j]
<1>. DEFINE T == {j \in 0..n : i <= j => s[i] <= s[j]}
<1>0. s \in [0..n -> Nat] /\ \A g \in 1..n : s[g-1] <= s[g]
  BY DEF Rising
<1>1. 0 \in T
  BY <1>0
<1>2. ASSUME NEW j \in 0..n-1, j \in T PROVE j + 1 \in T
  <2>1. j \in 0..n /\ j + 1 \in 1..n /\ j + 1 \in 0..n /\ (j + 1) - 1 = j
    OBVIOUS
  <2>2. s[j] <= s[j+1] /\ s[j] \in Nat /\ s[j+1] \in Nat /\ s[i] \in Nat
    BY <1>0, <2>1
  <2>3. i <= j => s[i] <= s[j]
    BY <1>2
  <2>4. i <= j + 1 => s[i] <= s[j+1]
    <3>1. CASE i <= j
      BY <2>2, <2>3, <3>1
    <3>2. CASE i = j + 1
      BY <2>2, <3>2
    <3>. QED BY <3>1, <3>2
  <2>. QED BY <2>1, <2>4
<1>3. \A j \in 0..n : j \in T
  <2>. HIDE DEF T
  <2>. QED BY <1>1, <1>2, UpTo
<1>. QED BY <1>3

\* A number below the last value is passed at exactly one step.
LEMMA PassedOnce ==
  ASSUME NEW n \in Nat, NEW s, Rising(s, n), NEW x \in Nat, x < s[n]
  PROVE  \E g \in 1..n : Passes(s, g, x) /\ \A h \in 1..n : Passes(s, h, x) => h = g
<1>0. s \in [0..n -> Nat] /\ s[0] = 0
  BY DEF Rising
<1>. DEFINE T == {g \in 0..n : x < s[g]}
<1>1. T \subseteq Nat /\ n \in T
  OBVIOUS
<1>2. PICK g \in T : \A m \in T : g <= m
  <2>. HIDE DEF T
  <2>. QED BY <1>1, LeastMember
<1>3. g \in 1..n /\ x < s[g]
  BY <1>0
<1>4. g - 1 \in 0..n /\ s[g-1] \in Nat /\ s[g-1] <= x
  <2>1. g - 1 \in 0..n /\ ~(g <= g - 1)
    BY <1>3
  <2>2. g - 1 \notin T
    BY <1>2, <2>1
  <2>3. s[g-1] \in Nat
    BY <1>0, <2>1
  <2>. QED BY <2>1, <2>2, <2>3
<1>5. ASSUME NEW h \in 1..n, Passes(s, h, x) PROVE h = g
  <2>0. h \in 0..n /\ h - 1 \in 0..n /\ g \in 0..n
    BY <1>3
  <2>1. s[h-1] <= x /\ x < s[h]
    BY <1>5 DEF Passes
  <2>2. ~(h < g)
    <3>1. h \in T
      BY <2>0, <2>1
    <3>. QED BY <1>2, <1>3, <3>1
  <2>3. ~(g < h)
    <3>1. SUFFICES ASSUME g < h PROVE FALSE
      OBVIOUS
    <3>2. g <= h - 1
      BY <1>3, <3>1
    <3>3. s[g] <= s[h-1]
      BY <2>0, <3>2, RisingMonotone
    <3>4. s[g] \in Nat /\ s[h-1] \in Nat
      BY <1>0, <2>0
    <3>. QED BY <1>3, <2>1, <3>3, <3>4
  <2>. QED BY <1>3, <2>2, <2>3
<1>6. Passes(s, g, x)
  BY <1>3, <1>4 DEF Passes
<1>. QED BY <1>3, <1>5, <1>6

\* The keys of a GPU.
PartOf(g) == First(g) .. First(g) + Size(g) - 1

\* When all parts are dealt, every key that was asked for is in the part of one GPU and of no other,
\* and no part has a key that was not.
EachKeyOnce ==
  Len(parts) = request.gpus =>
    /\ \A key \in request.first .. request.last :
         \E g \in 1..Len(parts) :
           key \in PartOf(g) /\ \A h \in 1..Len(parts) : key \in PartOf(h) => h = g
    /\ \A g \in 1..Len(parts) : PartOf(g) \subseteq request.first .. request.last

LEMMA KeysOnce == ASSUME SplitInv PROVE EachKeyOnce
<1>. SUFFICES ASSUME Len(parts) = request.gpus
              PROVE  /\ \A key \in request.first .. request.last :
                          \E g \in 1..Len(parts) :
                            key \in PartOf(g) /\ \A h \in 1..Len(parts) : key \in PartOf(h) => h = g
                     /\ \A g \in 1..Len(parts) : PartOf(g) \subseteq request.first .. request.last
  BY DEF EachKeyOnce
<1>1. phase \notin {"validate", "usage", "divide"}
  <2>1. request.gpus # 0 /\ Len(<<>>) = 0
    BY Requested, Digits DEF SplitInv, SplitTyped
  <2>2. phase \in {"validate", "usage", "divide"} => parts = <<>>
    BY DEF SplitInv, Validated
  <2>. QED BY <2>1, <2>2
<1>. DEFINE n == request.gpus
            c == ValueOf(chunk)
            f == request.first
            s == [g \in 0..n |-> Share(g)]
<1>2. /\ n \in Nat /\ c \in Nat /\ f \in Nat /\ extra \in Nat /\ extra < n /\ Keys \in Nat \ {0}
      /\ request.last \in 0..Keys-1 /\ Asked = n * c + extra /\ Asked = request.last - f + 1
  <2>1. n \in Nat /\ f \in Nat /\ request.last \in 0..Keys-1 /\ c \in Nat /\ Keys \in Nat \ {0}
    BY Requested, ValueBound, Digits DEF SplitInv, SplitTyped
  <2>2. extra \in Nat /\ extra < n /\ Asked = n * c + extra
    BY <1>1 DEF SplitInv, SplitTyped, Validated, Tiled
  <2>. QED BY <2>1, <2>2 DEF Asked
<1>3. ASSUME NEW g \in 1..n
      PROVE  /\ Size(g) = c + (IF g <= extra THEN 1 ELSE 0)
             /\ First(g) = (f + Share(g-1)) % Keys
             /\ Share(g) = Share(g-1) + Size(g)
             /\ Share(g) \in Nat /\ Share(g-1) \in Nat /\ Size(g) \in Nat
  <2>1. /\ Size(g) = c + (IF g <= extra THEN 1 ELSE 0)
        /\ First(g) = (f + Share(g-1)) % Keys
    BY <1>1 DEF SplitInv, Tiled
  <2>2. g \in Nat \ {0} /\ g - 1 \in Nat /\ g \in Nat
    OBVIOUS
  <2>3. chunk \in U256 /\ extra \in Nat
    BY DEF SplitInv, SplitTyped
  <2>4. Share(g) = Share(g-1) + (c + (IF g <= extra THEN 1 ELSE 0)) /\ Share(g) \in Nat /\ Share(g-1) \in Nat
    BY <2>2, <2>3, ShareFacts
  <2>5. c + (IF g <= extra THEN 1 ELSE 0) \in Nat
    <3>1. c \in Nat
      BY <1>2
    <3>. QED BY <3>1
  <2>6. Size(g) \in Nat
    BY <2>1, <2>5
  <2>. QED BY <2>1, <2>4, <2>6
<1>4. Share(n) = Asked /\ Share(0) = 0
  <2>1. Least(n, extra) = extra
    BY <1>2 DEF Least
  <2>2. chunk \in U256 /\ extra \in Nat
    BY DEF SplitInv, SplitTyped
  <2>. QED BY <1>2, <2>1, <2>2, ShareFacts DEF Share
<1>. HIDE DEF n, c, f
<1>5. Rising(s, n) /\ s[n] = Asked
  <2>1. \A g \in 0..n : Share(g) \in Nat
    <3>1. \A g \in 0..n : g = 0 \/ g \in 1..n
      BY <1>2
    <3>. QED BY <1>3, <1>4, <3>1
  <2>2. ASSUME NEW g \in 1..n PROVE s[g-1] <= s[g]
    <3>1. g \in 0..n /\ g - 1 \in 0..n
      BY <1>2
    <3>2. Share(g-1) <= Share(g)
      BY <1>3
    <3>. QED BY <3>1, <3>2
  <2>3. 0 \in 0..n /\ n \in 0..n
    BY <1>2
  <2>. QED BY <1>4, <2>1, <2>2, <2>3 DEF Rising
<1>6. ASSUME NEW g \in 1..n
      PROVE  /\ \A key \in Nat : key \in PartOf(g) <=> key >= f /\ Passes(s, g, key - f)
             /\ PartOf(g) \subseteq f .. request.last
  <2>. DEFINE x == Share(g-1)
              y == Share(g)
              z == Size(g)
  <2>1. /\ x \in Nat /\ y \in Nat /\ z \in Nat /\ y = x + z /\ First(g) = (f + x) % Keys
    BY <1>3
  <2>2. s[g-1] = x /\ s[g] = y
    <3>1. g \in 0..n /\ g - 1 \in 0..n
      BY <1>2
    <3>. QED BY <3>1
  <2>3. y <= Asked
    <3>1. g \in 0..n /\ n \in 0..n /\ g <= n
      BY <1>2
    <3>2. s[g] <= s[n]
      BY <1>2, <1>5, <3>1, RisingMonotone
    <3>. QED BY <1>5, <2>2, <3>2
  <2>4. PartOf(g) = First(g) .. First(g) + z - 1
    BY DEF PartOf
  <2>. HIDE DEF x, y, z, s
  <2>5. CASE z = 0
    <3>1. First(g) \in Nat
      BY <1>2, <2>1
    <3>2. PartOf(g) = {}
      BY <2>4, <2>5, <3>1
    <3>3. \A k \in Nat : ~Passes(s, g, k)
      BY <2>1, <2>2, <2>5 DEF Passes
    <3>4. \A key \in Nat : key >= f => key - f \in Nat
      BY <1>2
    <3>. QED BY <3>2, <3>3, <3>4
  <2>6. CASE z # 0
    <3>. DEFINE w == f + x
    <3>1. w \in 0..Keys-1 /\ w \in Nat
      BY <1>2, <2>1, <2>3, <2>6
    <3>2. w % Keys = w
      <4>. HIDE DEF w
      <4>. QED BY <1>2, <3>1, Reduced
    <3>3. First(g) = w
      BY <2>1, <3>2
    <3>4. PartOf(g) = w .. w + z - 1
      BY <2>4, <3>3
    <3>5. ASSUME NEW key \in Nat
          PROVE  key \in PartOf(g) <=> key >= f /\ Passes(s, g, key - f)
      <4>1. Passes(s, g, key - f) <=> x <= key - f /\ key - f < y
        BY <2>2 DEF Passes
      <4>. QED BY <1>2, <2>1, <3>4, <4>1
    <3>6. PartOf(g) \subseteq f .. request.last
      <4>1. w >= f /\ w + z - 1 <= request.last
        BY <1>2, <2>1, <2>3
      <4>2. f \in Nat /\ w \in Nat /\ z \in Nat /\ request.last \in Nat
        BY <1>2, <2>1, <3>1
      <4>. HIDE DEF w
      <4>. QED BY <3>4, <4>1, <4>2
    <3>. QED BY <3>5, <3>6
  <2>. QED BY <2>5, <2>6
<1>. HIDE DEF s
<1>7. ASSUME NEW key \in f .. request.last
      PROVE  \E g \in 1..n : key \in PartOf(g) /\ \A h \in 1..n : key \in PartOf(h) => h = g
  <2>. DEFINE x == key - f
  <2>1. x \in Nat /\ x < Asked /\ key \in Nat /\ key >= f
    BY <1>2
  <2>. HIDE DEF x
  <2>2. x < s[n]
    BY <1>5, <2>1
  <2>3. PICK g \in 1..n : Passes(s, g, x) /\ \A h \in 1..n : Passes(s, h, x) => h = g
    BY <1>2, <1>5, <2>1, <2>2, PassedOnce
  <2>4. \A h \in 1..n : key \in PartOf(h) <=> Passes(s, h, x)
    BY <1>6, <2>1 DEF x
  <2>. QED BY <2>3, <2>4
<1>. QED BY <1>6, <1>7 DEF n, f

-------------------------------------------------------------------------------
(* A word added, and a product by a word                                   *)

LEMMA OverflowFacts ==
  ASSUME NEW a \in [LimbIndex -> Nat], NEW m \in Nat, NEW e \in Nat
  PROVE  /\ Overflows(a, m, e) \in [0..Limbs -> Nat] /\ Overflows(a, m, e)[0] = e
         /\ \A i \in LimbIndex :
              Overflows(a, m, e)[i+1] = (a[i] * m + Overflows(a, m, e)[i]) \div Word
<1>. DEFINE Body(c) == [i \in 0..Limbs |-> IF i = 0 THEN e ELSE (a[i-1] * m + c[i-1]) \div Word]
<1>0. Limbs \in Nat /\ Word \in Nat /\ Word > 1 /\ LimbIndex = 0..Limbs-1
  BY Digits DEF LimbIndex
<1>1. ASSUME NEW i \in LimbIndex, NEW x \in Nat PROVE (a[i] * m + x) \div Word \in Nat
  <2>. DEFINE n == a[i] * m + x
  <2>1. n \in Nat
    <3>1. a[i] * m \in Nat
      BY Products
    <3>. QED BY <3>1
  <2>. HIDE DEF n
  <2>2. n \div Word \in Nat
    BY <1>0, <2>1, Digit
  <2>. QED BY <2>2 DEF n
<1>2. \E c : c \in [0..Limbs -> Nat] /\ c = Body(c)
  <2>. DEFINE next == [i \in 1..Limbs |-> [x \in Nat |-> (a[i-1] * m + x) \div Word]]
  <2>1. next \in [1..Limbs -> [Nat -> Nat]]
    <3>1. \A i \in 1..Limbs : i - 1 \in LimbIndex
      BY <1>0
    <3>. QED BY <1>1, <3>1
  <2>2. PICK c : Follows(c, Limbs, Nat, e, next)
    <3>. HIDE DEF next
    <3>. QED BY <1>0, <2>1, UpwardFunction
  <2>3. c \in [0..Limbs -> Nat] /\ c[0] = e /\ \A i \in 1..Limbs : c[i] = next[i][c[i-1]]
    BY <2>2 DEF Follows
  <2>4. ASSUME NEW i \in 1..Limbs PROVE c[i] = (a[i-1] * m + c[i-1]) \div Word
    <3>1. i - 1 \in 0..Limbs
      BY <1>0
    <3>2. c[i-1] \in Nat
      BY <2>3, <3>1
    <3>. QED BY <2>3, <3>2
  <2>5. ASSUME NEW i \in 0..Limbs
        PROVE  c[i] = IF i = 0 THEN e ELSE (a[i-1] * m + c[i-1]) \div Word
    <3>1. CASE i = 0
      BY <2>3, <3>1
    <3>2. CASE i # 0
      BY <1>0, <2>4, <3>2
    <3>. QED BY <3>1, <3>2
  <2>6. c = Body(c)
    BY <2>3, <2>5
  <2>. QED BY <2>3, <2>6
<1>3. Overflows(a, m, e) = Body(Overflows(a, m, e))
  BY <1>2 DEF Overflows
<1>4. /\ Overflows(a, m, e)[0] = e
      /\ \A i \in LimbIndex : Overflows(a, m, e)[i+1] = (a[i] * m + Overflows(a, m, e)[i]) \div Word
  <2>. DEFINE c == Overflows(a, m, e)
  <2>0. c = Body(c)
    BY <1>3
  <2>. HIDE DEF c
  <2>1. \A i \in 0..Limbs : c[i] = IF i = 0 THEN e ELSE (a[i-1] * m + c[i-1]) \div Word
    BY <2>0
  <2>2. \A i \in LimbIndex : i + 1 \in 0..Limbs /\ i + 1 # 0 /\ (i + 1) - 1 = i
    BY <1>0
  <2>3. c[0] = e /\ \A i \in LimbIndex : c[i+1] = (a[i] * m + c[i]) \div Word
    BY <1>0, <2>1, <2>2
  <2>. QED BY <2>3 DEF c
<1>. DEFINE T == {i \in 0..Limbs : Overflows(a, m, e)[i] \in Nat}
<1>5. \A i \in 0..Limbs : i \in T
  <2>1. 0 \in T
    BY <1>0, <1>4
  <2>2. ASSUME NEW i \in 0..Limbs-1, i \in T PROVE i + 1 \in T
    <3>1. Overflows(a, m, e)[i+1] \in Nat
      BY <1>0, <1>1, <1>4, <2>2
    <3>. QED BY <1>0, <3>1
  <2>. HIDE DEF T
  <2>. QED BY <1>0, <2>1, <2>2, UpTo
<1>6. Overflows(a, m, e) \in [0..Limbs -> Nat]
  BY <1>3, <1>5
<1>. QED BY <1>4, <1>6

\* One limb of a product more.
LEMMA ScaleStep ==
  ASSUME NEW w \in Nat, NEW m \in Nat, NEW x \in Nat, NEW y \in Nat, NEW p \in Nat, NEW l \in Nat,
         NEW d \in Nat, NEW e \in Nat, NEW f \in Nat, NEW g \in Nat,
         x + l * p = y * m + d, f * m + e = g + w * d
  PROVE  (g + w * x) + l * (w * p) = (f + w * y) * m + e
<1>1. w * x + l * (w * p) = w * (y * m) + w * d
  <2>1. w * (x + l * p) = w * x + l * (w * p) /\ w * (y * m + d) = w * (y * m) + w * d
    OBVIOUS
  <2>. QED BY <2>1
<1>2. (f + w * y) * m = f * m + w * (y * m)
  OBVIOUS
<1>. DEFINE wx == w * x
            lp == l * (w * p)
            ym == w * (y * m)
            wd == w * d
            fm == f * m
            z  == (f + w * y) * m
<1>3. wx \in Nat /\ lp \in Nat /\ ym \in Nat /\ wd \in Nat /\ fm \in Nat
  BY Products
<1>4. wx + lp = ym + wd /\ fm + e = g + wd /\ z = fm + ym
  BY <1>1, <1>2
<1>. HIDE DEF wx, lp, ym, wd, fm, z
<1>5. (g + wx) + lp = z + e
  BY <1>3, <1>4
<1>. QED BY <1>5 DEF wx, lp, z

Scaled(a, m, r, c) ==
  /\ a \in [LimbIndex -> Nat] /\ m \in Nat /\ r \in [LimbIndex -> Nat]
  /\ c \in [0..Limbs -> Nat]
  /\ \A i \in LimbIndex : a[i] * m + c[i] = r[i] + Word * c[i+1]

\* What goes from limb to limb adds up to what goes in below and comes out on top.
LEMMA ScaleChain ==
  ASSUME NEW a, NEW m, NEW r, NEW c, Scaled(a, m, r, c)
  PROVE  ValueOf(r) + c[Limbs] * Keys = ValueOf(a) * m + c[0]
<1>. DEFINE T == {i \in 0..Limbs : ValueFrom(r)[i] + c[Limbs] * Power[Limbs-i] =
                                     ValueFrom(a)[i] * m + c[i]}
<1>0. /\ Limbs \in Nat /\ Word \in Nat /\ LimbIndex = 0..Limbs-1
      /\ a \in [LimbIndex -> Nat] /\ m \in Nat /\ r \in [LimbIndex -> Nat]
      /\ c \in [0..Limbs -> Nat] /\ c[Limbs] \in Nat
  <2>1. /\ a \in [LimbIndex -> Nat] /\ m \in Nat /\ r \in [LimbIndex -> Nat]
        /\ c \in [0..Limbs -> Nat]
    BY Zenon DEF Scaled
  <2>2. Limbs \in Nat /\ Word \in Nat /\ LimbIndex = 0..Limbs-1 /\ Limbs \in 0..Limbs
    BY Digits DEF LimbIndex
  <2>. QED BY <2>1, <2>2
<1>1. \A i \in 0..Limbs : i \in T
  <2>1. Limbs \in T
    <3>1. ValueFrom(r)[Limbs] = 0 /\ ValueFrom(a)[Limbs] = 0
      BY <1>0, ValueFromFacts
    <3>2. Limbs - Limbs = 0 /\ Power[0] = 1 /\ Limbs \in 0..Limbs
      BY <1>0, PowerFacts
    <3>. QED BY <1>0, <3>1, <3>2
  <2>2. ASSUME NEW i \in 0..Limbs-1, i + 1 \in T PROVE i \in T
    <3>. DEFINE x == ValueFrom(r)[i+1]
                y == ValueFrom(a)[i+1]
                p == Power[Limbs-(i+1)]
                d == c[i+1]
                e == c[i]
                f == a[i]
                g == r[i]
                l == c[Limbs]
    <3>0. i \in LimbIndex /\ i + 1 \in 0..Limbs /\ i \in 0..Limbs
      BY <1>0
    <3>1. ValueFrom(r)[i] = g + (Word * x) /\ ValueFrom(a)[i] = f + (Word * y)
      BY <1>0, <3>0, ValueFromFacts
    <3>2. x \in Nat /\ y \in Nat
      BY <1>0, <3>0, ValueFromFacts
    <3>3. Power[Limbs-i] = Word * p /\ p \in Nat
      <4>1. Limbs-(i+1) \in LimbIndex /\ (Limbs-(i+1)) + 1 = Limbs-i /\ Limbs-(i+1) \in 0..Limbs
        BY <1>0
      <4>. QED BY <4>1, PowerFacts
    <3>4. x + l * p = y * m + d
      BY <2>2
    <3>5. d \in Nat /\ e \in Nat /\ f \in Nat /\ g \in Nat /\ l \in Nat
      BY <1>0, <3>0
    <3>6. f * m + e = g + Word * d
      BY <3>0 DEF Scaled
    <3>. HIDE DEF x, y, p, d, e, f, g, l
    <3>7. (g + Word * x) + l * (Word * p) = (f + Word * y) * m + e
      <4>1. Word \in Nat /\ m \in Nat /\ p \in Nat
        BY <1>0, <3>3
      <4>. QED BY <3>2, <3>4, <3>5, <3>6, <4>1, ScaleStep
    <3>8. ValueFrom(r)[i] + l * Power[Limbs-i] = ValueFrom(a)[i] * m + e
      BY <3>1, <3>3, <3>7
    <3>. QED BY <3>0, <3>8 DEF l, e
  <2>. HIDE DEF T
  <2>. QED BY <1>0, <2>1, <2>2, DownFrom
<1>2. 0 \in T /\ Limbs - 0 = Limbs
  BY <1>0, <1>1
<1>. QED BY <1>2 DEF ValueOf, Keys

\* The limbs of a * m + e, and whether it is too large for them.
ScaleExact(a, m, e, out, over) ==
  /\ out \in U256
  /\ ValueOf(out) = (ValueOf(a) * m + e) % Keys
  /\ over <=> ValueOf(a) * m + e >= Keys

LEMMA ScaleFacts ==
  ASSUME NEW a \in U256, NEW m \in Nat, NEW e \in Nat, NEW r,
         r = [i \in LimbIndex |-> (a[i] * m + Overflows(a, m, e)[i]) % Word]
  PROVE  ScaleExact(a, m, e, r, Overflows(a, m, e)[Limbs] # 0)
<1>. DEFINE c == Overflows(a, m, e)
<1>0. Limbs \in Nat /\ Word \in Nat /\ Word > 0 /\ LimbIndex = 0..Limbs-1 /\ a \in [LimbIndex -> Nat]
  BY Digits DEF LimbIndex, U256
<1>1. /\ c \in [0..Limbs -> Nat] /\ c[0] = e
      /\ \A i \in LimbIndex : c[i+1] = (a[i] * m + c[i]) \div Word
  <2>1. a \in [LimbIndex -> Nat]
    BY <1>0
  <2>. QED BY <2>1, OverflowFacts, Zenon
<1>2. r = [i \in LimbIndex |-> (a[i] * m + c[i]) % Word]
  OBVIOUS
<1>. HIDE DEF c
<1>3. ASSUME NEW i \in LimbIndex
      PROVE  r[i] \in 0..Word-1 /\ a[i] * m + c[i] = r[i] + Word * c[i+1]
  <2>. DEFINE n == a[i] * m + c[i]
  <2>1. c[i] \in Nat /\ a[i] \in Nat
    <3>1. i \in 0..Limbs
      BY <1>0
    <3>. QED BY <1>0, <1>1, <3>1
  <2>2. n \in Nat
    <3>1. a[i] * m \in Nat
      BY <2>1, Products
    <3>. QED BY <2>1, <3>1
  <2>3. r[i] = n % Word /\ c[i+1] = n \div Word
    BY <1>1, <1>2
  <2>. HIDE DEF n
  <2>4. r[i] \in 0..Word-1 /\ n = r[i] + Word * c[i+1]
    BY <1>0, <2>2, <2>3, Digit
  <2>. QED BY <2>4 DEF n
<1>4. r \in U256 /\ r \in [LimbIndex -> Nat]
  BY <1>0, <1>2, <1>3 DEF U256
<1>5. ValueOf(r) + c[Limbs] * Keys = ValueOf(a) * m + e
  <2>1. Scaled(a, m, r, c)
    <3>1. a \in [LimbIndex -> Nat] /\ r \in [LimbIndex -> Nat] /\ c \in [0..Limbs -> Nat]
      BY <1>0, <1>1, <1>4
    <3>. QED BY <1>3, <3>1, Zenon DEF Scaled
  <2>2. ValueOf(r) + c[Limbs] * Keys = ValueOf(a) * m + c[0]
    BY <2>1, ScaleChain
  <2>. QED BY <1>1, <2>2
<1>. DEFINE x == ValueOf(r)
            n == ValueOf(a) * m + e
            q == c[Limbs]
<1>6. x \in 0..Keys-1 /\ n \in Nat /\ q \in Nat /\ Keys \in Nat \ {0}
  <2>1. ValueOf(a) * m \in Nat
    BY ValueBound, Digits, Products
  <2>2. Limbs \in 0..Limbs
    BY <1>0
  <2>3. c[Limbs] \in Nat
    BY <1>1, <2>2
  <2>4. ValueOf(r) \in 0..Keys-1 /\ Keys \in Nat \ {0}
    BY <1>4, ValueBound, Digits
  <2>. DEFINE z == ValueOf(a) * m
  <2>5. z \in Nat
    BY <2>1
  <2>. HIDE DEF z
  <2>6. z + e \in Nat
    BY <2>5
  <2>. QED BY <2>3, <2>4, <2>6 DEF z
<1>7. n = Keys * q + x
  <2>1. x + q * Keys = n
    BY <1>5
  <2>. HIDE DEF x, n, q
  <2>. QED BY <1>6, <2>1
<1>8. q # 0 <=> n >= Keys
  <2>. HIDE DEF x, n, q
  <2>1. q # 0 => Keys * q >= Keys
    BY <1>6
  <2>2. q = 0 => Keys * q = 0
    BY <1>6
  <2>3. Keys * q \in Nat
    BY <1>6, Products
  <2>. QED BY <1>6, <1>7, <2>1, <2>2, <2>3
<1>9. x = n % Keys
  <2>. HIDE DEF x, n, q
  <2>. QED BY <1>6, <1>7, RemainderUnique
<1>. QED BY <1>4, <1>8, <1>9 DEF ScaleExact, c

\* Adding a word to the limbs adds it to the number, and the result says when that does not fit.
THEOREM WordAdditionExact ==
  ASSUME NEW a \in U256, NEW b \in Nat
  PROVE  /\ add_256_u64(a, b).r \in U256
         /\ ValueOf(add_256_u64(a, b).r) = (ValueOf(a) + b) % Keys
         /\ add_256_u64(a, b).overflow <=> ValueOf(a) + b >= Keys
<1>1. ValueOf(a) \in Nat /\ a \in [LimbIndex -> Nat]
  BY ValueBound, Digits DEF U256
<1>. DEFINE r == [i \in LimbIndex |-> (a[i] * 1 + Overflows(a, 1, b)[i]) % Word]
<1>2. ScaleExact(a, 1, b, r, Overflows(a, 1, b)[Limbs] # 0)
  BY ScaleFacts
<1>3. add_256_u64(a, b).r = r
  <2>1. \A i \in LimbIndex : a[i] * 1 = a[i]
    BY <1>1
  <2>. QED BY <2>1 DEF add_256_u64
<1>4. add_256_u64(a, b).overflow <=> Overflows(a, 1, b)[Limbs] # 0
  BY DEF add_256_u64
<1>5. ValueOf(a) * 1 = ValueOf(a)
  BY <1>1
<1>. HIDE DEF r
<1>. QED BY <1>2, <1>3, <1>4, <1>5 DEF ScaleExact

\* Multiplying the limbs by a word multiplies the number, and the result says when that does not fit.
THEOREM WordProductExact ==
  ASSUME NEW a \in U256, NEW b \in Nat
  PROVE  /\ mul_256_u64(a, b).r \in U256
         /\ ValueOf(mul_256_u64(a, b).r) = (ValueOf(a) * b) % Keys
         /\ mul_256_u64(a, b).overflow <=> ValueOf(a) * b >= Keys
<1>1. ValueOf(a) * b \in Nat
  BY ValueBound, Digits, Products
<1>. DEFINE r == [i \in LimbIndex |-> (a[i] * b + Overflows(a, b, 0)[i]) % Word]
<1>2. ScaleExact(a, b, 0, r, Overflows(a, b, 0)[Limbs] # 0)
  BY ScaleFacts
<1>3. mul_256_u64(a, b).r = r /\ (mul_256_u64(a, b).overflow <=> Overflows(a, b, 0)[Limbs] # 0)
  BY DEF mul_256_u64
<1>4. (ValueOf(a) * b) + 0 = ValueOf(a) * b
  BY <1>1
<1>. HIDE DEF r
<1>. QED BY <1>2, <1>3, <1>4 DEF ScaleExact

-------------------------------------------------------------------------------
(* Sizing                                                                  *)

LEMMA RoundDownFacts ==
  ASSUME NEW a \in Nat, NEW b \in Nat \ {0}
  PROVE  /\ RoundDown(a, b) \in Nat
         /\ RoundDown(a, b) = b * (a \div b) /\ a \div b \in Nat
         /\ a >= b => a \div b > 0
<1>. DEFINE q == a \div b
            r == a % b
            p == b * q
<1>1. q \in Nat /\ r \in 0..b-1 /\ a = r + b * q
  BY Digit
<1>2. p \in Nat /\ a = r + p
  BY <1>1, Products
<1>3. a >= b => q > 0
  BY <1>1
<1>. HIDE DEF r, p, q
<1>4. a - r = p
  BY <1>1, <1>2
<1>. QED BY <1>1, <1>2, <1>3, <1>4 DEF RoundDown, q, r, p

LEMMA CeilDivFacts ==
  ASSUME NEW a \in Nat, NEW b \in Nat \ {0}
  PROVE  /\ CeilDiv(a, b) \in Nat
         /\ a <= b * CeilDiv(a, b)
         /\ a > 0 => b * CeilDiv(a, b) < a + b
         /\ a = 0 => CeilDiv(a, b) = 0
<1>. DEFINE q == a \div b
            r == a % b
            p == b * q
            c == CeilDiv(a, b)
<1>1. q \in Nat /\ r \in 0..b-1 /\ a = r + b * q
  BY Digit
<1>2. p \in Nat /\ a = r + p
  BY <1>1, Products
<1>3. c = q + (IF r = 0 THEN 0 ELSE 1)
  BY DEF CeilDiv
<1>4. b * (q + 1) = p + b /\ (q = 0 => p = 0) /\ (q # 0 => p >= b)
  BY <1>1
<1>5. b * q = p
  OBVIOUS
<1>. HIDE DEF q, r, p, c
<1>6. c \in Nat
  BY <1>1, <1>3
<1>7. CASE r = 0
  <2>1. b * c = p
    BY <1>1, <1>3, <1>5, <1>7
  <2>. QED BY <1>1, <1>2, <1>3, <1>4, <1>6, <1>7, <2>1 DEF c
<1>8. CASE r # 0
  <2>1. b * c = p + b
    BY <1>1, <1>3, <1>4, <1>8
  <2>. QED BY <1>1, <1>2, <1>3, <1>6, <1>8, <2>1 DEF c
<1>. QED BY <1>7, <1>8

\* Rounding up in limbs is rounding up: the quotient is smaller than the number, so one more fits.
THEOREM CeilingExact ==
  ASSUME NEW a \in U256, NEW b \in Nat \ {0}
  PROVE  CeilLimbs(a, b) \in U256 /\ ValueOf(CeilLimbs(a, b)) = CeilDiv(ValueOf(a), b)
<1>. DEFINE q == div_256_u64(a, b).quotient
            r == div_256_u64(a, b).remainder
            k == ValueOf(q)
            n == ValueOf(a)
<1>1. q \in U256 /\ r \in 0..b-1 /\ n = b * k + r
  BY DivisionExact
<1>2. CeilLimbs(a, b) = IF r = 0 THEN q ELSE add_256_u64(q, 1).r
  BY DEF CeilLimbs
<1>. HIDE DEF q, r
<1>3. k \in 0..Keys-1 /\ n \in 0..Keys-1 /\ Keys \in Nat \ {0}
  BY <1>1, ValueBound, Digits
<1>4. add_256_u64(q, 1).r \in U256 /\ ValueOf(add_256_u64(q, 1).r) = (k + 1) % Keys
  BY <1>1, WordAdditionExact
<1>. HIDE DEF k, n
<1>5. n \div b = k /\ n % b = r
  <2>1. k \in Nat /\ n \in Nat
    BY <1>3
  <2>. QED BY <1>1, <2>1, QuotientUnique, RemainderUnique
<1>6. CeilDiv(n, b) = k + (IF r = 0 THEN 0 ELSE 1)
  BY <1>5 DEF CeilDiv
<1>7. CASE r = 0
  BY <1>1, <1>2, <1>3, <1>6, <1>7 DEF k, n
<1>8. CASE r # 0
  <2>1. k + 1 <= n
    <3>1. b * k >= k /\ b * k \in Nat
      BY <1>3
    <3>. DEFINE p == b * k
    <3>2. p >= k /\ p \in Nat /\ n = p + r
      BY <1>1, <3>1
    <3>. HIDE DEF p
    <3>. QED BY <1>1, <1>3, <1>8, <3>2
  <2>2. k + 1 \in 0..Keys-1
    BY <1>3, <2>1
  <2>3. (k + 1) % Keys = k + 1
    <3>. DEFINE j == k + 1
    <3>1. j \in 0..Keys-1 /\ j \in Nat
      BY <1>3, <2>2
    <3>. HIDE DEF j
    <3>2. j = j % Keys
      BY <1>3, <3>1, Reduced
    <3>. QED BY <3>2 DEF j
  <2>. QED BY <1>2, <1>4, <1>6, <1>8, <2>3 DEF n
<1>. QED BY <1>7, <1>8

\* Limbs above the lowest are 0 exactly if the number fits a word, and then it is the lowest.
LEMMA LowLimb ==
  ASSUME NEW a \in U256
  PROVE  /\ (\E i \in LimbIndex \ {0} : a[i] # 0) <=> ValueOf(a) >= Word
         /\ (\A i \in LimbIndex \ {0} : a[i] = 0) => ValueOf(a) = a[0]
<1>. DEFINE v == ValueFrom(a)
<1>0. /\ Limbs \in Nat /\ Limbs > 0 /\ Word \in Nat /\ Word > 1 /\ LimbIndex = 0..Limbs-1
      /\ \A i \in LimbIndex : a[i] \in 0..Word-1
  BY Digits DEF LimbIndex, U256
<1>1. /\ v \in [0..Limbs -> Nat] /\ v[Limbs] = 0
      /\ \A i \in LimbIndex : v[i] = a[i] + (Word * v[i+1])
  <2>1. a \in [LimbIndex -> Nat]
    BY <1>0 DEF U256
  <2>. QED BY <2>1, ValueFromFacts
<1>. HIDE DEF v
<1>2. ASSUME \A i \in LimbIndex \ {0} : a[i] = 0
      PROVE  v[1] = 0
  <2>. DEFINE T == {i \in 0..Limbs : i # 0 => v[i] = 0}
  <2>1. Limbs \in T
    BY <1>0, <1>1
  <2>2. ASSUME NEW i \in 0..Limbs-1, i + 1 \in T PROVE i \in T
    <3>1. i \in LimbIndex /\ i + 1 # 0 /\ i \in 0..Limbs
      BY <1>0
    <3>2. v[i+1] = 0 /\ v[i] = a[i] + (Word * v[i+1])
      BY <1>1, <2>2, <3>1
    <3>3. i # 0 => a[i] = 0
      BY <1>2, <3>1
    <3>4. Word * 0 = 0
      BY <1>0
    <3>. QED BY <3>1, <3>2, <3>3, <3>4
  <2>. HIDE DEF T
  <2>3. 1 \in T
    <3>1. \A i \in 0..Limbs : i \in T
      BY <1>0, <2>1, <2>2, DownFrom
    <3>. QED BY <1>0, <3>1
  <2>. QED BY <2>3 DEF T
<1>3. ASSUME NEW j \in LimbIndex \ {0}, a[j] # 0
      PROVE  v[1] > 0
  <2>. DEFINE T == {i \in 0..Limbs : i # 0 /\ i <= j => v[i] > 0}
  <2>1. Limbs \in T
    BY <1>0
  <2>2. ASSUME NEW i \in 0..Limbs-1, i + 1 \in T PROVE i \in T
    <3>1. i \in LimbIndex /\ i + 1 # 0 /\ i \in 0..Limbs /\ i + 1 \in 0..Limbs
      BY <1>0
    <3>. DEFINE x == v[i+1]
                y == v[i]
                d == a[i]
    <3>2. x \in Nat /\ y = d + (Word * x) /\ d \in Nat
      BY <1>0, <1>1, <3>1
    <3>3. i < j => x > 0
      BY <1>0, <2>2, <3>1
    <3>4. i = j => d # 0
      BY <1>3
    <3>. HIDE DEF x, y, d
    <3>5. Word * x \in Nat /\ (x > 0 => Word * x > 0)
      BY <1>0, <3>2
    <3>6. i <= j => y > 0
      BY <1>0, <3>2, <3>3, <3>4, <3>5
    <3>. QED BY <3>1, <3>6 DEF y
  <2>. HIDE DEF T
  <2>3. 1 \in T
    <3>1. \A i \in 0..Limbs : i \in T
      BY <1>0, <2>1, <2>2, DownFrom
    <3>. QED BY <1>0, <3>1
  <2>4. j >= 1
    BY <1>0
  <2>. QED BY <2>3, <2>4 DEF T
<1>4. ValueOf(a) = a[0] + (Word * v[1]) /\ a[0] \in 0..Word-1 /\ v[1] \in Nat
  <2>1. 0 \in LimbIndex /\ 1 \in 0..Limbs
    BY <1>0
  <2>. QED BY <1>0, <1>1, <2>1 DEF ValueOf, v
<1>. DEFINE x == v[1]
            n == ValueOf(a)
            d == a[0]
<1>5. n = d + (Word * x) /\ d \in 0..Word-1 /\ x \in Nat
  BY <1>4
<1>6. /\ (\A i \in LimbIndex \ {0} : a[i] = 0) => x = 0
      /\ (\E i \in LimbIndex \ {0} : a[i] # 0) => x > 0
  BY <1>2, <1>3
<1>. HIDE DEF x, n, d
<1>7. (x = 0 => n = d /\ n < Word) /\ (x > 0 => n >= Word)
  BY <1>0, <1>5
<1>8. x = 0 => ~(n >= Word)
  BY <1>0, <1>5, <1>7
<1>9. x > 0 => x # 0
  OBVIOUS
<1>. QED BY <1>6, <1>7, <1>8, <1>9 DEF n, d

LEMMA PositiveProduct ==
  ASSUME NEW a \in Nat \ {0}, NEW b \in Nat \ {0}
  PROVE  a * b \in Nat \ {0} /\ a * b >= a
OBVIOUS

LEMMA BlockFacts ==
  ASSUME device \in Devices
  PROVE  ThreadsPerBlock \in Nat \ {0}
<1>1. device.maxThreadsPerBlock \in Nat \ {0}
  BY DeviceAssumption
<1>. QED BY <1>1, BuildAssumption DEF ThreadsPerBlock, Least

\* The threads are whole blocks, one at least, whatever the memory and the range.
LEMMA ThreadsFacts ==
  ASSUME device \in Devices, request \in Requests, range \in Nat,
         batch \in Nat \ {0}, slices \in Nat \ {0}, NEW b \in Nat \ {0}
  PROVE  \E n \in Nat \ {0} : ThreadsCount(b) = b * n
<1>. DEFINE wanted == WantedThreads(b)
            wave   == device.sms * BLOCKS_PER_SM * b
            m      == device.sms * BLOCKS_PER_SM
<1>1. /\ device.sms \in Nat \ {0} /\ device.memThreads \in Nat
      /\ request.blocks \in Nat \ {0} /\ BLOCKS_PER_SM \in Nat \ {0}
  BY DeviceAssumption, BuildAssumption, Requested, Digits
<1>2. wanted \in Nat /\ wanted >= MinThreads(b) /\ MinThreads(b) \in Nat
  <2>. DEFINE byRange == CeilDiv(range, batch * slices)
              byCaps  == Least(MaxThreadsByMem, UserMaxThreads(b))
  <2>1. MaxThreadsByMem \in Nat
    BY <1>1, RoundDownFacts DEF MaxThreadsByMem
  <2>2. UserMaxThreads(b) \in Nat
    BY <1>1, Products DEF UserMaxThreads
  <2>3. MinThreads(b) \in Nat
    BY <1>1, Products DEF MinThreads
  <2>4. byRange \in Nat
    <3>1. batch * slices \in Nat \ {0}
      BY PositiveProduct
    <3>. QED BY <3>1, CeilDivFacts
  <2>5. byCaps \in Nat
    BY <2>1, <2>2 DEF Least
  <2>6. wanted = Greatest(IF byRange < Word THEN Least(byRange, byCaps) ELSE byCaps, MinThreads(b))
    BY DEF WantedThreads
  <2>. HIDE DEF byRange, byCaps, wanted
  <2>7. (IF byRange < Word THEN Least(byRange, byCaps) ELSE byCaps) \in Nat
    BY <2>4, <2>5 DEF Least
  <2>. QED BY <2>3, <2>6, <2>7 DEF Greatest
<1>3. m \in Nat \ {0} /\ wave = b * m /\ wave \in Nat \ {0} /\ MinThreads(b) = wave
  <2>1. m \in Nat \ {0}
    BY <1>1, PositiveProduct
  <2>2. wave = b * m
    BY <1>1
  <2>3. MinThreads(b) = wave
    BY <1>1 DEF MinThreads
  <2>4. b * m \in Nat \ {0}
    BY <2>1, PositiveProduct
  <2>. QED BY <2>1, <2>2, <2>3, <2>4
<1>4. ThreadsCount(b) = RoundDown(wanted, wave)
  BY <1>2, <1>3 DEF ThreadsCount
<1>. HIDE DEF wanted, wave, m
<1>5. PICK k \in Nat : k > 0 /\ ThreadsCount(b) = wave * k
  <2>1. wanted >= wave
    BY <1>2, <1>3
  <2>. DEFINE q == wanted \div wave
  <2>2. q \in Nat /\ q > 0 /\ RoundDown(wanted, wave) = wave * q
    BY <1>2, <1>3, <2>1, RoundDownFacts
  <2>. HIDE DEF q
  <2>. QED BY <1>4, <2>2
<1>6. m * k \in Nat \ {0} /\ ThreadsCount(b) = b * (m * k)
  <2>1. m * k \in Nat \ {0}
    BY <1>3, <1>5, PositiveProduct
  <2>2. (b * m) * k = b * (m * k)
    BY <1>3
  <2>. QED BY <1>3, <1>5, <2>1, <2>2
<1>. QED BY <1>6

LEMMA WholeBlocks ==
  ASSUME NEW b \in Nat \ {0}, NEW n \in Nat \ {0}, NEW m, m = b * n
  PROVE  m \in Nat \ {0} /\ m = (m \div b) * b
<1>1. m \in Nat \ {0} /\ m = b * n + 0
  BY PositiveProduct
<1>2. m \div b = n
  BY <1>1, QuotientUnique
<1>. QED BY <1>1, <1>2

LEMMA PrepareStep == ASSUME IInv, Prepare PROVE (ScanTyped /\ Sized /\ Spending)'
<1>. USE DEF Splitting, Sizing, Scanning
<1>1. /\ phase = "deal" /\ parts # <<>> /\ parts \in Seq(U256 \X U256) /\ request \in Requests
      /\ ~BadBatch(request.batch)
  BY DEF IInv, SplitInv, SplitTyped, Validated, Prepare
<1>2. /\ device' \in Devices /\ phase' = "size"
      /\ start' = First(Len(parts)) /\ range' = Size(Len(parts))
      /\ batch' = request.batch /\ slices' = request.slices
      /\ UNCHANGED <<tpb, threads, budget, runs_total, runs_done, batches_left, scalar, tested>>
  BY DEF Prepare, grid, spend
<1>3. First(Len(parts)) \in 0..Keys-1 /\ Size(Len(parts)) \in 0..Keys-1
  <2>1. parts[Len(parts)] \in U256 \X U256
    BY <1>1
  <2>2. parts[Len(parts)][1] \in U256 /\ parts[Len(parts)][2] \in U256
    BY <2>1
  <2>. QED BY <2>2, ValueBound DEF First, Size
<1>4. request.batch \in Nat \ {0} /\ request.batch % 2 = 0 /\ request.slices \in Nat \ {0}
  <2>1. request.batch \in Nat \ {0} /\ request.slices \in Nat \ {0}
    BY <1>1, Requested, Digits
  <2>2. request.batch % 2 # 1
    BY <1>1 DEF BadBatch
  <2>. QED BY <2>1, <2>2
<1>5. ScanTyped'
  BY <1>2, <1>3, <1>4 DEF IInv, ScanTyped
<1>6. Sized' /\ Spending'
  BY <1>1, <1>2 DEF IInv, Sized, Spending
<1>. QED BY <1>5, <1>6

LEMMA SizeThreadsStep == ASSUME IInv, SizeThreads PROVE (ScanTyped /\ Sized /\ Spending)'
<1>. USE DEF Splitting, Sizing, Scanning
<1>1. /\ phase = "size" /\ request \in Requests /\ device \in Devices
      /\ start \in 0..Keys-1 /\ range \in 0..Keys-1 /\ batch \in Nat \ {0} /\ slices \in Nat \ {0} /\ batch % 2 = 0
      /\ {budget, runs_total, runs_done, batches_left} \subseteq Nat
      /\ tested = {} /\ runs_done = 0
  BY DEF IInv, SplitInv, SplitTyped, ScanTyped, Spending, SizeThreads
<1>2. /\ tpb' = ThreadsPerBlock /\ threads' = ThreadsCount(ThreadsPerBlock) /\ phase' = "shrink"
      /\ UNCHANGED <<device, start, range, batch, slices, budget, runs_total, runs_done, batches_left, scalar, tested>>
  BY DEF SizeThreads, inputs, spend
<1>3. ThreadsPerBlock \in Nat \ {0}
  BY <1>1, BlockFacts
<1>4. tpb' \in Nat \ {0} /\ threads' \in Nat \ {0} /\ threads' = (threads' \div tpb') * tpb'
  <2>. DEFINE b == ThreadsPerBlock
              m == ThreadsCount(b)
  <2>1. \E n \in Nat \ {0} : m = b * n
    <3>1. range \in Nat
      BY <1>1, Digits
    <3>. QED BY <1>1, <1>3, <3>1, ThreadsFacts
  <2>2. b \in Nat \ {0} /\ tpb' = b /\ threads' = m
    BY <1>2, <1>3
  <2>. HIDE DEF b, m
  <2>3. m \in Nat \ {0} /\ m = (m \div b) * b
    BY <2>1, <2>2, WholeBlocks
  <2>. QED BY <2>2, <2>3
<1>5. ScanTyped'
  BY <1>1, <1>2, <1>4 DEF ScanTyped
<1>6. Sized'
  <2>1. tpb' > 0 /\ threads' > 0
    <3>1. \A n \in Nat \ {0} : n > 0
      OBVIOUS
    <3>. QED BY <1>4, <3>1
  <2>2. threads' = (threads' \div tpb') * tpb'
    BY <1>4
  <2>. QED BY <2>1, <2>2, Zenon DEF Sized
<1>7. Spending'
  BY <1>1, <1>2 DEF Spending
<1>. QED BY <1>5, <1>6, <1>7

LEMMA ShrinkStep == ASSUME IInv, Shrink PROVE (ScanTyped /\ Sized /\ Spending)'
<1>. USE DEF Splitting, Sizing, Scanning
<1>1. /\ phase = "shrink" /\ device \in Devices
      /\ start \in 0..Keys-1 /\ range \in 0..Keys-1 /\ batch \in Nat \ {0} /\ slices \in Nat \ {0} /\ batch % 2 = 0
      /\ {tpb, threads, budget, runs_total, runs_done, batches_left} \subseteq Nat
      /\ tested = {} /\ runs_done = 0
  BY DEF IInv, ScanTyped, Spending, Shrink
<1>2. /\ UNCHANGED <<phase, device, start, range, tpb, threads, budget, runs_total, runs_done, batches_left, scalar, tested>>
      /\ \/ slices > 1 /\ slices' = slices - 1 /\ batch' = batch
         \/ ~(slices > 1) /\ slices' = slices /\ batch > 3 /\ batch' = batch - 2
  BY DEF Shrink, ShrinkAgain, Shrinkable, NextBatch, inputs, grid, spend
<1>3. batch' \in Nat \ {0} /\ slices' \in Nat \ {0} /\ batch' % 2 = 0
  BY <1>1, <1>2
<1>4. ScanTyped'
  BY <1>1, <1>2, <1>3 DEF ScanTyped
<1>5. Sized'
  BY <1>2 DEF IInv, Sized
<1>6. Spending'
  BY <1>1, <1>2 DEF Spending
<1>. QED BY <1>4, <1>5, <1>6

LEMMA SizingKept ==
  ASSUME IInv, phase \in {"shrink", "host"}, phase' \in {"host", "refused"},
         UNCHANGED plan
  PROVE  (ScanTyped /\ Sized /\ Spending)'
<1>. USE DEF Splitting, Sizing, Scanning
<1>1. UNCHANGED <<device, start, range, tpb, threads, batch, slices, budget, runs_total,
                  runs_done, batches_left, scalar, tested>>
  BY DEF plan, grid, spend
<1>2. ScanTyped'
  BY <1>1 DEF IInv, ScanTyped
<1>3. Sized'
  BY <1>1 DEF IInv, Sized
<1>4. Spending'
  BY <1>1 DEF IInv, Spending
<1>. QED BY <1>2, <1>3, <1>4

-------------------------------------------------------------------------------
(* Scanning                                                                *)

LEMMA BatchHalves ==
  ASSUME batch \in Nat \ {0}, batch % 2 = 0
  PROVE  half \in Nat /\ batch = half + half
BY DEF half

\* The budget in limbs.
LEMMA BudgetLimbs ==
  ASSUME IInv, phase = "host"
  PROVE  /\ per_thread_batches \in U256 /\ ValueOf(per_thread_batches) = PerThreadBatches
         /\ TooMany <=> PerThreadBatches >= Word
         /\ ~TooMany => per_thread_batches[0] = PerThreadBatches
<1>1. range \in 0..Keys-1 /\ batch \in Nat \ {0} /\ threads \in Nat \ {0}
  BY DEF IInv, ScanTyped, Sized, Splitting
<1>. DEFINE a == LimbsOf(range)
            c == CeilLimbs(a, batch)
<1>2. a \in U256 /\ ValueOf(a) = range
  BY <1>1, LimbsExact
<1>. HIDE DEF a
<1>3. c \in U256 /\ ValueOf(c) = CeilDiv(range, batch)
  BY <1>1, <1>2, CeilingExact
<1>. HIDE DEF c
<1>4. /\ CeilLimbs(c, threads) \in U256
      /\ ValueOf(CeilLimbs(c, threads)) = CeilDiv(CeilDiv(range, batch), threads)
  BY <1>1, <1>3, CeilingExact
<1>5. per_thread_batches \in U256 /\ ValueOf(per_thread_batches) = PerThreadBatches
  BY <1>4 DEF per_thread_batches, PerThreadBatches, c, a
<1>. QED BY <1>5, LowLimb DEF TooMany

\* Where the batches of a thread begin, in limbs.
LEMMA BeginsFacts ==
  ASSUME NEW s \in U256, NEW w \in Nat, ValueOf(s) = w % Keys,
         start \in 0..Keys-1, threads \in Nat \ {0}
  PROVE  \A t \in 0..threads-1 :
           Begins(s)[t] \in U256 /\ ValueOf(Begins(s)[t]) = (start + t * w) % Keys
<1>. DEFINE Body(f) == [t \in 0..threads-1 |-> IF t = 0 THEN LimbsOf(start) ELSE add_256(f[t-1], s).r]
            last == threads - 1
            begin == LimbsOf(start)
<1>0. last \in Nat /\ Keys \in Nat \ {0} /\ start \in Nat /\ begin \in U256 /\ ValueOf(begin) = start
  BY LimbsExact, Digits
<1>. HIDE DEF begin
<1>1. ASSUME NEW x \in U256 PROVE add_256(x, s).r \in U256
  BY LimbSum
<1>2. \E f : f \in [0..last -> U256] /\ f = Body(f)
  <2>. DEFINE next == [i \in 1..last |-> [x \in U256 |-> add_256(x, s).r]]
  <2>1. next \in [1..last -> [U256 -> U256]]
    BY <1>1
  <2>2. PICK f : Follows(f, last, U256, begin, next)
    <3>. HIDE DEF next, last
    <3>. QED BY <1>0, <2>1, UpwardFunction
  <2>3. f \in [0..last -> U256] /\ f[0] = begin /\ \A i \in 1..last : f[i] = next[i][f[i-1]]
    BY <2>2 DEF Follows
  <2>4. ASSUME NEW i \in 1..last PROVE f[i] = add_256(f[i-1], s).r
    <3>1. i - 1 \in 0..last
      BY <1>0
    <3>2. f[i-1] \in U256
      BY <2>3, <3>1
    <3>. QED BY <2>3, <3>2
  <2>5. ASSUME NEW i \in 0..last PROVE f[i] = IF i = 0 THEN begin ELSE add_256(f[i-1], s).r
    <3>1. CASE i = 0
      BY <2>3, <3>1
    <3>2. CASE i # 0
      <4>1. i \in 1..last
        BY <1>0, <3>2
      <4>. QED BY <2>4, <3>2, <4>1
    <3>. QED BY <3>1, <3>2
  <2>6. f = Body(f)
    BY <2>3, <2>5 DEF begin
  <2>. QED BY <2>3, <2>6
<1>3. Begins(s) = Body(Begins(s))
  BY <1>2 DEF Begins
<1>. DEFINE f == Begins(s)
<1>4. f = Body(f)
  BY <1>3
<1>. HIDE DEF f
<1>5. f[0] = begin /\ \A t \in 0..last-1 : f[t+1] = add_256(f[t], s).r
  <2>1. \A t \in 0..last : f[t] = IF t = 0 THEN begin ELSE add_256(f[t-1], s).r
    BY <1>4 DEF begin
  <2>2. 0 \in 0..last /\ \A t \in 0..last-1 : t + 1 \in 0..last /\ t + 1 # 0 /\ (t + 1) - 1 = t
    BY <1>0
  <2>. QED BY <2>1, <2>2
<1>. DEFINE T == {t \in 0..last : f[t] \in U256 /\ ValueOf(f[t]) = (start + t * w) % Keys}
<1>6. 0 \in T
  <2>1. start + 0 * w = start
    BY <1>0
  <2>2. start = start % Keys
    BY <1>0, Reduced
  <2>. QED BY <1>0, <1>5, <2>1, <2>2
<1>7. ASSUME NEW t \in 0..last-1, t \in T PROVE t + 1 \in T
  <2>. DEFINE x == start + t * w
              y == ValueOf(f[t])
  <2>1. f[t] \in U256 /\ y = x % Keys
    BY <1>7
  <2>2. f[t+1] \in U256 /\ ValueOf(f[t+1]) = (y + ValueOf(s)) % Keys
    BY <1>5, <2>1, LimbSum
  <2>3. x \in Nat /\ x + w = start + (t + 1) * w
    <3>1. t \in Nat
      BY <1>0
    <3>2. t * w \in Nat /\ (t + 1) * w = t * w + w
      BY <3>1
    <3>. DEFINE z == t * w
    <3>3. z \in Nat /\ (t + 1) * w = z + w
      BY <3>2
    <3>. HIDE DEF z
    <3>4. start + z \in Nat /\ (start + z) + w = start + (t + 1) * w
      BY <1>0, <3>3
    <3>. QED BY <3>4 DEF z
  <2>4. (y + ValueOf(s)) % Keys = (x + w) % Keys
    <3>. HIDE DEF x, y
    <3>. DEFINE k == Keys
                u == x % k
                v == w % k
    <3>1. k \in Nat \ {0} /\ u \in Nat /\ v \in Nat /\ w \in Nat /\ x \in Nat
      BY <1>0, <2>3, Digit
    <3>2. (u + w) % k = (x + w) % k
      BY <1>0, <2>3, SumModulo
    <3>3. (v + u) % k = (w + u) % k
      BY <1>0, <3>1, SumModulo
    <3>4. y = u /\ ValueOf(s) = v
      BY <2>1
    <3>. HIDE DEF u, v, k
    <3>5. v + u = u + v /\ w + u = u + w
      BY <3>1
    <3>6. (y + ValueOf(s)) % k = (x + w) % k
      BY <3>2, <3>3, <3>4, <3>5
    <3>. QED BY <3>6 DEF k
  <2>5. t + 1 \in 0..last
    BY <1>0
  <2>. HIDE DEF y
  <2>6. ValueOf(f[t+1]) = (start + (t + 1) * w) % Keys
    BY <2>2, <2>3, <2>4
  <2>. QED BY <2>2, <2>5, <2>6
<1>8. \A t \in 0..last : t \in T
  <2>. HIDE DEF T, last
  <2>. QED BY <1>0, <1>6, <1>7, UpTo
<1>. QED BY <1>8 DEF f

\* What PrepareHost works out in limbs are the integers of its action: the budget is refused exactly
\* if it takes more than a word, and each thread starts at its own first centre, as far as the
\* numbers go: past the last one they start over.
HostExact ==
  phase = "host" =>
    /\ ValueOf(per_thread_batches) = PerThreadBatches
    /\ TooMany <=> PerThreadBatches >= Word
    /\ \A t \in 0..threads-1 :
         ValueOf(h_start_scalars[t]) = StartScalars(PerThreadBatches)[t] % Keys

LEMMA HostLimbs == ASSUME IInv PROVE HostExact
<1>. SUFFICES ASSUME phase = "host"
              PROVE  /\ ValueOf(per_thread_batches) = PerThreadBatches
                     /\ TooMany <=> PerThreadBatches >= Word
                     /\ \A t \in 0..threads-1 :
                          ValueOf(h_start_scalars[t]) = StartScalars(PerThreadBatches)[t] % Keys
  BY DEF HostExact
<1>1. /\ start \in 0..Keys-1 /\ batch \in Nat \ {0} /\ threads \in Nat \ {0} /\ half \in Nat
      /\ Keys \in Nat \ {0}
  BY BatchHalves, Digits DEF IInv, ScanTyped, Sized, Splitting
<1>2. /\ per_thread_batches \in U256 /\ ValueOf(per_thread_batches) = PerThreadBatches
      /\ TooMany <=> PerThreadBatches >= Word
  BY BudgetLimbs
<1>. DEFINE b == PerThreadBatches
            s == mul_256_u64(per_thread_batches, batch).r
            w == b * batch
<1>3. b \in Nat
  <2>1. b \in 0..Keys-1
    BY <1>2, ValueBound
  <2>. QED BY <1>1, <2>1
<1>4. s \in U256 /\ ValueOf(s) = w % Keys
  BY <1>1, <1>2, WordProductExact
<1>. HIDE DEF b, s
<1>5. w \in Nat
  BY <1>1, <1>3, Products
<1>6. ASSUME NEW t \in 0..threads-1
      PROVE  ValueOf(h_start_scalars[t]) = StartScalars(b)[t] % Keys
  <2>. DEFINE f == Begins(s)
              x == start + t * w
  <2>1. f[t] \in U256 /\ ValueOf(f[t]) = x % Keys
    <3>. HIDE DEF w
    <3>. QED BY <1>1, <1>4, <1>5, BeginsFacts
  <2>2. h_start_scalars[t] = add_256_u64(f[t], half).r
    BY DEF h_start_scalars, s
  <2>. HIDE DEF f
  <2>3. ValueOf(h_start_scalars[t]) = ((x % Keys) + half) % Keys
    BY <1>1, <2>1, <2>2, WordAdditionExact
  <2>4. t \in Nat
    BY <1>1
  <2>5. x \in Nat
    <3>1. t * w \in Nat
      <4>. HIDE DEF w
      <4>. QED BY <1>5, <2>4, Products
    <3>. DEFINE y == t * w
    <3>2. y \in Nat
      BY <3>1
    <3>. HIDE DEF y
    <3>3. start + y \in Nat
      BY <1>1, <3>2
    <3>. QED BY <3>3 DEF y
  <2>6. x = start + t * b * batch
    BY <1>1, <1>3, <2>4
  <2>. HIDE DEF x
  <2>7. ((x % Keys) + half) % Keys = (x + half) % Keys
    BY <1>1, <2>5, SumModulo
  <2>8. StartScalars(b)[t] = x + half
    BY <2>6 DEF StartScalars
  <2>. QED BY <2>3, <2>7, <2>8
<1>. QED BY <1>2, <1>6 DEF b

LEMMA PrepareHostStep == ASSUME IInv, PrepareHost PROVE (ScanTyped /\ Sized /\ Spending)'
<1>. USE DEF Splitting, Sizing, Scanning
<1>1. /\ phase = "host" /\ device \in Devices
      /\ start \in 0..Keys-1 /\ range \in 0..Keys-1 /\ batch \in Nat \ {0} /\ slices \in Nat \ {0} /\ batch % 2 = 0
      /\ tpb \in Nat /\ threads \in Nat \ {0}
      /\ tested = {} /\ runs_done = 0
  BY DEF IInv, ScanTyped, Sized, Spending, PrepareHost
<1>2. /\ budget' = PerThreadBatches /\ batches_left' = budget' /\ runs_total' = RunsTotal(budget')
      /\ scalar' = [t \in 0..threads-1 |-> start + t * budget' * batch + half]
      /\ phase' = "run"
      /\ UNCHANGED <<device, start, range, tpb, threads, batch, slices, runs_done, tested>>
  <2>1. budget' = PerThreadBatches
    <3>1. ~TooMany /\ budget' = per_thread_batches[0]
      BY DEF PrepareHost
    <3>. QED BY <1>1, <3>1, BudgetLimbs
  <2>2. scalar' = [t \in 0..threads-1 |-> start + t * budget' * batch + half]
    BY DEF PrepareHost, StartScalars
  <2>3. /\ batches_left' = budget' /\ runs_total' = RunsTotal(budget') /\ phase' = "run"
        /\ UNCHANGED <<device, start, range, tpb, threads, batch, slices, runs_done, tested>>
    BY DEF PrepareHost, inputs, grid
  <2>. QED BY <2>1, <2>2, <2>3
<1>3. PerThreadBatches \in Nat /\ PerThreadBatches' = PerThreadBatches
  <2>1. CeilDiv(range, batch) \in Nat
    <3>1. range \in Nat
      BY <1>1, Digits
    <3>. QED BY <1>1, <3>1, CeilDivFacts
  <2>2. CeilDiv(CeilDiv(range, batch), threads) \in Nat
    BY <1>1, <2>1, CeilDivFacts
  <2>. QED BY <1>2, <2>2 DEF PerThreadBatches
<1>4. RunsTotal(budget') \in Nat /\ RunsTotal(budget)' = RunsTotal(budget')
  <2>. DEFINE n == (PerThreadBatches + slices - 1) % Word
  <2>1. n \in Nat
    BY <1>1, <1>3, Digits
  <2>. HIDE DEF n
  <2>2. n \div slices \in Nat
    BY <1>1, <2>1, Digit
  <2>3. RunsTotal(PerThreadBatches) \in Nat
    BY <2>2 DEF RunsTotal, n
  <2>4. RunsTotal(budget)' = RunsTotal(budget')
    BY <1>2 DEF RunsTotal
  <2>. QED BY <1>2, <2>3, <2>4
<1>5. ScanTyped'
  BY <1>1, <1>2, <1>3, <1>4 DEF ScanTyped
<1>6. Sized'
  BY <1>1, <1>2 DEF IInv, Sized
<1>7. Spending'
  <2>1. budget' = PerThreadBatches' /\ runs_total' = RunsTotal(budget)' /\ budget' \in Nat /\ batches_left' = budget'
    BY <1>2, <1>3, <1>4
  <2>2. batches_left' = Greatest(0, budget' - runs_done' * slices')
    <3>1. runs_done' * slices' = 0
      BY <1>1, <1>2
    <3>. QED BY <2>1, <3>1 DEF Greatest
  <2>3. Spent' = 0
    <3>1. budget' \in Nat /\ batches_left' = budget'
      BY <2>1
    <3>2. \A x \in Nat : x - x = 0
      OBVIOUS
    <3>3. budget' - batches_left' = 0
      BY <3>1, <3>2
    <3>. QED BY <3>3 DEF Spent
  <2>4. scalar' = [t \in 0..threads'-1 |-> Centre(t, Spent)']
    <3>1. ASSUME NEW t \in 0..threads-1
          PROVE  Centre(t, Spent)' = start + t * budget' * batch + half
      <4>1. half' = half /\ Spent' * batch' = 0 /\ half \in Nat
        BY <1>1, <1>2, <2>3, BatchHalves DEF half
      <4>. DEFINE x == t * budget' * batch
      <4>2. x \in Nat
        <5>1. t \in Nat /\ budget' \in Nat /\ batch \in Nat
          BY <1>1, <2>1
        <5>. QED BY ONLY <5>1, Products
      <4>3. Centre(t, Spent)' = start + x + half + 0
        BY <1>2, <4>1 DEF Centre
      <4>. HIDE DEF x
      <4>4. start + x + half + 0 = start + x + half
        BY <1>1, <4>1, <4>2
      <4>. QED BY <4>3, <4>4 DEF x
    <3>. QED BY <1>2, <3>1
  <2>5. tested' = Covered(Spent)'
    <3>1. 0..Spent'-1 = {}
      BY <2>3
    <3>. QED BY <1>1, <1>2, <3>1 DEF Covered
  <2>. QED BY <1>2, <2>1, <2>2, <2>4, <2>5 DEF Spending
<1>. QED BY <1>5, <1>6, <1>7

\* The blocks that are launched are all the threads there are.
LEMMA AllLaunched ==
  ASSUME IInv, phase \in Scanning
  PROVE  Launched = 0..threads-1
BY DEF IInv, Sized, Launched, Splitting, Scanning

\* A centre further on.
LEMMA CentreMoves ==
  ASSUME IInv, NEW t \in Nat, NEW n \in Nat, NEW k \in Nat
  PROVE  Centre(t, n) \in Nat /\ Centre(t, n) + k * batch = Centre(t, n + k)
<1>1. start \in Nat /\ budget \in Nat /\ batch \in Nat /\ half \in Nat
  BY DEF IInv, ScanTyped, half
<1>. DEFINE x == t * budget * batch
            y == n * batch
            z == k * batch
            w == (n + k) * batch
<1>2. x \in Nat /\ y \in Nat /\ z \in Nat /\ w \in Nat /\ w = y + z
  <2>1. (n + k) * batch = n * batch + k * batch
    BY <1>1
  <2>. QED BY <1>1, <2>1, Products
<1>3. Centre(t, n) = start + x + half + y /\ Centre(t, n + k) = start + x + half + w
  BY DEF Centre
<1>. HIDE DEF x, y, z, w
<1>4. Centre(t, n) \in Nat /\ Centre(t, n) + z = Centre(t, n + k)
  BY <1>1, <1>2, <1>3
<1>. QED BY <1>4 DEF z

LEMMA CoveredMember ==
  ASSUME NEW n
  PROVE  \A x : x \in Covered(n) <=> \E t \in 0..threads-1, k \in 0..n-1 : x \in BatchOf(Centre(t, k))
BY DEF Covered

\* The keys of the first batches, and of some more.
LEMMA CoveredMore ==
  ASSUME NEW n \in Nat, NEW m \in Nat, NEW x
  PROVE  x \in Covered(n + m) <=>
           \/ x \in Covered(n)
           \/ \E t \in 0..threads-1, k \in 0..m-1 : x \in BatchOf(Centre(t, n + k))
<1>1. ASSUME x \in Covered(n + m)
      PROVE  \/ x \in Covered(n)
             \/ \E t \in 0..threads-1, k \in 0..m-1 : x \in BatchOf(Centre(t, n + k))
  <2>1. PICK t \in 0..threads-1, k \in 0..n+m-1 : x \in BatchOf(Centre(t, k))
    BY <1>1, CoveredMember
  <2>2. k \in 0..n-1 \/ (k - n \in 0..m-1 /\ n + (k - n) = k)
    OBVIOUS
  <2>. QED BY <2>1, <2>2, CoveredMember
<1>2. ASSUME x \in Covered(n) PROVE x \in Covered(n + m)
  <2>1. PICK t \in 0..threads-1, k \in 0..n-1 : x \in BatchOf(Centre(t, k))
    BY <1>2, CoveredMember
  <2>2. k \in 0..n+m-1
    OBVIOUS
  <2>. QED BY <2>1, <2>2, CoveredMember
<1>3. ASSUME NEW t \in 0..threads-1, NEW k \in 0..m-1, x \in BatchOf(Centre(t, n + k))
      PROVE  x \in Covered(n + m)
  <2>1. n + k \in 0..n+m-1
    OBVIOUS
  <2>. QED BY <1>3, <2>1, CoveredMember
<1>. QED BY <1>1, <1>2, <1>3

\* What one launch takes off the budget.
LEMMA LaunchStep == ASSUME IInv, Launch PROVE (ScanTyped /\ Sized /\ Spending)'
<1>. USE DEF Splitting, Sizing, Scanning
<1>. DEFINE bpl == BatchesPerLaunch
            n   == Spent
<1>1. /\ phase = "run" /\ device \in Devices
      /\ start \in 0..Keys-1 /\ range \in 0..Keys-1 /\ batch \in Nat \ {0} /\ slices \in Nat \ {0} /\ batch % 2 = 0
      /\ {tpb, threads, budget, runs_total, runs_done, batches_left} \subseteq Nat
      /\ budget = PerThreadBatches /\ runs_total = RunsTotal(budget)
      /\ batches_left = Greatest(0, budget - runs_done * slices)
      /\ scalar = [t \in 0..threads-1 |-> Centre(t, Spent)]
      /\ tested = Covered(Spent)
  BY DEF IInv, ScanTyped, Spending, Launch
<1>2. /\ tested' = tested \union KeysOfLaunch(bpl) /\ scalar' = NextScalars(bpl)
      /\ runs_done' = runs_done + 1 /\ batches_left' = batches_left - bpl
      /\ UNCHANGED <<phase, device, start, range, tpb, threads, batch, slices, budget, runs_total>>
      /\ batches_left # 0
  BY DEF Launch, MoreLaunches, inputs, grid
<1>3. /\ bpl \in Nat /\ batches_left \in 1..budget
      /\ batches_left' = Greatest(0, budget - (runs_done + 1) * slices)
      /\ budget - batches_left' = n + bpl
      /\ batches_left' \in Nat
  <2>. DEFINE x == runs_done * slices
  <2>0. budget \in Nat /\ runs_done \in Nat /\ slices \in Nat \ {0}
    BY <1>1
  <2>3. x \in Nat /\ (runs_done + 1) * slices = x + slices
    BY ONLY <2>0, Products
  <2>4. batches_left = Greatest(0, budget - x) /\ batches_left # 0
    BY <1>1, <1>2
  <2>. HIDE DEF x
  <2>1. budget \in Nat /\ x \in Nat /\ slices \in Nat \ {0}
    BY <2>0, <2>3
  <2>2. /\ Least(batches_left, slices) \in Nat /\ batches_left \in 1..budget
        /\ batches_left - Least(batches_left, slices) \in Nat
        /\ batches_left - Least(batches_left, slices) = Greatest(0, budget - (x + slices))
        /\ budget - (batches_left - Least(batches_left, slices)) =
             (budget - batches_left) + Least(batches_left, slices)
    <3>1. batches_left = budget - x /\ batches_left \in 1..budget
      BY ONLY <2>1, <2>4 DEF Greatest
    <3>. QED BY ONLY <2>1, <3>1 DEF Greatest, Least
  <2>. QED BY <1>2, <2>2, <2>3 DEF BatchesPerLaunch, Spent
<1>4. n \in Nat /\ Spent' = n + bpl /\ batches_left' \in Nat
  <2>1. n \in Nat
    <3>1. budget \in Nat /\ batches_left \in 1..budget
      BY <1>1, <1>3
    <3>. QED BY <3>1 DEF Spent
  <2>2. Spent' = budget - batches_left'
    BY <1>2 DEF Spent
  <2>. QED BY <1>3, <2>1, <2>2
<1>5. Launched = 0..threads-1
  BY <1>1, AllLaunched
<1>6. ScanTyped'
  <2>1. ScanTyped
    BY DEF IInv
  <2>2. runs_done' \in Nat /\ batches_left' \in Nat
    <3>1. runs_done \in Nat
      BY <2>1 DEF ScanTyped
    <3>. QED BY <1>2, <1>4, <3>1
  <2>3. UNCHANGED <<phase, device, start, range, tpb, threads, batch, slices, budget, runs_total>>
    BY <1>2
  <2>. QED BY <2>1, <2>2, <2>3 DEF ScanTyped
<1>7. Sized'
  BY <1>2 DEF IInv, Sized
<1>8. \A t, k : Centre(t, k)' = Centre(t, k)
  BY <1>2 DEF Centre, half
<1>9. scalar' = [t \in 0..threads'-1 |-> Centre(t, Spent)']
  <2>1. DOMAIN scalar = 0..threads-1
    BY <1>1
  <2>2. ASSUME NEW t \in 0..threads-1
        PROVE  scalar[t] + (IF t \in Launched THEN bpl * batch ELSE 0) = Centre(t, Spent)'
    <3>1. Centre(t, n) + bpl * batch = Centre(t, n + bpl)
      <4>1. t \in Nat
        BY <1>1
      <4>. HIDE DEF bpl, n
      <4>. QED BY <1>3, <1>4, <4>1, CentreMoves
    <3>2. Centre(t, Spent)' = Centre(t, n + bpl)
      <4>1. Centre(t, Spent)' = Centre(t, Spent')
        BY <1>2 DEF Centre, half
      <4>. QED BY <1>4, <4>1
    <3>3. scalar[t] = Centre(t, n)
      BY <1>1
    <3>. QED BY <1>5, <3>1, <3>2, <3>3
  <2>. QED BY <1>2, <2>1, <2>2 DEF NextScalars
<1>10. tested' = Covered(Spent)'
  <2>1. Covered(Spent)' = Covered(n + bpl)
    <3>1. Covered(Spent)' = Covered(Spent')
      BY <1>2 DEF Covered, Centre, BatchOf, half
    <3>. QED BY <1>4, <3>1
  <2>. HIDE DEF n, bpl
  <2>2. ASSUME NEW x
        PROVE  x \in KeysOfLaunch(bpl) <=>
                 \E t \in 0..threads-1, k \in 0..bpl-1 : x \in BatchOf(Centre(t, n + k))
    <3>1. ASSUME NEW t \in 0..threads-1, NEW k \in 0..bpl-1
          PROVE  scalar[t] + k * batch = Centre(t, n + k)
      <4>1. scalar[t] = Centre(t, n) /\ t \in Nat /\ k \in Nat
        BY <1>1, <1>3 DEF n
      <4>. QED BY <1>4, <4>1, CentreMoves
    <3>2. x \in KeysOfLaunch(bpl) <=>
            \E t \in 0..threads-1, k \in 0..bpl-1 : x \in BatchOf(scalar[t] + k * batch)
      BY <1>5 DEF KeysOfLaunch
    <3>. QED BY <3>1, <3>2
  <2>3. \A x : x \in tested' <=> x \in Covered(n + bpl)
    <3>1. tested = Covered(n)
      BY <1>1 DEF n
    <3>2. \A x : x \in tested' <=> x \in tested \/ x \in KeysOfLaunch(bpl)
      BY <1>2
    <3>3. \A x : x \in Covered(n + bpl) <=>
            \/ x \in Covered(n)
            \/ \E t \in 0..threads-1, k \in 0..bpl-1 : x \in BatchOf(Centre(t, n + k))
      BY <1>3, <1>4, CoveredMore
    <3>. QED BY <2>2, <3>1, <3>2, <3>3
  <2>. QED BY <2>1, <2>3
<1>11. Spending'
  <2>1. PerThreadBatches' = PerThreadBatches /\ RunsTotal(budget)' = RunsTotal(budget)
    BY <1>2 DEF PerThreadBatches, RunsTotal, CeilDiv
  <2>2. batches_left' = Greatest(0, budget' - runs_done' * slices')
    BY <1>2, <1>3
  <2>. QED BY <1>1, <1>2, <1>9, <1>10, <2>1, <2>2 DEF Spending
<1>. QED BY <1>6, <1>7, <1>11

LEMMA ScanDoneStep == ASSUME IInv, ScanDone PROVE (ScanTyped /\ Sized /\ Spending)'
<1>. USE DEF Splitting, Sizing, Scanning
<1>1. UNCHANGED <<device, start, range, tpb, threads, batch, slices, budget, runs_total,
                  runs_done, batches_left, scalar, tested>>
  BY DEF ScanDone, inputs, grid, spend
<1>2. phase = "run" /\ phase' = "done" /\ ~MoreLaunches
  BY DEF ScanDone
<1>3. ScanTyped'
  BY <1>1, <1>2 DEF IInv, ScanTyped
<1>4. Sized'
  BY <1>1, <1>2 DEF IInv, Sized
<1>5. Spending'
  <2>1. /\ budget = PerThreadBatches /\ runs_total = RunsTotal(budget)
        /\ batches_left = Greatest(0, budget - runs_done * slices)
        /\ scalar = [t \in 0..threads-1 |-> Centre(t, Spent)]
        /\ tested = Covered(Spent)
    BY <1>2 DEF IInv, Spending
  <2>2. /\ PerThreadBatches' = PerThreadBatches /\ RunsTotal(budget)' = RunsTotal(budget)
        /\ Covered(Spent)' = Covered(Spent) /\ MoreLaunches' = MoreLaunches
        /\ [t \in 0..threads-1 |-> Centre(t, Spent)]' = [t \in 0..threads-1 |-> Centre(t, Spent)]
    BY <1>1 DEF PerThreadBatches, RunsTotal, CeilDiv, Covered, Centre, Spent, BatchOf, half, MoreLaunches
  <2>3. batches_left' = Greatest(0, budget' - runs_done' * slices')
    BY <1>1, <2>1
  <2>. QED BY <1>1, <1>2, <2>1, <2>2, <2>3 DEF Spending
<1>. QED BY <1>3, <1>4, <1>5

\* While the range is split, and when a step changes nothing.
LEMMA PlanKept ==
  ASSUME IInv, UNCHANGED plan, phase' = phase \/ (phase \in Splitting /\ phase' \in Splitting)
  PROVE  (ScanTyped /\ Sized /\ Spending)'
<1>. USE DEF Splitting, Sizing, Scanning
<1>1. UNCHANGED <<device, start, range, tpb, threads, batch, slices, budget, runs_total,
                  runs_done, batches_left, scalar, tested>>
  BY DEF plan, grid, spend
<1>2. ScanTyped'
  BY <1>1 DEF IInv, ScanTyped
<1>3. Sized'
  BY <1>1 DEF IInv, Sized
<1>4. CASE phase' = phase
  <2>1. /\ PerThreadBatches' = PerThreadBatches /\ RunsTotal(budget)' = RunsTotal(budget)
        /\ Covered(Spent)' = Covered(Spent) /\ MoreLaunches' = MoreLaunches
        /\ [t \in 0..threads-1 |-> Centre(t, Spent)]' = [t \in 0..threads-1 |-> Centre(t, Spent)]
        /\ Greatest(0, budget - runs_done * slices)' = Greatest(0, budget - runs_done * slices)
    BY <1>1 DEF PerThreadBatches, RunsTotal, CeilDiv, Covered, Centre, Spent, BatchOf, half, MoreLaunches, Greatest
  <2>2. Spending
    BY DEF IInv
  <2>3. Spending'
    BY <1>1, <1>4, <2>1, <2>2 DEF Spending
  <2>. QED BY <1>2, <1>3, <2>3
<1>5. CASE phase \in Splitting /\ phase' \in Splitting
  <2>1. Spending'
    BY <1>1, <1>5 DEF IInv, Spending
  <2>. QED BY <1>2, <1>3, <2>1
<1>. QED BY <1>4, <1>5

\* A step of the split, of the plan or of the scan keeps the invariant.
LEMMA StepKeeps == ASSUME IInv, [Next]_vars PROVE IInv'
<1>0. SplitInv
  BY DEF IInv
<1>1. CASE Validate /\ UNCHANGED plan
  <2>1. SplitInv'
    BY <1>0, <1>1, ValidateStep
  <2>2. phase \in Splitting /\ phase' \in Splitting
    BY <1>1 DEF Validate, Splitting
  <2>. QED BY <1>1, <2>1, <2>2, PlanKept DEF IInv
<1>2. CASE Divide /\ UNCHANGED plan
  <2>1. SplitInv'
    BY <1>0, <1>2, DivideStep
  <2>2. phase \in Splitting /\ phase' \in Splitting
    BY <1>2 DEF Divide, Splitting
  <2>. QED BY <1>2, <2>1, <2>2, PlanKept DEF IInv
<1>3. CASE Deal /\ UNCHANGED plan
  <2>1. SplitInv'
    BY <1>0, <1>3, DealStep
  <2>2. phase' = phase
    BY <1>3 DEF Deal
  <2>. QED BY <1>3, <2>1, <2>2, PlanKept DEF IInv
<1>4. CASE Prepare
  <2>1. SplitInv'
    BY <1>0, <1>4, SplitKept DEF Prepare, Sizing
  <2>. QED BY <1>4, <2>1, PrepareStep DEF IInv
<1>5. CASE SizeThreads
  <2>1. SplitInv'
    BY <1>0, <1>5, SplitKept DEF SizeThreads, inputs, Sizing
  <2>. QED BY <1>5, <2>1, SizeThreadsStep DEF IInv
<1>6. CASE Shrink
  <2>1. SplitInv'
    BY <1>0, <1>6, SplitKept DEF Shrink, inputs, Sizing
  <2>. QED BY <1>6, <2>1, ShrinkStep DEF IInv
<1>7. CASE ShrinkDone \/ Refuse
  <2>1. SplitInv'
    BY <1>0, <1>7, SplitKept DEF ShrinkDone, Refuse, inputs, Sizing
  <2>2. phase \in {"shrink", "host"} /\ phase' \in {"host", "refused"} /\ UNCHANGED plan
    BY <1>7 DEF ShrinkDone, Refuse, plan, inputs, grid, spend
  <2>. QED BY <2>1, <2>2, SizingKept DEF IInv
<1>8. CASE PrepareHost
  <2>1. SplitInv'
    BY <1>0, <1>8, SplitKept DEF PrepareHost, inputs, Scanning
  <2>. QED BY <1>8, <2>1, PrepareHostStep DEF IInv
<1>9. CASE Launch
  <2>1. SplitInv'
    BY <1>0, <1>9, SplitKept DEF Launch, inputs
  <2>. QED BY <1>9, <2>1, LaunchStep DEF IInv
<1>10. CASE ScanDone
  <2>1. SplitInv'
    BY <1>0, <1>10, SplitKept DEF ScanDone, inputs, Scanning
  <2>. QED BY <1>10, <2>1, ScanDoneStep DEF IInv
<1>11. CASE UNCHANGED vars
  <2>1. UNCHANGED <<phase, rvars, plan>>
    BY <1>11 DEF vars
  <2>2. SplitInv'
    BY <1>0, <2>1, SplitKept
  <2>. QED BY <2>1, <2>2, PlanKept DEF IInv
<1>. QED BY <1>1, <1>2, <1>3, <1>4, <1>5, <1>6, <1>7, <1>8, <1>9, <1>10, <1>11
        DEF Next, Step, Split, Over

LEMMA StartHolds == ASSUME Init PROVE IInv
<1>1. SplitInv
  BY SplitStart DEF Init
<1>2. ScanTyped
  <2>1. 0 \in 0..Keys-1
    BY Digits
  <2>. QED BY <2>1 DEF Init, SplitInit, ScanTyped, Splitting
<1>3. Sized /\ Spending
  BY DEF Init, SplitInit, Sized, Spending, Splitting, Sizing, Scanning
<1>. QED BY <1>1, <1>2, <1>3 DEF IInv

\* The invariant of the split and of the scan holds of every behaviour.
THEOREM Inductive == Spec => []IInv
<1>1. Init => IInv
  BY StartHolds
<1>2. IInv /\ [Next]_vars => IInv'
  BY StepKeeps
<1>. QED BY <1>1, <1>2, PTL DEF Spec

\* PrepareHost's divisions, its product and its sums in limbs give the budget and the first centres
\* that the model has, whatever carries from limb to limb, and a budget is refused exactly if it takes more than a word.
THEOREM HostArithmeticCorrect == Spec => []HostExact
<1>1. IInv => HostExact
  BY HostLimbs
<1>. QED BY <1>1, Inductive, PTL

\* Whatever the carries and the borrows between the limbs, the length that is split is the number of
\* keys asked for, and only reversed, whole and ill-sized requests are refused.
THEOREM LengthCorrect == Spec => []LengthIsExact
<1>1. IInv => LengthIsExact
  BY DEF IInv, SplitInv, Validated, LengthIsExact, Asked
<1>. QED BY <1>1, Inductive, PTL

\* The parts of the GPUs tile the range, for any number of GPUs.
THEOREM PartsCorrect == Spec => []PartsTile
<1>1. IInv => PartsTile
  BY TilesFollow DEF IInv
<1>. QED BY <1>1, Inductive, PTL

\* Every key of the range is some GPU's to test, and only one's.
THEOREM KeysShared == Spec => []EachKeyOnce
<1>1. IInv => EachKeyOnce
  BY KeysOnce DEF IInv
<1>. QED BY <1>1, Inductive, PTL

-------------------------------------------------------------------------------
(* The keys that are tested                                                *)

LEMMA BelowProduct ==
  ASSUME NEW n \in Nat, NEW b \in Nat, NEW k \in 0..n-1, NEW j \in 0..b-1
  PROVE  k * b + j \in 0 .. n * b - 1
<1>. DEFINE x == k * b
            y == n * b
<1>1. x \in Nat /\ y \in Nat /\ x + b <= y
  <2>1. (k + 1) * b <= n * b /\ (k + 1) * b = k * b + b
    OBVIOUS
  <2>. QED BY <2>1, Products
<1>. HIDE DEF x, y
<1>2. x + j \in 0 .. y - 1
  BY <1>1
<1>. QED BY <1>2 DEF x, y

\* T stretches of R numbers, which begin B apart.
InSpread(x, T, R, B, s) == \E t \in 0..T-1, r \in 0..R-1 : x = s + t * B + r

\* The batches of a thread lie next to each other, and so do the threads.
LEMMA CoveredKeys ==
  ASSUME IInv, phase \notin Splitting, NEW n \in Nat, NEW x
  PROVE  x \in Covered(n) <=> InSpread(x, threads, n * batch, budget * batch, start)
<1>1. /\ start \in Nat /\ budget \in Nat /\ threads \in Nat /\ batch \in Nat \ {0}
      /\ half \in Nat /\ batch = half + half
  BY BatchHalves DEF IInv, ScanTyped
<1>2. ASSUME NEW t \in 0..threads-1, NEW k \in Nat
      PROVE  x \in BatchOf(Centre(t, k)) <=>
               \E j \in 0..batch-1 : x = start + t * (budget * batch) + (k * batch + j)
  <2>. DEFINE u == t * budget * batch
              v == k * batch
              w == t * (budget * batch)
  <2>1. u \in Nat /\ v \in Nat /\ w = u
    <3>1. t \in Nat
      BY <1>1
    <3>. QED BY <1>1, <3>1, Products
  <2>2. Centre(t, k) = start + u + half + v
    BY DEF Centre
  <2>. HIDE DEF u, v
  <2>3. x \in BatchOf(Centre(t, k)) <=> x \in start + u + v .. start + u + v + batch - 1
    BY <1>1, <2>1, <2>2 DEF BatchOf
  <2>4. x \in start + u + v .. start + u + v + batch - 1 <=>
          \E j \in 0..batch-1 : x = start + u + (v + j)
    <3>1. ASSUME x \in start + u + v .. start + u + v + batch - 1
          PROVE  \E j \in 0..batch-1 : x = start + u + (v + j)
      <4>1. x - (start + u + v) \in 0..batch-1 /\ x = start + u + (v + (x - (start + u + v)))
        BY <1>1, <2>1, <3>1
      <4>. QED BY <4>1
    <3>2. \A j \in 0..batch-1 : start + u + (v + j) \in start + u + v .. start + u + v + batch - 1
      BY <1>1, <2>1
    <3>. QED BY <3>1, <3>2
  <2>. QED BY <2>1, <2>3, <2>4 DEF v
<1>3. ASSUME x \in Covered(n)
      PROVE  \E t \in 0..threads-1, r \in 0 .. n * batch - 1 : x = start + t * (budget * batch) + r
  <2>1. PICK t \in 0..threads-1, k \in 0..n-1 : x \in BatchOf(Centre(t, k))
    BY <1>3, CoveredMember
  <2>2. PICK j \in 0..batch-1 : x = start + t * (budget * batch) + (k * batch + j)
    <3>1. k \in Nat
      OBVIOUS
    <3>. QED BY <1>2, <2>1, <3>1
  <2>3. k * batch + j \in 0 .. n * batch - 1
    BY <1>1, BelowProduct
  <2>. QED BY <2>2, <2>3
<1>4. ASSUME NEW t \in 0..threads-1, NEW r \in 0 .. n * batch - 1, x = start + t * (budget * batch) + r
      PROVE  x \in Covered(n)
  <2>. DEFINE k == r \div batch
              j == r % batch
  <2>1. k \in Nat /\ j \in 0..batch-1 /\ r = j + batch * k
    <3>1. r \in Nat /\ batch \in Nat /\ batch > 0
      BY <1>1, Products
    <3>. QED BY ONLY <3>1, Digit
  <2>. HIDE DEF k, j
  <2>2. k < n
    <3>1. SUFFICES ASSUME k >= n PROVE FALSE
      BY <2>1
    <3>. DEFINE p == batch * k
                q == n * batch
    <3>2. p \in Nat /\ q \in Nat /\ p >= q
      BY <1>1, <2>1, <3>1
    <3>3. r = j + p /\ r <= q - 1
      BY <2>1
    <3>. HIDE DEF p, q
    <3>. QED BY <2>1, <3>2, <3>3
  <2>3. r = k * batch + j
    <3>. DEFINE p == batch * k
                q == k * batch
    <3>1. p = q /\ p \in Nat
      BY <1>1, <2>1
    <3>2. r = j + p
      BY <2>1
    <3>. HIDE DEF p, q
    <3>3. r = q + j
      BY <2>1, <3>1, <3>2
    <3>. QED BY <3>3 DEF q
  <2>4. x \in BatchOf(Centre(t, k))
    BY <1>2, <1>4, <2>1, <2>3
  <2>. QED BY <2>1, <2>2, <2>4, CoveredMember
<1>. QED BY <1>3, <1>4 DEF InSpread

\* The stretches do not overlap if they are no longer than the distance between them.
LEMMA SpreadSize ==
  ASSUME NEW T \in Nat, NEW R \in Nat \ {0}, NEW B \in Nat, R <= B, NEW s \in Nat, NEW X,
         \A x : x \in X <=> InSpread(x, T, R, B, s)
  PROVE  Cardinality(X) = T * R
<1>. DEFINE D == 0 .. T * R - 1
            f == [i \in D |-> s + (i \div R) * B + (i % R)]
<1>0. T * R \in Nat /\ B \in Nat \ {0}
  BY Products
<1>1. ASSUME NEW i \in D PROVE i \div R \in 0..T-1 /\ i % R \in 0..R-1 /\ i = R * (i \div R) + (i % R)
  <2>. DEFINE t == i \div R
              r == i % R
  <2>1. t \in Nat /\ r \in 0..R-1 /\ i = r + R * t
    BY <1>0, Digit
  <2>. HIDE DEF t, r
  <2>2. t < T
    <3>1. SUFFICES ASSUME t >= T PROVE FALSE
      BY <2>1
    <3>. DEFINE p == R * t
                q == T * R
    <3>2. p \in Nat /\ q \in Nat /\ p >= q
      BY <2>1, <3>1
    <3>3. i = r + p /\ i <= q - 1
      BY <1>0, <2>1
    <3>. HIDE DEF p, q
    <3>. QED BY <2>1, <3>2, <3>3
  <2>3. i = R * t + r
    <3>. DEFINE p == R * t
    <3>1. p \in Nat
      BY <2>1, Products
    <3>2. i = r + p
      BY <2>1
    <3>. HIDE DEF p
    <3>3. i = p + r
      BY <2>1, <3>1, <3>2
    <3>. QED BY <3>3 DEF p
  <2>. QED BY <2>1, <2>2, <2>3 DEF t, r
<1>2. f \in [D -> X]
  <2>1. \A i \in D : InSpread(s + (i \div R) * B + (i % R), T, R, B, s)
    BY <1>1 DEF InSpread
  <2>. QED BY <2>1
<1>3. ASSUME NEW i \in D, NEW k \in D, f[i] = f[k] PROVE i = k
  <2>. DEFINE t == i \div R
              r == i % R
              u == k \div R
              v == k % R
  <2>1. /\ t \in Nat /\ r \in 0..R-1 /\ i = R * t + r
        /\ u \in Nat /\ v \in 0..R-1 /\ k = R * u + v
    <3>. HIDE DEF D
    <3>1. t \in 0..T-1 /\ r \in 0..R-1 /\ i = R * t + r
      BY <1>1
    <3>2. u \in 0..T-1 /\ v \in 0..R-1 /\ k = R * u + v
      BY <1>1
    <3>3. \A y \in 0..T-1 : y \in Nat
      OBVIOUS
    <3>. HIDE DEF t, r, u, v
    <3>. QED BY <3>1, <3>2, <3>3
  <2>2. s + t * B + r = s + u * B + v
    BY <1>3
  <2>. HIDE DEF t, r, u, v
  <2>. DEFINE p == t * B
              q == u * B
              n == p + r
  <2>3. p \in Nat /\ q \in Nat /\ p = B * t /\ q = B * u
    BY <2>1, Products
  <2>4. n \in Nat /\ n = B * t + r /\ n = B * u + v /\ r \in 0..B-1 /\ v \in 0..B-1
    <3>1. s + p + r = s + q + v
      BY <2>2
    <3>. HIDE DEF p, q
    <3>2. p + r \in Nat /\ p + r = q + v
      BY <2>1, <2>3, <3>1
    <3>. QED BY <2>1, <2>3, <3>2
  <2>. HIDE DEF n
  <2>5. n \div B = t /\ n \div B = u /\ n % B = r /\ n % B = v
    BY <1>0, <2>1, <2>4, QuotientUnique, RemainderUnique
  <2>. QED BY <2>1, <2>5
<1>4. ASSUME NEW x \in X PROVE \E i \in D : f[i] = x
  <2>1. PICK t \in 0..T-1, r \in 0..R-1 : x = s + t * B + r
    BY DEF InSpread
  <2>. DEFINE i == t * R + r
  <2>2. i \in D
    BY BelowProduct
  <2>3. i \div R = t /\ i % R = r
    <3>1. i \in Nat /\ i = R * t + r
      BY <1>0, <2>2
    <3>. HIDE DEF i
    <3>. QED BY <3>1, QuotientUnique, RemainderUnique
  <2>. HIDE DEF i
  <2>. QED BY <2>1, <2>2, <2>3
<1>. HIDE DEF f
<1>5. f \in Bijection(D, X)
  BY <1>2, <1>3, <1>4 DEF Bijection, Injection, IsInjective, Surjection
<1>. DEFINE m == T * R
<1>6. IsFiniteSet(D) /\ Cardinality(D) = m
  <2>1. m \in Nat /\ 0 \in Int /\ m - 1 \in Int
    BY <1>0
  <2>2. D = 0 .. m - 1
    OBVIOUS
  <2>. HIDE DEF m, D
  <2>3. IsFiniteSet(0 .. m-1) /\ Cardinality(0 .. m-1) = IF 0 > m-1 THEN 0 ELSE (m-1)-0+1
    BY <2>1, FS_Interval
  <2>. QED BY <2>1, <2>2, <2>3
<1>. HIDE DEF D, m
<1>7. Cardinality(X) = m
  <2>1. ExistsBijection(D, X)
    BY <1>5 DEF ExistsBijection
  <2>. QED BY <1>6, <2>1, FS_Bijection
<1>. QED BY <1>7 DEF m

\* The budget of all the threads covers the part, and by less than a batch per thread too much.
LEMMA BudgetFacts ==
  ASSUME IInv, phase \in Scanning
  PROVE  /\ threads * (budget * batch) \in Nat
         /\ range <= threads * (budget * batch)
         /\ range > 0 => threads * (budget * batch) < range + threads * batch
         /\ range = 0 => budget = 0
<1>1. /\ range \in Nat /\ batch \in Nat \ {0} /\ threads \in Nat \ {0} /\ budget \in Nat
      /\ budget = CeilDiv(CeilDiv(range, batch), threads)
  <2>1. range \in Nat /\ batch \in Nat \ {0} /\ threads \in Nat /\ budget \in Nat
    BY DEF IInv, ScanTyped
  <2>2. threads > 0
    BY DEF IInv, Sized, Splitting, Scanning
  <2>3. budget = CeilDiv(CeilDiv(range, batch), threads)
    BY DEF IInv, Spending, PerThreadBatches
  <2>. QED BY <2>1, <2>2, <2>3
<1>. DEFINE n == CeilDiv(range, batch)
            bn == batch * n
            tb == threads * budget
            all == threads * (budget * batch)
            btb == batch * tb
<1>2. /\ n \in Nat /\ range <= bn /\ (range > 0 => bn < range + batch) /\ (range = 0 => n = 0)
  BY <1>1, CeilDivFacts
<1>3. /\ n <= tb /\ (n > 0 => tb < n + threads) /\ (n = 0 => budget = 0)
  <2>1. budget = CeilDiv(n, threads)
    BY <1>1
  <2>. HIDE DEF n
  <2>. QED BY <1>1, <1>2, <2>1, CeilDivFacts
<1>4. n \in Nat /\ bn \in Nat /\ tb \in Nat /\ btb \in Nat /\ all = btb
  <2>1. n \in Nat
    BY <1>2
  <2>. HIDE DEF n
  <2>2. bn \in Nat /\ tb \in Nat
    BY <1>1, <2>1, Products
  <2>3. all = btb
    BY <1>1
  <2>. HIDE DEF tb
  <2>. QED BY <1>1, <2>1, <2>2, <2>3, Products
<1>. HIDE DEF n
<1>5. bn <= btb
  <2>1. \A x, y \in Nat : x <= y => batch * x <= batch * y
    BY <1>1
  <2>. HIDE DEF tb
  <2>. QED BY <1>3, <1>4, <2>1
<1>6. n > 0 => btb + batch <= bn + threads * batch
  <2>. DEFINE u == n + threads
              bt == threads * batch
  <2>1. \A x, y \in Nat : x < y => batch * x + batch <= batch * y
    BY <1>1
  <2>2. batch * u = bn + bt
    BY <1>1, <1>4
  <2>3. u \in Nat /\ (n > 0 => tb < u)
    BY <1>1, <1>3, <1>4
  <2>. HIDE DEF u, tb
  <2>4. n > 0 => batch * tb + batch <= batch * u
    BY <1>4, <2>1, <2>3
  <2>. QED BY <2>2, <2>4
<1>7. range > 0 => n > 0
  <2>1. n = 0 => bn = 0
    BY <1>1
  <2>2. range > 0 => n # 0
    <3>. HIDE DEF bn
    <3>. QED BY <1>1, <1>2, <2>1
  <2>. QED BY <1>4, <2>2
<1>. DEFINE bt == threads * batch
<1>8. bt \in Nat
  BY <1>1, Products
<1>9. n > 0 => btb + batch <= bn + bt
  BY <1>6
<1>. HIDE DEF bn, btb, bt, all, tb
<1>10. /\ all \in Nat /\ range <= all /\ (range > 0 => all < range + bt)
  BY <1>1, <1>2, <1>4, <1>5, <1>7, <1>8, <1>9
<1>. QED BY <1>2, <1>3, <1>10 DEF all, bt

LEMMA SpentFacts ==
  ASSUME IInv, phase \in Scanning
  PROVE  Spent \in 0..budget /\ tested = Covered(Spent)
<1>1. /\ budget \in Nat /\ runs_done \in Nat /\ slices \in Nat \ {0}
      /\ batches_left = Greatest(0, budget - runs_done * slices)
      /\ tested = Covered(Spent)
  BY DEF IInv, ScanTyped, Spending
<1>. DEFINE x == runs_done * slices
<1>2. x \in Nat /\ batches_left = Greatest(0, budget - x)
  BY <1>1, Products
<1>. HIDE DEF x
<1>3. batches_left \in 0..budget
  BY <1>1, <1>2 DEF Greatest
<1>. QED BY <1>1, <1>3 DEF Spent

\* Every number of the spread is in the stretch of all the budgets.
LEMMA SpreadBounds ==
  ASSUME NEW T \in Nat, NEW B \in Nat, NEW t \in 0..T-1, NEW r \in 0..B-1
  PROVE  t * B + r \in 0 .. T * B - 1
BY BelowProduct

\* Rounding up goes less than a batch per thread past the end of the part, for any grid.
THEOREM OverscanCorrect == Spec => []OverscanBounded
<1>1. ASSUME IInv PROVE OverscanBounded
  <2>1. CASE phase \notin Scanning
    <3>1. tested = {}
      BY <1>1, <2>1 DEF IInv, Spending
    <3>. QED BY <3>1 DEF OverscanBounded
  <2>2. CASE phase \in Scanning
    <3>1. /\ start \in Nat /\ range \in Nat /\ batch \in Nat \ {0} /\ threads \in Nat /\ budget \in Nat
          /\ phase \notin Splitting
      BY <1>1, <2>2 DEF IInv, ScanTyped, Splitting, Scanning
    <3>2. Spent \in 0..budget /\ tested = Covered(Spent)
      BY <1>1, <2>2, SpentFacts
    <3>. DEFINE B == budget * batch
                all == threads * B
                bt == threads * batch
    <3>3. /\ all \in Nat /\ range <= all /\ (range > 0 => all < range + bt) /\ (range = 0 => budget = 0)
      BY <1>1, <2>2, BudgetFacts
    <3>4. ASSUME NEW k \in tested PROVE start <= k /\ k < start + range + bt - 1
      <4>1. PICK t \in 0..threads-1, r \in 0 .. Spent * batch - 1 : k = start + t * B + r
        <5>1. k \in Covered(Spent) /\ Spent \in Nat
          BY <3>2
        <5>2. InSpread(k, threads, Spent * batch, B, start)
          BY <1>1, <3>1, <5>1, CoveredKeys
        <5>. QED BY <5>2 DEF InSpread
      <4>2. r \in 0..B-1 /\ B \in Nat /\ bt \in Nat
        <5>1. Spent * batch <= B /\ B \in Nat
          <6>1. \A x, y \in Nat : x <= y => x * batch <= y * batch
            BY <3>1
          <6>2. Spent \in Nat /\ Spent <= budget
            BY <3>1, <3>2
          <6>. QED BY <3>1, <6>1, <6>2, Products
        <5>2. Spent * batch \in Nat
          BY <3>1, <3>2, Products
        <5>. DEFINE y == Spent * batch
        <5>3. y \in Nat /\ y <= B /\ r \in 0..y-1 /\ B \in Nat
          BY <5>1, <5>2
        <5>. HIDE DEF y, B
        <5>. QED BY <3>1, <5>3, Products
      <4>. HIDE DEF B
      <4>3. t * B + r \in 0 .. all - 1
        BY <3>1, <4>2, SpreadBounds
      <4>4. t * B \in Nat /\ r \in Nat
        <5>1. t \in Nat
          BY <3>1
        <5>. QED BY <4>2, <5>1, Products
      <4>. DEFINE p == t * B
      <4>5. p \in Nat /\ r \in Nat /\ p + r \in 0 .. all - 1 /\ k = start + p + r
        BY <4>1, <4>3, <4>4
      <4>6. range # 0
        <5>1. SUFFICES ASSUME range = 0 PROVE FALSE
          OBVIOUS
        <5>2. B = 0
          BY <3>1, <3>3, <5>1 DEF B
        <5>. QED BY <4>2, <5>2
      <4>. HIDE DEF p, all, bt
      <4>. QED BY <3>1, <3>3, <4>2, <4>5, <4>6
    <3>. QED BY <3>4 DEF OverscanBounded
  <2>. QED BY <2>1, <2>2
<1>. QED BY <1>1, Inductive, PTL

\* No key is tested twice, for any grid, budget and number of launches.
THEOREM TestedOnce == Spec => []NoKeyTwice
<1>1. ASSUME IInv, phase \in Scanning PROVE Cardinality(tested) = threads * batch * Spent
  <2>1. /\ start \in Nat /\ batch \in Nat \ {0} /\ threads \in Nat /\ budget \in Nat
        /\ phase \notin Splitting
    BY <1>1 DEF IInv, ScanTyped, Splitting, Scanning
  <2>2. Spent \in 0..budget /\ tested = Covered(Spent)
    BY <1>1, SpentFacts
  <2>. DEFINE n == Spent
              B == budget * batch
              R == n * batch
  <2>3. n \in Nat /\ n <= budget
    BY <2>1, <2>2
  <2>4. \A x : x \in tested <=> InSpread(x, threads, R, B, start)
    BY <1>1, <2>1, <2>2, <2>3, CoveredKeys
  <2>5. B \in Nat /\ R \in Nat /\ R <= B
    <3>1. \A x, y \in Nat : x <= y => x * batch <= y * batch
      BY <2>1
    <3>. HIDE DEF n
    <3>. QED BY <2>1, <2>3, <3>1, Products
  <2>6. threads * batch * n = threads * R
    <3>. HIDE DEF n
    <3>. QED BY <2>1, <2>3
  <2>. HIDE DEF B, R
  <2>7. CASE R = 0
    <3>1. tested = {}
      BY <2>4, <2>7 DEF InSpread
    <3>2. Cardinality(tested) = 0
      BY <3>1, FS_EmptySet
    <3>. QED BY <2>1, <2>6, <2>7, <3>2
  <2>8. CASE R # 0
    <3>1. Cardinality(tested) = threads * R
      BY <2>1, <2>4, <2>5, <2>8, SpreadSize
    <3>. QED BY <2>6, <3>1
  <2>. QED BY <2>7, <2>8
<1>2. IInv => NoKeyTwice
  BY <1>1 DEF NoKeyTwice, Spent, Scanning
<1>. QED BY <1>2, Inductive, PTL

-------------------------------------------------------------------------------
(* The end of the scan                                                     *)

\* The launches add up to the budget, unless the sum they are counted from wraps.
LEMMA BudgetSpent ==
  ASSUME IInv, phase = "done", NoWrap
  PROVE  batches_left = 0
<1>1. /\ budget \in Nat /\ runs_done \in Nat /\ slices \in Nat \ {0} /\ batches_left \in Nat
      /\ batches_left = Greatest(0, budget - runs_done * slices)
      /\ runs_total = RunsTotal(budget) /\ ~MoreLaunches
  BY DEF IInv, ScanTyped, Spending, Scanning
<1>2. CASE batches_left = 0
  BY <1>2
<1>3. CASE batches_left # 0
  <2>. DEFINE n == budget + slices - 1
              q == n \div slices
  <2>1. n \in 0..Word-1
    BY <1>1, Digits DEF NoWrap
  <2>2. n % Word = n
    <3>. HIDE DEF n
    <3>. QED BY <2>1, Digits
  <2>3. runs_total = q
    BY <1>1, <2>2 DEF RunsTotal
  <2>4. n \in Nat /\ n >= budget + slices - 1
    BY <1>1, <2>1
  <2>. HIDE DEF n
  <2>5. q \in Nat /\ n % slices \in 0..slices-1 /\ n = (n % slices) + slices * q
    BY <1>1, <2>4, Digit
  <2>. HIDE DEF q
  <2>6. runs_done >= q
    BY <1>1, <1>3, <2>3, <2>5 DEF MoreLaunches
  <2>. DEFINE x == slices * q
              y == runs_done * slices
              m == n % slices
  <2>7. x \in Nat /\ y \in Nat /\ y >= x
    <3>1. \A a, b \in Nat : a >= b => a * slices >= slices * b
      BY <1>1
    <3>. QED BY <1>1, <2>5, <2>6, <3>1, Products
  <2>8. n = m + x /\ m \in 0..slices-1 /\ batches_left = Greatest(0, budget - y)
    BY <1>1, <2>5
  <2>. HIDE DEF x, y, m
  <2>9. budget <= x
    BY <1>1, <2>4, <2>7, <2>8
  <2>10. batches_left = 0
    BY <1>1, <2>7, <2>8, <2>9 DEF Greatest
  <2>. QED BY <2>10
<1>. QED BY <1>2, <1>3

\* A part that is reported exhausted has been tested to its last key, for any range, grid and slices,
\* unless the number of launches was computed from a sum that wrapped.
THEOREM ScanComplete == Spec => [](NoWrap => NoKeyMissed)
<1>1. ASSUME IInv, NoWrap, phase = "done", NEW x \in Part PROVE x \in tested
  <2>1. /\ start \in Nat /\ range \in Nat /\ batch \in Nat \ {0} /\ threads \in Nat /\ budget \in Nat
        /\ phase \notin Splitting /\ phase \in Scanning
    BY <1>1 DEF IInv, ScanTyped, Splitting, Scanning
  <2>. DEFINE B == budget * batch
              all == threads * B
              d == x - start
              t == d \div B
              r == d % B
  <2>2. Spent = budget /\ tested = Covered(budget)
    <3>1. batches_left = 0
      BY <1>1, BudgetSpent
    <3>2. Spent = budget
      BY <2>1, <3>1 DEF Spent
    <3>. QED BY <1>1, <2>1, <3>2, SpentFacts
  <2>3. all \in Nat /\ range <= all
    BY <1>1, <2>1, BudgetFacts
  <2>4. d \in Nat /\ d < all /\ x = start + d
    <3>1. d \in 0..range-1 /\ x = start + d
      BY <1>1, <2>1 DEF Part
    <3>. HIDE DEF d, all
    <3>. QED BY <2>1, <2>3, <3>1
  <2>5. B \in Nat \ {0}
    <3>1. B \in Nat
      BY <2>1, Products
    <3>. HIDE DEF B
    <3>2. B = 0 => all = 0
      BY <2>1
    <3>. HIDE DEF d, all
    <3>. QED BY <2>3, <2>4, <3>1, <3>2
  <2>. HIDE DEF d, B
  <2>6. t \in Nat /\ r \in 0..B-1 /\ d = r + B * t
    BY <2>4, <2>5, Digit
  <2>. HIDE DEF t, r
  <2>. DEFINE p == B * t
              q == t * B
  <2>7. p \in Nat /\ q = p /\ (t >= threads => p >= all) /\ d = r + p
    BY <2>1, <2>5, <2>6
  <2>. HIDE DEF p, all
  <2>8. t \in 0..threads-1
    <3>1. t < threads
      BY <2>1, <2>3, <2>4, <2>6, <2>7
    <3>. QED BY <2>1, <2>6, <3>1
  <2>. HIDE DEF q
  <2>9. x = start + q + r
    BY <2>1, <2>4, <2>6, <2>7
  <2>10. InSpread(x, threads, budget * batch, budget * batch, start)
    BY <2>6, <2>8, <2>9 DEF q, B, InSpread
  <2>. QED BY <1>1, <2>1, <2>2, <2>10, CoveredKeys
<1>2. IInv => (NoWrap => NoKeyMissed)
  BY <1>1 DEF NoKeyMissed
<1>. QED BY <1>2, Inductive, PTL

\* PrepareHost's comment holds of every scan but those: what it does not refuse is not truncated.
THEOREM BudgetHonoured == Spec => [](NoWrap => NeverTruncated)
<1>1. IInv => (NoWrap => NeverTruncated)
  BY BudgetSpent DEF NeverTruncated
<1>. QED BY <1>1, Inductive, PTL

-------------------------------------------------------------------------------
(* From the range to the keys tested                                       *)

\* The plan is for the part dealt last.
Followed == phase \notin Splitting => start = First(Len(parts)) /\ range = Size(Len(parts))

LEMMA FollowedStep == ASSUME Followed, [Next]_vars PROVE Followed'
<1>. USE DEF Splitting
<1>1. CASE Split
  BY <1>1 DEF Split, Validate, Divide, Deal, Followed
<1>2. CASE Prepare
  <2>1. start' = First(Len(parts)) /\ range' = Size(Len(parts)) /\ parts' = parts
    BY <1>2 DEF Prepare, rvars
  <2>. QED BY <2>1 DEF Followed, First, Size
<1>3. CASE SizeThreads \/ Shrink \/ ShrinkDone \/ Refuse \/ PrepareHost \/ Launch \/ ScanDone
  <2>1. start' = start /\ range' = range /\ parts' = parts /\ phase \notin Splitting
    BY <1>3 DEF SizeThreads, Shrink, ShrinkDone, Refuse, PrepareHost, Launch, ScanDone, inputs, rvars
  <2>. QED BY <2>1 DEF Followed, First, Size
<1>4. CASE UNCHANGED vars
  <2>1. UNCHANGED <<phase, start, range, parts>>
    BY <1>4 DEF vars, rvars, plan
  <2>. QED BY <2>1 DEF Followed, First, Size
<1>. QED BY <1>1, <1>2, <1>3, <1>4 DEF Next, Step, Over

\* When a GPU's scan is done, every key dealt to it has been tested: with KeysShared, the keys of the
\* range have all been tested once each GPU has come to its end.
THEOREM DealtIsTested == Spec => [](NoWrap /\ phase = "done" => PartOf(Len(parts)) \subseteq tested)
<1>1. Init => Followed
  BY DEF Init, SplitInit, Followed, Splitting
<1>2. Spec => []Followed
  BY <1>1, FollowedStep, PTL DEF Spec
<1>3. Followed /\ (NoWrap => NoKeyMissed) => (NoWrap /\ phase = "done" => PartOf(Len(parts)) \subseteq tested)
  BY DEF Followed, NoKeyMissed, Part, PartOf, Splitting
<1>. QED BY <1>2, <1>3, ScanComplete, PTL
===============================================================================
