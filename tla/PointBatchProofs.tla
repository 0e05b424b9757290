---------------------------- MODULE PointBatchProofs ----------------------------
(***************************************************************************)
(* Theorems about the point arithmetic of device and host, for every field *)
(* and every curve whose addition is associative: multiples of the base    *)
(* point, and the keys a lane hashes around its centre.                    *)
(***************************************************************************)
EXTENDS PointBatch, NumberFacts

-------------------------------------------------------------------------------
(* Congruence modulo P                                                     *)

Same(a, b) == Divides(P, a - b)

LEMMA Modulus ==
  /\ P \in Nat /\ P > 2 /\ R \in Nat /\ K \in Nat \ {0} /\ R = P + K /\ P \in Int /\ R > 3*K /\ K*K < P
  /\ Residue \subseteq Number /\ Number \subseteq Nat /\ Number \subseteq Int
BY ModulusAssumption DEF P, Residue, Number

LEMMA SameSelf ==
  ASSUME NEW a \in Int
  PROVE  Same(a, a)
<1>1. a - a = 0 /\ Divides(P, 0)
  BY Modulus, DividesItself
<1>. QED BY <1>1 DEF Same

LEMMA SameBack ==
  ASSUME NEW a \in Int, NEW b \in Int, Same(a, b)
  PROVE  Same(b, a)
<1>1. PICK j \in Int : a - b = P * j
  BY DEF Same, Divides
<1>2. b - a = P * (-j) /\ -j \in Int
  BY <1>1, Modulus
<1>. QED BY <1>2 DEF Same, Divides

LEMMA SameThrough ==
  ASSUME NEW a \in Int, NEW b \in Int, NEW c \in Int, Same(a, b), Same(b, c)
  PROVE  Same(a, c)
<1>1. (a - b) + (b - c) = a - c /\ a - b \in Int /\ b - c \in Int
  OBVIOUS
<1>2. Divides(P, (a - b) + (b - c))
  BY <1>1, Modulus, DividesSum DEF Same
<1>. QED BY <1>1, <1>2 DEF Same

LEMMA SameSum ==
  ASSUME NEW a \in Int, NEW b \in Int, NEW c \in Int, NEW d \in Int, Same(a, b), Same(c, d)
  PROVE  Same(a + c, b + d) /\ Same(a - c, b - d)
<1>1. /\ (a - b) + (c - d) = (a + c) - (b + d) /\ (a - b) - (c - d) = (a - c) - (b - d)
      /\ a - b \in Int /\ c - d \in Int
  OBVIOUS
<1>2. Divides(P, (a - b) + (c - d)) /\ Divides(P, (a - b) - (c - d))
  BY <1>1, Modulus, DividesSum DEF Same
<1>. QED BY <1>1, <1>2 DEF Same

LEMMA SameProduct ==
  ASSUME NEW a \in Int, NEW b \in Int, NEW c \in Int, NEW d \in Int, Same(a, b), Same(c, d)
  PROVE  Same(a * c, b * d)
<1>1. /\ ((a - b) * c) + ((c - d) * b) = (a * c) - (b * d)
      /\ a - b \in Int /\ c - d \in Int /\ (a - b) * c \in Int /\ (c - d) * b \in Int
  OBVIOUS
<1>2. Divides(P, (a - b) * c) /\ Divides(P, (c - d) * b)
  BY <1>1, Modulus, DividesMultiple DEF Same
<1>3. Divides(P, ((a - b) * c) + ((c - d) * b))
  BY <1>1, <1>2, Modulus, DividesSum
<1>. QED BY <1>1, <1>3 DEF Same

LEMMA SameMod ==
  ASSUME NEW a \in Int
  PROVE  a % P \in Residue /\ Same(a, a % P) /\ Same(a % P, a)
<1>. DEFINE s == a % P
<1>1. s \in Residue /\ s \in Int /\ Divides(P, a - s)
  <2>1. P \in Nat \ {0}
    BY Modulus
  <2>2. s \in 0..P-1 /\ Divides(P, a - s)
    BY <2>1, DivModFacts, DividesMod
  <2>. QED BY <2>1, <2>2 DEF Residue
<1>. HIDE DEF s
<1>2. Same(a, s)
  BY <1>1 DEF Same
<1>3. Same(s, a)
  BY <1>1, <1>2, SameBack
<1>. QED BY <1>1, <1>2, <1>3 DEF s

LEMMA SameResidues ==
  ASSUME NEW a \in Residue, NEW b \in Residue, Same(a, b)
  PROVE  a = b
<1>1. PICK j \in Int : a - b = P * j
  BY DEF Same, Divides
<1>2. P * j < P /\ P * j > -P /\ a \in Int /\ b \in Int
  BY <1>1, Modulus DEF Residue
<1>3. j = 0
  BY <1>2, Modulus, NoMultiple
<1>. QED BY <1>1, <1>2, <1>3, Modulus

LEMMA SameIsEqualMod ==
  ASSUME NEW a \in Int, NEW b \in Int, Same(a, b)
  PROVE  a % P = b % P
<1>. DEFINE s == a % P
            u == b % P
<1>1. s \in Residue /\ u \in Residue /\ Same(s, a) /\ Same(b, u)
  BY SameMod
<1>2. s \in Int /\ u \in Int
  BY <1>1, Modulus
<1>. HIDE DEF s, u
<1>3. Same(s, b)
  BY <1>1, <1>2, SameThrough
<1>4. Same(s, u)
  BY <1>1, <1>2, <1>3, SameThrough
<1>5. s = u
  BY <1>1, <1>4, SameResidues
<1>. QED BY <1>5 DEF s, u

LEMMA SameZero ==
  ASSUME NEW a \in Int
  PROVE  /\ Same(a, 0) <=> a % P = 0
         /\ Same(a, 1) <=> a % P = 1
<1>1. a - 0 = a /\ P \in Nat \ {0} /\ P > 1
  BY Modulus
<1>. QED BY <1>1, DividesMod, RemainderOne DEF Same

-------------------------------------------------------------------------------
(* Reciprocals                                                             *)

LEMMA Prime == \A d \in 2 .. P-1 : P % d # 0
BY CurveAssumption

\* Of the residues that are congruent to a multiple of d, the least but 0 divides P.
LEMMA HasInverse ==
  ASSUME NEW d \in 1 .. P-1
  PROVE  \E m \in 1 .. P-1 : (d * m) % P = 1
<1>. DEFINE T == {r \in 1 .. P-1 : \E u \in Int : Same(d * u, r)}
<1>0. P \in Nat \ {0} /\ P > 2 /\ d \in Int
  BY Modulus
<1>1. d \in T
  <2>1. d * 1 = d /\ Same(d, d) /\ 1 \in Int
    BY <1>0, SameSelf
  <2>2. \E u \in Int : Same(d * u, d)
    BY <2>1
  <2>. QED BY <2>2
<1>2. PICK r \in T : \A s \in T : r <= s
  <2>1. T \subseteq Nat
    BY <1>0
  <2>. HIDE DEF T
  <2>2. T # {}
    BY <1>1
  <2>. QED BY <2>1, <2>2, LeastMember
<1>3. r \in 1 .. P-1 /\ r \in Nat \ {0}
  BY <1>0, <1>2
<1>4. PICK u \in Int : Same(d * u, r)
  BY <1>2
<1>. DEFINE q == P \div r
            s == P % r
<1>5. q \in Int /\ s \in 0..r-1 /\ P = r * q + s
  BY <1>0, <1>3, DivModFacts
<1>. HIDE DEF q, s
<1>6. Same(d * (-(u * q)), s)
  <2>1. d * u \in Int /\ q \in Int /\ s \in Int /\ r \in Int /\ r * q \in Int /\ u * q \in Int
    BY <1>0, <1>3, <1>4, <1>5
  <2>2. Same(q, q)
    BY <2>1, SameSelf
  <2>3. Same((d * u) * q, r * q)
    BY <1>4, <2>1, <2>2, SameProduct
  <2>4. Same(0, P)
    <3>1. 0 - P = P * (-1)
      BY <1>0
    <3>. QED BY <1>0, <3>1 DEF Same, Divides
  <2>5. (d * u) * q \in Int /\ P \in Int
    BY <1>0, <2>1
  <2>6. Same(0 - ((d * u) * q), P - (r * q))
    BY <2>1, <2>3, <2>4, <2>5, SameSum
  <2>7. 0 - ((d * u) * q) = d * (-(u * q))
    BY <1>0, <1>4, <2>1
  <2>8. P - (r * q) = s
    BY <1>5, <2>1, <2>5
  <2>. QED BY <2>6, <2>7, <2>8
<1>7. s = 0
  <2>1. SUFFICES ASSUME s # 0 PROVE FALSE
    OBVIOUS
  <2>2. s \in 1 .. P-1 /\ -(u * q) \in Int /\ s < r
    BY <1>3, <1>4, <1>5, <2>1
  <2>3. s \in T
    BY <1>6, <2>2
  <2>4. r <= s
    BY <1>2, <2>3
  <2>. QED BY <1>3, <2>2, <2>4
<1>8. r = 1
  <2>1. P % r = 0
    BY <1>7 DEF s
  <2>. QED BY <1>3, <2>1, Prime
<1>9. (u % P) \in Residue /\ Same(u, u % P)
  BY SameMod
<1>. DEFINE m == u % P
<1>10. m \in Residue /\ m \in Int /\ Same(m, u)
  <2>1. m \in Residue /\ Same(u, m)
    BY <1>9
  <2>. HIDE DEF m
  <2>. QED BY <2>1, SameBack, Modulus
<1>. HIDE DEF m
<1>11. Same(d * m, 1)
  <2>1. Same(d, d) /\ d * u \in Int /\ d * m \in Int
    BY <1>0, <1>4, <1>10, SameSelf
  <2>2. Same(d * m, d * u)
    BY <1>0, <1>10, <2>1, SameProduct
  <2>. QED BY <1>4, <1>8, <2>1, <2>2, SameThrough
<1>12. (d * m) % P = 1
  BY <1>0, <1>10, <1>11, SameZero
<1>13. m # 0
  <2>1. SUFFICES ASSUME m = 0 PROVE FALSE
    OBVIOUS
  <2>2. d * m = 0 /\ 0 % P = 0
    BY <1>0, <2>1
  <2>. QED BY <1>12, <2>2
<1>14. m \in 1 .. P-1
  BY <1>0, <1>10, <1>13 DEF Residue
<1>. QED BY <1>12, <1>14

LEMMA ReciprocalFacts ==
  ASSUME NEW d \in 1 .. P-1
  PROVE  Reciprocal[d] \in 1 .. P-1 /\ Reciprocal[d] \in Int /\ Same(d * Reciprocal[d], 1)
<1>. DEFINE m == Reciprocal[d]
<1>1. m = CHOOSE n \in 1 .. P-1 : (d * n) % P = 1
  BY DEF Reciprocal
<1>2. m \in 1 .. P-1 /\ (d * m) % P = 1
  BY <1>1, HasInverse
<1>. HIDE DEF m
<1>3. m \in Int /\ d * m \in Int
  BY <1>2, Modulus
<1>. QED BY <1>2, <1>3, SameZero DEF m

\* Two inverses of a number are congruent.
LEMMA InversesSame ==
  ASSUME NEW a \in Int, NEW b \in Int, NEW c \in Int, Same(a * b, 1), Same(a * c, 1)
  PROVE  Same(b, c)
<1>1. a * b \in Int /\ a * c \in Int /\ (a * b) * c \in Int /\ (a * c) * b \in Int
  OBVIOUS
<1>2. Same(b, b) /\ Same(c, c)
  BY SameSelf
<1>3. Same((a * b) * c, 1 * c) /\ Same((a * c) * b, 1 * b)
  BY <1>1, <1>2, SameProduct
<1>4. 1 * c = c /\ 1 * b = b /\ (a * b) * c = (a * c) * b
  OBVIOUS
<1>5. Same(b, (a * c) * b)
  BY <1>1, <1>3, <1>4, SameBack
<1>. QED BY <1>1, <1>3, <1>4, <1>5, SameThrough

\* A number that is not congruent to 0 has an inverse.
LEMMA InverseExists ==
  ASSUME NEW a \in Int, ~Same(a, 0)
  PROVE  /\ a % P \in 1 .. P-1
         /\ Reciprocal[a % P] \in Int /\ Same(a * Reciprocal[a % P], 1)
<1>. DEFINE d == a % P
            m == Reciprocal[d]
<1>1. d \in Residue /\ d # 0 /\ Same(a, d) /\ d \in Int
  BY SameMod, SameZero, Modulus
<1>2. d \in 1 .. P-1
  BY <1>1, Modulus DEF Residue
<1>3. m \in Int /\ Same(d * m, 1)
  BY <1>2, ReciprocalFacts
<1>. HIDE DEF d, m
<1>4. Same(m, m) /\ a * m \in Int /\ d * m \in Int
  BY <1>1, <1>3, SameSelf
<1>5. Same(a * m, d * m)
  BY <1>1, <1>3, <1>4, SameProduct
<1>6. Same(a * m, 1)
  BY <1>3, <1>4, <1>5, SameThrough
<1>. QED BY <1>2, <1>3, <1>6 DEF d, m

LEMMA Cancel ==
  ASSUME NEW a \in Int, NEW b \in Int, NEW c \in Int, ~Same(a, 0), Same(a * b, a * c)
  PROVE  Same(b, c)
<1>1. PICK m \in Int : Same(a * m, 1)
  BY InverseExists
<1>2. a * b \in Int /\ a * c \in Int /\ a * m \in Int /\ (a * b) * m \in Int /\ (a * c) * m \in Int
  BY <1>1
<1>3. Same(m, m) /\ Same(b, b) /\ Same(c, c)
  BY <1>1, SameSelf
<1>4. Same((a * b) * m, (a * c) * m)
  BY <1>1, <1>2, <1>3, SameProduct
<1>5. Same((a * m) * b, 1 * b) /\ Same((a * m) * c, 1 * c)
  BY <1>1, <1>2, <1>3, SameProduct
<1>6. (a * m) * b = (a * b) * m /\ (a * m) * c = (a * c) * m /\ 1 * b = b /\ 1 * c = c
  BY <1>1
<1>7. Same(b, (a * b) * m)
  BY <1>2, <1>5, <1>6, SameBack
<1>8. Same(b, (a * c) * m)
  BY <1>2, <1>4, <1>7, SameThrough
<1>. QED BY <1>2, <1>5, <1>6, <1>8, SameThrough

LEMMA NoZeroDivisor ==
  ASSUME NEW a \in Int, NEW b \in Int, ~Same(a, 0), ~Same(b, 0)
  PROVE  ~Same(a * b, 0)
<1>1. SUFFICES ASSUME Same(a * b, 0) PROVE FALSE
  OBVIOUS
<1>2. a * 0 = 0 /\ 0 \in Int
  OBVIOUS
<1>3. Same(a * b, a * 0)
  BY <1>1, <1>2
<1>. QED BY <1>2, <1>3, Cancel

-------------------------------------------------------------------------------
(* The field operations, up to congruence                                  *)

LEMMA ModIs ==
  ASSUME NEW n \in Nat \ {0}, NEW a \in Int, NEW r \in 0..n-1, NEW j \in Int, a = (n * j) + r
  PROVE  a % n = r
<1>. DEFINE q == a \div n
            s == a % n
<1>1. q \in Int /\ s \in 0..n-1 /\ a = n * q + s
  BY DivModFacts
<1>. HIDE DEF q, s
<1>2. n * (j - q) = s - r
  BY <1>1
<1>3. j - q = 0
  BY <1>1, <1>2, NoMultiple
<1>4. s = r
  BY <1>1, <1>2, <1>3
<1>. QED BY <1>4 DEF s

\* A number that is off by at most one modulus.
LEMMA ModNear ==
  ASSUME NEW n \in Nat \ {0}, NEW a \in Int
  PROVE  /\ a >= 0 /\ a < n => a % n = a
         /\ a < 0 /\ a + n >= 0 => a % n = a + n
         /\ a >= n /\ a < n + n => a % n = a - n
<1>1. ASSUME a >= 0, a < n PROVE a % n = a
  <2>1. a \in 0..n-1 /\ a = (n * 0) + a
    BY <1>1
  <2>. QED BY <2>1, ModIs
<1>2. ASSUME a < 0, a + n >= 0 PROVE a % n = a + n
  <2>1. a + n \in 0..n-1 /\ a = (n * (-1)) + (a + n)
    BY <1>2
  <2>. QED BY <2>1, ModIs
<1>3. ASSUME a >= n, a < n + n PROVE a % n = a - n
  <2>1. a - n \in 0..n-1 /\ a = (n * 1) + (a - n)
    BY <1>3
  <2>. QED BY <2>1, ModIs
<1>. QED BY <1>1, <1>2, <1>3

LEMMA SameShift ==
  ASSUME NEW a \in Int
  PROVE  Same(a + P, a) /\ Same(a - P, a)
<1>1. (a + P) - a = P * 1 /\ (a - P) - a = P * (-1)
  BY Modulus
<1>. QED BY <1>1 DEF Same, Divides

LEMMA FoldedFacts ==
  ASSUME NEW n \in Nat
  PROVE  Folded(n) \in Nat /\ Same(Folded(n), n)
<1>. DEFINE h == n \div R
            l == n % R
<1>0. R \in Nat \ {0} /\ K \in Nat /\ P \in Nat /\ R = P + K /\ n \in Int
  BY Modulus
<1>1. h \in Int /\ l \in 0..R-1 /\ n = R * h + l
  BY <1>0, DivModFacts, Zenon
<1>2. Folded(n) = l + (h * K)
  BY DEF Folded
<1>. HIDE DEF h, l
<1>3. h >= 0
  <2>1. SUFFICES ASSUME h <= -1 PROVE FALSE
    BY <1>1
  <2>2. R * h <= -R
    BY <1>0, <1>1, <2>1
  <2>. QED BY <1>0, <1>1, <2>2
<1>4. h * K \in Nat
  BY <1>0, <1>1, <1>3
<1>5. (l + (h * K)) - n = P * (-h) /\ -h \in Int
  BY <1>0, <1>1
<1>6. Same(l + (h * K), n)
  BY <1>5 DEF Same, Divides
<1>7. l + (h * K) \in Nat
  BY <1>0, <1>1, <1>4
<1>. QED BY <1>2, <1>6, <1>7

LEMMA FoldedTwiceFacts ==
  ASSUME NEW n \in Nat
  PROVE  FoldedTwice(n) \in Nat /\ Same(FoldedTwice(n), n)
<1>. DEFINE f == Folded(n)
            g == Folded(f)
<1>1. f \in Nat /\ Same(f, n)
  BY FoldedFacts
<1>2. FoldedTwice(n) = g
  BY DEF FoldedTwice, Folded
<1>. HIDE DEF f
<1>3. g \in Nat /\ Same(g, f)
  BY <1>1, FoldedFacts
<1>. HIDE DEF g
<1>4. Same(g, n)
  <2>1. f \in Int /\ g \in Int /\ n \in Int
    BY <1>1, <1>3
  <2>. QED BY <1>1, <1>3, <2>1, SameThrough
<1>. QED BY <1>2, <1>3, <1>4

-------------------------------------------------------------------------------
(* Double-width products                                                   *)

Sizes == N \in Nat /\ N > 2 /\ W \in Nat /\ W > 1

LEMMA SizesHold == Sizes
BY WordAssumption DEF Sizes

\* The weights of the words exist, and are positive.
LEMMA WeightFacts == \A j \in 0..2*N+1 : Weight[j] \in Nat \ {0}
<1>. DEFINE n == 2*N + 1
            Body(f) == [m \in 0..n |-> IF m = 0 THEN 1 ELSE W * f[m-1]]
            next == [j \in 1..n |-> [y \in Nat |-> W * y]]
            T == {j \in 0..n : Weight[j] \in Nat /\ Weight[j] > 0}
<1>0. N \in Nat /\ n \in Nat /\ W \in Nat /\ W > 1
  BY SizesHold DEF Sizes
<1>1. next \in [1..n -> [Nat -> Nat]]
  <2>1. \A y \in Nat : W * y \in Nat
    BY <1>0
  <2>. QED BY <2>1
<1>2. PICK f : Follows(f, n, Nat, 1, next)
  <2>1. 1 \in Nat
    OBVIOUS
  <2>. HIDE DEF next, n
  <2>. QED BY <1>0, <1>1, <2>1, UpwardFunction, Zenon
<1>3. f \in [0..n -> Nat] /\ f[0] = 1 /\ \A j \in 1..n : f[j] = next[j][f[j-1]]
  BY <1>2 DEF Follows
<1>4. ASSUME NEW j \in 0..n PROVE f[j] = IF j = 0 THEN 1 ELSE W * f[j-1]
  <2>1. CASE j = 0
    BY <1>3, <2>1
  <2>2. CASE j # 0
    <3>1. j \in 1..n /\ j - 1 \in 0..n
      BY <1>0, <2>2
    <3>2. f[j-1] \in Nat
      BY <1>3, <3>1
    <3>. QED BY <1>3, <2>2, <3>1, <3>2
  <2>. QED BY <2>1, <2>2
<1>5. f = Body(f)
  BY <1>3, <1>4
<1>6. Weight = Body(Weight)
  BY <1>5 DEF Weight
<1>7. \A j \in 0..n : Weight[j] = IF j = 0 THEN 1 ELSE W * Weight[j-1]
  BY <1>6
<1>8. 0 \in T
  BY <1>0, <1>7
<1>9. ASSUME NEW j \in 0..n-1, j \in T PROVE j + 1 \in T
  <2>1. j + 1 \in 0..n /\ j + 1 # 0 /\ (j + 1) - 1 = j
    BY <1>0
  <2>2. Weight[j+1] = W * Weight[j] /\ Weight[j] \in Nat /\ Weight[j] > 0
    BY <1>7, <1>9, <2>1
  <2>3. \A y \in Nat : y > 0 => W * y \in Nat /\ W * y > 0
    BY <1>0
  <2>. QED BY <2>1, <2>2, <2>3
<1>10. \A j \in 0..n : j \in T
  <2>. HIDE DEF T, n
  <2>. QED BY <1>0, <1>8, <1>9, UpTo
<1>. QED BY <1>10

\* A sum from the top down, each time scaled.
Scaled(f, n, w, s) == f[n] = 0 /\ \A j \in 0..n-1 : f[j] = s[j] + w * f[j+1]

LEMMA ScaledExists ==
  ASSUME NEW n \in Nat, NEW w \in Int, NEW s \in [0..n-1 -> Int]
  PROVE  \E f \in [0..n -> Int] : Scaled(f, n, w, s)
<1>. DEFINE next == [j \in 0..n-1 |-> [y \in Int |-> s[j] + w * y]]
<1>1. next \in [0..n-1 -> [Int -> Int]]
  <2>1. ASSUME NEW j \in 0..n-1, NEW y \in Int PROVE s[j] + w * y \in Int
    OBVIOUS
  <2>. QED BY <2>1
<1>2. PICK f : Descends(f, n, Int, 0, next)
  <2>1. 0 \in Int
    OBVIOUS
  <2>. HIDE DEF next
  <2>. QED BY <1>1, <2>1, DownwardFunction, Zenon
<1>3. f \in [0..n -> Int] /\ f[n] = 0 /\ \A j \in 0..n-1 : f[j] = next[j][f[j+1]]
  BY <1>2 DEF Descends
<1>4. ASSUME NEW j \in 0..n-1 PROVE f[j] = s[j] + w * f[j+1]
  <2>1. j + 1 \in 0..n
    OBVIOUS
  <2>2. f[j+1] \in Int
    BY <1>3, <2>1
  <2>. QED BY <1>3, <2>2
<1>. QED BY <1>3, <1>4 DEF Scaled

LEMMA ScaledIsInt ==
  ASSUME NEW n \in Nat, NEW w \in Int, NEW s \in [0..n-1 -> Int], NEW f, Scaled(f, n, w, s)
  PROVE  f[0] \in Int
<1>. DEFINE T == {j \in 0..n : f[j] \in Int}
<1>1. n \in T
  BY DEF Scaled
<1>2. ASSUME NEW j \in 0..n-1, j + 1 \in T PROVE j \in T
  <2>1. f[j] = s[j] + w * f[j+1] /\ s[j] \in Int /\ f[j+1] \in Int /\ j \in 0..n
    BY <1>2 DEF Scaled
  <2>. QED BY <2>1
<1>. HIDE DEF T
<1>3. \A j \in 0..n : j \in T
  BY <1>1, <1>2, DownFrom
<1>. QED BY <1>3 DEF T

\* The factors of a pass are words of the operands, and its words are words of the accumulator.
LEMMA PassFacts ==
  ASSUME NEW sq \in BOOLEAN, NEW q \in 0..1, NEW s \in 0..N-1
  PROVE  /\ \A j \in PassColumns(sq, q, s) :
              /\ j \in 0..2*N-1 /\ j - q \in 0..2*N-1
              /\ PassFactors(s, j)[1] \in 0..N-1 /\ PassFactors(s, j)[2] \in 0..N-1
         /\ PassColumns(sq, q, s) # {} => PassEnd(sq, q, s) \in 0..2*N
<1>. DEFINE from == PassStart(sq, s)
<1>0. N \in Nat /\ N > 2 /\ from \in Nat /\ from >= s /\ s \in Nat /\ s < N
  BY SizesHold DEF Sizes, PassStart
<1>. HIDE DEF from
<1>1. ASSUME NEW j \in PassColumns(sq, q, s)
      PROVE  /\ j \in Nat /\ j >= from /\ j <= 2*N - 2 - from /\ j % 2 = q
             /\ j - q \in 0..2*N-1
  <2>1. j \in from .. 2*N-2-from /\ j % 2 = q
    BY DEF PassColumns, from
  <2>2. q = 1 => j # 0
    BY <2>1
  <2>. QED BY <1>0, <2>1, <2>2
<1>2. ASSUME NEW j \in PassColumns(sq, q, s)
      PROVE  PassFactors(s, j)[1] \in 0..N-1 /\ PassFactors(s, j)[2] \in 0..N-1
  <2>1. CASE j < N
    <3>1. PassFactors(s, j) = <<s, j-s>>
      BY <2>1 DEF PassFactors
    <3>2. j - s \in 0..N-1
      <4>1. j \in Nat /\ j >= from
        BY <1>1
      <4>. QED BY <1>0, <2>1, <4>1
    <3>. QED BY <1>0, <3>1, <3>2
  <2>2. CASE ~(j < N)
    <3>1. PassFactors(s, j) = <<j-(N-1)+s, N-1-s>>
      BY <2>2 DEF PassFactors
    <3>2. j \in Nat /\ j >= N /\ j <= 2*N - 2 - s
      <4>1. j \in Nat /\ j <= 2*N - 2 - from
        BY <1>1
      <4>. QED BY <1>0, <2>2, <4>1
    <3>3. N \in Nat /\ s \in Nat /\ s < N
      BY <1>0
    <3>4. j-(N-1)+s \in 0..N-1
      BY <3>2, <3>3
    <3>5. N-1-s \in 0..N-1
      BY <3>3
    <3>. QED BY <3>1, <3>4, <3>5
  <2>. QED BY <2>1, <2>2
<1>3. ASSUME PassColumns(sq, q, s) # {} PROVE PassEnd(sq, q, s) \in 0..2*N
  <2>1. PICK j \in PassColumns(sq, q, s) : TRUE
    BY <1>3
  <2>2. from <= N - 1
    BY <1>0, <1>1, <2>1
  <2>3. PassEnd(sq, q, s) = 2*N - q - (IF from % 2 = q THEN from ELSE from + 1)
    BY DEF PassEnd, from
  <2>. QED BY <1>0, <2>2, <2>3
<1>. QED BY <1>0, <1>1, <1>2, <1>3

LEMMA PassSumIsInt ==
  ASSUME NEW sq \in BOOLEAN, NEW q \in 0..1, NEW s \in 0..N-1,
         NEW u \in [0..N-1 -> Int], NEW v \in [0..N-1 -> Int]
  PROVE  PassSum(sq, q, s, u, v) \in Int
<1>. DEFINE n == 2*N
            worth(j) == IF j \in PassColumns(sq, q, s)
                        THEN u[PassFactors(s, j)[1]] * v[PassFactors(s, j)[2]] * Weight[j-q] ELSE 0
            Body(f) == [m \in 0..2*N |-> IF m = 2*N THEN 0 ELSE worth(m) + f[m+1]]
            z == [j \in 0..n-1 |-> worth(j)]
<1>0. n \in Nat /\ N \in Nat
  BY SizesHold DEF Sizes
<1>1. ASSUME NEW j \in 0..n-1 PROVE worth(j) \in Int
  <2>1. SUFFICES ASSUME j \in PassColumns(sq, q, s)
                 PROVE  u[PassFactors(s, j)[1]] * v[PassFactors(s, j)[2]] * Weight[j-q] \in Int
    OBVIOUS
  <2>2. PassFactors(s, j)[1] \in 0..N-1 /\ PassFactors(s, j)[2] \in 0..N-1 /\ j - q \in 0..2*N-1
    BY <2>1, PassFacts
  <2>3. u[PassFactors(s, j)[1]] \in Int /\ v[PassFactors(s, j)[2]] \in Int
    BY <2>2
  <2>4. Weight[j-q] \in Int
    <3>1. j - q \in 0..2*N+1
      BY <1>0, <2>2
    <3>. QED BY <3>1, WeightFacts
  <2>. QED BY <2>3, <2>4
<1>2. PICK f \in [0..n -> Int] : Scaled(f, n, 1, z)
  <2>. HIDE DEF worth, n
  <2>1. z \in [0..n-1 -> Int] /\ 1 \in Int
    BY <1>1
  <2>. HIDE DEF z
  <2>. QED BY <1>0, <2>1, ScaledExists
<1>3. f = Body(f)
  <2>. HIDE DEF worth
  <2>1. ASSUME NEW m \in 0..n PROVE f[m] = IF m = n THEN 0 ELSE worth(m) + f[m+1]
    <3>1. CASE m = n
      BY <1>2, <3>1 DEF Scaled
    <3>2. CASE m # n
      <4>1. m \in 0..n-1 /\ m + 1 \in 0..n
        BY <1>0, <3>2
      <4>2. f[m] = z[m] + 1 * f[m+1] /\ z[m] = worth(m) /\ f[m+1] \in Int
        BY <1>2, <4>1 DEF Scaled
      <4>. QED BY <3>2, <4>2
    <3>. QED BY <3>1, <3>2
  <2>. QED BY <1>2, <2>1
<1>4. PICK g : g = Body(g) /\ PassSum(sq, q, s, u, v) = g[0]
  BY <1>3 DEF PassSum
<1>. DEFINE T == {j \in 0..n : g[j] \in Int}
<1>. HIDE DEF worth
<1>5. n \in T
  BY <1>0, <1>4
<1>6. ASSUME NEW j \in 0..n-1, j + 1 \in T PROVE j \in T
  <2>1. j \in 0..n /\ j # n /\ g[j+1] \in Int
    BY <1>0, <1>6
  <2>2. g[j] = worth(j) + g[j+1]
    BY <1>4, <2>1
  <2>. QED BY <1>1, <2>1, <2>2
<1>. HIDE DEF T, n
<1>7. \A j \in 0..n : j \in T
  BY <1>0, <1>5, <1>6, DownFrom
<1>8. 0 \in T
  BY <1>0, <1>7
<1>. QED BY <1>4, <1>8 DEF T

LEMMA AddPassIsInt ==
  ASSUME NEW acc \in Int, NEW at \in 0..2*N, NEW sum \in Int
  PROVE  AddPass(acc, at, sum) \in Int
<1>. DEFINE m == Weight[at]
            o == Weight[at+1]
            chain == (acc % m) + sum
            word == ((acc \div m) % W) + (chain \div m)
<1>0. W \in Nat \ {0} /\ m \in Nat \ {0} /\ o \in Nat \ {0}
  <2>1. N \in Nat /\ W \in Nat \ {0}
    BY SizesHold DEF Sizes
  <2>2. at \in 0..2*N+1 /\ at + 1 \in 0..2*N+1
    BY <2>1
  <2>. QED BY <2>1, <2>2, WeightFacts
<1>1. AddPass(acc, at, sum) = (acc - (acc % o)) + ((word % W) * m) + (chain % m)
  BY DEF AddPass
<1>. HIDE DEF m, o
<1>2. acc % m \in Int /\ acc \div m \in Int /\ acc % o \in Int
  BY <1>0, DivModFacts
<1>3. chain \in Int
  BY <1>2
<1>. HIDE DEF chain
<1>4. chain \div m \in Int /\ chain % m \in Int /\ (acc \div m) % W \in Int
  BY <1>0, <1>2, <1>3, DivModFacts
<1>5. word \in Int
  BY <1>4
<1>. HIDE DEF word
<1>6. word % W \in Int
  BY <1>0, <1>5, DivModFacts
<1>. QED BY <1>0, <1>1, <1>2, <1>4, <1>6

LEMMA AccumulatedIsInt ==
  ASSUME NEW sq \in BOOLEAN, NEW q \in 0..1, NEW u \in [0..N-1 -> Int], NEW v \in [0..N-1 -> Int]
  PROVE  Accumulated(sq, q, u, v) \in Int
<1>. DEFINE D(s) == PassColumns(sq, q, s)
            end(s) == PassEnd(sq, q, s)
            part(s) == PassSum(sq, q, s, u, v)
            Body(f) == [s \in 0..N |-> IF s = 0 THEN 0 ELSE IF D(s-1) = {} THEN f[s-1]
                                       ELSE AddPass(f[s-1], end(s-1), part(s-1))]
            next == [s \in 1..N |-> [y \in Int |-> IF D(s-1) = {} THEN y ELSE AddPass(y, end(s-1), part(s-1))]]
<1>0. N \in Nat
  BY SizesHold DEF Sizes
<1>1. ASSUME NEW s \in 0..N-1, NEW y \in Int, D(s) # {} PROVE AddPass(y, end(s), part(s)) \in Int
  <2>1. end(s) \in 0..2*N /\ part(s) \in Int
    BY <1>1, PassFacts, PassSumIsInt
  <2>. HIDE DEF end, part
  <2>. QED BY <2>1, AddPassIsInt
<1>. HIDE DEF D, end, part
<1>2. next \in [1..N -> [Int -> Int]]
  <2>1. ASSUME NEW s \in 1..N, NEW y \in Int
        PROVE  (IF D(s-1) = {} THEN y ELSE AddPass(y, end(s-1), part(s-1))) \in Int
    <3>1. s - 1 \in 0..N-1
      BY <1>0
    <3>. QED BY <1>1, <3>1
  <2>. QED BY <2>1
<1>3. PICK f : Follows(f, N, Int, 0, next)
  <2>1. 0 \in Int
    OBVIOUS
  <2>. HIDE DEF next
  <2>. QED BY <1>0, <1>2, <2>1, UpwardFunction, Zenon
<1>4. f \in [0..N -> Int] /\ f[0] = 0 /\ \A s \in 1..N : f[s] = next[s][f[s-1]]
  BY <1>3 DEF Follows
<1>5. ASSUME NEW s \in 0..N PROVE f[s] = Body(f)[s]
  <2>1. CASE s = 0
    BY <1>4, <2>1
  <2>2. CASE s # 0
    <3>1. s \in 1..N /\ s - 1 \in 0..N
      BY <1>0, <2>2
    <3>2. f[s-1] \in Int /\ f[s] = next[s][f[s-1]]
      BY <1>4, <3>1
    <3>. QED BY <2>2, <3>1, <3>2
  <2>. QED BY <2>1, <2>2
<1>6. f = Body(f)
  BY <1>4, <1>5
<1>7. PICK g : g = Body(g) /\ Accumulated(sq, q, u, v) = g[N]
  BY <1>6 DEF Accumulated, D, end, part
<1>. DEFINE T == {s \in 0..N : g[s] \in Int}
<1>8. 0 \in T
  BY <1>0, <1>7
<1>9. ASSUME NEW s \in 0..N-1, s \in T PROVE s + 1 \in T
  <2>1. s + 1 \in 0..N /\ s + 1 # 0 /\ (s + 1) - 1 = s /\ g[s] \in Int
    BY <1>0, <1>9
  <2>2. g[s+1] = IF D(s) = {} THEN g[s] ELSE AddPass(g[s], end(s), part(s))
    BY <1>7, <2>1
  <2>. QED BY <1>1, <2>1, <2>2
<1>. HIDE DEF T
<1>10. \A s \in 0..N : s \in T
  BY <1>0, <1>8, <1>9, UpTo
<1>11. N \in T
  BY <1>0, <1>10
<1>. QED BY <1>7, <1>11 DEF T

LEMMA ColumnsIsNat ==
  ASSUME NEW sq \in BOOLEAN, NEW u \in [0..N-1 -> Int], NEW v \in [0..N-1 -> Int]
  PROVE  Columns512(sq, u, v) \in Nat
<1>. DEFINE even == Accumulated(sq, 0, u, v)
            odd == Accumulated(sq, 1, u, v)
            w1 == Weight[2*N-1]
            w2 == Weight[2*N]
<1>0. W \in Int /\ w1 \in Nat \ {0} /\ w2 \in Nat \ {0}
  <2>1. N \in Nat /\ N > 2 /\ W \in Int
    BY SizesHold DEF Sizes
  <2>2. 2*N - 1 \in 0..2*N+1 /\ 2*N \in 0..2*N+1
    BY <2>1
  <2>. QED BY <2>1, <2>2, WeightFacts
<1>1. even \in Int /\ odd \in Int
  BY AccumulatedIsInt
<1>2. Columns512(sq, u, v) = (even + (W * (odd % w1))) % w2
  BY DEF Columns512
<1>. HIDE DEF even, odd, w1, w2
<1>3. odd % w1 \in Int
  BY <1>0, <1>1, DivModFacts
<1>4. even + (W * (odd % w1)) \in Int
  BY <1>0, <1>1, <1>3
<1>5. (even + (W * (odd % w1))) % w2 \in 0..w2-1
  BY <1>0, <1>4, DivModFacts
<1>. QED BY <1>0, <1>2, <1>5

LEMMA SquaresSumIsInt ==
  ASSUME NEW u \in [0..N-1 -> Int]
  PROVE  SquaresSum(u) \in Int
<1>. DEFINE w == W * W
            z == [j \in 0..N-1 |-> u[j] * u[j]]
            Body(f) == [m \in 0..N |-> IF m = N THEN 0 ELSE u[m] * u[m] + W * W * f[m+1]]
<1>0. N \in Nat /\ w \in Int /\ z \in [0..N-1 -> Int]
  BY SizesHold DEF Sizes
<1>1. PICK f \in [0..N -> Int] : Scaled(f, N, w, z)
  <2>. HIDE DEF w, z
  <2>. QED BY <1>0, ScaledExists
<1>2. ASSUME NEW m \in 0..N PROVE f[m] = Body(f)[m]
  <2>1. CASE m = N
    BY <1>1, <2>1 DEF Scaled
  <2>2. CASE m # N
    <3>1. m \in 0..N-1
      BY <1>0, <2>2
    <3>2. f[m] = z[m] + w * f[m+1] /\ z[m] = u[m] * u[m]
      BY <1>1, <3>1 DEF Scaled
    <3>. QED BY <2>2, <3>2
  <2>. QED BY <2>1, <2>2
<1>3. f = Body(f)
  BY <1>1, <1>2
<1>4. PICK g : g = Body(g) /\ SquaresSum(u) = g[0]
  BY <1>3 DEF SquaresSum
<1>5. Scaled(g, N, w, z)
  <2>1. g[N] = 0
    BY <1>0, <1>4
  <2>2. ASSUME NEW j \in 0..N-1 PROVE g[j] = z[j] + w * g[j+1]
    <3>1. j \in 0..N /\ j # N
      BY <1>0
    <3>. QED BY <1>4, <3>1
  <2>. QED BY <2>1, <2>2 DEF Scaled
<1>. HIDE DEF w, z, Body
<1>6. g[0] \in Int
  BY <1>0, <1>5, ScaledIsInt
<1>. QED BY <1>4, <1>6

\* What mul512_split and sqr512_split return is a number, whatever they lose.
LEMMA WideFacts ==
  ASSUME NEW a \in Nat, NEW b \in Nat
  PROVE  mul512_split(a, b) \in Nat /\ sqr512_split(a) \in Nat
<1>. DEFINE u == WordsOf(a)
            v == WordsOf(b)
            w2 == Weight[2*N]
            d == Columns512(TRUE, u, u)
<1>0. N \in Nat /\ W \in Nat \ {0} /\ w2 \in Nat \ {0}
  <2>1. N \in Nat /\ W \in Nat \ {0} /\ 2*N \in 0..2*N+1
    BY SizesHold DEF Sizes
  <2>. QED BY <2>1, WeightFacts
<1>1. ASSUME NEW n \in Nat PROVE WordsOf(n) \in [0..N-1 -> Int]
  <2>1. ASSUME NEW j \in 0..N-1 PROVE (n \div Weight[j]) % W \in Int
    <3>1. Weight[j] \in Nat \ {0}
      BY <1>0, WeightFacts
    <3>2. n \div Weight[j] \in Int
      <4>1. n \in Int
        OBVIOUS
      <4>. QED BY <3>1, <4>1, DivModFacts
    <3>. QED BY <1>0, <3>2, DivModFacts
  <2>. QED BY <2>1 DEF WordsOf
<1>2. u \in [0..N-1 -> Int] /\ v \in [0..N-1 -> Int]
  BY <1>1
<1>. HIDE DEF u, v
<1>3. Columns512(FALSE, u, v) \in Nat /\ d \in Nat /\ SquaresSum(u) \in Int
  BY <1>2, ColumnsIsNat, SquaresSumIsInt
<1>4. mul512_split(a, b) = Columns512(FALSE, u, v) /\ sqr512_split(a) = (((2 * d) % w2) + SquaresSum(u)) % w2
  BY DEF mul512_split, sqr512_split, u, v
<1>. HIDE DEF d, w2
<1>5. (2 * d) % w2 \in Int
  BY <1>0, <1>3, DivModFacts
<1>6. ((2 * d) % w2) + SquaresSum(u) \in Int
  BY <1>3, <1>5
<1>7. (((2 * d) % w2) + SquaresSum(u)) % w2 \in 0..w2-1
  BY <1>0, <1>6, DivModFacts
<1>8. 0..w2-1 \subseteq Nat
  BY <1>0
<1>. QED BY <1>3, <1>4, <1>7, <1>8, Zenon

\* What the foldings return is a number, congruent to what they got if the last addition loses nothing.
LEMMA ReturnedFacts ==
  ASSUME NEW n \in Nat
  PROVE  /\ ReturnedOf(n) \in Number
         /\ LastCarry(n) = 0 => Same(ReturnedOf(n), n)
<1>. DEFINE f == FoldedTwice(n)
<1>0. R \in Nat \ {0}
  BY Modulus
<1>1. f \in Nat /\ f \in Int /\ Same(f, n)
  BY FoldedTwiceFacts
<1>2. ReturnedOf(n) = f % R /\ LastCarry(n) = f \div R
  BY DEF ReturnedOf, LastCarry
<1>. HIDE DEF f
<1>3. f % R \in 0..R-1 /\ f = R * (f \div R) + (f % R) /\ f \div R \in Int
  BY <1>0, <1>1, DivModFacts, Zenon
<1>4. f \div R = 0 => f % R = f
  BY <1>0, <1>1, <1>3
<1>. QED BY <1>1, <1>2, <1>3, <1>4 DEF Number

LEMMA MulFacts ==
  ASSUME NEW a \in Number, NEW b \in Number
  PROVE  /\ mul_mod(a, b) \in Number
         /\ ~MulLost(a, b) => Same(mul_mod(a, b), a * b)
<1>1. a \in Nat /\ b \in Nat
  BY Modulus
<1>2. mul512_split(a, b) \in Nat
  BY <1>1, WideFacts
<1>. QED BY <1>2, ReturnedFacts DEF mul_mod, MulLost

LEMMA SqrFacts ==
  ASSUME NEW a \in Number
  PROVE  /\ sqr_mod(a) \in Number
         /\ ~SqrLost(a) => Same(sqr_mod(a), a * a)
<1>1. a \in Nat
  BY Modulus
<1>2. sqr512_split(a) \in Nat
  BY <1>1, WideFacts
<1>. QED BY <1>2, ReturnedFacts DEF sqr_mod, SqrLost

-------------------------------------------------------------------------------
(* Sums and differences                                                    *)

LEMMA SubFacts ==
  ASSUME NEW a \in Number, NEW b \in Residue
  PROVE  /\ sub_mod(a, b) \in Number /\ Same(sub_mod(a, b), a - b)
         /\ a \in Residue => sub_mod(a, b) \in Residue
<1>0. R \in Nat \ {0} /\ K \in Nat \ {0} /\ P \in Nat /\ R = P + K /\ a \in 0..R-1 /\ b \in 0..P-1
  BY Modulus DEF Number, Residue
<1>1. CASE a < b
  <2>1. (a - b) % R = (a - b) + R
    <3>1. a - b \in Int /\ a - b < 0 /\ (a - b) + R >= 0
      BY <1>0, <1>1
    <3>. QED BY <1>0, <3>1, ModNear, Zenon
  <2>2. (((a - b) + R) + P) % R = (a - b) + P
    <3>1. ((a - b) + R) + P \in Int /\ ((a - b) + R) + P >= R /\ ((a - b) + R) + P < R + R
      BY <1>0, <1>1
    <3>2. (((a - b) + R) + P) - R = (a - b) + P
      BY <1>0
    <3>. QED BY <1>0, <3>1, <3>2, ModNear, Zenon
  <2>3. sub_mod(a, b) = (a - b) + P
    BY <1>1, <2>1, <2>2 DEF sub_mod
  <2>4. (a - b) + P \in 0..P-1 /\ a - b \in Int
    BY <1>0, <1>1
  <2>5. Same((a - b) + P, a - b)
    BY <2>4, SameShift
  <2>. QED BY <1>0, <2>3, <2>4, <2>5 DEF Number, Residue
<1>2. CASE ~(a < b)
  <2>1. sub_mod(a, b) = a - b /\ a - b \in 0..R-1 /\ (a < P => a - b < P)
    BY <1>0, <1>2 DEF sub_mod
  <2>2. Same(a - b, a - b)
    BY <2>1, <1>0, SameSelf
  <2>. QED BY <1>0, <2>1, <2>2 DEF Number, Residue
<1>. QED BY <1>1, <1>2

LEMMA AddFacts ==
  ASSUME NEW a \in Number, NEW b \in Number
  PROVE  /\ add_mod(a, b) \in Number
         /\ ~SumLost(a, b) => Same(add_mod(a, b), a + b)
         /\ a \in Residue /\ b \in Residue => add_mod(a, b) \in Residue /\ Same(add_mod(a, b), a + b)
<1>. DEFINE s == (a + b) - P
<1>0. R \in Nat \ {0} /\ K \in Nat \ {0} /\ P \in Nat /\ R = P + K /\ a \in 0..R-1 /\ b \in 0..R-1
  BY Modulus DEF Number
<1>1. CASE a + b < P
  <2>1. add_mod(a, b) = a + b /\ a + b \in 0..P-1 /\ Same(a + b, a + b)
    BY <1>0, <1>1, SameSelf DEF add_mod
  <2>. QED BY <1>0, <2>1 DEF Number, Residue
<1>2. CASE ~(a + b < P)
  <2>1. add_mod(a, b) = s % R /\ s \in Nat
    BY <1>0, <1>2 DEF add_mod
  <2>2. s % R \in 0..R-1 /\ (s < R => s % R = s)
    <3>1. s \in Int /\ s >= 0
      BY <2>1
    <3>2. s % R \in 0..R-1
      BY <1>0, <3>1, DivModFacts, Zenon
    <3>3. s < R => s % R = s
      BY <1>0, <3>1, ModNear, Zenon
    <3>. QED BY <3>2, <3>3
  <2>3. Same(s, a + b)
    <3>1. a + b \in Int
      BY <1>0
    <3>. QED BY <3>1, SameShift
  <2>4. SumLost(a, b) <=> s >= R
    BY <1>0 DEF SumLost
  <2>5. a \in Residue /\ b \in Residue => s < P
    BY <1>0 DEF Residue
  <2>. HIDE DEF s
  <2>. QED BY <1>0, <2>1, <2>2, <2>3, <2>4, <2>5 DEF Number, Residue
<1>. QED BY <1>1, <1>2

\* One subtraction of a chain, with its borrow.
LEMMA BorrowFacts ==
  ASSUME NEW a \in Number, NEW b \in Number
  PROVE  /\ (a - b) % R \in Number
         /\ (a - b) % R = (a - b) + (IF a < b THEN R ELSE 0)
<1>0. R \in Nat \ {0} /\ a \in 0..R-1 /\ b \in 0..R-1
  BY Modulus DEF Number
<1>1. CASE a < b
  <2>1. a - b \in Int /\ a - b < 0 /\ (a - b) + R >= 0 /\ (a - b) + R \in 0..R-1
    BY <1>0, <1>1
  <2>2. (a - b) % R = (a - b) + R
    BY <1>0, <2>1, ModNear, Zenon
  <2>. QED BY <1>1, <2>1, <2>2 DEF Number
<1>2. CASE ~(a < b)
  <2>1. a - b \in Int /\ a - b >= 0 /\ a - b < R /\ (a - b) + 0 = a - b /\ a - b \in 0..R-1
    BY <1>0, <1>2
  <2>2. (a - b) % R = a - b
    BY <1>0, <2>1, ModNear, Zenon
  <2>. QED BY <1>2, <2>1, <2>2 DEF Number
<1>. QED BY <1>1, <1>2

\* P as often as there was a borrow.
LEMMA SameBorrowed ==
  ASSUME NEW d \in Int, NEW j \in Int
  PROVE  Same(d + (P * j), d)
<1>1. (d + (P * j)) - d = P * j
  BY Modulus
<1>. QED BY <1>1 DEF Same, Divides

LEMMA Sub3Facts ==
  ASSUME NEW a \in Number, NEW b \in Residue, NEW c \in Residue
  PROVE  sub_mod3(a, b, c) \in Number /\ Same(sub_mod3(a, b, c), (a - b) - c)
<1>. DEFINE ab  == (a - b) % R
            abc == (ab - c) % R
            u   == IF a < b THEN 1 ELSE 0
            v   == IF ab < c THEN 1 ELSE 0
            BK  == (IF a < b THEN K ELSE 0) + (IF ab < c THEN K ELSE 0)
            d   == abc - BK
<1>0. /\ R \in Nat \ {0} /\ K \in Nat \ {0} /\ P \in Nat /\ R = P + K /\ R > 3*K
      /\ a \in Number /\ b \in Number /\ c \in Number /\ a \in Int /\ b \in Int /\ c \in Int
  BY Modulus
<1>1. ab \in Number /\ ab = (a - b) + (IF a < b THEN R ELSE 0)
  BY <1>0, BorrowFacts
<1>2. abc \in Number /\ abc = (ab - c) + (IF ab < c THEN R ELSE 0)
  <2>. HIDE DEF ab
  <2>. QED BY <1>0, <1>1, BorrowFacts
<1>3. sub_mod3(a, b, c) = IF abc < BK THEN ((d % R) + P) % R ELSE d
  BY DEF sub_mod3
<1>. HIDE DEF ab, abc
<1>4. /\ ab \in 0..R-1 /\ abc \in 0..R-1 /\ u \in 0..1 /\ v \in 0..1
      /\ BK \in 0..2*K /\ d \in Int
  BY <1>0, <1>1, <1>2 DEF Number
<1>5. d = ((a - b) - c) + (P * (u + v))
  BY <1>0, <1>1, <1>2, <1>4
<1>. HIDE DEF BK, u, v
<1>6. Same(d, (a - b) - c)
  <2>1. (a - b) - c \in Int /\ u + v \in Int
    BY <1>0, <1>4
  <2>. QED BY <1>5, <2>1, SameBorrowed
<1>7. CASE abc < BK
  <2>1. d \in Int /\ d < 0 /\ d + R >= 0 /\ d >= -(2*K) /\ d + P \in 0..R-1
    BY <1>0, <1>4, <1>7
  <2>. HIDE DEF d
  <2>2. d % R = d + R
    BY <1>0, <2>1, ModNear, Zenon
  <2>3. (d + R) + P \in Int /\ (d + R) + P >= R /\ (d + R) + P < R + R /\ ((d + R) + P) - R = d + P
    BY <1>0, <2>1
  <2>4. ((d + R) + P) % R = d + P
    BY <1>0, <2>3, ModNear, Zenon
  <2>5. sub_mod3(a, b, c) = d + P
    BY <1>3, <1>7, <2>2, <2>4
  <2>6. Same(d + P, d) /\ d + P \in Int /\ (a - b) - c \in Int
    BY <1>0, <2>1, SameShift
  <2>7. Same(d + P, (a - b) - c)
    BY <1>6, <2>1, <2>6, SameThrough
  <2>. QED BY <2>1, <2>5, <2>7 DEF Number
<1>8. CASE ~(abc < BK)
  <2>1. d \in 0..R-1
    BY <1>0, <1>4, <1>8
  <2>. HIDE DEF d
  <2>. QED BY <1>3, <1>6, <1>8, <2>1 DEF Number
<1>. QED BY <1>7, <1>8

LEMMA NegFacts ==
  ASSUME NEW a \in Residue, a # 0
  PROVE  neg_mod(a) = P - a /\ P - a \in Residue
<1>1. R \in Nat \ {0} /\ P - a \in Int /\ P - a >= 0 /\ P - a < R /\ P - a \in 0..P-1
  BY Modulus DEF Residue
<1>2. (P - a) % R = P - a
  BY <1>1, ModNear, Zenon
<1>. QED BY <1>1, <1>2 DEF neg_mod, Residue

\* The prefix is the parity of the difference modulo P, which is odd.
LEMMA PrefixFacts ==
  ASSUME NEW a \in Residue, NEW b \in Residue
  PROVE  sub_mod_is_odd_prefix(a, b) = 2 + (((a - b) % P) % 2)
<1>0. /\ R \in Nat \ {0} /\ K \in Nat \ {0} /\ P \in Nat \ {0} /\ R = P + K
      /\ a \in 0..P-1 /\ b \in 0..P-1 /\ a \in Number /\ b \in Number /\ R % 2 = 0 /\ K % 2 = 1
  BY Modulus, ModulusAssumption DEF Residue
<1>1. (a - b) % R = (a - b) + (IF a < b THEN R ELSE 0)
  BY <1>0, BorrowFacts
<1>. DEFINE d == a - b
<1>2. d \in Int
  BY <1>0
<1>3. CASE a < b
  <2>1. d < 0 /\ d + P >= 0
    BY <1>0, <1>3
  <2>2. d % P = d + P
    <3>. HIDE DEF d
    <3>. QED BY <1>0, <1>2, <2>1, ModNear, Zenon
  <2>3. sub_mod_is_odd_prefix(a, b) = 3 - ((d + R) % 2)
    BY <1>1, <1>3 DEF sub_mod_is_odd_prefix
  <2>4. 3 - ((d + R) % 2) = 2 + ((d + P) % 2)
    <3>. HIDE DEF d
    <3>. QED BY <1>0, <1>2
  <2>. QED BY <2>2, <2>3, <2>4
<1>4. CASE ~(a < b)
  <2>1. d >= 0 /\ d < P /\ d + 0 = d
    BY <1>0, <1>4
  <2>2. d % P = d
    <3>. HIDE DEF d
    <3>. QED BY <1>0, <1>2, <2>1, ModNear, Zenon
  <2>3. sub_mod_is_odd_prefix(a, b) = 2 + (d % 2)
    BY <1>1, <1>4, <2>1 DEF sub_mod_is_odd_prefix
  <2>. QED BY <2>2, <2>3
<1>. QED BY <1>3, <1>4

LEMMA HostSumFacts ==
  ASSUME NEW a \in Int, NEW b \in Int
  PROVE  /\ AddModP(a, b) \in Int /\ Same(AddModP(a, b), a + b)
         /\ SubModP(a, b) \in Int /\ Same(SubModP(a, b), a - b)
<1>0. P \in Int /\ a + b \in Int /\ a - b \in Int
  BY Modulus
<1>1. Same(a + b, a + b) /\ Same((a + b) - P, a + b)
  BY <1>0, SameSelf, SameShift
<1>2. Same(a - b, a - b) /\ Same((a - b) + P, a - b)
  BY <1>0, SameSelf, SameShift
<1>3. AddModP(a, b) \in Int /\ Same(AddModP(a, b), a + b)
  <2>1. AddModP(a, b) = a + b \/ AddModP(a, b) = (a + b) - P
    BY <1>0 DEF AddModP
  <2>. QED BY <1>0, <1>1, <2>1
<1>4. SubModP(a, b) \in Int /\ Same(SubModP(a, b), a - b)
  <2>1. SubModP(a, b) = a - b \/ SubModP(a, b) = (a - b) + P
    BY DEF SubModP
  <2>. QED BY <1>0, <1>2, <2>1
<1>. QED BY <1>3, <1>4

LEMMA HostProductFacts ==
  ASSUME NEW a \in Int, NEW b \in Int
  PROVE  /\ HostProduct(a, b) \in Int
         /\ ~LimbLost(a, b) => Same(HostProduct(a, b), a * b)
<1>. DEFINE u == a % R
            v == b % R
            g == FoldedTwice(u * v)
<1>0. R \in Nat \ {0} /\ P \in Int
  BY Modulus
<1>1. u \in 0..R-1 /\ v \in 0..R-1 /\ (a \in Number => u = a) /\ (b \in Number => v = b)
  <2>1. u \in 0..R-1 /\ v \in 0..R-1
    BY <1>0, DivModFacts, Zenon
  <2>2. a \in Number => a >= 0 /\ a < R
    BY <1>0 DEF Number
  <2>3. b \in Number => b >= 0 /\ b < R
    BY <1>0 DEF Number
  <2>4. (a \in Number => u = a) /\ (b \in Number => v = b)
    BY <1>0, <2>2, <2>3, ModNear, Zenon
  <2>. QED BY <2>1, <2>4
<1>2. HostProduct(a, b) = IF g >= R THEN g - P ELSE g
  BY DEF HostProduct, MulModP
<1>. HIDE DEF u, v
<1>3. u \in Nat /\ v \in Nat /\ u * v \in Nat
  BY <1>1
<1>4. g \in Nat /\ g \in Int /\ Same(g, u * v)
  <2>1. FoldedTwice(u * v) \in Nat /\ Same(FoldedTwice(u * v), u * v)
    BY <1>3, FoldedTwiceFacts
  <2>. QED BY <2>1
<1>. HIDE DEF g
<1>5. g - P \in Int /\ Same(g - P, g)
  BY <1>0, <1>4, SameShift
<1>6. Same(g - P, u * v)
  BY <1>3, <1>4, <1>5, SameThrough
<1>7. HostProduct(a, b) \in Int /\ Same(HostProduct(a, b), u * v)
  BY <1>2, <1>4, <1>5, <1>6
<1>. QED BY <1>1, <1>7 DEF LimbLost

-------------------------------------------------------------------------------
(* Lines                                                                   *)

Affine == Residue \X Residue

LEMMA AffineFacts ==
  ASSUME NEW p \in Affine
  PROVE  /\ p[1] \in Residue /\ p[2] \in Residue /\ p[1] \in Int /\ p[2] \in Int
         /\ p[1] \in Number /\ p[2] \in Number
         /\ p = <<p[1], p[2]>> /\ p # Zero
<1>1. p[1] \in Residue /\ p[2] \in Residue /\ p = <<p[1], p[2]>>
  BY DEF Affine
<1>2. p # Zero
  BY <1>1 DEF Zero
<1>. QED BY <1>1, <1>2, Modulus

LEMMA DifferentResidues ==
  ASSUME NEW a \in Residue, NEW b \in Residue, a # b
  PROVE  ~Same(a - b, 0)
<1>1. SUFFICES ASSUME Same(a - b, 0) PROVE FALSE
  OBVIOUS
<1>2. a \in Int /\ b \in Int /\ (a - b) - 0 = a - b
  BY Modulus
<1>3. Same(a, b)
  BY <1>1, <1>2 DEF Same
<1>. QED BY <1>3, SameResidues

LEMMA ThirdTyped ==
  ASSUME NEW p \in Affine, NEW q \in Affine, NEW m \in Int
  PROVE  /\ Third(p, q, m) \in Affine
         /\ Same(Third(p, q, m)[1], ((m * m) - p[1]) - q[1])
         /\ Same(Third(p, q, m)[2], (m * (p[1] - Third(p, q, m)[1])) - p[2])
<1>. DEFINE u == ((m * m) - p[1]) - q[1]
            x == u % P
            v == (m * (p[1] - x)) - p[2]
            y == v % P
<1>1. p[1] \in Int /\ p[2] \in Int /\ q[1] \in Int
  BY AffineFacts
<1>2. u \in Int
  BY <1>1
<1>3. Third(p, q, m) = <<x, y>>
  BY DEF Third
<1>. HIDE DEF u
<1>4. x \in Residue /\ Same(x, u) /\ x \in Int
  BY <1>2, SameMod, Modulus
<1>. HIDE DEF x
<1>5. v \in Int
  BY <1>1, <1>4
<1>. HIDE DEF v
<1>6. y \in Residue /\ Same(y, v)
  BY <1>5, SameMod
<1>. HIDE DEF y
<1>. QED BY <1>3, <1>4, <1>6 DEF Affine, u, v

\* A mirrored third point is known by its congruences.
LEMMA ThirdIs ==
  ASSUME NEW p \in Affine, NEW q \in Affine, NEW m \in Int, NEW x \in Residue, NEW y \in Residue,
         Same(x, ((m * m) - p[1]) - q[1]), Same(y, (m * (p[1] - x)) - p[2])
  PROVE  <<x, y>> = Third(p, q, m)
<1>. DEFINE r == Third(p, q, m)
            u == ((m * m) - p[1]) - q[1]
            v == (m * (p[1] - x)) - p[2]
<1>0. p[1] \in Int /\ p[2] \in Int /\ q[1] \in Int /\ x \in Int /\ y \in Int /\ u \in Int /\ v \in Int
  BY AffineFacts, Modulus
<1>1. r \in Affine /\ Same(r[1], u) /\ Same(r[2], (m * (p[1] - r[1])) - p[2])
  BY ThirdTyped
<1>. HIDE DEF r
<1>2. /\ r[1] \in Residue /\ r[2] \in Residue /\ r[1] \in Int /\ r[2] \in Int
      /\ r = <<r[1], r[2]>>
  BY <1>1, AffineFacts
<1>3. x = r[1]
  <2>1. Same(u, r[1])
    BY <1>0, <1>1, <1>2, SameBack
  <2>2. Same(x, u)
    OBVIOUS
  <2>. HIDE DEF u
  <2>3. Same(x, r[1])
    BY <1>0, <1>2, <2>1, <2>2, SameThrough
  <2>. QED BY <1>2, <2>3, SameResidues
<1>4. y = r[2]
  <2>1. Same(r[2], v)
    BY <1>1, <1>3
  <2>2. Same(y, v)
    OBVIOUS
  <2>. HIDE DEF v
  <2>3. Same(v, r[2])
    BY <1>0, <1>2, <2>1, SameBack
  <2>4. Same(y, r[2])
    BY <1>0, <1>2, <2>2, <2>3, SameThrough
  <2>. QED BY <1>2, <2>4, SameResidues
<1>5. <<x, y>> = r
  BY <1>2, <1>3, <1>4
<1>. QED BY <1>5 DEF r

LEMMA ThirdSame ==
  ASSUME NEW p \in Affine, NEW q \in Affine, NEW m \in Int, NEW n \in Int, Same(m, n)
  PROVE  Third(p, q, m) = Third(p, q, n)
<1>. DEFINE r == Third(p, q, m)
<1>0. p[1] \in Int /\ p[2] \in Int /\ q[1] \in Int
  BY AffineFacts
<1>1. /\ r \in Affine /\ Same(r[1], ((m * m) - p[1]) - q[1])
      /\ Same(r[2], (m * (p[1] - r[1])) - p[2])
  BY ThirdTyped
<1>. HIDE DEF r
<1>2. r[1] \in Residue /\ r[2] \in Residue /\ r[1] \in Int /\ r[2] \in Int /\ r = <<r[1], r[2]>>
  BY <1>1, AffineFacts
<1>3. Same(r[1], ((n * n) - p[1]) - q[1])
  <2>. DEFINE s == m * m
              v == n * n
  <2>1. s \in Int /\ v \in Int /\ Same(s, v)
    BY SameProduct
  <2>2. Same(r[1], (s - p[1]) - q[1])
    BY <1>1
  <2>. HIDE DEF s, v
  <2>3. Same(p[1], p[1]) /\ Same(q[1], q[1])
    BY <1>0, SameSelf
  <2>4. s - p[1] \in Int /\ v - p[1] \in Int
    BY <1>0, <2>1
  <2>8. Same(s - p[1], v - p[1])
    BY <1>0, <2>1, <2>3, SameSum
  <2>5. (s - p[1]) - q[1] \in Int /\ (v - p[1]) - q[1] \in Int
    BY <1>0, <2>1
  <2>6. Same((s - p[1]) - q[1], (v - p[1]) - q[1])
    BY <1>0, <2>3, <2>4, <2>8, SameSum
  <2>7. Same(r[1], (v - p[1]) - q[1])
    BY <1>2, <2>2, <2>5, <2>6, SameThrough
  <2>. QED BY <2>7 DEF v
<1>4. Same(r[2], (n * (p[1] - r[1])) - p[2])
  <2>. DEFINE d == p[1] - r[1]
              s == m * d
              v == n * d
  <2>1. d \in Int /\ Same(d, d)
    BY <1>0, <1>2, SameSelf
  <2>2. s \in Int /\ v \in Int /\ Same(s, v)
    <3>. HIDE DEF d
    <3>. QED BY <2>1, SameProduct
  <2>3. Same(r[2], s - p[2])
    BY <1>1
  <2>. HIDE DEF s, v, d
  <2>4. Same(p[2], p[2])
    BY <1>0, SameSelf
  <2>5. s - p[2] \in Int /\ v - p[2] \in Int
    BY <1>0, <2>2
  <2>7. Same(s - p[2], v - p[2])
    BY <1>0, <2>2, <2>4, SameSum
  <2>6. Same(r[2], v - p[2])
    BY <1>2, <2>3, <2>5, <2>7, SameThrough
  <2>. QED BY <2>6 DEF v, d
<1>5. <<r[1], r[2]>> = Third(p, q, n)
  BY <1>2, <1>3, <1>4, ThirdIs
<1>. QED BY <1>2, <1>5 DEF r

\* The quotient of s by d, as Plus computes it, is congruent to whatever gives s times d.
LEMMA QuotientSame ==
  ASSUME NEW s \in Int, NEW d \in Int, NEW m \in Int, ~Same(d, 0), Same(m * d, s)
  PROVE  /\ s * Reciprocal[d % P] \in Int
         /\ Same((s * Reciprocal[d % P]) % P, m) /\ (s * Reciprocal[d % P]) % P \in Int
<1>. DEFINE c == Reciprocal[d % P]
            u == s * c
            w == u % P
<1>1. c \in Int /\ Same(d * c, 1)
  BY InverseExists
<1>. HIDE DEF c
<1>2. u \in Int /\ m * d \in Int /\ d * c \in Int /\ (m * d) * c \in Int /\ m * (d * c) \in Int
  BY <1>1
<1>3. Same(c, c) /\ Same(m, m)
  BY <1>1, SameSelf
<1>4. Same((m * d) * c, u)
  BY <1>1, <1>2, <1>3, SameProduct
<1>5. Same(m * (d * c), m * 1)
  BY <1>1, <1>2, <1>3, SameProduct
<1>6. (m * d) * c = m * (d * c) /\ m * 1 = m
  BY <1>1
<1>7. Same(u, (m * d) * c)
  BY <1>2, <1>4, SameBack
<1>8. Same(u, m)
  BY <1>2, <1>5, <1>6, <1>7, SameThrough
<1>. HIDE DEF u
<1>9. w \in Int /\ Same(w, u)
  BY <1>2, SameMod, Modulus
<1>. HIDE DEF w
<1>10. Same(w, m)
  BY <1>2, <1>8, <1>9, SameThrough
<1>. QED BY <1>2, <1>9, <1>10 DEF w, u, c

\* The sum of two points with different x, by any slope that fits them.
LEMMA ChordIs ==
  ASSUME NEW p \in Affine, NEW q \in Affine, NEW m \in Int, p[1] # q[1],
         Same(m * (q[1] - p[1]), q[2] - p[2])
  PROVE  Plus(p, q) = Third(p, q, m)
<1>. DEFINE d == q[1] - p[1]
            s == q[2] - p[2]
            w == (s * Reciprocal[d % P]) % P
<1>0. /\ p # Zero /\ q # Zero /\ p[1] \in Residue /\ q[1] \in Residue
      /\ p[1] \in Int /\ q[1] \in Int /\ p[2] \in Int /\ q[2] \in Int
  BY AffineFacts
<1>1. d \in Int /\ s \in Int /\ ~Same(d, 0) /\ Same(m * d, s)
  BY <1>0, DifferentResidues
<1>2. Plus(p, q) = Third(p, q, w)
  BY <1>0 DEF Plus
<1>. HIDE DEF d, s
<1>3. w \in Int /\ Same(w, m)
  BY <1>1, QuotientSame
<1>. HIDE DEF w
<1>. QED BY <1>2, <1>3, ThirdSame

\* The double of a point, by any slope that fits it.
LEMMA TangentIs ==
  ASSUME NEW p \in Affine, NEW m \in Int, ~Same(2 * p[2], 0),
         Same(m * (2 * p[2]), 3 * p[1] * p[1])
  PROVE  Plus(p, p) = Third(p, p, m)
<1>. DEFINE d == 2 * p[2]
            n == 3 * p[1] * p[1]
            s == n % P
            w == (s * Reciprocal[d % P]) % P
<1>0. p # Zero /\ p[1] \in Int /\ p[2] \in Int /\ p[2] + p[2] = d
  BY AffineFacts
<1>1. d \in Int /\ n \in Int /\ ~Same(d, 0) /\ Same(m * d, n)
  BY <1>0
<1>2. d % P # 0
  BY <1>1, SameZero
<1>3. Plus(p, p) = Third(p, p, w)
  <2>1. (p[2] + p[2]) % P # 0
    BY <1>0, <1>2
  <2>. QED BY <1>0, <2>1 DEF Plus
<1>. HIDE DEF d, n
<1>4. s \in Int /\ Same(n, s)
  BY <1>1, SameMod, Modulus
<1>. HIDE DEF s
<1>5. m * d \in Int
  BY <1>1
<1>6. Same(m * d, s)
  BY <1>1, <1>4, <1>5, SameThrough
<1>7. w \in Int /\ Same(w, m)
  BY <1>1, <1>4, <1>6, QuotientSame
<1>. HIDE DEF w
<1>. QED BY <1>3, <1>7, ThirdSame

-------------------------------------------------------------------------------
(* The multiples                                                           *)

Points == {Multiple[n] : n \in 0 .. Order-1}

LEMMA OrderFacts ==
  /\ Order \in Nat \ {0} /\ Order > 2 /\ Order \in Int /\ Order % 2 = 1
  /\ \A d \in 2 .. Order-1 : Order % d # 0
  /\ G \in Affine
<1>1. /\ Order \in Nat /\ Order > 2 /\ \A d \in 2 .. Order-1 : Order % d # 0
      /\ G \in Affine
  BY CurveAssumption DEF Affine
<1>2. 2 \in 2 .. Order-1
  BY <1>1
<1>3. Order % 2 # 0
  BY <1>1, <1>2
<1>. QED BY <1>1, <1>3

LEMMA PointFacts ==
  /\ \A p \in Points : p = Zero \/ p \in Affine
  /\ \A p \in Points \ {Zero} : OnCurve(p[1], p[2])
  /\ \A p, q \in Points : Plus(p, Plus(q, G)) = Plus(Plus(p, q), G)
BY GroupAssumption DEF Points, Affine

LEMMA ZeroSum ==
  ASSUME NEW p
  PROVE  Plus(Zero, p) = p /\ (p # Zero => Plus(p, Zero) = p)
BY DEF Plus

LEMMA AddZero ==
  ASSUME NEW p
  PROVE  Plus(p, Zero) = p
<1>1. CASE p = Zero
  BY <1>1, ZeroSum
<1>2. CASE p # Zero
  BY <1>2, ZeroSum
<1>. QED BY <1>1, <1>2

\* Two points with the same x are the same or opposite.
LEMMA SameXPoints ==
  ASSUME NEW p \in Points, NEW q \in Points, p # Zero, q # Zero, p[1] = q[1], p # q
  PROVE  (p[2] + q[2]) % P = 0
<1>0. /\ p \in Affine /\ q \in Affine /\ OnCurve(p[1], p[2]) /\ OnCurve(q[1], q[2])
      /\ p[2] \in Residue /\ q[2] \in Residue /\ p[2] \in Int /\ q[2] \in Int
      /\ p = <<p[1], p[2]>> /\ q = <<q[1], q[2]>>
  BY PointFacts, AffineFacts
<1>. DEFINE a == p[2]
            b == q[2]
            u == a * a
            v == b * b
<1>1. a \in Int /\ b \in Int /\ u \in Int /\ v \in Int /\ u % P = v % P /\ a \in Residue /\ b \in Residue /\ a # b
  BY <1>0 DEF OnCurve
<1>2. Same(u, v)
  <2>. HIDE DEF u, v
  <2>1. Same(u, u % P) /\ Same(v % P, v) /\ u % P \in Int
    BY <1>1, SameMod, Modulus
  <2>. QED BY <1>1, <2>1, SameThrough
<1>3. Same((a - b) * (a + b), 0)
  <2>1. ((a - b) * (a + b)) - 0 = u - v
    BY <1>1
  <2>. QED BY <1>2, <2>1 DEF Same
<1>. HIDE DEF a, b
<1>4. ~Same(a - b, 0) /\ a - b \in Int /\ a + b \in Int
  BY <1>1, DifferentResidues
<1>5. Same(a + b, 0)
  BY <1>3, <1>4, NoZeroDivisor
<1>6. (a + b) % P = 0
  BY <1>4, <1>5, SameZero
<1>. QED BY <1>6 DEF a, b

LEMMA PlusCommutes ==
  ASSUME NEW p \in Points, NEW q \in Points
  PROVE  Plus(p, q) = Plus(q, p)
<1>1. CASE p = Zero \/ q = Zero
  BY <1>1, ZeroSum, AddZero
<1>2. CASE p # Zero /\ q # Zero
  <2>0. /\ p \in Affine /\ q \in Affine /\ p[1] \in Residue /\ q[1] \in Residue
        /\ p[1] \in Int /\ q[1] \in Int /\ p[2] \in Int /\ q[2] \in Int
    BY <1>2, PointFacts, AffineFacts
  <2>1. CASE p[1] # q[1]
    <3>. DEFINE d == q[1] - p[1]
                e == q[2] - p[2]
                m == e * Reciprocal[d % P]
    <3>1. d \in Int /\ e \in Int /\ ~Same(d, 0) /\ p[1] - q[1] = -d /\ p[2] - q[2] = -e
      BY <2>0, <2>1, DifferentResidues
    <3>2. m \in Int /\ Same(m * d, e)
      <4>. DEFINE c == Reciprocal[d % P]
      <4>. HIDE DEF d, e
      <4>1. c \in Int /\ Same(d * c, 1) /\ d * c \in Int
        BY <3>1, InverseExists
      <4>. HIDE DEF c
      <4>2. Same(e * (d * c), e * 1)
        BY <3>1, <4>1, SameSelf, SameProduct
      <4>3. e * (d * c) = (e * c) * d /\ e * 1 = e /\ e * c \in Int
        BY <3>1, <4>1
      <4>4. Same((e * c) * d, e)
        BY <4>2, <4>3
      <4>. QED BY <4>3, <4>4 DEF c
    <3>. HIDE DEF m
    <3>3. Plus(p, q) = Third(p, q, m)
      BY <2>0, <2>1, <3>2, ChordIs DEF d, e
    <3>4. Same(m * (-d), -e)
      <4>. HIDE DEF d, e
      <4>1. (m * (-d)) - (-e) = 0 - ((m * d) - e) /\ m * d \in Int /\ (m * d) - e \in Int
        BY <3>1, <3>2
      <4>2. Divides(P, 0) /\ Divides(P, (m * d) - e)
        BY <3>2, DividesItself, Modulus DEF Same
      <4>3. Divides(P, 0 - ((m * d) - e))
        BY <4>1, <4>2, DividesSum, Modulus
      <4>. QED BY <4>1, <4>3 DEF Same
    <3>5. Plus(q, p) = Third(q, p, m)
      <4>1. Same(m * (p[1] - q[1]), p[2] - q[2])
        BY <3>1, <3>4
      <4>2. q[1] # p[1]
        BY <2>1
      <4>. QED BY <2>0, <3>2, <4>1, <4>2, ChordIs
    <3>. DEFINE r == Third(p, q, m)
    <3>6. /\ r \in Affine /\ Same(r[1], ((m * m) - p[1]) - q[1])
          /\ Same(r[2], (m * (p[1] - r[1])) - p[2])
      BY <2>0, <3>2, ThirdTyped
    <3>. HIDE DEF r
    <3>7. /\ r[1] \in Residue /\ r[2] \in Residue /\ r = <<r[1], r[2]>> /\ r[1] \in Int /\ r[2] \in Int
      BY <3>6, AffineFacts
    <3>8. Same(r[1], ((m * m) - q[1]) - p[1])
      <4>1. ((m * m) - q[1]) - p[1] = ((m * m) - p[1]) - q[1]
        BY <2>0, <3>2
      <4>. QED BY <3>6, <4>1
    <3>9. Same(r[2], (m * (q[1] - r[1])) - q[2])
      <4>. DEFINE a == (m * (p[1] - r[1])) - p[2]
                  b == (m * (q[1] - r[1])) - q[2]
      <4>1. b - a = (m * d) - e /\ a \in Int /\ b \in Int
        BY <2>0, <3>2, <3>7
      <4>2. Same(b, a)
        BY <3>2, <4>1 DEF Same
      <4>. HIDE DEF a, b
      <4>3. Same(a, b)
        BY <4>1, <4>2, SameBack
      <4>4. Same(r[2], a)
        BY <3>6 DEF a
      <4>5. Same(r[2], b)
        BY <3>7, <4>1, <4>3, <4>4, SameThrough
      <4>. QED BY <4>5 DEF b
    <3>10. r = Third(q, p, m)
      BY <2>0, <3>2, <3>7, <3>8, <3>9, ThirdIs
    <3>. QED BY <3>3, <3>5, <3>10 DEF r
  <2>2. CASE p[1] = q[1] /\ p # q
    <3>1. (p[2] + q[2]) % P = 0 /\ (q[2] + p[2]) % P = 0
      <4>1. (p[2] + q[2]) % P = 0 /\ p[2] + q[2] = q[2] + p[2]
        BY <1>2, <2>0, <2>2, SameXPoints
      <4>. QED BY <4>1
    <3>. QED BY <1>2, <2>2, <3>1 DEF Plus
  <2>3. CASE p = q
    BY <2>3
  <2>. QED BY <2>1, <2>2, <2>3
<1>. QED BY <1>1, <1>2

-------------------------------------------------------------------------------
(* The multiples are numbered                                              *)

Grown(p, n) == IF n % 2 = 0 THEN Plus(p, p) ELSE Plus(Plus(p, p), G)

Listed(f, n) == f = [l \in 0..n |-> IF l = 0 THEN Zero ELSE Grown(f[l \div 2], l)]

LEMMA MultipleDefined ==
  /\ Multiple[0] = Zero
  /\ \A n \in 1 .. Order-1 :
       n \div 2 \in 0 .. n-1 /\ Multiple[n] = Grown(Multiple[n \div 2], n)
<1>. DEFINE T == {n \in Nat : \E f : Listed(f, n)}
<1>1. 0 \in T
  <2>1. Listed([l \in 0..0 |-> Zero], 0)
    BY DEF Listed
  <2>. QED BY <2>1
<1>2. ASSUME NEW n \in Nat, n \in T PROVE n + 1 \in T
  <2>1. PICK f : Listed(f, n)
    BY <1>2
  <2>. DEFINE g == [l \in 0..n+1 |-> IF l = n + 1 THEN Grown(f[(n + 1) \div 2], n + 1) ELSE f[l]]
              h == [l \in 0..n+1 |-> IF l = 0 THEN Zero ELSE Grown(g[l \div 2], l)]
  <2>2. ASSUME NEW l \in 0..n+1 PROVE g[l] = h[l]
    <3>1. CASE l = n + 1
      <4>1. l \div 2 \in 0..n /\ l \div 2 # n + 1 /\ l \div 2 \in 0..n+1 /\ l # 0
        BY <3>1
      <4>2. g[l] = Grown(f[l \div 2], l) /\ g[l \div 2] = f[l \div 2]
        BY <3>1, <4>1
      <4>. QED BY <4>1, <4>2
    <3>2. CASE l \in 0..n /\ l # 0
      <4>1. l \div 2 \in 0..n /\ l \div 2 # n + 1 /\ l \div 2 \in 0..n+1 /\ l # n + 1
        BY <3>2
      <4>2. g[l] = f[l] /\ g[l \div 2] = f[l \div 2]
        BY <4>1
      <4>3. f[l] = Grown(f[l \div 2], l)
        BY <2>1, <3>2 DEF Listed
      <4>. QED BY <3>2, <4>2, <4>3
    <3>3. CASE l = 0
      <4>1. g[l] = f[l] /\ f[l] = Zero
        BY <2>1, <3>3 DEF Listed
      <4>. QED BY <3>3, <4>1
    <3>. QED BY <3>1, <3>2, <3>3
  <2>3. g = h
    BY <2>2
  <2>. HIDE DEF g
  <2>4. Listed(g, n + 1)
    BY <2>3 DEF Listed
  <2>. QED BY <2>4
<1>. HIDE DEF T
<1>3. Nat \subseteq T
  BY <1>1, <1>2, Induction
<1>4. Order-1 \in Nat
  BY OrderFacts
<1>5. \E f : Listed(f, Order-1)
  <2>1. Order-1 \in T
    BY <1>3, <1>4
  <2>. QED BY <2>1 DEF T
<1>6. Multiple = CHOOSE f : Listed(f, Order-1)
  BY DEF Multiple, Listed, Grown
<1>7. Listed(Multiple, Order-1)
  BY <1>5, <1>6
<1>8. ASSUME NEW n \in 1 .. Order-1
      PROVE  n \div 2 \in 0 .. n-1 /\ Multiple[n] = Grown(Multiple[n \div 2], n)
  <2>1. n \in 0 .. Order-1 /\ n # 0 /\ n \div 2 \in 0 .. n-1
    BY OrderFacts
  <2>. QED BY <1>7, <2>1 DEF Listed
<1>9. Multiple[0] = Zero
  <2>1. 0 \in 0 .. Order-1
    BY OrderFacts
  <2>. QED BY <1>7, <2>1 DEF Listed
<1>. QED BY <1>8, <1>9

LEMMA OneIsG == Multiple[1] = G
<1>1. 1 \in 1 .. Order-1 /\ 1 \div 2 = 0 /\ 1 % 2 = 1
  BY OrderFacts
<1>2. Multiple[1] = Grown(Zero, 1)
  BY <1>1, MultipleDefined
<1>. QED BY <1>1, <1>2, ZeroSum DEF Grown

LEMMA Successor ==
  ASSUME NEW n \in 0 .. Order-2
  PROVE  Multiple[n+1] = Plus(Multiple[n], G)
<1>. DEFINE T == {l \in 0 .. Order-2 : Multiple[l+1] # Plus(Multiple[l], G)}
<1>0. Order \in Nat /\ Order > 2
  BY OrderFacts
<1>1. SUFFICES ASSUME T # {} PROVE FALSE
  OBVIOUS
<1>2. PICK l \in T : \A j \in T : l <= j
  <2>1. T \subseteq Nat
    BY <1>0
  <2>. HIDE DEF T
  <2>. QED BY <1>1, <2>1, LeastMember
<1>3. l \in 0 .. Order-2 /\ l + 1 \in 1 .. Order-1 /\ l \in Nat /\ Multiple[l+1] # Plus(Multiple[l], G)
  BY <1>0, <1>2
<1>. DEFINE h == l \div 2
            a == Multiple[h]
<1>4. CASE l % 2 = 0
  <2>1. (l + 1) % 2 = 1 /\ (l + 1) \div 2 = h
    BY <1>3, <1>4
  <2>2. Multiple[l+1] = Plus(Plus(a, a), G)
    BY <1>3, <2>1, MultipleDefined DEF Grown
  <2>3. Multiple[l] = Plus(a, a)
    <3>1. CASE l = 0
      BY <3>1, MultipleDefined, ZeroSum
    <3>2. CASE l # 0
      <4>1. l \in 1 .. Order-1
        BY <1>0, <1>3, <3>2
      <4>. QED BY <1>4, <4>1, MultipleDefined DEF Grown
    <3>. QED BY <3>1, <3>2
  <2>. QED BY <1>3, <2>2, <2>3
<1>5. CASE l % 2 = 1
  <2>. DEFINE b == Multiple[h+1]
  <2>1. /\ (l + 1) % 2 = 0 /\ (l + 1) \div 2 = h + 1 /\ l \in 1 .. Order-1
        /\ h \in 0 .. Order-2 /\ h < l /\ h \in 0 .. Order-1 /\ h + 1 \in 0 .. Order-1
    BY <1>0, <1>3, <1>5
  <2>2. Multiple[l+1] = Plus(b, b) /\ Multiple[l] = Plus(Plus(a, a), G)
    BY <1>3, <1>5, <2>1, MultipleDefined DEF Grown
  <2>3. b = Plus(a, G)
    <3>1. ~(h \in T)
      BY <1>2, <1>3, <2>1
    <3>. QED BY <2>1, <3>1
  <2>4. a \in Points /\ b \in Points
    BY <2>1 DEF Points
  <2>. HIDE DEF a, b
  <2>5. Plus(b, b) = Plus(Plus(b, a), G) /\ Plus(a, b) = Plus(Plus(a, a), G)
    BY <2>3, <2>4, PointFacts
  <2>6. Plus(b, a) = Plus(a, b)
    BY <2>4, PlusCommutes
  <2>. QED BY <1>3, <2>2, <2>5, <2>6
<1>. QED BY <1>3, <1>4, <1>5

LEMMA PointTyped ==
  ASSUME NEW n \in Nat
  PROVE  /\ PointOf(n) \in Points /\ n % Order \in 0 .. Order-1
         /\ n % Order = 0 => PointOf(n) = Zero
<1>1. n % Order \in 0 .. Order-1
  <2>1. Order \in Nat \ {0} /\ n \in Int
    BY OrderFacts
  <2>. QED BY <2>1, DivModFacts, Zenon
<1>. QED BY <1>1, MultipleDefined DEF PointOf, Points

LEMMA PointsNumbered ==
  ASSUME NEW p \in Points
  PROVE  \E n \in 0 .. Order-1 : p = PointOf(n)
<1>1. PICK n \in 0 .. Order-1 : p = Multiple[n]
  BY DEF Points
<1>2. n % Order = n
  <2>1. Order \in Nat \ {0} /\ n \in Int /\ n >= 0 /\ n < Order
    BY OrderFacts
  <2>. QED BY <2>1, ModNear, Zenon
<1>. QED BY <1>1, <1>2 DEF PointOf

LEMMA ModStep ==
  ASSUME NEW n \in Nat
  PROVE  (n + 1) % Order = IF n % Order = Order-1 THEN 0 ELSE (n % Order) + 1
<1>. DEFINE q == n \div Order
            r == n % Order
<1>0. Order \in Nat \ {0} /\ Order > 2 /\ n \in Int /\ n + 1 \in Int
  BY OrderFacts
<1>1. q \in Int /\ r \in 0 .. Order-1 /\ n = Order * q + r
  BY <1>0, DivModFacts, Zenon
<1>. HIDE DEF q, r
<1>2. CASE r = Order-1
  <2>1. n + 1 = (Order * (q + 1)) + 0 /\ q + 1 \in Int /\ 0 \in 0 .. Order-1
    BY <1>0, <1>1, <1>2
  <2>2. (n + 1) % Order = 0
    BY <1>0, <2>1, ModIs
  <2>. QED BY <1>2, <2>2 DEF r
<1>3. CASE r # Order-1
  <2>1. n + 1 = (Order * q) + (r + 1) /\ r + 1 \in 0 .. Order-1
    BY <1>0, <1>1, <1>3
  <2>2. (n + 1) % Order = r + 1
    BY <1>0, <1>1, <2>1, ModIs
  <2>. QED BY <1>3, <2>2 DEF r
<1>. QED BY <1>2, <1>3

LEMMA NextPoint ==
  ASSUME NEW n \in Nat
  PROVE  PointOf(n + 1) = Plus(PointOf(n), G)
<1>. DEFINE r == n % Order
<1>0. r \in 0 .. Order-1 /\ Order \in Nat /\ Order > 2
  BY PointTyped, OrderFacts
<1>1. (n + 1) % Order = IF r = Order-1 THEN 0 ELSE r + 1
  BY ModStep
<1>2. PointOf(n) = Multiple[r] /\ PointOf(n + 1) = Multiple[(n + 1) % Order]
  BY DEF PointOf
<1>. HIDE DEF r
<1>3. CASE r = Order-1
  BY <1>1, <1>2, <1>3, MultipleDefined, OrderAssumption
<1>4. CASE r # Order-1
  <2>1. r \in 0 .. Order-2
    BY <1>0, <1>4
  <2>. QED BY <1>1, <1>2, <1>4, <2>1, Successor
<1>. QED BY <1>3, <1>4

\* Adding points is adding numbers.
LEMMA PointSum ==
  ASSUME NEW m \in Nat, NEW n \in Nat
  PROVE  Plus(PointOf(m), PointOf(n)) = PointOf(m + n)
<1>. DEFINE T == {l \in Nat : Plus(PointOf(m), PointOf(l)) = PointOf(m + l)}
<1>1. 0 \in T
  <2>1. 0 % Order = 0 /\ m + 0 = m
    BY OrderFacts
  <2>2. PointOf(0) = Zero
    BY <2>1, PointTyped
  <2>. QED BY <2>1, <2>2, AddZero
<1>2. ASSUME NEW l \in Nat, l \in T PROVE l + 1 \in T
  <2>1. PointOf(l + 1) = Plus(PointOf(l), G) /\ PointOf((m + l) + 1) = Plus(PointOf(m + l), G)
    <3>1. m + l \in Nat
      OBVIOUS
    <3>. QED BY <3>1, NextPoint
  <2>2. PointOf(m) \in Points /\ PointOf(l) \in Points
    BY PointTyped
  <2>3. Plus(PointOf(m), PointOf(l + 1)) = Plus(Plus(PointOf(m), PointOf(l)), G)
    BY <2>1, <2>2, PointFacts
  <2>4. Plus(PointOf(m), PointOf(l)) = PointOf(m + l)
    BY <1>2
  <2>5. m + (l + 1) = (m + l) + 1 /\ l + 1 \in Nat
    OBVIOUS
  <2>6. Plus(PointOf(m), PointOf(l + 1)) = PointOf(m + (l + 1))
    BY <2>1, <2>3, <2>4, <2>5
  <2>. QED BY <2>5, <2>6
<1>. HIDE DEF T
<1>3. n \in T
  BY <1>1, <1>2, Induction
<1>. QED BY <1>3 DEF T

LEMMA PointOfResidue ==
  ASSUME NEW n \in 0 .. Order-1
  PROVE  n % Order = n /\ PointOf(n) = Multiple[n] /\ n \in Nat
<1>1. Order \in Nat \ {0} /\ n \in Int /\ n >= 0 /\ n < Order /\ n \in Nat
  BY OrderFacts
<1>2. n % Order = n
  BY <1>1, ModNear, Zenon
<1>. QED BY <1>1, <1>2 DEF PointOf

\* Of the numbers of infinity the least but 0 divides the order.
LEMMA PointNotZero ==
  ASSUME NEW n \in 1 .. Order-1
  PROVE  PointOf(n) # Zero
<1>. DEFINE T == {l \in 1 .. Order-1 : PointOf(l) = Zero}
<1>0. Order \in Nat \ {0} /\ Order > 2 /\ Order \in Int
  BY OrderFacts
<1>1. SUFFICES ASSUME T # {} PROVE FALSE
  OBVIOUS
<1>2. PICK d \in T : \A j \in T : d <= j
  <2>1. T \subseteq Nat
    BY <1>0
  <2>. HIDE DEF T
  <2>. QED BY <1>1, <2>1, LeastMember
<1>3. d \in 1 .. Order-1 /\ d \in Nat \ {0} /\ PointOf(d) = Zero
  BY <1>0, <1>2
<1>. DEFINE U == {l \in Nat : PointOf(d * l) = Zero}
<1>4. 0 \in U
  <2>1. d * 0 = 0 /\ 0 % Order = 0
    BY <1>0, <1>3
  <2>. QED BY <2>1, PointTyped
<1>5. ASSUME NEW l \in Nat, l \in U PROVE l + 1 \in U
  <2>1. d * (l + 1) = (d * l) + d /\ d * l \in Nat
    BY <1>3
  <2>2. PointOf((d * l) + d) = Plus(PointOf(d * l), PointOf(d))
    BY <1>3, <2>1, PointSum
  <2>3. PointOf(d * (l + 1)) = Zero
    BY <1>3, <1>5, <2>1, <2>2, AddZero
  <2>. QED BY <2>3
<1>. HIDE DEF U
<1>6. Nat \subseteq U
  BY <1>4, <1>5, Induction
<1>. DEFINE q == Order \div d
            s == Order % d
<1>7. q \in Int /\ s \in 0..d-1 /\ Order = d * q + s
  BY <1>0, <1>3, DivModFacts, Zenon
<1>. HIDE DEF q, s
<1>8. q \in Nat
  <2>1. SUFFICES ASSUME q <= -1 PROVE FALSE
    BY <1>7
  <2>2. d * q <= -d
    BY <1>3, <1>7, <2>1
  <2>. QED BY <1>0, <1>3, <1>7, <2>2
<1>9. PointOf(s) = Zero
  <2>1. PointOf(d * q) = Zero
    BY <1>6, <1>8 DEF U
  <2>2. d * q \in Nat /\ s \in Nat
    BY <1>3, <1>7, <1>8
  <2>3. Plus(PointOf(d * q), PointOf(s)) = PointOf(Order)
    BY <1>7, <2>2, PointSum
  <2>4. PointOf(Order) = Zero
    <3>1. Order % Order = 0
      <4>1. Order >= Order /\ Order < Order + Order /\ Order - Order = 0
        BY <1>0
      <4>. QED BY <1>0, <4>1, ModNear, Zenon
    <3>. QED BY <1>0, <3>1, PointTyped
  <2>. QED BY <2>1, <2>3, <2>4, ZeroSum
<1>10. s = 0
  <2>1. SUFFICES ASSUME s # 0 PROVE FALSE
    OBVIOUS
  <2>2. s \in 1 .. Order-1 /\ s < d
    BY <1>0, <1>3, <1>7, <2>1
  <2>3. s \in T
    BY <1>9, <2>2
  <2>. QED BY <1>2, <1>3, <2>2, <2>3
<1>11. d = 1
  <2>1. Order % d = 0
    BY <1>10 DEF s
  <2>. QED BY <1>3, <2>1, OrderFacts
<1>12. PointOf(1) = G
  <2>1. 1 \in 0 .. Order-1
    BY <1>0
  <2>. QED BY <2>1, PointOfResidue, OneIsG
<1>13. G # Zero
  BY OrderFacts, AffineFacts
<1>. QED BY <1>3, <1>11, <1>12, <1>13

LEMMA PointReduced ==
  ASSUME NEW n \in Nat
  PROVE  /\ n % Order \in 0 .. Order-1 /\ n % Order \in Nat
         /\ PointOf(n) = PointOf(n % Order)
         /\ PointOf(n) = Zero <=> n % Order = 0
         /\ n % Order # 0 => PointOf(n) \in Affine
<1>. DEFINE r == n % Order
<1>1. r \in 0 .. Order-1 /\ PointOf(n) \in Points /\ (r = 0 => PointOf(n) = Zero)
  BY PointTyped
<1>2. PointOf(n) = Multiple[r]
  BY DEF PointOf
<1>. HIDE DEF r
<1>3. PointOf(r) = PointOf(n) /\ r \in Nat
  BY <1>1, <1>2, PointOfResidue
<1>4. r # 0 => PointOf(n) # Zero
  <2>1. SUFFICES ASSUME r # 0 PROVE PointOf(n) # Zero
    OBVIOUS
  <2>2. r \in 1 .. Order-1
    BY <1>1, <2>1, OrderFacts
  <2>. QED BY <1>3, <2>2, PointNotZero
<1>5. r # 0 => PointOf(n) \in Affine
  BY <1>1, <1>4, PointFacts
<1>. QED BY <1>1, <1>3, <1>4, <1>5 DEF r

\* A number below twice the order.
LEMMA BelowTwice ==
  ASSUME NEW n \in Nat, n < Order + Order
  PROVE  n % Order = IF n < Order THEN n ELSE n - Order
<1>1. Order \in Nat \ {0} /\ n \in Int /\ n >= 0
  BY OrderFacts
<1>2. CASE n < Order
  BY <1>1, <1>2, ModNear, Zenon
<1>3. CASE ~(n < Order)
  <2>1. n >= Order
    BY <1>1, <1>3
  <2>2. n % Order = n - Order
    BY <1>1, <2>1, ModNear, Zenon
  <2>. QED BY <1>3, <2>2
<1>. QED BY <1>2, <1>3

LEMMA PointDiffers ==
  ASSUME NEW m \in 0 .. Order-1, NEW n \in 0 .. Order-1, m < n
  PROVE  PointOf(m) # PointOf(n)
<1>0. Order \in Nat /\ m \in Nat /\ n \in Nat /\ Order - m \in Nat /\ Order > 2
  BY OrderFacts
<1>1. SUFFICES ASSUME PointOf(m) = PointOf(n) PROVE FALSE
  OBVIOUS
<1>2. /\ Plus(PointOf(m), PointOf(Order - m)) = PointOf(m + (Order - m))
      /\ Plus(PointOf(n), PointOf(Order - m)) = PointOf(n + (Order - m))
  BY <1>0, PointSum
<1>3. m + (Order - m) = Order /\ Order % Order = 0
  <2>1. Order < Order + Order /\ ~(Order < Order) /\ Order - Order = 0
    BY <1>0
  <2>2. Order % Order = 0
    BY <1>0, <2>1, BelowTwice
  <2>. QED BY <1>0, <2>2
<1>4. n + (Order - m) \in Nat /\ (n + (Order - m)) % Order = n - m
  <2>1. n + (Order - m) \in Nat /\ n + (Order - m) < Order + Order /\ ~(n + (Order - m) < Order)
        /\ (n + (Order - m)) - Order = n - m
    BY <1>0
  <2>. QED BY <2>1, BelowTwice
<1>5. PointOf(Order) = Zero
  BY <1>0, <1>3, PointReduced
<1>6. PointOf(n + (Order - m)) # Zero
  <2>1. n - m # 0
    BY <1>0
  <2>. QED BY <1>4, <2>1, PointReduced
<1>. QED BY <1>1, <1>2, <1>3, <1>5, <1>6

LEMMA PointInjective ==
  ASSUME NEW m \in 0 .. Order-1, NEW n \in 0 .. Order-1, PointOf(m) = PointOf(n)
  PROVE  m = n
<1>1. m \in Int /\ n \in Int
  BY OrderFacts
<1>2. ~(m < n) /\ ~(n < m)
  BY PointDiffers
<1>. QED BY <1>1, <1>2

\* Points with different y and the same x, and where a tangent is vertical.
LEMMA OppositePoints ==
  ASSUME NEW m \in Nat, NEW n \in Nat, m % Order # 0, n % Order # 0,
         PointOf(m)[1] = PointOf(n)[1], (PointOf(m)[2] + PointOf(n)[2]) % P = 0
  PROVE  (m + n) % Order = 0
<1>1. PointOf(m) # Zero /\ PointOf(n) # Zero
  BY PointReduced
<1>2. Plus(PointOf(m), PointOf(n)) = Zero
  BY <1>1 DEF Plus
<1>3. m + n \in Nat /\ PointOf(m + n) = Zero
  BY <1>2, PointSum
<1>. QED BY <1>3, PointReduced

LEMMA SameX ==
  ASSUME NEW m \in Nat, NEW n \in Nat, m % Order # 0, n % Order # 0,
         PointOf(m)[1] = PointOf(n)[1]
  PROVE  m % Order = n % Order \/ (m + n) % Order = 0
<1>0. PointOf(m) \in Points /\ PointOf(n) \in Points /\ PointOf(m) # Zero /\ PointOf(n) # Zero
  BY PointTyped, PointReduced
<1>1. CASE PointOf(m) = PointOf(n)
  <2>1. /\ m % Order \in 0 .. Order-1 /\ n % Order \in 0 .. Order-1
        /\ PointOf(m % Order) = PointOf(n % Order)
    BY <1>1, PointReduced
  <2>2. m % Order = n % Order
    BY <2>1, PointInjective
  <2>. QED BY <2>2
<1>2. CASE PointOf(m) # PointOf(n)
  <2>1. (PointOf(m)[2] + PointOf(n)[2]) % P = 0
    BY <1>0, <1>2, SameXPoints
  <2>. QED BY <2>1, OppositePoints
<1>. QED BY <1>1, <1>2

\* No point but infinity is its own opposite.
LEMMA NoVerticalTangent ==
  ASSUME NEW n \in Nat, n % Order # 0
  PROVE  ~Same(2 * PointOf(n)[2], 0) /\ PointOf(n)[2] # 0
<1>. DEFINE r == n % Order
            y == PointOf(n)[2]
<1>0. /\ r \in 0 .. Order-1 /\ r \in Nat /\ r # 0 /\ PointOf(n) = PointOf(r)
      /\ y \in Int /\ Order \in Nat /\ Order % 2 = 1
  BY PointReduced, AffineFacts, OrderFacts
<1>1. r % Order = r
  BY <1>0, PointOfResidue
<1>2. ASSUME Same(2 * y, 0) PROVE FALSE
  <2>1. (y + y) % P = 0
    <3>1. y + y = 2 * y /\ 2 * y \in Int
      BY <1>0
    <3>. HIDE DEF y
    <3>2. (2 * y) % P = 0
      BY <1>2, <3>1, SameZero
    <3>. QED BY <3>1, <3>2
  <2>2. (r + r) % Order = 0
    <3>. HIDE DEF r
    <3>. QED BY <1>0, <1>1, <2>1, OppositePoints
  <2>. HIDE DEF r
  <2>3. r + r \in Nat /\ r + r < Order + Order
    BY <1>0
  <2>4. r + r = Order
    BY <1>0, <2>2, <2>3, BelowTwice
  <2>. QED BY <1>0, <2>4
<1>3. y # 0
  <2>1. SUFFICES ASSUME y = 0 PROVE FALSE
    OBVIOUS
  <2>2. 2 * y = 0 /\ Same(0, 0)
    BY <2>1, SameSelf
  <2>. QED BY <1>2, <2>2
<1>. QED BY <1>2, <1>3

\* The opposite of a point has P - y.
LEMMA Mirror ==
  ASSUME NEW n \in 1 .. Order-1
  PROVE  /\ Order - n \in 1 .. Order-1 /\ PointOf(n) \in Affine
         /\ PointOf(Order - n) = <<PointOf(n)[1], neg_mod(PointOf(n)[2])>>
<1>0. /\ Order \in Nat /\ n \in Nat /\ n \in 0 .. Order-1 /\ n # 0
      /\ Order - n \in 1 .. Order-1 /\ Order - n \in 0 .. Order-1 /\ Order - n \in Nat /\ Order - n # 0
  BY OrderFacts
<1>1. n % Order # 0 /\ (Order - n) % Order # 0
  BY <1>0, PointOfResidue
<1>. DEFINE p == PointOf(n)
            q == PointOf(Order - n)
<1>2. p \in Affine /\ q \in Affine /\ p # Zero /\ q # Zero
  BY <1>0, <1>1, PointReduced
<1>3. Plus(p, q) = Zero
  <2>1. n + (Order - n) = Order /\ Order < Order + Order /\ ~(Order < Order) /\ Order - Order = 0
    BY <1>0
  <2>2. Order % Order = 0
    BY <1>0, <2>1, BelowTwice
  <2>3. PointOf(Order) = Zero
    BY <1>0, <2>2, PointReduced
  <2>. QED BY <1>0, <2>1, <2>3, PointSum
<1>4. p[2] # 0
  BY <1>0, <1>1, NoVerticalTangent
<1>. HIDE DEF p, q
<1>5. /\ p[1] \in Residue /\ p[2] \in Residue /\ q[1] \in Residue /\ q[2] \in Residue
      /\ q = <<q[1], q[2]>> /\ p[2] \in Int /\ q[2] \in Int
  BY <1>2, AffineFacts
<1>6. p[1] = q[1] /\ (p[2] + q[2]) % P = 0
  <2>1. \A a, b, c, d : <<a, b>> # Zero
    BY DEF Zero
  <2>2. \A m : Third(p, q, m) # Zero
    BY <2>1 DEF Third
  <2>. QED BY <1>2, <1>3, <2>2 DEF Plus
<1>7. q[2] = P - p[2] /\ neg_mod(p[2]) = P - p[2]
  <2>1. neg_mod(p[2]) = P - p[2] /\ P - p[2] \in Residue
    BY <1>4, <1>5, NegFacts
  <2>2. Same(q[2], P - p[2])
    <3>1. p[2] + q[2] \in Int /\ P \in Int
      BY <1>5, Modulus
    <3>2. Same(p[2] + q[2], 0)
      BY <1>6, <3>1, SameZero
    <3>3. Same((p[2] + q[2]) - P, p[2] + q[2]) /\ (p[2] + q[2]) - P \in Int
      BY <3>1, SameShift
    <3>4. Same((p[2] + q[2]) - P, 0)
      BY <3>1, <3>2, <3>3, SameThrough
    <3>5. ((p[2] + q[2]) - P) - 0 = q[2] - (P - p[2])
      BY <1>5, <3>1
    <3>. QED BY <3>4, <3>5 DEF Same
  <2>3. q[2] = P - p[2]
    BY <1>5, <2>1, <2>2, SameResidues
  <2>. QED BY <2>1, <2>3
<1>8. q = <<p[1], neg_mod(p[2])>>
  BY <1>5, <1>6, <1>7
<1>. QED BY <1>0, <1>2, <1>8 DEF p, q

-------------------------------------------------------------------------------
(* Congruences carried through an expression                               *)

LEMMA SameDifferenceOf ==
  ASSUME NEW x \in Int, NEW a \in Int, NEW b \in Int, NEW c \in Int, NEW d \in Int,
         Same(x, a - b), Same(a, c), Same(b, d)
  PROVE  Same(x, c - d)
<1>1. a - b \in Int /\ c - d \in Int
  OBVIOUS
<1>2. Same(a - b, c - d)
  BY SameSum
<1>. QED BY <1>1, <1>2, SameThrough

LEMMA SameSumOf ==
  ASSUME NEW x \in Int, NEW a \in Int, NEW b \in Int, NEW c \in Int, NEW d \in Int,
         Same(x, a + b), Same(a, c), Same(b, d)
  PROVE  Same(x, c + d)
<1>1. a + b \in Int /\ c + d \in Int
  OBVIOUS
<1>2. Same(a + b, c + d)
  BY SameSum
<1>. QED BY <1>1, <1>2, SameThrough

LEMMA SameProductOf ==
  ASSUME NEW x \in Int, NEW a \in Int, NEW b \in Int, NEW c \in Int, NEW d \in Int,
         Same(x, a * b), Same(a, c), Same(b, d)
  PROVE  Same(x, c * d)
<1>1. a * b \in Int /\ c * d \in Int
  OBVIOUS
<1>2. Same(a * b, c * d)
  BY SameProduct
<1>. QED BY <1>1, <1>2, SameThrough

\* s times the inverse of d, times d.
LEMMA SlopeOf ==
  ASSUME NEW m \in Int, NEW s \in Int, NEW n \in Int, NEW u \in Int, NEW d \in Int,
         Same(m, s * u), Same(s, n), Same(u * d, 1)
  PROVE  Same(m * d, n)
<1>1. Same(m * d, (s * u) * d)
  <2>1. s * u \in Int /\ Same(d, d)
    BY SameSelf
  <2>. QED BY <2>1, SameProduct
<1>2. Same(s * (u * d), n * 1)
  <2>1. u * d \in Int
    OBVIOUS
  <2>. QED BY <2>1, SameProduct
<1>3. (s * u) * d = s * (u * d) /\ n * 1 = n /\ m * d \in Int /\ s * (u * d) \in Int
  OBVIOUS
<1>. QED BY <1>1, <1>2, <1>3, SameThrough

-------------------------------------------------------------------------------
(* The device's sums                                                       *)

LEMMA InverseOf ==
  ASSUME NEW v \in Int, NEW d \in Int, Same(v, d), ~Same(d, 0)
  PROVE  /\ \A inv \in inv_mod(v) : inv \in Number /\ Same(inv * d, 1)
         /\ InvModP(v) \in Int /\ Same(InvModP(v) * d, 1)
<1>1. ~Same(v, 0)
  <2>1. SUFFICES ASSUME Same(v, 0) PROVE FALSE
    OBVIOUS
  <2>2. Same(d, v)
    BY SameBack
  <2>. QED BY <2>1, <2>2, SameThrough
<1>. DEFINE c == Reciprocal[v % P]
<1>2. v % P # 0 /\ v % P \in 1 .. P-1 /\ c \in Int /\ Same(v * c, 1)
  BY <1>1, SameZero, InverseExists
<1>3. c \in 1 .. P-1
  BY <1>2, ReciprocalFacts
<1>. HIDE DEF c
<1>4. ASSUME NEW inv \in Int, Same(inv, c) PROVE Same(inv * d, 1)
  <2>1. inv * d \in Int /\ Same(inv * d, inv * d) /\ v * c \in Int /\ c * v = v * c
    BY <1>2, SameSelf
  <2>2. Same(d, v)
    BY SameBack
  <2>3. Same(inv * d, c * v)
    BY <1>2, <1>4, <2>2, SameProduct
  <2>. QED BY <1>2, <2>1, <2>3, SameThrough
<1>5. ASSUME NEW inv \in inv_mod(v) PROVE inv \in Number /\ Same(inv * d, 1)
  <2>1. inv \in Number /\ inv % P = c /\ inv \in Int
    <3>1. v # 0 /\ v # P
      <4>1. Same(0, 0) /\ Same(P, 0)
        <5>1. 0 - 0 = 0 /\ P - 0 = P /\ P \in Int
          BY Modulus
        <5>. QED BY <5>1, DividesItself DEF Same
      <4>. QED BY <1>1, <4>1
    <3>. QED BY <1>2, <3>1, Modulus DEF inv_mod, c
  <2>2. Same(inv, c)
    <3>1. Same(inv, inv % P)
      BY <2>1, SameMod
    <3>. QED BY <2>1, <3>1
  <2>. QED BY <1>4, <2>1, <2>2
<1>6. InvModP(v) = c
  BY <1>2 DEF InvModP, c
<1>7. Same(c, c)
  BY <1>2, SameSelf
<1>. QED BY <1>2, <1>4, <1>5, <1>6, <1>7

LEMMA MirroredLost ==
  ASSUME NEW p, NEW lam, NEW x3, NEW lost, ~Mirrored(p, lam, x3, lost).harm
  PROVE  ~lost /\ ~SqrLost(lam)
BY DEF Mirrored, Result

LEMMA MirroredCorrect ==
  ASSUME NEW p \in Affine, NEW q \in Affine, NEW lam \in Number, NEW x3, NEW lost,
         ~Mirrored(p, lam, x3, lost).harm,
         x3 \in Int => Same(x3, ((lam * lam) - p[1]) - q[1])
  PROVE  Mirrored(p, lam, x3, lost).point = Third(p, q, lam)
<1>. DEFINE dx == sub_mod(p[1], x3)
            w  == mul_mod(lam, dx)
            y  == sub_mod(w, p[2])
<1>0. /\ p[1] \in Residue /\ p[2] \in Residue /\ q[1] \in Int
      /\ p[1] \in Int /\ p[2] \in Int /\ p[1] \in Number /\ lam \in Int
  BY AffineFacts, Modulus
<1>1. /\ Mirrored(p, lam, x3, lost).point = <<x3, y>>
      /\ x3 \in Residue /\ y \in Residue /\ ~MulLost(lam, dx)
  BY DEF Mirrored, Result
<1>2. x3 \in Int /\ Same(x3, ((lam * lam) - p[1]) - q[1])
  BY <1>1, Modulus
<1>3. dx \in Number /\ dx \in Int /\ Same(dx, p[1] - x3)
  BY <1>0, <1>1, SubFacts, Modulus
<1>. HIDE DEF dx
<1>4. w \in Number /\ w \in Int /\ Same(w, lam * dx)
  BY <1>1, <1>3, MulFacts, Modulus
<1>. HIDE DEF w
<1>5. y \in Int /\ Same(y, w - p[2])
  BY <1>0, <1>4, SubFacts, Modulus
<1>. HIDE DEF y
<1>. DEFINE e == p[1] - x3
            l == lam * e
<1>6. e \in Int /\ Same(dx, e)
  BY <1>0, <1>2, <1>3
<1>. HIDE DEF e
<1>7. l \in Int /\ Same(w, l)
  <2>1. l \in Int /\ Same(lam, lam)
    BY <1>0, <1>6, SameSelf
  <2>. QED BY <1>0, <1>3, <1>4, <1>6, <2>1, SameProductOf
<1>. HIDE DEF l
<1>8. Same(y, l - p[2])
  BY <1>0, <1>4, <1>5, <1>7, SameSelf, SameDifferenceOf
<1>9. Same(y, (lam * (p[1] - x3)) - p[2])
  BY <1>8 DEF l, e
<1>10. x3 \in Residue /\ y \in Residue
  BY <1>1
<1>11. <<x3, y>> = Third(p, q, lam)
  <2>. HIDE DEF y
  <2>1. lam \in Int
    BY <1>0
  <2>2. Same(x3, ((lam * lam) - p[1]) - q[1])
    BY <1>2
  <2>3. \A z \in Residue : Same(z, (lam * (p[1] - x3)) - p[2]) => <<x3, z>> = Third(p, q, lam)
    BY <1>10, <2>1, <2>2, ThirdIs
  <2>. QED BY <1>9, <1>10, <2>3
<1>. QED BY <1>1, <1>11

LEMMA TangentCorrect ==
  ASSUME NEW p \in Affine, NEW inv \in Number, Same(inv * (2 * p[2]), 1), ~Tangent(p, inv).lost
  PROVE  /\ Tangent(p, inv).slope \in Number
         /\ Same(Tangent(p, inv).slope * (2 * p[2]), 3 * p[1] * p[1])
<1>. DEFINE a     == p[1]
            d     == 2 * p[2]
            x2    == sqr_mod(a)
            two   == add_mod(x2, x2)
            three == add_mod(two, x2)
            lam   == mul_mod(three, inv)
<1>0. a \in Number /\ a \in Int /\ d \in Int /\ inv \in Int /\ Number \subseteq Int
  BY AffineFacts, Modulus
<1>1. /\ Tangent(p, inv).slope = lam
      /\ ~SqrLost(a) /\ ~SumLost(x2, x2) /\ ~SumLost(two, x2) /\ ~MulLost(three, inv)
  BY DEF Tangent
<1>2. 3 * p[1] * p[1] = 3 * (a * a)
  BY <1>0
<1>3. Same(inv * d, 1)
  OBVIOUS
<1>. HIDE DEF a, d
<1>4. x2 \in Number /\ x2 \in Int /\ Same(x2, a * a)
  BY <1>0, <1>1, SqrFacts
<1>. HIDE DEF x2
<1>5. two \in Number /\ two \in Int /\ Same(two, x2 + x2)
  BY <1>0, <1>1, <1>4, AddFacts
<1>. HIDE DEF two
<1>6. three \in Number /\ three \in Int /\ Same(three, two + x2)
  BY <1>0, <1>1, <1>4, <1>5, AddFacts
<1>. HIDE DEF three
<1>7. lam \in Number /\ lam \in Int /\ Same(lam, three * inv)
  BY <1>0, <1>1, <1>6, MulFacts
<1>. HIDE DEF lam
<1>. DEFINE v == a * a
<1>8. v \in Int /\ v + v \in Int /\ Same(x2, v) /\ 3 * v = (v + v) + v
  BY <1>0, <1>4
<1>. HIDE DEF v
<1>9. Same(two, v + v)
  BY <1>4, <1>5, <1>8, SameSumOf
<1>10. Same(three, (v + v) + v)
  BY <1>4, <1>5, <1>6, <1>8, <1>9, SameSumOf
<1>11. (v + v) + v \in Int
  BY <1>8
<1>12. Same(lam * d, (v + v) + v)
  BY <1>0, <1>3, <1>6, <1>7, <1>10, <1>11, SlopeOf
<1>. QED BY <1>1, <1>2, <1>7, <1>8, <1>12 DEF v, d

LEMMA PointDoubleCorrect ==
  ASSUME NEW p \in Affine, NEW inv \in inv_mod(add_mod(p[2], p[2])), ~Same(2 * p[2], 0),
         ~pointDoubleAffine(p, inv).harm
  PROVE  pointDoubleAffine(p, inv).point = Plus(p, p)
<1>. DEFINE d   == 2 * p[2]
            v   == add_mod(p[2], p[2])
            lam == Tangent(p, inv).slope
            b   == add_mod(p[1], p[1])
            s   == sqr_mod(lam)
            x3  == sub_mod(s, b)
<1>0. /\ p[1] \in Residue /\ p[2] \in Residue /\ p[1] \in Number /\ p[2] \in Number
      /\ p[1] \in Int /\ p[2] \in Int /\ d \in Int /\ p[2] + p[2] = d /\ Number \subseteq Int
  BY AffineFacts, Modulus
<1>1. v \in Int /\ Same(v, d)
  <2>1. add_mod(p[2], p[2]) \in Number /\ Same(add_mod(p[2], p[2]), p[2] + p[2])
    BY <1>0, AddFacts
  <2>. QED BY <1>0, <2>1
<1>. HIDE DEF v
<1>2. inv \in Number /\ Same(inv * d, 1)
  <2>1. inv \in inv_mod(v) /\ ~Same(d, 0)
    BY DEF v
  <2>. HIDE DEF d
  <2>. QED BY <1>0, <1>1, <2>1, InverseOf
<1>3. pointDoubleAffine(p, inv) = Mirrored(p, lam, x3, Tangent(p, inv).lost)
  BY DEF pointDoubleAffine
<1>4. ~Tangent(p, inv).lost /\ ~SqrLost(lam)
  BY <1>3, MirroredLost, Zenon
<1>5. lam \in Number /\ lam \in Int /\ Same(lam * d, 3 * p[1] * p[1])
  BY <1>0, <1>2, <1>4, TangentCorrect
<1>. HIDE DEF lam
<1>6. b \in Residue /\ b \in Int /\ Same(b, p[1] + p[1])
  BY <1>0, AddFacts, Modulus
<1>. HIDE DEF b
<1>7. s \in Number /\ s \in Int /\ Same(s, lam * lam)
  BY <1>0, <1>4, <1>5, SqrFacts
<1>. HIDE DEF s
<1>8. x3 \in Int /\ Same(x3, s - b)
  BY <1>0, <1>6, <1>7, SubFacts
<1>. HIDE DEF x3
<1>9. Same(x3, ((lam * lam) - p[1]) - p[1])
  <2>1. lam * lam \in Int /\ p[1] + p[1] \in Int /\ ((lam * lam) - p[1]) - p[1] = (lam * lam) - (p[1] + p[1])
    BY <1>0, <1>5
  <2>2. Same(x3, (lam * lam) - (p[1] + p[1]))
    BY <1>6, <1>7, <1>8, <2>1, SameDifferenceOf
  <2>. QED BY <2>1, <2>2
<1>10. Mirrored(p, lam, x3, Tangent(p, inv).lost).point = Third(p, p, lam)
  BY <1>3, <1>5, <1>9, MirroredCorrect
<1>11. Plus(p, p) = Third(p, p, lam)
  BY <1>5, TangentIs
<1>. QED BY <1>3, <1>10, <1>11

LEMMA PointAddCorrect ==
  ASSUME NEW p \in Points, NEW q \in Points, p # Zero, q # Zero, p = q => ~Same(2 * p[2], 0),
         NEW inv \in inv_mod(Denominator(p, q)), ~pointAddAffine(p, q, inv).harm
  PROVE  pointAddAffine(p, q, inv).point = Plus(p, q)
<1>0. /\ p \in Affine /\ q \in Affine
      /\ p[1] \in Residue /\ p[2] \in Residue /\ q[1] \in Residue /\ q[2] \in Residue
      /\ p[1] \in Number /\ p[2] \in Number /\ q[1] \in Number /\ q[2] \in Number
      /\ p[1] \in Int /\ p[2] \in Int /\ q[1] \in Int /\ q[2] \in Int /\ Number \subseteq Int
  BY PointFacts, AffineFacts, Modulus
<1>1. CASE p = q
  <2>1. inv \in inv_mod(add_mod(p[2], p[2])) /\ pointAddAffine(p, q, inv) = pointDoubleAffine(p, inv)
    BY <1>1 DEF Denominator, SamePoint, pointAddAffine
  <2>2. pointDoubleAffine(p, inv).point = Plus(p, p)
    BY <1>0, <1>1, <2>1, PointDoubleCorrect
  <2>. QED BY <1>1, <2>1, <2>2
<1>2. CASE p # q /\ p[1] = q[1]
  <2>1. pointAddAffine(p, q, inv).point = Zero
    BY <1>2 DEF SamePoint, pointAddAffine, Exactly
  <2>2. (p[2] + q[2]) % P = 0
    BY <1>2, SameXPoints
  <2>. QED BY <1>2, <2>1, <2>2 DEF Plus
<1>3. CASE p[1] # q[1]
  <2>. DEFINE v   == sub_mod(q[1], p[1])
              d   == q[1] - p[1]
              e   == q[2] - p[2]
              dy  == sub_mod(q[2], p[2])
              lam == mul_mod(dy, inv)
              s   == sqr_mod(lam)
              w   == sub_mod(s, p[1])
              x3  == sub_mod(w, q[1])
  <2>1. inv \in inv_mod(v) /\ pointAddAffine(p, q, inv) = Mirrored(p, lam, x3, MulLost(dy, inv))
    BY <1>3 DEF Denominator, SamePoint, pointAddAffine
  <2>2. ~MulLost(dy, inv) /\ ~SqrLost(lam)
    BY <2>1, MirroredLost, Zenon
  <2>3. d \in Int /\ e \in Int /\ ~Same(d, 0)
    BY <1>0, <1>3, DifferentResidues
  <2>4. v \in Int /\ Same(v, d)
    BY <1>0, SubFacts
  <2>. HIDE DEF v
  <2>5. inv \in Number /\ inv \in Int /\ Same(inv * d, 1)
    <3>. HIDE DEF d
    <3>1. inv \in Number /\ Same(inv * d, 1)
      BY <2>1, <2>3, <2>4, InverseOf
    <3>. QED BY <1>0, <3>1
  <2>6. dy \in Number /\ dy \in Int /\ Same(dy, e)
    BY <1>0, SubFacts
  <2>. HIDE DEF dy
  <2>7. lam \in Number /\ lam \in Int /\ Same(lam, dy * inv)
    BY <1>0, <2>2, <2>5, <2>6, MulFacts
  <2>. HIDE DEF lam
  <2>8. Same(lam * d, e)
    <3>. HIDE DEF d, e
    <3>. QED BY <2>3, <2>5, <2>6, <2>7, SlopeOf
  <2>9. s \in Number /\ s \in Int /\ Same(s, lam * lam)
    BY <1>0, <2>2, <2>7, SqrFacts
  <2>. HIDE DEF s
  <2>10. w \in Number /\ w \in Int /\ Same(w, s - p[1])
    BY <1>0, <2>9, SubFacts
  <2>. HIDE DEF w
  <2>11. x3 \in Int /\ Same(x3, w - q[1])
    BY <1>0, <2>10, SubFacts
  <2>. HIDE DEF x3
  <2>12. Same(x3, ((lam * lam) - p[1]) - q[1])
    <3>1. lam * lam \in Int /\ (lam * lam) - p[1] \in Int
      BY <1>0, <2>7
    <3>2. Same(w, (lam * lam) - p[1])
      BY <1>0, <2>9, <2>10, <3>1, SameSelf, SameDifferenceOf
    <3>. QED BY <1>0, <2>10, <2>11, <3>1, <3>2, SameSelf, SameDifferenceOf
  <2>13. Mirrored(p, lam, x3, MulLost(dy, inv)).point = Third(p, q, lam)
    BY <1>0, <2>1, <2>7, <2>12, MirroredCorrect
  <2>14. Plus(p, q) = Third(p, q, lam)
    BY <1>0, <1>3, <2>7, <2>8, ChordIs
  <2>. QED BY <2>1, <2>13, <2>14
<1>. QED BY <1>1, <1>2, <1>3

-------------------------------------------------------------------------------
(* The host's sums                                                         *)

LEMMA HostThirdLost ==
  ASSUME NEW p, NEW q, NEW lam, NEW lost, ~HostThird(p, q, lam, lost).harm
  PROVE  ~lost /\ lam \in Number
BY DEF HostThird, Result, LimbLost

LEMMA ResultFacts ==
  ASSUME NEW x, NEW y, NEW lost, ~Result(x, y, lost).harm
  PROVE  ~lost /\ x \in Residue /\ y \in Residue /\ Result(x, y, lost).point = <<x, y>>
BY DEF Result

\* Mirrored at the other end of the line.
LEMMA HostThirdCorrect ==
  ASSUME NEW p \in Affine, NEW q \in Affine, NEW lam \in Int, NEW lost,
         ~HostThird(p, q, lam, lost).harm,
         Same(lam * (q[1] - p[1]), q[2] - p[2])
  PROVE  HostThird(p, q, lam, lost).point = Third(p, q, lam)
<1>. DEFINE s  == HostProduct(lam, lam)
            w  == SubModP(s, p[1])
            x3 == SubModP(w, q[1])
            dx == SubModP(q[1], x3)
            z  == HostProduct(dx, lam)
            y  == SubModP(z, q[2])
            ll == lam * lam
            a  == (lam * (p[1] - x3)) - p[2]
            b  == (lam * (q[1] - x3)) - q[2]
            e  == q[1] - x3
            l  == lam * e
<1>0. p[1] \in Int /\ p[2] \in Int /\ q[1] \in Int /\ q[2] \in Int
  BY AffineFacts
<1>1. HostThird(p, q, lam, lost) = Result(x3, y, lost \/ LimbLost(dx, lam))
  BY DEF HostThird
<1>2. /\ HostThird(p, q, lam, lost).point = <<x3, y>>
      /\ x3 \in Residue /\ y \in Residue /\ ~LimbLost(dx, lam)
  <2>. HIDE DEF x3, y, dx
  <2>1. ~(lost \/ LimbLost(dx, lam)) /\ x3 \in Residue /\ y \in Residue
        /\ Result(x3, y, lost \/ LimbLost(dx, lam)).point = <<x3, y>>
    BY <1>1, ResultFacts, Zenon
  <2>. QED BY <1>1, <2>1
<1>3. ~LimbLost(lam, lam)
  BY <1>2 DEF LimbLost
<1>4. s \in Int /\ Same(s, ll)
  BY <1>3, HostProductFacts
<1>5. ll \in Int /\ ll - p[1] \in Int
  BY <1>0
<1>. HIDE DEF s
<1>6. w \in Int /\ Same(w, s - p[1])
  BY <1>0, <1>4, HostSumFacts
<1>. HIDE DEF w
<1>7. x3 \in Int /\ Same(x3, w - q[1])
  BY <1>0, <1>6, HostSumFacts
<1>. HIDE DEF x3
<1>8. Same(x3, (ll - p[1]) - q[1])
  <2>. HIDE DEF ll
  <2>1. Same(w, ll - p[1])
    BY <1>0, <1>4, <1>5, <1>6, SameSelf, SameDifferenceOf
  <2>2. Same(q[1], q[1])
    BY <1>0, SameSelf
  <2>. DEFINE u == ll - p[1]
  <2>3. u \in Int /\ Same(w, u)
    BY <1>5, <2>1
  <2>. HIDE DEF u
  <2>4. Same(x3, u - q[1])
    BY <1>0, <1>6, <1>7, <2>2, <2>3, SameDifferenceOf
  <2>. QED BY <2>4 DEF u
<1>9. dx \in Int /\ Same(dx, e) /\ e \in Int
  <2>1. e \in Int
    BY <1>0, <1>7
  <2>2. dx \in Int /\ Same(dx, q[1] - x3)
    BY <1>0, <1>7, HostSumFacts
  <2>. QED BY <2>1, <2>2
<1>. HIDE DEF dx
<1>10. z \in Int /\ Same(z, dx * lam)
  BY <1>2, <1>9, HostProductFacts
<1>. HIDE DEF z
<1>11. y \in Int /\ Same(y, z - q[2])
  BY <1>0, <1>10, HostSumFacts
<1>. HIDE DEF y
<1>12. Same(z, l) /\ l \in Int
  <2>. HIDE DEF e
  <2>1. e * lam = lam * e /\ e * lam \in Int
    BY <1>9
  <2>2. Same(z, e * lam)
    BY <1>9, <1>10, SameSelf, SameProductOf
  <2>. QED BY <2>1, <2>2
<1>13. Same(y, l - q[2])
  <2>. HIDE DEF l
  <2>. QED BY <1>0, <1>10, <1>11, <1>12, SameSelf, SameDifferenceOf
<1>14. Same(y, a)
  <2>1. a \in Int /\ b \in Int /\ b - a = (lam * (q[1] - p[1])) - (q[2] - p[2]) /\ b = l - q[2]
    BY <1>0, <1>7
  <2>2. Same(b, a)
    BY <2>1 DEF Same
  <2>3. Same(y, b)
    BY <1>13, <2>1
  <2>. HIDE DEF a, b
  <2>. QED BY <1>11, <2>1, <2>2, <2>3, SameThrough
<1>15. /\ Same(x3, ((lam * lam) - p[1]) - q[1])
       /\ Same(y, (lam * (p[1] - x3)) - p[2])
  BY <1>8, <1>14
<1>16. \A u \in Residue : Same(u, (lam * (p[1] - x3)) - p[2]) => <<x3, u>> = Third(p, q, lam)
  <2>. HIDE DEF a, b, e, l, ll
  <2>1. x3 \in Residue
    BY <1>2
  <2>. QED BY <1>15, <2>1, ThirdIs
<1>. QED BY <1>2, <1>15, <1>16

LEMMA AddPointsCorrect ==
  ASSUME NEW p \in Affine, NEW q \in Affine, p[1] # q[1], ~AddPoints(p, q).harm
  PROVE  AddPoints(p, q).point = Plus(p, q)
<1>. DEFINE v   == SubModP(q[1], p[1])
            d   == q[1] - p[1]
            e   == q[2] - p[2]
            dx  == InvModP(v)
            dy  == SubModP(q[2], p[2])
            lam == HostProduct(dy, dx)
<1>0. /\ p[1] \in Residue /\ q[1] \in Residue
      /\ p[1] \in Int /\ p[2] \in Int /\ q[1] \in Int /\ q[2] \in Int
  BY AffineFacts
<1>1. AddPoints(p, q) = HostThird(p, q, lam, LimbLost(dy, dx))
  BY DEF AddPoints
<1>2. ~LimbLost(dy, dx)
  BY <1>1, HostThirdLost, Zenon
<1>3. d \in Int /\ e \in Int /\ ~Same(d, 0)
  BY <1>0, DifferentResidues
<1>4. v \in Int /\ Same(v, d)
  BY <1>0, HostSumFacts
<1>. HIDE DEF v
<1>5. dx \in Int /\ Same(dx * d, 1)
  <2>. HIDE DEF d
  <2>. QED BY <1>3, <1>4, InverseOf
<1>. HIDE DEF dx
<1>6. dy \in Int /\ Same(dy, e)
  BY <1>0, HostSumFacts
<1>. HIDE DEF dy
<1>7. lam \in Int /\ Same(lam, dy * dx)
  BY <1>2, <1>5, <1>6, HostProductFacts
<1>. HIDE DEF lam
<1>8. Same(lam * d, e)
  <2>. HIDE DEF d, e
  <2>. QED BY <1>3, <1>5, <1>6, <1>7, SlopeOf
<1>9. HostThird(p, q, lam, LimbLost(dy, dx)).point = Third(p, q, lam)
  BY <1>1, <1>7, <1>8, HostThirdCorrect
<1>10. Plus(p, q) = Third(p, q, lam)
  BY <1>7, <1>8, ChordIs
<1>. QED BY <1>1, <1>9, <1>10

LEMMA DoublePointCorrect ==
  ASSUME NEW p \in Affine, ~Same(2 * p[2], 0), ~DoublePoint(p).harm
  PROVE  DoublePoint(p).point = Plus(p, p)
<1>. DEFINE a     == p[1]
            d     == 2 * p[2]
            v     == AddModP(p[2], p[2])
            t1    == InvModP(v)
            t2    == HostProduct(a, a)
            two   == AddModP(t2, t2)
            three == AddModP(two, t2)
            lam   == HostProduct(three, t1)
            n     == a * a
<1>0. a \in Int /\ p[2] \in Int /\ d \in Int /\ p[2] + p[2] = d /\ 3 * p[1] * p[1] = 3 * n /\ n \in Int
  BY AffineFacts
<1>1. DoublePoint(p) = HostThird(p, p, lam, LimbLost(a, a) \/ LimbLost(three, t1))
  BY DEF DoublePoint
<1>2. ~LimbLost(a, a) /\ ~LimbLost(three, t1)
  <2>1. ~(LimbLost(a, a) \/ LimbLost(three, t1))
    BY <1>1, HostThirdLost, Zenon
  <2>. QED BY <2>1
<1>3. v \in Int /\ Same(v, d)
  <2>1. AddModP(p[2], p[2]) \in Int /\ Same(AddModP(p[2], p[2]), p[2] + p[2])
    BY <1>0, HostSumFacts
  <2>. QED BY <1>0, <2>1
<1>. HIDE DEF v
<1>4. t1 \in Int /\ Same(t1 * d, 1)
  <2>1. ~Same(d, 0)
    OBVIOUS
  <2>. HIDE DEF d
  <2>. QED BY <1>0, <1>3, <2>1, InverseOf
<1>. HIDE DEF t1
<1>5. t2 \in Int /\ Same(t2, n)
  BY <1>0, <1>2, HostProductFacts
<1>. HIDE DEF t2, n
<1>6. two \in Int /\ Same(two, t2 + t2)
  BY <1>5, HostSumFacts
<1>. HIDE DEF two
<1>7. three \in Int /\ Same(three, two + t2)
  BY <1>5, <1>6, HostSumFacts
<1>. HIDE DEF three
<1>8. lam \in Int /\ Same(lam, three * t1)
  BY <1>2, <1>4, <1>7, HostProductFacts
<1>. HIDE DEF lam
<1>9. n + n \in Int /\ (n + n) + n \in Int /\ 3 * n = (n + n) + n
  BY <1>0
<1>10. Same(two, n + n)
  BY <1>0, <1>5, <1>6, SameSumOf
<1>11. Same(three, (n + n) + n)
  BY <1>0, <1>5, <1>6, <1>7, <1>9, <1>10, SameSumOf
<1>12. Same(lam * d, (n + n) + n)
  <2>. HIDE DEF d
  <2>. QED BY <1>0, <1>4, <1>7, <1>8, <1>9, <1>11, SlopeOf
<1>13. Plus(p, p) = Third(p, p, lam)
  <2>1. Same(lam * (2 * p[2]), 3 * p[1] * p[1])
    BY <1>0, <1>9, <1>12
  <2>. QED BY <1>8, <2>1, TangentIs
<1>14. Same(lam * (p[1] - p[1]), p[2] - p[2])
  <2>1. lam * (p[1] - p[1]) = 0 /\ p[2] - p[2] = 0
    BY <1>0, <1>8
  <2>. QED BY <2>1, SameSelf
<1>15. DoublePoint(p).point = Third(p, p, lam)
  <2>. DEFINE lost == LimbLost(a, a) \/ LimbLost(three, t1)
  <2>1. ~HostThird(p, p, lam, lost).harm
    BY <1>1
  <2>. HIDE DEF lost
  <2>2. HostThird(p, p, lam, lost).point = Third(p, p, lam)
    BY <1>8, <1>14, <2>1, HostThirdCorrect
  <2>. QED BY <1>1, <2>2 DEF lost
<1>. QED BY <1>13, <1>15

-------------------------------------------------------------------------------
(* Bits                                                                    *)

Doubling(f, n) == f = [l \in 0..n |-> IF l = 0 THEN 1 ELSE 2 * f[l-1]]

LEMMA DoublingExists ==
  ASSUME NEW n \in Nat
  PROVE  \E f : Doubling(f, n)
<1>. DEFINE T == {l \in Nat : \E f : Doubling(f, l)}
<1>1. 0 \in T
  <2>1. Doubling([l \in 0..0 |-> 1], 0)
    BY DEF Doubling
  <2>. QED BY <2>1
<1>2. ASSUME NEW j \in Nat, j \in T PROVE j + 1 \in T
  <2>1. PICK f : Doubling(f, j)
    BY <1>2
  <2>. DEFINE g == [l \in 0..j+1 |-> IF l = j + 1 THEN 2 * f[j] ELSE f[l]]
              h == [l \in 0..j+1 |-> IF l = 0 THEN 1 ELSE 2 * g[l-1]]
  <2>2. ASSUME NEW l \in 0..j+1 PROVE g[l] = h[l]
    <3>1. CASE l = j + 1
      <4>1. l # 0 /\ l - 1 = j /\ j \in 0..j+1 /\ j # j + 1
        BY <3>1
      <4>. QED BY <3>1, <4>1
    <3>2. CASE l \in 0..j /\ l # 0
      <4>1. l - 1 \in 0..j+1 /\ l - 1 # j + 1 /\ l # j + 1
        BY <3>2
      <4>2. f[l] = 2 * f[l-1]
        BY <2>1, <3>2 DEF Doubling
      <4>. QED BY <3>2, <4>1, <4>2
    <3>3. CASE l = 0
      <4>1. f[0] = 1 /\ 0 # j + 1
        BY <2>1 DEF Doubling
      <4>. QED BY <3>3, <4>1
    <3>. QED BY <3>1, <3>2, <3>3
  <2>3. g = h
    BY <2>2
  <2>. HIDE DEF g
  <2>4. Doubling(g, j + 1)
    BY <2>3 DEF Doubling
  <2>. QED BY <2>4
<1>. HIDE DEF T
<1>3. n \in T
  BY <1>1, <1>2, Induction
<1>. QED BY <1>3 DEF T

LEMMA DoublingSame ==
  ASSUME NEW n \in Nat, NEW f, NEW g, Doubling(f, n), Doubling(g, n + 1)
  PROVE  \A l \in 0..n : f[l] = g[l]
<1>. DEFINE T == {l \in 0..n : f[l] = g[l]}
<1>1. 0 \in T
  BY DEF Doubling
<1>2. ASSUME NEW l \in 0..n-1, l \in T PROVE l + 1 \in T
  <2>1. l + 1 \in 0..n /\ l + 1 \in 0..n+1 /\ l + 1 # 0 /\ (l + 1) - 1 = l
    OBVIOUS
  <2>2. f[l+1] = 2 * f[l] /\ g[l+1] = 2 * g[l]
    BY <2>1 DEF Doubling
  <2>. QED BY <1>2, <2>1, <2>2
<1>. HIDE DEF T
<1>3. \A l \in 0..n : l \in T
  BY <1>1, <1>2, UpTo
<1>. QED BY <1>3 DEF T

LEMMA Pow2Facts ==
  /\ Pow2[0] = 1
  /\ \A b \in Nat : Pow2[b] \in Nat \ {0} /\ Pow2[b] \in Nat /\ Pow2[b+1] = 2 * Pow2[b]
<1>. DEFINE F(n) == CHOOSE f : Doubling(f, n)
            h == [n \in Nat |-> F(n)[n]]
            Body(f) == [b \in Nat |-> IF b = 0 THEN 1 ELSE 2 * f[b-1]]
<1>1. \A n \in Nat : Doubling(F(n), n)
  BY DoublingExists
<1>. HIDE DEF F
<1>2. ASSUME NEW b \in Nat PROVE h[b] = IF b = 0 THEN 1 ELSE 2 * h[b-1]
  <2>1. CASE b = 0
    <3>1. F(0)[0] = 1
      BY <1>1 DEF Doubling
    <3>. QED BY <2>1, <3>1
  <2>2. CASE b # 0
    <3>1. b - 1 \in Nat /\ (b - 1) + 1 = b /\ b - 1 \in 0..b-1 /\ b \in 0..b
      BY <2>2
    <3>2. F(b)[b] = 2 * F(b)[b-1]
      BY <1>1, <2>2, <3>1 DEF Doubling
    <3>3. F(b-1)[b-1] = F(b)[b-1]
      BY <1>1, <3>1, DoublingSame
    <3>. QED BY <2>2, <3>1, <3>2, <3>3
  <2>. QED BY <2>1, <2>2
<1>3. h = Body(h)
  BY <1>2
<1>. HIDE DEF h
<1>4. Pow2 = Body(Pow2)
  BY <1>3 DEF Pow2
<1>5. Pow2[0] = 1
  BY <1>4
<1>6. ASSUME NEW b \in Nat PROVE Pow2[b+1] = 2 * Pow2[b]
  <2>1. b + 1 \in Nat /\ b + 1 # 0 /\ (b + 1) - 1 = b
    OBVIOUS
  <2>. QED BY <1>4, <2>1
<1>. DEFINE T == {b \in Nat : Pow2[b] \in Nat /\ Pow2[b] > 0}
<1>7. 0 \in T
  BY <1>5
<1>8. ASSUME NEW b \in Nat, b \in T PROVE b + 1 \in T
  BY <1>6, <1>8
<1>. HIDE DEF T
<1>9. Nat \subseteq T
  BY <1>7, <1>8, Induction
<1>10. \A b \in Nat : Pow2[b] \in Nat /\ Pow2[b] > 0
  BY <1>9 DEF T
<1>. QED BY <1>5, <1>6, <1>10

LEMMA BelowPower ==
  ASSUME NEW n \in Nat
  PROVE  n < Pow2[n]
<1>. DEFINE T == {l \in Nat : l < Pow2[l]}
<1>1. 0 \in T
  BY Pow2Facts
<1>2. ASSUME NEW l \in Nat, l \in T PROVE l + 1 \in T
  <2>1. Pow2[l+1] = 2 * Pow2[l] /\ Pow2[l] \in Nat /\ l < Pow2[l]
    BY <1>2, Pow2Facts
  <2>. QED BY <2>1
<1>. HIDE DEF T
<1>3. n \in T
  BY <1>1, <1>2, Induction
<1>. QED BY <1>3 DEF T

LEMMA BitsFacts ==
  ASSUME NEW n \in Nat \ {0}
  PROVE  /\ Bits(n) \in Nat \ {0} /\ n < Pow2[Bits(n)] /\ Pow2[Bits(n) - 1] <= n
         /\ \A b \in Nat : b < Bits(n) => Pow2[b] <= n
<1>. DEFINE T == {b \in Nat : n < Pow2[b]}
            Q(b) == n < Pow2[b] /\ (b = 0 \/ Pow2[b-1] <= n)
<1>1. n \in T
  BY BelowPower
<1>2. PICK b \in T : \A c \in T : b <= c
  <2>1. T \subseteq Nat /\ T # {}
    BY <1>1
  <2>. HIDE DEF T
  <2>. QED BY <2>1, LeastMember
<1>3. b \in Nat /\ b <= n /\ n < Pow2[b]
  BY <1>1, <1>2
<1>4. b # 0
  BY <1>3, Pow2Facts
<1>5. b - 1 \in Nat /\ Pow2[b-1] <= n
  <2>1. b - 1 \in Nat /\ ~(b - 1 \in T)
    BY <1>2, <1>3, <1>4
  <2>2. Pow2[b-1] \in Nat
    BY <2>1, Pow2Facts
  <2>. QED BY <2>1, <2>2
<1>6. b \in 0..n /\ Q(b)
  BY <1>3, <1>5
<1>7. Bits(n) \in 0..n /\ Q(Bits(n))
  <2>1. Bits(n) = CHOOSE c \in 0..n : Q(c)
    BY DEF Bits
  <2>. HIDE DEF Q
  <2>. QED BY <1>6, <2>1
<1>8. Bits(n) # 0
  BY <1>7, Pow2Facts
<1>9. ASSUME NEW c \in Nat, c < Bits(n) PROVE Pow2[c] <= n
  <2>. DEFINE e == Bits(n) - 1
              U == {l \in 0..e : Pow2[l] <= n}
  <2>1. e \in Nat /\ c \in 0..e
    BY <1>7, <1>8, <1>9
  <2>2. e \in U
    BY <1>7, <1>8, <2>1
  <2>. HIDE DEF e
  <2>3. ASSUME NEW l \in 0..e-1, l + 1 \in U PROVE l \in U
    <3>1. l \in Nat /\ Pow2[l+1] = 2 * Pow2[l] /\ Pow2[l] \in Nat /\ Pow2[l+1] <= n /\ l \in 0..e
      BY <2>1, <2>3, Pow2Facts
    <3>. QED BY <3>1
  <2>. HIDE DEF U
  <2>4. c \in U
    BY <2>1, <2>2, <2>3, DownFrom
  <2>. QED BY <2>4 DEF U
<1>. QED BY <1>7, <1>8, <1>9

LEMMA DivIs ==
  ASSUME NEW n \in Nat \ {0}, NEW a \in Int, NEW r \in 0..n-1, NEW j \in Int, a = (n * j) + r
  PROVE  a \div n = j /\ a % n = r
<1>. DEFINE q == a \div n
            s == a % n
<1>1. q \in Int /\ s \in 0..n-1 /\ a = n * q + s
  BY DivModFacts
<1>. HIDE DEF q, s
<1>2. n * (j - q) = s - r
  BY <1>1
<1>3. j - q = 0
  BY <1>1, <1>2, NoMultiple
<1>4. s = r /\ q = j
  BY <1>1, <1>2, <1>3
<1>. QED BY <1>4 DEF s, q

\* One more bit, from above and from below.
LEMMA ShiftFacts ==
  ASSUME NEW n \in Nat, NEW b \in Nat
  PROVE  /\ n \div Pow2[b] \in Nat /\ n % Pow2[b] \in 0 .. Pow2[b] - 1
         /\ n \div Pow2[b] = 2 * (n \div Pow2[b+1]) + (IF Bit(n, b) THEN 1 ELSE 0)
         /\ n % Pow2[b+1] = (n % Pow2[b]) + (IF Bit(n, b) THEN Pow2[b] ELSE 0)
         /\ n < Pow2[b] => n \div Pow2[b] = 0 /\ n % Pow2[b] = n
<1>. DEFINE w == Pow2[b]
            q == n \div w
            r == n % w
            h == q \div 2
            c == q % 2
<1>0. w \in Nat \ {0} /\ Pow2[b+1] = 2 * w /\ n \in Int /\ 2 \in Nat \ {0}
  BY Pow2Facts
<1>1. q \in Int /\ r \in 0..w-1 /\ n = w * q + r
  <2>. HIDE DEF w
  <2>. QED BY <1>0, DivModFacts
<1>2. Bit(n, b) <=> c = 1
  BY DEF Bit
<1>3. n < w => q = 0 /\ r = n
  <2>1. SUFFICES ASSUME n < w PROVE q = 0 /\ r = n
    OBVIOUS
  <2>. HIDE DEF w
  <2>2. n \in 0..w-1 /\ n = (w * 0) + n
    BY <1>0, <2>1
  <2>. QED BY <1>0, <2>2, DivIs
<1>. HIDE DEF w, q, r
<1>4. q >= 0
  <2>1. SUFFICES ASSUME q <= -1 PROVE FALSE
    BY <1>1
  <2>2. w * q <= -w
    BY <1>0, <1>1, <2>1
  <2>. QED BY <1>0, <1>1, <2>2
<1>5. h \in Nat /\ c \in 0..1 /\ q = 2*h + c
  BY <1>1, <1>4
<1>. HIDE DEF h, c
<1>6. n = ((2 * w) * h) + ((c * w) + r) /\ (c * w) + r \in 0..(2*w)-1
  <2>1. c = 0 \/ c = 1
    BY <1>5
  <2>2. CASE c = 0
    BY <1>0, <1>1, <1>5, <2>2
  <2>3. CASE c = 1
    BY <1>0, <1>1, <1>5, <2>3
  <2>. QED BY <2>1, <2>2, <2>3
<1>. DEFINE v == (c * w) + r
            e == 2 * w
<1>7. e \in Nat \ {0} /\ v \in 0..e-1 /\ n = (e * h) + v /\ Pow2[b+1] = e
  BY <1>0, <1>6
<1>8. (c = 1 => v = r + w) /\ (c # 1 => v = r + 0)
  BY <1>0, <1>1, <1>5
<1>. HIDE DEF v, e
<1>9. n \div e = h /\ n % e = v
  BY <1>0, <1>5, <1>7, DivIs
<1>10. q = 2 * (n \div Pow2[b+1]) + (IF Bit(n, b) THEN 1 ELSE 0)
  BY <1>2, <1>5, <1>7, <1>9
<1>11. n % Pow2[b+1] = r + (IF Bit(n, b) THEN w ELSE 0)
  BY <1>2, <1>7, <1>8, <1>9
<1>. QED BY <1>1, <1>3, <1>4, <1>10, <1>11 DEF q, r, w

-------------------------------------------------------------------------------
(* The multiplication                                                      *)

\* Where the loop over the bits is.
Looping ==
  /\ device \in BOOLEAN /\ k \in Nat /\ stage \in {"double", "add", "multiplied"}
  /\ stage # "multiplied" => bi \in Nat /\ k # 0
  /\ ~device /\ stage # "multiplied" => bi < Bits(k)

\* The sum of the host once the bit is added.
HostSum ==
  (~device /\ ~harm /\ k \in 1 .. Order-1 /\ stage = "double") => res = PointOf(k % Pow2[bi+1])

MultiplesRight == Looping /\ DevicePrefixMultiple /\ HostSuffixMultiple /\ HostSum

LEMMA DevicePart ==
  ASSUME device, Looping, DevicePrefixMultiple
  PROVE  MultiplesRight
BY DEF MultiplesRight, HostSuffixMultiple, HostSum

LEMMA DividedByOne ==
  ASSUME NEW n \in Nat
  PROVE  n \div Pow2[0] = n
<1>1. Pow2[0] = 1
  BY Pow2Facts
<1>2. 1 \in Nat \ {0} /\ n \in Int /\ 0 \in 0..0 /\ n = (1 * n) + 0
  OBVIOUS
<1>. QED BY <1>1, <1>2, DivIs

LEMMA MultiplesStart == ScalarMulInit => MultiplesRight
<1>. SUFFICES ASSUME ScalarMulInit PROVE MultiplesRight
  OBVIOUS
<1>1. device \in BOOLEAN /\ k \in Nat /\ res = Zero /\ t = G /\ ~harm
  BY ScalarAssumption DEF ScalarMulInit
<1>2. CASE k = 0
  <2>1. stage = "multiplied"
    BY <1>2 DEF ScalarMulInit
  <2>2. PointOf(k) = Zero
    BY <1>2, PointOfResidue, MultipleDefined, OrderFacts
  <2>. QED BY <1>1, <1>2, <2>1, <2>2 DEF MultiplesRight, Looping, DevicePrefixMultiple, HostSuffixMultiple, HostSum
<1>3. CASE k # 0 /\ device
  <2>1. stage = "double" /\ bi = Bits(k) - 1
    BY <1>3 DEF ScalarMulInit
  <2>2. Bits(k) \in Nat \ {0} /\ k < Pow2[Bits(k)]
    BY <1>1, <1>3, BitsFacts
  <2>3. bi \in Nat /\ bi + 1 = Bits(k)
    BY <2>1, <2>2
  <2>4. k \div Pow2[bi+1] = 0
    BY <1>1, <2>2, <2>3, ShiftFacts
  <2>5. PointOf(0) = Zero
    BY PointOfResidue, MultipleDefined, OrderFacts
  <2>6. DevicePrefixMultiple
    BY <1>1, <2>1, <2>4, <2>5 DEF DevicePrefixMultiple
  <2>7. Looping
    BY <1>1, <1>3, <2>1, <2>3 DEF Looping
  <2>. QED BY <1>3, <2>6, <2>7, DevicePart
<1>4. CASE k # 0 /\ ~device
  <2>1. stage = "add" /\ bi = 0
    BY <1>4 DEF ScalarMulInit
  <2>2. Bits(k) \in Nat \ {0}
    BY <1>1, <1>4, BitsFacts
  <2>3. bi \in Nat /\ bi < Bits(k)
    BY <2>1, <2>2
  <2>4. Pow2[bi] = 1
    BY <2>1, Pow2Facts
  <2>5. k % Pow2[bi] = 0
    BY <1>1, <2>3, <2>4, ShiftFacts
  <2>6. PointOf(0) = Zero /\ PointOf(1) = G
    BY PointOfResidue, MultipleDefined, OrderFacts, OneIsG
  <2>7. HostSuffixMultiple
    BY <1>1, <2>4, <2>5, <2>6 DEF HostSuffixMultiple
  <2>. QED BY <1>1, <1>4, <2>1, <2>3, <2>7 DEF MultiplesRight, Looping, DevicePrefixMultiple, HostSum
<1>. QED BY <1>1, <1>2, <1>3, <1>4

LEMMA DoubleKeeps ==
  ASSUME MultiplesRight, DeviceDouble
  PROVE  MultiplesRight'
<1>. DEFINE n == k \div Pow2[bi+1]
<1>1. /\ device /\ device' /\ stage = "double" /\ stage' = "add" /\ k' = k /\ bi' = bi
      /\ k \in Nat /\ k # 0 /\ bi \in Nat
  BY DEF DeviceDouble, MultiplesRight, Looping
<1>2. n \in Nat /\ 2 * n = n + n
  BY <1>1, ShiftFacts
<1>3. DevicePrefixMultiple'
  <2>1. SUFFICES ASSUME ~harm' PROVE res' = PointOf(2 * n)
    BY <1>1 DEF DevicePrefixMultiple
  <2>2. ~harm
    BY <2>1 DEF DeviceDouble, Becomes
  <2>3. res = PointOf(n)
    BY <1>1, <2>2 DEF MultiplesRight, DevicePrefixMultiple
  <2>. HIDE DEF n
  <2>4. Plus(PointOf(n), PointOf(n)) = PointOf(2 * n)
    BY <1>2, PointSum
  <2>5. CASE res = Zero
    <3>1. res' = Zero
      BY <2>5 DEF DeviceDouble, Becomes, Exactly
    <3>2. Plus(Zero, Zero) = Zero
      BY ZeroSum
    <3>. QED BY <2>3, <2>4, <2>5, <3>1, <3>2
  <2>6. CASE res # Zero
    <3>1. PICK inv \in inv_mod(add_mod(res[2], res[2])) : Becomes(pointDoubleAffine(res, inv))
      BY <2>6 DEF DeviceDouble
    <3>2. res' = pointDoubleAffine(res, inv).point /\ ~pointDoubleAffine(res, inv).harm
      BY <2>1, <3>1 DEF Becomes
    <3>3. n % Order # 0 /\ res \in Affine
      BY <1>2, <2>3, <2>6, PointReduced
    <3>4. ~Same(2 * res[2], 0)
      BY <1>2, <2>3, <3>3, NoVerticalTangent
    <3>5. res' = Plus(res, res)
      BY <3>2, <3>3, <3>4, PointDoubleCorrect
    <3>. QED BY <2>3, <2>4, <3>5
  <2>. QED BY <2>5, <2>6
<1>4. Looping'
  BY <1>1 DEF Looping
<1>. QED BY <1>1, <1>3, <1>4 DEF MultiplesRight, HostSuffixMultiple, HostSum

LEMMA AddKeeps ==
  ASSUME MultiplesRight, DeviceAdd
  PROVE  MultiplesRight'
<1>. DEFINE n == k \div Pow2[bi+1]
            m == k \div Pow2[bi]
            e == 2 * n
<1>1. /\ device /\ device' /\ stage = "add" /\ k' = k /\ bi' = bi - 1
      /\ stage' = IF bi = 0 THEN "multiplied" ELSE "double"
      /\ k \in Nat /\ k # 0 /\ bi \in Nat
  BY DEF DeviceAdd, MultiplesRight, Looping
<1>2. n \in Nat /\ m \in Nat /\ m = e + (IF Bit(k, bi) THEN 1 ELSE 0) /\ e \in Nat
  <2>1. bi + 1 \in Nat
    BY <1>1
  <2>2. n \in Nat
    BY <1>1, <2>1, ShiftFacts
  <2>3. m \in Nat /\ m = 2 * n + (IF Bit(k, bi) THEN 1 ELSE 0)
    BY <1>1, ShiftFacts
  <2>. QED BY <2>2, <2>3
<1>3. ASSUME ~harm' PROVE res' = PointOf(m)
  <2>2. ~harm
    BY <1>3 DEF DeviceAdd, Becomes
  <2>3. res = PointOf(e)
    BY <1>1, <2>2 DEF MultiplesRight, DevicePrefixMultiple
  <2>. HIDE DEF n, m, e
  <2>4. CASE ~Bit(k, bi)
    <3>1. m = e
      BY <1>2, <2>4
    <3>2. res' = res
      BY <2>4 DEF DeviceAdd
    <3>. QED BY <2>3, <3>1, <3>2
  <2>5. CASE Bit(k, bi)
    <3>1. m = e + 1
      BY <1>2, <2>5
    <3>2. PointOf(m) = Plus(res, G)
      BY <1>2, <2>3, <3>1, NextPoint
    <3>3. CASE res = Zero
      <4>1. res' = G
        BY <2>5, <3>3 DEF DeviceAdd, Becomes, Exactly
      <4>2. Plus(Zero, G) = G
        BY ZeroSum
      <4>. QED BY <3>2, <3>3, <4>1, <4>2
    <3>4. CASE res # Zero
      <4>1. PICK inv \in inv_mod(Denominator(res, G)) : Becomes(pointAddAffine(res, G, inv))
        BY <2>5, <3>4 DEF DeviceAdd
      <4>2. res' = pointAddAffine(res, G, inv).point /\ ~pointAddAffine(res, G, inv).harm
        BY <1>3, <4>1 DEF Becomes
      <4>3. 1 \in 0 .. Order-1 /\ 1 \in Nat
        BY OrderFacts
      <4>4. G = PointOf(1)
        BY <4>3, PointOfResidue, OneIsG
      <4>5. res \in Points /\ G \in Points /\ G # Zero /\ e % Order # 0
        <5>1. res \in Points
          BY <1>2, <2>3, PointTyped
        <5>2. G \in Points
          BY <4>3, <4>4, PointTyped
        <5>3. G # Zero
          BY OrderFacts, AffineFacts
        <5>4. e % Order # 0
          BY <1>2, <2>3, <3>4, PointReduced
        <5>. QED BY <5>1, <5>2, <5>3, <5>4
      <4>6. ~Same(2 * res[2], 0)
        BY <1>2, <2>3, <4>5, NoVerticalTangent
      <4>7. res' = Plus(res, G)
        BY <3>4, <4>1, <4>2, <4>5, <4>6, PointAddCorrect
      <4>. QED BY <3>2, <4>7
    <3>. QED BY <3>3, <3>4
  <2>. QED BY <2>4, <2>5
<1>4. Looping'
  BY <1>1 DEF Looping
<1>5. DevicePrefixMultiple'
  <2>1. CASE bi = 0
    <3>1. m = k
      BY <1>1, <2>1, DividedByOne
    <3>. QED BY <1>1, <1>3, <2>1, <3>1 DEF DevicePrefixMultiple
  <2>2. CASE bi # 0
    <3>1. bi' + 1 = bi
      BY <1>1
    <3>. QED BY <1>1, <1>3, <2>2, <3>1 DEF DevicePrefixMultiple
  <2>. QED BY <2>1, <2>2
<1>. QED BY <1>1, <1>4, <1>5 DEF MultiplesRight, HostSuffixMultiple, HostSum

\* The two points the host adds are neither the same nor opposite, and it never doubles infinity.
LEMMA HostNumbers ==
  ASSUME Looping, ~device, stage # "multiplied", k \in 1 .. Order-1
  PROVE  /\ k \in Nat \ {0} /\ bi \in Nat
         /\ Pow2[bi] \in 1 .. Order-1 /\ k % Pow2[bi] \in 0 .. Pow2[bi] - 1
         /\ k % Pow2[bi+1] = (k % Pow2[bi]) + (IF Bit(k, bi) THEN Pow2[bi] ELSE 0)
         /\ Bit(k, bi) => (k % Pow2[bi]) + Pow2[bi] <= k
<1>1. k \in Nat /\ k # 0 /\ bi \in Nat /\ bi < Bits(k) /\ k < Order /\ Order \in Nat
  BY OrderFacts DEF Looping
<1>. DEFINE w == Pow2[bi]
            r == k % w
            q == k \div w
            h == k \div Pow2[bi+1]
<1>2. w \in Nat \ {0} /\ w <= k
  BY <1>1, BitsFacts, Pow2Facts
<1>3. /\ q \in Nat /\ r \in 0 .. w-1
      /\ q = 2 * h + (IF Bit(k, bi) THEN 1 ELSE 0)
      /\ k % Pow2[bi+1] = r + (IF Bit(k, bi) THEN w ELSE 0)
  BY <1>1, ShiftFacts
<1>4. h \in Nat
  <2>1. bi + 1 \in Nat
    BY <1>1
  <2>. QED BY <1>1, <2>1, ShiftFacts
<1>5. k = w * q + r
  <2>1. w \in Nat \ {0} /\ k \in Int
    BY <1>1, <1>2
  <2>. HIDE DEF w
  <2>. QED BY <2>1, DivModFacts
<1>. HIDE DEF w, r, q, h
<1>6. ASSUME Bit(k, bi) PROVE r + w <= k
  <2>1. q >= 1
    BY <1>3, <1>4, <1>6
  <2>2. w * q >= w
    BY <1>2, <1>3, <2>1
  <2>. QED BY <1>1, <1>2, <1>3, <1>5, <2>2
<1>7. w \in 1 .. Order-1
  BY <1>1, <1>2
<1>. QED BY <1>1, <1>3, <1>6, <1>7 DEF r, w

LEMMA HostAddKeeps ==
  ASSUME MultiplesRight, HostAdd
  PROVE  MultiplesRight'
<1>1. /\ ~device /\ ~device' /\ device' \in BOOLEAN /\ stage = "add" /\ stage' = "double"
      /\ k' = k /\ bi' = bi /\ t' = t /\ Looping
  BY DEF HostAdd, MultiplesRight, Looping
<1>2. Looping'
  BY <1>1 DEF Looping
<1>3. ASSUME ~harm', k \in 1 .. Order-1
      PROVE  t = PointOf(Pow2[bi]) /\ res' = PointOf(k % Pow2[bi+1])
  <2>. DEFINE w == Pow2[bi]
              r == k % w
  <2>1. ~harm
    BY <1>3 DEF HostAdd, Becomes
  <2>2. t = PointOf(w) /\ res = PointOf(r)
    BY <1>1, <1>3, <2>1 DEF MultiplesRight, HostSuffixMultiple
  <2>3. /\ w \in 1 .. Order-1 /\ r \in 0 .. w-1 /\ k \in Nat
        /\ k % Pow2[bi+1] = r + (IF Bit(k, bi) THEN w ELSE 0)
        /\ Bit(k, bi) => r + w <= k
    BY <1>1, <1>3, HostNumbers
  <2>. HIDE DEF w, r
  <2>4. CASE ~Bit(k, bi)
    <3>1. k % Pow2[bi+1] = r
      BY <2>3, <2>4
    <3>2. res' = res
      BY <2>4 DEF HostAdd
    <3>. QED BY <2>2, <3>1, <3>2 DEF w
  <2>5. CASE Bit(k, bi)
    <3>1. /\ k % Pow2[bi+1] = r + w /\ r + w <= k /\ k < Order
          /\ r \in Nat /\ w \in Nat /\ w \in 0 .. Order-1 /\ r \in 0 .. Order-1 /\ r + w \in 1 .. Order-1
          /\ r # w
      BY <1>3, <2>3, <2>5, OrderFacts
    <3>2. PointOf(r + w) = Plus(res, t)
      BY <2>2, <3>1, PointSum
    <3>3. CASE res = Zero
      <4>1. res' = t
        BY <2>5, <3>3 DEF HostAdd, Becomes, Exactly
      <4>2. Plus(Zero, t) = t
        BY ZeroSum
      <4>. QED BY <2>2, <3>1, <3>2, <3>3, <4>1, <4>2 DEF w
    <3>4. CASE res # Zero
      <4>1. res' = AddPoints(res, t).point /\ ~AddPoints(res, t).harm
        BY <1>3, <2>5, <3>4 DEF HostAdd, Becomes
      <4>2. r % Order = r /\ w % Order = w /\ (r + w) % Order = r + w
        <5>1. r + w \in 0 .. Order-1
          BY <3>1
        <5>. QED BY <3>1, <5>1, PointOfResidue
      <4>3. r % Order # 0 /\ w % Order # 0
        BY <2>2, <2>3, <3>1, <3>4, <4>2, PointReduced
      <4>4. res \in Affine /\ t \in Affine
        BY <2>2, <3>1, <4>3, PointReduced
      <4>5. res[1] # t[1]
        <5>1. SUFFICES ASSUME res[1] = t[1] PROVE FALSE
          OBVIOUS
        <5>2. r % Order = w % Order \/ (r + w) % Order = 0
          BY <2>2, <3>1, <4>3, <5>1, SameX
        <5>. QED BY <3>1, <4>2, <5>2
      <4>6. res' = Plus(res, t)
        BY <4>1, <4>4, <4>5, AddPointsCorrect
      <4>. QED BY <2>2, <3>1, <3>2, <4>6 DEF w
    <3>. QED BY <3>3, <3>4
  <2>. QED BY <2>4, <2>5
<1>4. HostSuffixMultiple' /\ HostSum'
  BY <1>1, <1>3 DEF HostSuffixMultiple, HostSum
<1>5. DevicePrefixMultiple'
  BY <1>1 DEF DevicePrefixMultiple
<1>. QED BY <1>2, <1>4, <1>5 DEF MultiplesRight

LEMMA HostDoubleKeeps ==
  ASSUME MultiplesRight, HostDouble
  PROVE  MultiplesRight'
<1>1. /\ ~device /\ ~device' /\ device' \in BOOLEAN /\ stage = "double"
      /\ stage' = (IF bi + 1 = Bits(k) THEN "multiplied" ELSE "add")
      /\ k' = k /\ bi' = bi + 1 /\ res' = res /\ Looping
  BY DEF HostDouble, MultiplesRight, Looping
<1>2. bi \in Nat /\ k \in Nat /\ k # 0 /\ bi < Bits(k) /\ Bits(k) \in Nat
  <2>1. bi \in Nat /\ k \in Nat /\ k # 0 /\ bi < Bits(k)
    BY <1>1 DEF Looping
  <2>. QED BY <2>1, BitsFacts
<1>3. Looping'
  <2>1. bi + 1 # Bits(k) => bi + 1 < Bits(k)
    BY <1>2
  <2>. QED BY <1>1, <1>2, <2>1 DEF Looping
<1>4. ASSUME ~harm', k \in 1 .. Order-1
      PROVE  t' = PointOf(Pow2[bi+1]) /\ res = PointOf(k % Pow2[bi+1])
  <2>. DEFINE w == Pow2[bi]
  <2>1. ~harm
    BY <1>4 DEF HostDouble
  <2>2. t = PointOf(w) /\ res = PointOf(k % Pow2[bi+1])
    BY <1>1, <1>4, <2>1 DEF MultiplesRight, HostSuffixMultiple, HostSum
  <2>3. w \in 1 .. Order-1 /\ w + w = Pow2[bi+1]
    <3>1. w \in 1 .. Order-1 /\ bi \in Nat
      BY <1>1, <1>4, HostNumbers
    <3>2. Pow2[bi+1] = 2 * w
      BY <3>1, Pow2Facts
    <3>. QED BY <3>1, <3>2, OrderFacts
  <2>. HIDE DEF w
  <2>4. w \in Nat /\ w \in 0 .. Order-1 /\ w # 0
    BY <2>3, OrderFacts
  <2>5. w % Order # 0
    BY <2>4, PointOfResidue
  <2>6. t \in Affine /\ ~Same(2 * t[2], 0)
    <3>1. t \in Affine
      BY <2>2, <2>4, <2>5, PointReduced
    <3>2. ~Same(2 * t[2], 0)
      BY <2>2, <2>4, <2>5, NoVerticalTangent
    <3>. QED BY <3>1, <3>2
  <2>7. t' = DoublePoint(t).point /\ ~DoublePoint(t).harm
    BY <1>4 DEF HostDouble, Doubled
  <2>8. t' = Plus(t, t)
    BY <2>6, <2>7, DoublePointCorrect
  <2>9. Plus(t, t) = PointOf(Pow2[bi+1])
    BY <2>2, <2>3, <2>4, PointSum
  <2>. QED BY <2>2, <2>8, <2>9
<1>5. HostSuffixMultiple' /\ HostSum'
  <2>1. stage' # "double"
    BY <1>1
  <2>. QED BY <1>1, <1>4, <2>1 DEF HostSuffixMultiple, HostSum
<1>6. DevicePrefixMultiple'
  BY <1>1 DEF DevicePrefixMultiple
<1>. QED BY <1>3, <1>5, <1>6 DEF MultiplesRight

LEMMA MultiplyKeeps ==
  ASSUME MultiplesRight, ScalarMulNext
  PROVE  MultiplesRight'
<1>1. CASE DeviceDouble
  BY <1>1, DoubleKeeps
<1>2. CASE DeviceAdd
  BY <1>2, AddKeeps
<1>3. CASE HostAdd
  BY <1>3, HostAddKeeps
<1>4. CASE HostDouble
  BY <1>4, HostDoubleKeeps
<1>. QED BY <1>1, <1>2, <1>3, <1>4 DEF ScalarMulNext

-------------------------------------------------------------------------------
(* The sums of a batch                                                     *)

LEMMA SumCorrect ==
  ASSUME <<x1, y1>> \in Affine, NEW q \in Affine, q[1] # x1, NEW inv \in Number,
         Same(inv * (q[1] - x1), 1),
         ~Sum(q[1], q[2], inv).lost, Sum(q[1], q[2], inv).x \in Residue
  PROVE  /\ Plus(<<x1, y1>>, q) \in Affine
         /\ Sum(q[1], q[2], inv).x = Plus(<<x1, y1>>, q)[1]
         /\ Sum(q[1], q[2], inv).y \in Number
         /\ Same(Sum(q[1], q[2], inv).y - y1, Plus(<<x1, y1>>, q)[2])
<1>. DEFINE p   == <<x1, y1>>
            gx  == q[1]
            gy  == q[2]
            d   == gx - x1
            n   == gy - y1
            s   == sub_mod(gy, y1)
            lam == mul_mod(s, inv)
            ll  == lam * lam
            sq  == sqr_mod(lam)
            x3  == sub_mod3(sq, x1, gx)
            e   == x1 - x3
            dx  == sub_mod(x1, x3)
            y3  == mul_mod(dx, lam)
            T   == Third(p, q, lam)
<1>1. /\ Sum(gx, gy, inv).x = x3 /\ Sum(gx, gy, inv).y = y3 /\ x3 \in Residue
      /\ ~MulLost(s, inv) /\ ~SqrLost(lam) /\ ~MulLost(dx, lam)
  BY DEF Sum
<1>2. /\ x1 \in Residue /\ y1 \in Residue /\ gx \in Residue /\ gy \in Residue
      /\ x1 \in Number /\ y1 \in Number /\ gx \in Number /\ gy \in Number
      /\ x1 \in Int /\ y1 \in Int /\ gx \in Int /\ gy \in Int
      /\ inv \in Int /\ x3 \in Int /\ x3 \in Number
  BY <1>1, AffineFacts, Modulus
<1>3. d \in Int /\ n \in Int /\ e \in Int /\ gx # x1
  BY <1>2
<1>4. s \in Number /\ s \in Int /\ Same(s, n)
  <2>1. s \in Number /\ Same(s, n)
    BY <1>2, SubFacts
  <2>. QED BY <2>1, Modulus
<1>5. p[1] = x1 /\ p[2] = y1 /\ p \in Affine
  OBVIOUS
<1>. HIDE DEF gx, gy, s, p
<1>6. lam \in Number /\ lam \in Int /\ Same(lam, s * inv)
  <2>1. lam \in Number /\ Same(lam, s * inv)
    BY <1>1, <1>4, MulFacts
  <2>. QED BY <2>1, Modulus
<1>7. Same(lam * d, n)
  <2>1. Same(inv * d, 1)
    BY DEF gx
  <2>. HIDE DEF lam, d, n
  <2>. QED BY <1>2, <1>3, <1>4, <1>6, <2>1, SlopeOf
<1>. HIDE DEF lam
<1>8. sq \in Number /\ sq \in Int /\ ll \in Int /\ Same(sq, ll)
  <2>1. sq \in Number /\ Same(sq, ll)
    BY <1>1, <1>6, SqrFacts
  <2>2. ll \in Int
    BY <1>6
  <2>. QED BY <2>1, <2>2, Modulus
<1>. HIDE DEF sq
<1>9. Same(x3, (ll - x1) - gx)
  <2>1. Same(x3, (sq - x1) - gx)
    BY <1>2, <1>8, Sub3Facts
  <2>. HIDE DEF x3, ll
  <2>2. sq - x1 \in Int /\ ll - x1 \in Int
    BY <1>2, <1>8
  <2>3. Same(sq - x1, ll - x1)
    BY <1>2, <1>8, SameSelf, SameSum
  <2>. QED BY <1>2, <2>1, <2>2, <2>3, SameSelf, SameDifferenceOf
<1>10. dx \in Number /\ dx \in Int /\ Same(dx, e)
  <2>1. dx \in Number /\ Same(dx, e)
    <3>. HIDE DEF x3
    <3>. QED BY <1>1, <1>2, SubFacts
  <2>. QED BY <2>1, Modulus
<1>11. Same(x3, ((lam * lam) - p[1]) - q[1])
  BY <1>5, <1>9 DEF gx
<1>12. Same(lam * (q[1] - p[1]), q[2] - p[2])
  BY <1>5, <1>7 DEF gx, gy
<1>. HIDE DEF x3, dx, d, n
<1>13. y3 \in Number /\ y3 \in Int /\ Same(y3, dx * lam)
  <2>1. y3 \in Number /\ Same(y3, dx * lam)
    BY <1>1, <1>6, <1>10, MulFacts
  <2>. QED BY <2>1, Modulus
<1>. HIDE DEF y3
<1>14. Plus(p, q) = T
  <2>1. p[1] # q[1]
    BY <1>3, <1>5 DEF gx
  <2>. QED BY <1>5, <1>6, <1>12, <2>1, ChordIs
<1>15. /\ T \in Affine
       /\ Same(T[1], ((lam * lam) - p[1]) - q[1])
       /\ Same(T[2], (lam * (p[1] - T[1])) - p[2])
  BY <1>5, <1>6, ThirdTyped
<1>. HIDE DEF T
<1>16. T[1] \in Residue /\ T[1] \in Int /\ T[2] \in Int
  BY <1>15, AffineFacts
<1>17. x3 = T[1]
  <2>. DEFINE z == ((lam * lam) - p[1]) - q[1]
  <2>1. z \in Int /\ Same(x3, z) /\ Same(T[1], z)
    BY <1>2, <1>5, <1>6, <1>11, <1>15 DEF gx
  <2>. HIDE DEF z
  <2>2. Same(z, T[1])
    BY <1>16, <2>1, SameBack
  <2>3. Same(x3, T[1])
    BY <1>2, <1>16, <2>1, <2>2, SameThrough
  <2>. QED BY <1>1, <1>16, <2>3, SameResidues
<1>18. Same(y3 - y1, T[2])
  <2>. DEFINE w == lam * e
  <2>1. w \in Int /\ Same(T[2], w - y1)
    <3>1. Same(T[2], (lam * (x1 - x3)) - y1)
      BY <1>5, <1>15, <1>17
    <3>. QED BY <1>3, <1>6, <3>1
  <2>2. Same(y3, w)
    <3>1. e * lam = w /\ Same(lam, lam)
      BY <1>3, <1>6, SameSelf
    <3>2. Same(y3, e * lam)
      <4>. HIDE DEF e, w
      <4>. QED BY <1>3, <1>6, <1>10, <1>13, <3>1, SameProductOf
    <3>. QED BY <3>1, <3>2
  <2>. HIDE DEF w
  <2>3. Same(y3 - y1, w - y1)
    BY <1>2, <1>13, <2>1, <2>2, SameSelf, SameSum
  <2>4. y3 - y1 \in Int /\ w - y1 \in Int
    BY <1>2, <1>13, <2>1
  <2>5. Same(w - y1, T[2])
    BY <1>16, <2>1, <2>4, SameBack
  <2>. QED BY <1>16, <2>3, <2>4, <2>5, SameThrough
<1>. QED BY <1>1, <1>13, <1>14, <1>15, <1>17, <1>18 DEF gx, gy, p

LEMMA HashedCorrect ==
  ASSUME <<x1, y1>> \in Affine, NEW q \in Affine, q[1] # x1, NEW inv \in Number,
         Same(inv * (q[1] - x1), 1), ~Harmful(Sum(q[1], q[2], inv))
  PROVE  Hashed(Sum(q[1], q[2], inv)) =
           <<Plus(<<x1, y1>>, q)[1], 2 + (Plus(<<x1, y1>>, q)[2] % 2)>>
<1>. DEFINE sum == Sum(q[1], q[2], inv)
            T   == Plus(<<x1, y1>>, q)
<1>1. ~sum.lost /\ sum.x \in Residue /\ sum.y \in Residue /\ y1 \in Residue
  BY AffineFacts DEF Harmful
<1>2. T \in Affine /\ sum.x = T[1] /\ Same(sum.y - y1, T[2])
  BY <1>1, SumCorrect
<1>. HIDE DEF sum, T
<1>3. sum.y - y1 \in Int /\ T[2] \in Residue /\ T[2] \in Int
  BY <1>1, <1>2, AffineFacts, Modulus
<1>4. (sum.y - y1) % P = T[2]
  <2>. DEFINE v == sum.y - y1
  <2>1. v \in Int /\ Same(v, T[2])
    BY <1>2, <1>3
  <2>. HIDE DEF v
  <2>2. v % P \in Residue /\ Same(v % P, v)
    BY <2>1, SameMod
  <2>3. v % P \in Int
    BY <2>2, Modulus
  <2>4. Same(v % P, T[2])
    BY <1>3, <2>1, <2>2, <2>3, SameThrough
  <2>5. v % P = T[2]
    BY <1>3, <2>2, <2>4, SameResidues
  <2>. QED BY <2>5 DEF v
<1>5. sub_mod_is_odd_prefix(sum.y, y1) = 2 + (T[2] % 2)
  BY <1>1, <1>4, PrefixFacts
<1>6. Hashed(sum) = <<T[1], 2 + (T[2] % 2)>>
  BY <1>2, <1>5 DEF Hashed
<1>. QED BY <1>6 DEF sum, T

LEMMA JumpCorrect ==
  ASSUME <<x1, y1>> \in Affine, NEW q \in Affine, q[1] # x1, NEW inv \in Number,
         Same(inv * (q[1] - x1), 1),
         ~Sum(q[1], q[2], inv).lost, Sum(q[1], q[2], inv).x \in Residue,
         sub_mod(Sum(q[1], q[2], inv).y, y1) \in Residue
  PROVE  <<Sum(q[1], q[2], inv).x, sub_mod(Sum(q[1], q[2], inv).y, y1)>> = Plus(<<x1, y1>>, q)
<1>. DEFINE sum == Sum(q[1], q[2], inv)
            y3  == sub_mod(sum.y, y1)
            T   == Plus(<<x1, y1>>, q)
<1>1. y1 \in Residue
  BY AffineFacts
<1>2. T \in Affine /\ sum.x = T[1] /\ sum.y \in Number /\ Same(sum.y - y1, T[2])
  BY SumCorrect
<1>3. y3 \in Residue
  OBVIOUS
<1>. HIDE DEF sum, T
<1>4. T[2] \in Residue /\ T[2] \in Int /\ T = <<T[1], T[2]>> /\ sum.y - y1 \in Int
  BY <1>1, <1>2, AffineFacts, Modulus
<1>5. Same(y3, sum.y - y1)
  BY <1>1, <1>2, SubFacts
<1>. HIDE DEF y3
<1>6. y3 \in Int
  BY <1>3, Modulus
<1>. DEFINE v == sum.y - y1
<1>7. v \in Int /\ Same(y3, v) /\ Same(v, T[2])
  BY <1>2, <1>4, <1>5
<1>. HIDE DEF v
<1>8. Same(y3, T[2])
  BY <1>4, <1>6, <1>7, SameThrough
<1>9. y3 = T[2]
  BY <1>3, <1>4, <1>8, SameResidues
<1>10. <<sum.x, y3>> = T
  BY <1>2, <1>4, <1>9
<1>. QED BY <1>10 DEF sum, y3, T

-------------------------------------------------------------------------------
(* The points of a batch                                                   *)

LEMMA BatchFacts ==
  /\ B \in Nat /\ B > 0 /\ B < Order /\ Order \in Nat \ {0} /\ Order \in Int
  /\ half \in Nat /\ half > 0 /\ B = half + half /\ half < Order
<1>1. B \in Nat /\ B > 0 /\ B < Order /\ Order \in Nat \ {0} /\ Order \in Int /\ B % 2 = 0
  BY BatchAssumption, OrderFacts
<1>2. half \in Nat /\ half > 0 /\ B = half + half
  BY <1>1 DEF half
<1>. QED BY <1>1, <1>2

LEMMA ModCycle ==
  ASSUME NEW a \in Int, NEW n \in Int
  PROVE  (a + (Order * n)) % Order = a % Order
<1>. DEFINE q == a \div Order
            r == a % Order
<1>1. Order \in Nat \ {0}
  BY OrderFacts
<1>2. q \in Int /\ r \in 0 .. Order-1 /\ a = Order * q + r
  BY <1>1, DivModFacts
<1>. HIDE DEF q, r
<1>3. /\ a + (Order * n) \in Int /\ q + n \in Int
      /\ a + (Order * n) = (Order * (q + n)) + r
  BY <1>1, <1>2
<1>4. (a + (Order * n)) % Order = r
  BY <1>1, <1>2, <1>3, ModIs
<1>. QED BY <1>4 DEF r

LEMMA ModCycleOnce ==
  ASSUME NEW a \in Int
  PROVE  (a + Order) % Order = a % Order /\ a + Order \in Int
<1>1. 1 \in Int /\ Order * 1 = Order /\ a + Order \in Int
  BY OrderFacts
<1>2. (a + (Order * 1)) % Order = a % Order
  BY <1>1, ModCycle
<1>. QED BY <1>1, <1>2

\* The numbers of the points that are added to a centre.
Steps == (1 .. half) \union {B}

LEMMA StepFacts ==
  ASSUME NEW j \in Steps
  PROVE  /\ j \in 1 .. Order-1 /\ j \in 0 .. Order-1 /\ j \in Nat /\ j \in Int
         /\ j % Order = j /\ j % Order # 0
         /\ PointOf(j) = Multiple[j] /\ PointOf(j) \in Affine
<1>1. j \in 1 .. Order-1 /\ j \in 0 .. Order-1 /\ j \in Nat /\ j \in Int /\ j # 0
  BY BatchFacts DEF Steps
<1>2. j % Order = j /\ PointOf(j) = Multiple[j]
  BY <1>1, PointOfResidue
<1>3. PointOf(j) \in Affine
  BY <1>1, <1>2, PointReduced
<1>. QED BY <1>1, <1>2, <1>3

LEMMA CentreFacts ==
  ASSUME NEW c \in 0 .. Order-1, ~Degenerate(c)
  PROVE  /\ c # 0 /\ c \in Nat /\ c % Order = c /\ PointOf(c) \in Affine
         /\ \A j \in Steps : PointOf(j)[1] # PointOf(c)[1]
<1>1. c \in Nat /\ c \in Int /\ c % Order = c
  BY PointOfResidue
<1>2. \A j \in (0..half) \union {B} : (c - j) % Order # 0 /\ (c + j) % Order # 0
  BY DEF Degenerate
<1>3. c # 0
  <2>1. 0 \in (0..half) \union {B}
    BY BatchFacts
  <2>2. c + 0 = c
    BY <1>1
  <2>. QED BY <1>1, <1>2, <2>1, <2>2
<1>4. PointOf(c) \in Affine
  BY <1>1, <1>3, PointReduced
<1>5. ASSUME NEW j \in Steps, PointOf(j)[1] = PointOf(c)[1] PROVE FALSE
  <2>1. j \in Nat /\ j \in Int /\ j % Order = j /\ j % Order # 0
    BY StepFacts
  <2>2. j % Order = c % Order \/ (j + c) % Order = 0
    BY <1>1, <1>3, <1>5, <2>1, SameX
  <2>3. (c - j) % Order # 0 /\ (c + j) % Order # 0
    <3>1. j \in (0..half) \union {B}
      BY BatchFacts DEF Steps
    <3>. QED BY <1>2, <3>1
  <2>4. j # c
    <3>1. SUFFICES ASSUME j = c PROVE FALSE
      OBVIOUS
    <3>2. c - j = 0
      BY <1>1, <3>1
    <3>3. 0 \in 0 .. Order-1
      BY OrderFacts
    <3>4. 0 % Order = 0
      BY <3>3, PointOfResidue
    <3>. QED BY <2>3, <3>2, <3>4
  <2>5. j + c = c + j
    BY <1>1, <2>1
  <2>. QED BY <1>1, <2>1, <2>2, <2>3, <2>4, <2>5
<1>. QED BY <1>1, <1>3, <1>4, <1>5

\* The sum above a centre and the sum with the opposite point.
LEMMA Above ==
  ASSUME NEW c \in Nat, NEW j \in Steps
  PROVE  Plus(PointOf(c), PointOf(j)) = PointOf(c + j)
BY StepFacts, PointSum

LEMMA Below ==
  ASSUME NEW c \in Nat, NEW j \in Steps
  PROVE  Plus(PointOf(c), <<PointOf(j)[1], neg_mod(PointOf(j)[2])>>) = PointOf(c - j)
<1>1. j \in 1 .. Order-1 /\ j \in Int /\ c \in Int /\ Order \in Int
  BY StepFacts, OrderFacts
<1>2. Order - j \in Nat /\ PointOf(Order - j) = <<PointOf(j)[1], neg_mod(PointOf(j)[2])>>
  <2>1. Order - j \in Nat
    BY <1>1
  <2>. QED BY <1>1, <2>1, Mirror
<1>3. Plus(PointOf(c), PointOf(Order - j)) = PointOf(c + (Order - j))
  BY <1>2, PointSum
<1>4. c + (Order - j) = (c - j) + Order /\ c - j \in Int
  BY <1>1
<1>5. ((c - j) + Order) % Order = (c - j) % Order
  BY <1>4, ModCycleOnce
<1>6. PointOf(c + (Order - j)) = PointOf(c - j)
  BY <1>4, <1>5 DEF PointOf
<1>. QED BY <1>2, <1>3, <1>6

LEMMA MirrorAffine ==
  ASSUME NEW j \in Steps
  PROVE  <<PointOf(j)[1], neg_mod(PointOf(j)[2])>> \in Affine
<1>1. j \in 1 .. Order-1
  BY StepFacts
<1>2. /\ Order - j \in Nat /\ Order - j \in 0 .. Order-1 /\ Order - j # 0
      /\ PointOf(Order - j) = <<PointOf(j)[1], neg_mod(PointOf(j)[2])>>
  <2>1. Order - j \in Nat /\ Order - j \in 0 .. Order-1 /\ Order - j # 0
    BY <1>1, OrderFacts
  <2>. QED BY <1>1, <2>1, Mirror
<1>3. (Order - j) % Order # 0
  BY <1>2, PointOfResidue
<1>4. PointOf(Order - j) \in Affine
  BY <1>2, <1>3, PointReduced
<1>. QED BY <1>2, <1>4

LEMMA TableFacts ==
  /\ \A n \in Index : /\ n + 1 \in Steps /\ n \in Nat /\ n \in Int
                      /\ c_Gx[n] = PointOf(n + 1)[1] /\ c_Gy[n] = PointOf(n + 1)[2]
                      /\ c_GyNeg[n] = neg_mod(PointOf(n + 1)[2])
  /\ B \in Steps /\ c_J = PointOf(B)
<1>1. ASSUME NEW n \in Index PROVE n + 1 \in Steps /\ n \in Nat /\ n \in Int
  BY BatchFacts DEF Index, Steps
<1>2. ASSUME NEW n \in Index PROVE PointOf(n + 1) = Multiple[n + 1]
  BY <1>1, StepFacts
<1>3. ASSUME NEW n \in Index PROVE c_Gy[n] = PointOf(n + 1)[2]
  BY <1>2 DEF c_Gy
<1>4. ASSUME NEW n \in Index
      PROVE  c_Gx[n] = PointOf(n + 1)[1] /\ c_GyNeg[n] = neg_mod(PointOf(n + 1)[2])
  BY <1>2, <1>3 DEF c_Gx, c_GyNeg
<1>5. B \in Steps
  BY DEF Steps
<1>6. c_J = PointOf(B)
  BY <1>5, StepFacts DEF c_J
<1>. QED BY <1>1, <1>3, <1>4, <1>5, <1>6

-------------------------------------------------------------------------------
(* The invariant of a batch                                                *)

\* Where the lane is.
Phase ==
  /\ pc \in {"load", "test", "product", "invert", "pair", "jump", "exit"}
  /\ pc # "load" => device /\ stage = "multiplied" /\ centre \in 0 .. Order-1
  /\ i \in Index /\ batches_done \in Nat
  /\ pc = "product" => i < half - 1
  /\ pc = "invert" => i = 0
  /\ DOMAIN subp = Index /\ DOMAIN hashed = Offsets

Centred == (pc # "load" /\ Sound) => <<x1, y1>> = PointOf(centre)

\* The prefix products that are built, each of them the next one times its factor.
Prefixed ==
  (pc \in {"product", "invert", "pair"} /\ Sound) =>
    /\ Same(subp[half-1], c_J[1] - x1)
    /\ \A n \in Index : ~(pc = "product" /\ n <= i) =>
         /\ subp[n] \in Number /\ ~Same(subp[n], 0)
         /\ n < half-1 => Same(subp[n], subp[n+1] * (c_Gx[n+1] - x1))

\* What the inverse is the inverse of.
Served ==
  /\ (pc = "pair" /\ Sound) => inverse \in Number /\ Same(inverse * (subp[i] * (c_Gx[i] - x1)), 1)
  /\ (pc = "jump" /\ Sound) => inverse \in Number /\ Same(inverse * (c_J[1] - x1), 1)

\* The offsets that are hashed.
Done(s) ==
  \/ pc \in {"product", "invert"} /\ s = 0
  \/ pc = "pair" /\ s \in -i .. i
  \/ pc = "jump"

HashedSoFar ==
  (pc = "load" \/ Sound) =>
    \A s \in Offsets : hashed[s] = IF Done(s) THEN PublicKey(centre + s) ELSE Nothing

BatchRight == MultiplesRight /\ Phase /\ Centred /\ Prefixed /\ Served /\ HashedSoFar

\* What a step that touches none of it keeps.
LEMMA MultiplesStay ==
  ASSUME MultiplesRight, UNCHANGED setup, harm => harm'
  PROVE  MultiplesRight'
<1>1. device' = device /\ k' = k /\ stage' = stage /\ bi' = bi /\ res' = res /\ t' = t
  BY DEF setup
<1>2. Looping'
  BY <1>1 DEF MultiplesRight, Looping
<1>3. DevicePrefixMultiple'
  BY <1>1 DEF MultiplesRight, DevicePrefixMultiple
<1>4. HostSuffixMultiple'
  BY <1>1 DEF MultiplesRight, HostSuffixMultiple
<1>5. HostSum'
  BY <1>1 DEF MultiplesRight, HostSum
<1>. QED BY <1>2, <1>3, <1>4, <1>5 DEF MultiplesRight

LEMMA SoundBefore ==
  ASSUME harm => harm', centre' = centre, batches_done' = batches_done, Sound'
  PROVE  Sound
BY DEF Sound

LEMMA SoundNow ==
  ASSUME Sound, centre \in 0 .. Order-1, batches_done \in Nat
  PROVE  ~harm /\ ~Degenerate(centre)
<1>1. 0 \in 0 .. batches_done /\ 0 * B = 0 /\ centre - 0 = centre
  BY BatchFacts
<1>. QED BY <1>1 DEF Sound

\* The centre and the factors.
LEMMA BatchPoint ==
  ASSUME Phase, Centred, pc # "load", Sound
  PROVE  /\ centre \in Nat /\ centre \in Int /\ centre \in 0 .. Order-1
         /\ <<x1, y1>> = PointOf(centre) /\ <<x1, y1>> \in Affine
         /\ x1 \in Residue /\ y1 \in Residue /\ x1 \in Int /\ y1 \in Int
         /\ \A j \in Steps : PointOf(j) \in Affine /\ PointOf(j)[1] # x1
<1>1. centre \in 0 .. Order-1 /\ ~Degenerate(centre)
  BY SoundNow DEF Phase
<1>2. <<x1, y1>> = PointOf(centre)
  BY DEF Centred
<1>3. /\ centre \in Nat /\ PointOf(centre) \in Affine
      /\ \A j \in Steps : PointOf(j)[1] # PointOf(centre)[1]
  BY <1>1, CentreFacts
<1>4. PointOf(centre)[1] = x1 /\ PointOf(centre)[2] = y1
  BY <1>2
<1>5. x1 \in Residue /\ y1 \in Residue /\ x1 \in Int /\ y1 \in Int
  BY <1>3, <1>4, AffineFacts
<1>. QED BY <1>1, <1>2, <1>3, <1>4, <1>5, StepFacts

LEMMA FactorFacts ==
  ASSUME NEW g \in Residue, x1 \in Residue, g # x1
  PROVE  /\ g - x1 \in Int /\ ~Same(g - x1, 0)
         /\ sub_mod(g, x1) \in Number /\ sub_mod(g, x1) \in Int /\ Same(sub_mod(g, x1), g - x1)
<1>1. g \in Number /\ g \in Int /\ x1 \in Int
  BY Modulus
<1>2. g - x1 \in Int
  BY <1>1
<1>3. sub_mod(g, x1) \in Number /\ Same(sub_mod(g, x1), g - x1)
  BY <1>1, SubFacts
<1>4. sub_mod(g, x1) \in Int
  BY <1>3, Modulus
<1>. QED BY <1>2, <1>3, <1>4, DifferentResidues

\* The factors by the names the kernel has for them.
LEMMA Factors ==
  ASSUME Phase, Centred, pc # "load", Sound
  PROVE  /\ \A n \in Index :
              /\ c_Gx[n] - x1 \in Int /\ ~Same(c_Gx[n] - x1, 0)
              /\ sub_mod(c_Gx[n], x1) \in Number /\ sub_mod(c_Gx[n], x1) \in Int
              /\ Same(sub_mod(c_Gx[n], x1), c_Gx[n] - x1)
         /\ c_J[1] - x1 \in Int /\ ~Same(c_J[1] - x1, 0)
         /\ sub_mod(c_J[1], x1) \in Number /\ sub_mod(c_J[1], x1) \in Int
         /\ Same(sub_mod(c_J[1], x1), c_J[1] - x1)
<1>1. x1 \in Residue /\ \A j \in Steps : PointOf(j)[1] \in Residue /\ PointOf(j)[1] # x1
  BY BatchPoint, AffineFacts
<1>2. \A n \in Index : c_Gx[n] \in Residue /\ c_Gx[n] # x1
  BY <1>1, TableFacts
<1>3. c_J[1] \in Residue /\ c_J[1] # x1
  BY <1>1, TableFacts
<1>. QED BY <1>1, <1>2, <1>3, FactorFacts

LEMMA OffsetFacts ==
  /\ half-1 \in Index /\ 0 \in Index
  /\ \A s \in Offsets : s \in Int /\ s >= -half /\ s <= half-1
  /\ 0 \in Offsets /\ -half \in Offsets
  /\ \A n \in Index : n \in Int /\ n >= 0 /\ n <= half-1
BY BatchFacts DEF Index, Offsets

-------------------------------------------------------------------------------
(* The steps of a batch                                                    *)

LEMMA BatchStart == Init => BatchRight
<1>. SUFFICES ASSUME Init PROVE BatchRight
  OBVIOUS
<1>1. MultiplesRight
  BY MultiplesStart DEF Init
<1>2. Phase
  BY OffsetFacts DEF Init, Phase
<1>3. HashedSoFar
  BY DEF Init, HashedSoFar, Done
<1>. QED BY <1>1, <1>2, <1>3 DEF BatchRight, Init, Centred, Prefixed, Served

LEMMA MultiplyStep ==
  ASSUME BatchRight, Multiply
  PROVE  BatchRight'
<1>1. MultiplesRight'
  BY MultiplyKeeps DEF BatchRight, Multiply
<1>2. pc = "load" /\ pc' = "load" /\ UNCHANGED bvars
  BY DEF Multiply, bvars
<1>3. Phase'
  BY <1>2 DEF BatchRight, Phase, bvars
<1>4. HashedSoFar'
  BY <1>2 DEF BatchRight, HashedSoFar, Done, bvars
<1>. QED BY <1>1, <1>2, <1>3, <1>4 DEF BatchRight, Centred, Prefixed, Served

LEMMA LoadStep ==
  ASSUME BatchRight, Load
  PROVE  BatchRight'
<1>1. /\ pc = "load" /\ pc' = "test" /\ device /\ stage = "multiplied" /\ centre' = k % Order
      /\ UNCHANGED <<svars, i, subp, inverse, hashed, batches_done>>
  BY DEF Load
<1>2. harm' = harm /\ UNCHANGED setup
  BY <1>1 DEF svars, setup
<1>3. MultiplesRight'
  BY <1>2, MultiplesStay DEF BatchRight
<1>4. k \in Nat /\ k % Order \in 0 .. Order-1 /\ PointOf(k) = PointOf(k % Order)
  BY PointReduced DEF BatchRight, MultiplesRight, Looping
<1>5. Phase'
  BY <1>1, <1>2, <1>4 DEF BatchRight, Phase, setup
<1>6. Centred'
  <2>1. SUFFICES ASSUME Sound' PROVE <<x1', y1'>> = PointOf(centre')
    BY DEF Centred
  <2>2. ~harm' /\ ~Degenerate(centre') /\ centre' \in 0 .. Order-1
    <3>1. centre' \in 0 .. Order-1 /\ batches_done' \in Nat
      BY <1>1, <1>4, <1>5 DEF Phase
    <3>2. 0 \in 0 .. batches_done'
      BY <3>1
    <3>3. 0 * B = 0
      BY BatchFacts
    <3>4. centre' - 0 = centre'
      <4>1. centre' \in Int
        BY <3>1, BatchFacts
      <4>2. \A c \in Int : c - 0 = c
        OBVIOUS
      <4>. QED BY <4>1, <4>2
    <3>. QED BY <2>1, <3>1, <3>2, <3>3, <3>4 DEF Sound
  <2>3. res = PointOf(centre')
    BY <1>1, <1>2, <1>4, <2>2 DEF BatchRight, MultiplesRight, DevicePrefixMultiple
  <2>4. res \in Affine
    BY <2>2, <2>3, CentreFacts
  <2>5. res # Zero /\ res = <<res[1], res[2]>>
    BY <2>4, AffineFacts
  <2>6. x1' = res[1] /\ y1' = res[2]
    BY <2>5 DEF Load
  <2>. QED BY <2>3, <2>5, <2>6
<1>7. HashedSoFar'
  BY <1>1 DEF BatchRight, HashedSoFar, Done
<1>. QED BY <1>1, <1>3, <1>5, <1>6, <1>7 DEF BatchRight, Prefixed, Served

LEMMA TestStep ==
  ASSUME BatchRight, Test
  PROVE  BatchRight'
<1>1. /\ pc = "test" /\ pc' \in {"invert", "product"}
      /\ harm' = harm /\ centre' = centre /\ x1' = x1 /\ y1' = y1 /\ batches_done' = batches_done
      /\ UNCHANGED setup
      /\ hashed' = [hashed EXCEPT ![0] = <<x1, 2 + (y1 % 2)>>]
      /\ subp' = [subp EXCEPT ![half-1] = sub_mod(c_J[1], x1)]
      /\ pc' = "invert" => half = 1 /\ i' = 0
      /\ pc' = "product" => half # 1 /\ i' = half - 2
  BY DEF Test, svars, setup
<1>2. Phase /\ Centred /\ HashedSoFar /\ DOMAIN subp = Index /\ DOMAIN hashed = Offsets
  BY DEF BatchRight, Phase
<1>3. MultiplesRight'
  BY <1>1, MultiplesStay DEF BatchRight
<1>4. Phase'
  <2>1. i' \in Index /\ (pc' = "product" => i' < half - 1) /\ (pc' = "invert" => i' = 0)
    BY <1>1, BatchFacts DEF Index
  <2>. QED BY <1>1, <1>2, <2>1 DEF Phase, setup
<1>5. Sound' => Sound
  BY <1>1, SoundBefore
<1>6. Centred'
  BY <1>1, <1>2, <1>5 DEF Centred
<1>7. Prefixed'
  <2>1. SUFFICES ASSUME Sound PROVE
            /\ Same(subp'[half-1], c_J[1] - x1)
            /\ \A n \in Index : ~(pc' = "product" /\ n <= i') =>
                 /\ subp'[n] \in Number /\ ~Same(subp'[n], 0)
                 /\ n < half-1 => Same(subp'[n], subp'[n+1] * (c_Gx[n+1] - x1))
    BY <1>1, <1>5 DEF Prefixed
  <2>2. subp'[half-1] = sub_mod(c_J[1], x1)
    BY <1>1, <1>2, OffsetFacts
  <2>3. /\ c_J[1] - x1 \in Int /\ ~Same(c_J[1] - x1, 0)
        /\ sub_mod(c_J[1], x1) \in Number /\ sub_mod(c_J[1], x1) \in Int
        /\ Same(sub_mod(c_J[1], x1), c_J[1] - x1)
    BY <1>1, <1>2, <2>1, Factors
  <2>. DEFINE f == sub_mod(c_J[1], x1)
              d == c_J[1] - x1
  <2>4. f \in Int /\ d \in Int /\ Same(f, d) /\ ~Same(d, 0)
    BY <2>3
  <2>. HIDE DEF f, d
  <2>5. ~Same(f, 0)
    BY <2>4, SameBack, SameThrough
  <2>6. ASSUME NEW n \in Index, ~(pc' = "product" /\ n <= i') PROVE n = half-1
    BY <1>1, <2>6, BatchFacts DEF Index
  <2>. QED BY <2>2, <2>3, <2>5, <2>6, OffsetFacts DEF f
<1>8. HashedSoFar'
  <2>1. SUFFICES ASSUME Sound, NEW s \in Offsets
                 PROVE  hashed'[s] = IF s = 0 THEN PublicKey(centre + s) ELSE Nothing
    BY <1>1, <1>5 DEF HashedSoFar, Done
  <2>2. CASE s = 0
    <3>1. centre + s = centre /\ <<x1, y1>> = PointOf(centre)
      BY <1>1, <1>2, <2>1, <2>2, BatchPoint
    <3>2. PublicKey(centre + s) = <<x1, 2 + (y1 % 2)>>
      <4>1. PointOf(centre)[1] = x1 /\ PointOf(centre)[2] = y1
        BY <3>1
      <4>. QED BY <3>1, <4>1 DEF PublicKey
    <3>. QED BY <1>1, <1>2, <2>2, <3>2
  <2>3. CASE s # 0
    BY <1>1, <1>2, <2>1, <2>3 DEF HashedSoFar, Done
  <2>. QED BY <2>2, <2>3
<1>. QED BY <1>1, <1>3, <1>4, <1>6, <1>7, <1>8 DEF BatchRight, Served

LEMMA ProductStep ==
  ASSUME BatchRight, Product
  PROVE  BatchRight'
<1>. DEFINE f == Factor(i)
            m == mul_mod(subp[i+1], f)
            d == c_Gx[i+1] - x1
<1>1. /\ pc = "product" /\ pc' \in {"invert", "product"}
      /\ centre' = centre /\ x1' = x1 /\ y1' = y1 /\ batches_done' = batches_done
      /\ UNCHANGED setup /\ hashed' = hashed
      /\ subp' = [subp EXCEPT ![i] = m]
      /\ harm' = (harm \/ MulLost(subp[i+1], f))
      /\ pc' = "invert" => i = 0 /\ i' = 0
      /\ pc' = "product" => i # 0 /\ i' = i - 1
  BY DEF Product
<1>2. /\ Phase /\ Centred /\ Prefixed /\ HashedSoFar
      /\ DOMAIN subp = Index /\ i \in Index /\ i < half - 1
  BY <1>1 DEF BatchRight, Phase
<1>3. MultiplesRight'
  BY <1>1, MultiplesStay DEF BatchRight
<1>4. /\ i \in Int /\ i >= 0 /\ i + 1 \in Index /\ half \in Int /\ half-1 \in Index
      /\ i # i + 1 /\ i # half - 1 /\ ~(i + 1 <= i)
  BY <1>2, BatchFacts DEF Index
<1>5. Phase'
  <2>1. i' \in Index /\ (pc' = "product" => i' < half - 1) /\ (pc' = "invert" => i' = 0)
    BY <1>1, <1>2, <1>4, BatchFacts DEF Index
  <2>. QED BY <1>1, <1>2, <2>1 DEF Phase, setup
<1>6. Sound' => Sound
  BY <1>1, SoundBefore
<1>7. Centred'
  BY <1>1, <1>2, <1>6 DEF Centred
<1>8. Prefixed'
  <2>1. SUFFICES ASSUME Sound', Sound PROVE
            /\ Same(subp'[half-1], c_J[1] - x1)
            /\ \A n \in Index : ~(pc' = "product" /\ n <= i') =>
                 /\ subp'[n] \in Number /\ ~Same(subp'[n], 0)
                 /\ n < half-1 => Same(subp'[n], subp'[n+1] * (c_Gx[n+1] - x1))
    BY <1>1, <1>6 DEF Prefixed
  <2>2. subp'[i] = m /\ \A n \in Index : n # i => subp'[n] = subp[n]
    BY <1>1, <1>2
  <2>3. /\ Same(subp[half-1], c_J[1] - x1)
        /\ \A n \in Index : ~(n <= i) =>
             /\ subp[n] \in Number /\ ~Same(subp[n], 0)
             /\ n < half-1 => Same(subp[n], subp[n+1] * (c_Gx[n+1] - x1))
    BY <1>1, <1>2, <2>1 DEF Prefixed
  <2>4. subp[i+1] \in Number /\ ~Same(subp[i+1], 0) /\ subp[i+1] \in Int
    BY <1>4, <2>3, Modulus
  <2>5. d \in Int /\ ~Same(d, 0) /\ f \in Number /\ f \in Int /\ Same(f, d)
    BY <1>1, <1>2, <1>4, <2>1, Factors DEF Factor
  <2>6. ~MulLost(subp[i+1], f)
    BY <1>1, <2>1 DEF Sound
  <2>. HIDE DEF f, d
  <2>. DEFINE u == subp[i+1]
  <2>7. m \in Number /\ Same(m, u * f)
    BY <2>4, <2>5, <2>6, MulFacts
  <2>. HIDE DEF m
  <2>8. u \in Int /\ m \in Int /\ Same(u, u) /\ ~Same(u, 0)
    BY <2>4, <2>7, SameSelf, Modulus
  <2>. HIDE DEF u
  <2>9. Same(m, u * d)
    BY <2>5, <2>7, <2>8, SameProductOf
  <2>. DEFINE v == u * d
  <2>10. v \in Int /\ ~Same(v, 0)
    <3>1. v \in Int
      BY <2>5, <2>8
    <3>. QED BY <2>5, <2>8, <3>1, NoZeroDivisor
  <2>11. ~Same(m, 0)
    <3>1. SUFFICES ASSUME Same(m, 0) PROVE FALSE
      OBVIOUS
    <3>2. Same(m, v)
      BY <2>9
    <3>. HIDE DEF v
    <3>3. Same(v, m)
      BY <2>8, <2>10, <3>2, SameBack
    <3>4. Same(v, 0)
      BY <2>8, <2>10, <3>1, <3>3, SameThrough
    <3>. QED BY <2>10, <3>4
  <2>12. ASSUME NEW n \in Index, ~(pc' = "product" /\ n <= i')
         PROVE  /\ subp'[n] \in Number /\ ~Same(subp'[n], 0)
                /\ n < half-1 => Same(subp'[n], subp'[n+1] * (c_Gx[n+1] - x1))
    <3>1. n \in Int /\ n >= i
      BY <1>1, <1>4, <2>12, OffsetFacts
    <3>2. CASE n = i
      <4>1. subp'[n] = m /\ subp'[n+1] = u /\ c_Gx[n+1] - x1 = d
        BY <1>4, <2>2, <3>2 DEF u, d
      <4>. QED BY <2>7, <2>9, <2>11, <4>1
    <3>3. CASE n # i
      <4>1. ~(n <= i) /\ (n < half-1 => n + 1 \in Index /\ n + 1 # i)
        BY <1>4, <3>1, <3>3, BatchFacts DEF Index
      <4>. QED BY <2>2, <2>3, <3>3, <4>1
    <3>. QED BY <3>2, <3>3
  <2>13. Same(subp'[half-1], c_J[1] - x1)
    BY <1>4, <2>2, <2>3
  <2>. QED BY <2>12, <2>13
<1>9. HashedSoFar'
  BY <1>1, <1>2, <1>6 DEF HashedSoFar, Done
<1>. QED BY <1>1, <1>3, <1>5, <1>7, <1>8, <1>9 DEF BatchRight, Served

LEMMA InvertStep ==
  ASSUME BatchRight, Invert
  PROVE  BatchRight'
<1>. DEFINE d0 == sub_mod(c_Gx[0], x1)
            v  == mul_mod(d0, subp[0])
<1>1. /\ pc = "invert" /\ pc' = "pair" /\ i' = i
      /\ centre' = centre /\ x1' = x1 /\ y1' = y1 /\ batches_done' = batches_done
      /\ UNCHANGED setup /\ hashed' = hashed /\ subp' = subp
      /\ inverse' \in inv_mod(v)
      /\ harm' = (harm \/ MulLost(d0, subp[0]))
  BY DEF Invert
<1>2. /\ Phase /\ Centred /\ Prefixed /\ HashedSoFar /\ i = 0
  BY <1>1 DEF BatchRight, Phase
<1>3. MultiplesRight'
  BY <1>1, MultiplesStay DEF BatchRight
<1>4. Phase'
  BY <1>1, <1>2 DEF Phase, setup
<1>5. Sound' => Sound
  BY <1>1, SoundBefore
<1>6. Centred'
  BY <1>1, <1>2, <1>5 DEF Centred
<1>7. Prefixed'
  BY <1>1, <1>2, <1>5 DEF Prefixed
<1>8. Served'
  <2>1. SUFFICES ASSUME Sound', Sound
                 PROVE  inverse' \in Number /\ Same(inverse' * (subp[0] * (c_Gx[0] - x1)), 1)
    BY <1>1, <1>2, <1>5 DEF Served
  <2>. DEFINE u == subp[0]
              d == c_Gx[0] - x1
              n == u * d
  <2>2. u \in Number /\ ~Same(u, 0) /\ u \in Int
    <3>1. u \in Number /\ ~Same(u, 0)
      BY <1>1, <1>2, <2>1, OffsetFacts DEF Prefixed
    <3>. QED BY <3>1, Modulus
  <2>3. d \in Int /\ ~Same(d, 0) /\ d0 \in Number /\ d0 \in Int /\ Same(d0, d)
    BY <1>1, <1>2, <2>1, OffsetFacts, Factors
  <2>4. ~MulLost(d0, u)
    BY <1>1, <2>1 DEF Sound
  <2>5. inverse' \in inv_mod(v)
    BY <1>1
  <2>. HIDE DEF u, d, d0
  <2>6. v \in Number /\ Same(v, d0 * u)
    BY <2>2, <2>3, <2>4, MulFacts DEF u
  <2>. HIDE DEF v
  <2>7. v \in Int /\ Same(u, u)
    BY <2>2, <2>6, SameSelf, Modulus
  <2>8. Same(v, n)
    <3>1. Same(v, d * u)
      BY <2>2, <2>3, <2>6, <2>7, SameProductOf
    <3>2. d * u = u * d
      BY <2>2, <2>3
    <3>. QED BY <3>1, <3>2
  <2>9. n \in Int /\ ~Same(n, 0)
    <3>1. n \in Int
      BY <2>2, <2>3
    <3>. QED BY <2>2, <2>3, <3>1, NoZeroDivisor
  <2>. HIDE DEF n
  <2>10. \A w \in inv_mod(v) : w \in Number /\ Same(w * n, 1)
    BY <2>7, <2>8, <2>9, InverseOf
  <2>11. inverse' \in Number /\ Same(inverse' * n, 1)
    BY <2>5, <2>10
  <2>. QED BY <2>11 DEF n, u, d
<1>9. HashedSoFar'
  <2>1. \A s \in Offsets : s \in -0 .. 0 <=> s = 0
    BY OffsetFacts
  <2>2. \A s \in Offsets : Done(s)' <=> Done(s)
    BY <1>1, <1>2, <2>1 DEF Done
  <2>. QED BY <1>1, <1>2, <1>5, <2>2 DEF HashedSoFar
<1>. QED BY <1>3, <1>4, <1>6, <1>7, <1>8, <1>9 DEF BatchRight

\* The product of the prefix and the inverse is that of one factor, and the inverse goes on to the
\* factors below.
LEMMA InverseParts ==
  ASSUME BatchRight, pc = "pair", Sound, ~LossesAround
  PROVE  /\ dx_inv \in Number /\ Same(dx_inv * (c_Gx[i] - x1), 1)
         /\ InverseAdvanced \in Number /\ Same(InverseAdvanced * subp[i], 1)
         /\ subp[i] \in Number
<1>. DEFINE u == subp[i]
            d == c_Gx[i] - x1
            f == sub_mod(c_Gx[i], x1)
            w == inverse
            g == mul_mod(u, w)
            h == mul_mod(w, f)
<1>0. Phase /\ Centred /\ i \in Index /\ Prefixed /\ Served
  BY DEF BatchRight, Phase
<1>1. u \in Number /\ u \in Int
  <2>1. u \in Number
    BY <1>0 DEF Prefixed
  <2>. QED BY <2>1, Modulus
<1>2. d \in Int /\ ~Same(d, 0) /\ f \in Number /\ f \in Int /\ Same(f, d)
  BY <1>0, Factors
<1>3. w \in Number /\ w \in Int /\ Same(w * (u * d), 1)
  <2>1. w \in Number /\ Same(w * (u * d), 1)
    BY <1>0 DEF Served
  <2>. QED BY <2>1, Modulus
<1>4. /\ dx_inv = g /\ InverseAdvanced = h
      /\ ~MulLost(u, w) /\ ~MulLost(w, f)
  BY DEF dx_inv, InverseAdvanced, LossesAround
<1>. HIDE DEF u, d, f, w
<1>5. g \in Number /\ Same(g, u * w) /\ h \in Number /\ Same(h, w * f)
  BY <1>1, <1>2, <1>3, <1>4, MulFacts
<1>. HIDE DEF g, h
<1>6. g \in Int /\ h \in Int /\ Same(w, w) /\ Same(d, d) /\ Same(u, u)
  BY <1>1, <1>2, <1>3, <1>5, SameSelf, Modulus
<1>. DEFINE l == u * w
            m == w * d
<1>7. l \in Int /\ m \in Int
  BY <1>1, <1>2, <1>3
<1>8. Same(g, l) /\ Same(h, m)
  <2>1. Same(h, w * d)
    BY <1>2, <1>3, <1>5, <1>6, SameProductOf
  <2>. QED BY <1>5, <2>1
<1>9. l * d = w * (u * d) /\ m * u = w * (u * d) /\ w * (u * d) \in Int
  BY <1>1, <1>2, <1>3
<1>10. Same(l * d, 1) /\ Same(m * u, 1)
  BY <1>3, <1>9
<1>. HIDE DEF l, m
<1>11. g * d \in Int /\ h * u \in Int /\ l * d \in Int /\ m * u \in Int /\ 1 \in Int
  BY <1>1, <1>2, <1>6, <1>7
<1>12. Same(g * d, l * d) /\ Same(h * u, m * u)
  BY <1>1, <1>2, <1>6, <1>7, <1>8, SameProduct
<1>13. Same(g * d, 1) /\ Same(h * u, 1)
  BY <1>10, <1>11, <1>12, SameThrough
<1>. QED BY <1>1, <1>4, <1>5, <1>13 DEF u, d

\* What the lane hashes for the number n when it adds the point j to the centre, or its opposite.
LEMMA HashedAbove ==
  ASSUME Phase, Centred, pc # "load", Sound, NEW j \in Steps, NEW inv \in Number,
         Same(inv * (PointOf(j)[1] - x1), 1),
         ~Harmful(Sum(PointOf(j)[1], PointOf(j)[2], inv))
  PROVE  Hashed(Sum(PointOf(j)[1], PointOf(j)[2], inv)) = PublicKey(centre + j)
<1>1. /\ centre \in Nat /\ <<x1, y1>> = PointOf(centre) /\ <<x1, y1>> \in Affine
      /\ PointOf(j) \in Affine /\ PointOf(j)[1] # x1
  BY BatchPoint
<1>2. Plus(<<x1, y1>>, PointOf(j)) = PointOf(centre + j)
  BY <1>1, Above
<1>. DEFINE q == PointOf(j)
<1>3. q \in Affine /\ q[1] # x1 /\ Same(inv * (q[1] - x1), 1) /\ ~Harmful(Sum(q[1], q[2], inv))
  BY <1>1
<1>. HIDE DEF q
<1>4. Hashed(Sum(q[1], q[2], inv)) =
        <<Plus(<<x1, y1>>, q)[1], 2 + (Plus(<<x1, y1>>, q)[2] % 2)>>
  BY <1>1, <1>3, HashedCorrect
<1>. QED BY <1>2, <1>4 DEF q, PublicKey

LEMMA HashedBelow ==
  ASSUME Phase, Centred, pc # "load", Sound, NEW j \in Steps, NEW inv \in Number,
         Same(inv * (PointOf(j)[1] - x1), 1),
         ~Harmful(Sum(PointOf(j)[1], neg_mod(PointOf(j)[2]), inv))
  PROVE  Hashed(Sum(PointOf(j)[1], neg_mod(PointOf(j)[2]), inv)) = PublicKey(centre - j)
<1>. DEFINE q == <<PointOf(j)[1], neg_mod(PointOf(j)[2])>>
<1>1. /\ centre \in Nat /\ <<x1, y1>> = PointOf(centre) /\ <<x1, y1>> \in Affine
      /\ PointOf(j)[1] # x1
  BY BatchPoint
<1>2. Plus(<<x1, y1>>, q) = PointOf(centre - j)
  BY <1>1, Below
<1>3. q[1] = PointOf(j)[1] /\ q[2] = neg_mod(PointOf(j)[2])
  OBVIOUS
<1>4. q \in Affine /\ q[1] # x1 /\ Same(inv * (q[1] - x1), 1) /\ ~Harmful(Sum(q[1], q[2], inv))
  <2>1. q \in Affine
    BY MirrorAffine
  <2>. QED BY <1>1, <1>3, <2>1
<1>. HIDE DEF q
<1>5. Hashed(Sum(q[1], q[2], inv)) =
        <<Plus(<<x1, y1>>, q)[1], 2 + (Plus(<<x1, y1>>, q)[2] % 2)>>
  BY <1>1, <1>4, HashedCorrect
<1>. QED BY <1>2, <1>3, <1>5 DEF PublicKey

LEMMA PairStep ==
  ASSUME BatchRight, Pair
  PROVE  BatchRight'
<1>. DEFINE above == Sum(c_Gx[i], c_Gy[i], dx_inv)
            below == Sum(c_Gx[i], c_GyNeg[i], dx_inv)
<1>1. /\ pc = "pair" /\ pc' = "pair" /\ i < half - 1 /\ i' = i + 1
      /\ centre' = centre /\ x1' = x1 /\ y1' = y1 /\ batches_done' = batches_done
      /\ UNCHANGED setup /\ subp' = subp /\ inverse' = InverseAdvanced
      /\ hashed' = [hashed EXCEPT ![i+1] = Hashed(above), ![-(i+1)] = Hashed(below)]
      /\ harm' = (harm \/ LossesAround \/ Harmful(above) \/ Harmful(below))
  BY DEF Pair
<1>2. /\ Phase /\ Centred /\ Prefixed /\ Served /\ HashedSoFar
      /\ DOMAIN hashed = Offsets /\ i \in Index
  BY DEF BatchRight, Phase
<1>3. MultiplesRight'
  BY <1>1, MultiplesStay DEF BatchRight
<1>4. /\ i \in Int /\ i >= 0 /\ i + 1 \in Index /\ i + 1 \in Steps
      /\ i + 1 \in Offsets /\ -(i + 1) \in Offsets /\ half \in Int
  BY <1>1, <1>2, BatchFacts DEF Index, Steps, Offsets
<1>5. Phase'
  BY <1>1, <1>2, <1>4 DEF Phase, setup
<1>6. Sound' => Sound
  BY <1>1, SoundBefore
<1>7. Centred'
  BY <1>1, <1>2, <1>6 DEF Centred
<1>8. Prefixed'
  BY <1>1, <1>2, <1>6 DEF Prefixed
<1>9. ASSUME Sound', Sound
      PROVE  /\ dx_inv \in Number /\ Same(dx_inv * (c_Gx[i] - x1), 1)
             /\ InverseAdvanced \in Number /\ Same(InverseAdvanced * subp[i], 1)
             /\ ~Harmful(above) /\ ~Harmful(below)
  <2>1. ~LossesAround /\ ~Harmful(above) /\ ~Harmful(below)
    BY <1>1, <1>9 DEF Sound
  <2>. QED BY <1>1, <1>9, <2>1, InverseParts
<1>10. Served'
  <2>1. SUFFICES ASSUME Sound', Sound
                 PROVE  /\ inverse' \in Number
                        /\ Same(inverse' * (subp[i+1] * (c_Gx[i+1] - x1)), 1)
    BY <1>1, <1>6 DEF Served
  <2>. DEFINE w == InverseAdvanced
              u == subp[i]
              v == subp[i+1] * (c_Gx[i+1] - x1)
  <2>2. w \in Number /\ Same(w * u, 1)
    BY <1>9, <2>1
  <2>3. Same(u, v) /\ u \in Number
    BY <1>1, <1>2, <2>1 DEF Prefixed
  <2>4. v \in Int
    <3>1. subp[i+1] \in Number /\ c_Gx[i+1] - x1 \in Int
      BY <1>1, <1>2, <1>4, <2>1, Factors DEF Prefixed
    <3>2. subp[i+1] \in Int
      BY <3>1, Modulus
    <3>. QED BY <3>1, <3>2
  <2>. HIDE DEF w, u, v
  <2>5. w \in Int /\ u \in Int /\ Same(w, w) /\ Same(v, u)
    <3>1. w \in Int /\ u \in Int
      BY <2>2, <2>3, Modulus
    <3>. QED BY <2>3, <2>4, <3>1, SameSelf, SameBack
  <2>6. w * v \in Int /\ w * u \in Int /\ 1 \in Int
    BY <2>4, <2>5
  <2>7. Same(w * v, w * u)
    BY <2>4, <2>5, SameProduct
  <2>8. Same(w * v, 1)
    BY <2>2, <2>6, <2>7, SameThrough
  <2>. QED BY <1>1, <2>2, <2>8 DEF w, v
<1>11. HashedSoFar'
  <2>1. SUFFICES ASSUME Sound', Sound, NEW s \in Offsets
                 PROVE  hashed'[s] = IF s \in -(i+1) .. i+1 THEN PublicKey(centre + s) ELSE Nothing
    BY <1>1, <1>6 DEF HashedSoFar, Done
  <2>2. hashed[s] = IF s \in -i .. i THEN PublicKey(centre + s) ELSE Nothing
    BY <1>1, <1>2, <2>1 DEF HashedSoFar, Done
  <2>3. /\ c_Gx[i] = PointOf(i + 1)[1] /\ c_Gy[i] = PointOf(i + 1)[2]
        /\ c_GyNeg[i] = neg_mod(PointOf(i + 1)[2])
    BY <1>2, TableFacts
  <2>4. Hashed(above) = PublicKey(centre + (i + 1)) /\ Hashed(below) = PublicKey(centre - (i + 1))
    <3>. DEFINE j == i + 1
    <3>1. j \in Steps
      BY <1>4
    <3>2. dx_inv \in Number /\ Same(dx_inv * (PointOf(j)[1] - x1), 1)
      BY <1>9, <2>1, <2>3
    <3>3. above = Sum(PointOf(j)[1], PointOf(j)[2], dx_inv)
      BY <2>3
    <3>4. below = Sum(PointOf(j)[1], neg_mod(PointOf(j)[2]), dx_inv)
      BY <2>3
    <3>5. ~Harmful(above) /\ ~Harmful(below)
      BY <1>9, <2>1
    <3>. HIDE DEF j, above, below
    <3>6. Hashed(above) = PublicKey(centre + j)
      BY <1>1, <1>2, <2>1, <3>1, <3>2, <3>3, <3>5, HashedAbove
    <3>7. Hashed(below) = PublicKey(centre - j)
      BY <1>1, <1>2, <2>1, <3>1, <3>2, <3>4, <3>5, HashedBelow
    <3>. QED BY <3>6, <3>7 DEF j, above, below
  <2>5. centre \in Int /\ s \in Int
    BY <1>1, <1>2, <2>1, BatchPoint, OffsetFacts
  <2>. HIDE DEF above, below
  <2>6. CASE s = i + 1
    <3>1. s \in -(i+1) .. i+1 /\ s # -(i+1)
      BY <1>4, <2>6
    <3>2. hashed'[s] = Hashed(above)
      BY <1>1, <1>2, <2>6, <3>1
    <3>. QED BY <2>4, <2>6, <3>1, <3>2
  <2>7. CASE s = -(i + 1)
    <3>1. s \in -(i+1) .. i+1 /\ centre + s = centre - (i + 1)
      BY <1>4, <2>5, <2>7
    <3>2. hashed'[s] = Hashed(below)
      BY <1>1, <1>2, <2>7
    <3>. QED BY <2>4, <3>1, <3>2
  <2>8. CASE s # i + 1 /\ s # -(i + 1)
    <3>1. s \in -(i+1) .. i+1 <=> s \in -i .. i
      BY <1>4, <2>5, <2>8
    <3>2. hashed'[s] = hashed[s]
      BY <1>1, <1>2, <2>8
    <3>. QED BY <2>2, <3>1, <3>2
  <2>. QED BY <2>6, <2>7, <2>8
<1>. QED BY <1>3, <1>5, <1>7, <1>8, <1>10, <1>11 DEF BatchRight

LEMMA LastStep ==
  ASSUME BatchRight, Last
  PROVE  BatchRight'
<1>1. /\ pc = "pair" /\ pc' = "jump" /\ i = half - 1 /\ i' = i
      /\ centre' = centre /\ x1' = x1 /\ y1' = y1 /\ batches_done' = batches_done
      /\ UNCHANGED setup /\ subp' = subp /\ inverse' = InverseAdvanced
      /\ hashed' = [hashed EXCEPT ![-half] = Hashed(Tail)]
      /\ harm' = (harm \/ LossesAround \/ Harmful(Tail))
  BY DEF Last, TailOffset
<1>2. /\ Phase /\ Centred /\ Prefixed /\ Served /\ HashedSoFar
      /\ DOMAIN hashed = Offsets /\ i \in Index
  BY DEF BatchRight, Phase
<1>3. MultiplesRight'
  BY <1>1, MultiplesStay DEF BatchRight
<1>4. Phase'
  BY <1>1, <1>2 DEF Phase, setup
<1>5. Sound' => Sound
  BY <1>1, SoundBefore
<1>6. Centred'
  BY <1>1, <1>2, <1>5 DEF Centred
<1>7. ASSUME Sound', Sound
      PROVE  /\ dx_inv \in Number /\ Same(dx_inv * (c_Gx[i] - x1), 1)
             /\ InverseAdvanced \in Number /\ Same(InverseAdvanced * subp[i], 1)
             /\ subp[i] \in Number /\ ~Harmful(Tail)
  <2>1. ~LossesAround /\ ~Harmful(Tail)
    BY <1>1, <1>7 DEF Sound
  <2>. QED BY <1>1, <1>7, <2>1, InverseParts
<1>8. Served'
  <2>1. SUFFICES ASSUME Sound', Sound
                 PROVE  inverse' \in Number /\ Same(inverse' * (c_J[1] - x1), 1)
    BY <1>1, <1>5 DEF Served
  <2>. DEFINE w == InverseAdvanced
              u == subp[i]
              v == c_J[1] - x1
  <2>2. w \in Number /\ Same(w * u, 1) /\ u \in Number
    BY <1>7, <2>1
  <2>3. Same(u, v) /\ v \in Int
    BY <1>1, <1>2, <2>1, Factors DEF Prefixed
  <2>. HIDE DEF w, u, v
  <2>4. w \in Int /\ u \in Int /\ Same(w, w) /\ Same(v, u)
    <3>1. w \in Int /\ u \in Int
      BY <2>2, Modulus
    <3>. QED BY <2>3, <3>1, SameSelf, SameBack
  <2>5. w * v \in Int /\ w * u \in Int /\ 1 \in Int
    BY <2>3, <2>4
  <2>6. Same(w * v, w * u)
    BY <2>3, <2>4, SameProduct
  <2>7. Same(w * v, 1)
    BY <2>2, <2>5, <2>6, SameThrough
  <2>. QED BY <1>1, <2>2, <2>7 DEF w, v
<1>9. HashedSoFar'
  <2>1. SUFFICES ASSUME Sound', Sound, NEW s \in Offsets
                 PROVE  hashed'[s] = PublicKey(centre + s)
    BY <1>1, <1>5 DEF HashedSoFar, Done
  <2>2. hashed[s] = IF s \in -i .. i THEN PublicKey(centre + s) ELSE Nothing
    BY <1>1, <1>2, <2>1 DEF HashedSoFar, Done
  <2>3. c_Gx[i] = PointOf(half)[1] /\ c_GyNeg[i] = neg_mod(PointOf(half)[2]) /\ half \in Steps
    <3>1. i + 1 = half
      BY <1>1, BatchFacts
    <3>. QED BY <1>2, <3>1, TableFacts
  <2>4. Hashed(Tail) = PublicKey(centre - half)
    <3>. DEFINE j == half
    <3>1. j \in Steps /\ Tail = Sum(PointOf(j)[1], neg_mod(PointOf(j)[2]), dx_inv)
      BY <2>3 DEF Tail
    <3>2. dx_inv \in Number /\ Same(dx_inv * (PointOf(j)[1] - x1), 1) /\ ~Harmful(Tail)
      BY <1>7, <2>1, <2>3
    <3>. HIDE DEF j
    <3>3. Hashed(Tail) = PublicKey(centre - j)
      BY <1>1, <1>2, <2>1, <3>1, <3>2, HashedBelow
    <3>. QED BY <3>3 DEF j
  <2>5. centre \in Int /\ s \in Int /\ s >= -half /\ s <= half-1 /\ half \in Int /\ i \in Int
    BY <1>1, <1>2, <2>1, BatchPoint, OffsetFacts, BatchFacts
  <2>6. CASE s = -half
    <3>1. centre + s = centre - half
      BY <2>5, <2>6
    <3>2. hashed'[s] = Hashed(Tail)
      BY <1>1, <1>2, <2>6
    <3>. QED BY <2>4, <3>1, <3>2
  <2>7. CASE s # -half
    <3>1. s \in -i .. i
      BY <1>1, <2>5, <2>7
    <3>2. hashed'[s] = hashed[s]
      BY <1>1, <1>2, <2>7
    <3>. QED BY <2>2, <3>1, <3>2
  <2>. QED BY <2>6, <2>7
<1>. QED BY <1>1, <1>3, <1>4, <1>6, <1>8, <1>9 DEF BatchRight, Prefixed

LEMMA DegenerateCycle ==
  ASSUME NEW a \in Int, NEW n \in Int, Degenerate(a)
  PROVE  Degenerate(a + (Order * n))
<1>1. PICK j \in (0..half) \union {B} : (a - j) % Order = 0 \/ (a + j) % Order = 0
  BY DEF Degenerate
<1>2. j \in Int /\ a - j \in Int /\ a + j \in Int
  BY BatchFacts
<1>. DEFINE v == Order * n
<1>3. v \in Int
  BY BatchFacts
<1>4. ((a - j) + v) % Order = (a - j) % Order /\ ((a + j) + v) % Order = (a + j) % Order
  BY <1>2, ModCycle
<1>. HIDE DEF v
<1>5. (a + v) - j = (a - j) + v /\ (a + v) + j = (a + j) + v
  BY <1>2, <1>3
<1>6. ((a + v) - j) % Order = 0 \/ ((a + v) + j) % Order = 0
  BY <1>1, <1>4, <1>5
<1>7. Degenerate(a + v)
  BY <1>6 DEF Degenerate
<1>. QED BY <1>7 DEF v

\* The batches behind the next centre are those behind this one, and this one.
LEMMA SoundBehind ==
  ASSUME NEW c \in 0 .. Order-1, NEW n \in Nat,
         \A b \in 0 .. n+1 : ~Degenerate(((c + B) % Order) - b*B)
  PROVE  \A b \in 0 .. n : ~Degenerate(c - b*B)
<1>. DEFINE q == (c + B) \div Order
            r == (c + B) % Order
<1>1. c \in Int /\ B \in Int /\ Order \in Nat \ {0} /\ Order \in Int /\ c + B \in Int
  BY BatchFacts
<1>2. q \in Int /\ r \in 0 .. Order-1 /\ c + B = Order * q + r
  BY <1>1, DivModFacts
<1>. HIDE DEF q, r
<1>3. SUFFICES ASSUME NEW b \in 0 .. n, Degenerate(c - b*B) PROVE FALSE
  OBVIOUS
<1>4. b \in Int /\ b + 1 \in 0 .. n+1 /\ -q \in Int
  BY <1>2
<1>. DEFINE v == b * B
            w == Order * q
<1>5. v \in Int /\ w \in Int /\ (b + 1) * B = v + B /\ Order * (-q) = -w
  BY <1>1, <1>2, <1>4
<1>6. c - v \in Int /\ Degenerate(c - v)
  BY <1>1, <1>3, <1>5
<1>7. Degenerate((c - v) + (Order * (-q)))
  BY <1>4, <1>6, DegenerateCycle
<1>8. (c - v) + (Order * (-q)) = r - ((b + 1) * B)
  <2>1. c + B = w + r /\ r \in Int
    BY <1>1, <1>2
  <2>. HIDE DEF v, w
  <2>2. (c - v) + (-w) = r - (v + B)
    BY <1>1, <1>5, <2>1
  <2>. QED BY <1>5, <2>2
<1>9. ~Degenerate(r - ((b + 1) * B))
  BY <1>4 DEF r
<1>. QED BY <1>7, <1>8, <1>9

LEMMA JumpStep ==
  ASSUME BatchRight, Jump
  PROVE  BatchRight'
<1>. DEFINE nextp == Sum(c_J[1], c_J[2], inverse)
            y3 == sub_mod(nextp.y, y1)
<1>1. /\ pc = "jump" /\ pc' \in {"test", "exit"} /\ i' = i
      /\ centre' = (centre + B) % Order /\ batches_done' = batches_done + 1
      /\ x1' = nextp.x /\ y1' = y3
      /\ UNCHANGED setup /\ subp' = subp
      /\ hashed' = [s \in Offsets |-> Nothing]
      /\ harm' = (harm \/ nextp.lost \/ nextp.x \notin Residue \/ y3 \notin Residue)
  BY DEF Jump
<1>2. /\ Phase /\ Centred /\ Served
      /\ centre \in 0 .. Order-1 /\ batches_done \in Nat
  BY <1>1 DEF BatchRight, Phase
<1>3. MultiplesRight'
  BY <1>1, MultiplesStay DEF BatchRight
<1>4. centre \in Nat /\ centre + B \in Nat /\ centre' \in 0 .. Order-1
  <2>1. centre \in Nat /\ centre + B \in Nat
    BY <1>2, BatchFacts
  <2>. QED BY <1>1, <2>1, PointReduced
<1>5. Phase'
  BY <1>1, <1>2, <1>4 DEF Phase, setup
<1>6. Sound' => Sound
  <2>1. SUFFICES ASSUME Sound' PROVE Sound
    OBVIOUS
  <2>2. ~harm
    BY <1>1, <2>1 DEF Sound
  <2>3. \A b \in 0 .. batches_done+1 : ~Degenerate(((centre + B) % Order) - b*B)
    BY <1>1, <2>1 DEF Sound
  <2>4. \A b \in 0 .. batches_done : ~Degenerate(centre - b*B)
    BY <1>2, <2>3, SoundBehind
  <2>. QED BY <2>2, <2>4 DEF Sound
<1>7. Centred'
  <2>1. SUFFICES ASSUME Sound', Sound PROVE <<x1', y1'>> = PointOf(centre')
    BY <1>6 DEF Centred
  <2>2. ~nextp.lost /\ nextp.x \in Residue /\ y3 \in Residue
    BY <1>1, <2>1 DEF Sound
  <2>. DEFINE q == PointOf(B)
  <2>3. B \in Steps /\ c_J = q
    BY TableFacts
  <2>4. /\ <<x1, y1>> = PointOf(centre) /\ <<x1, y1>> \in Affine
        /\ q \in Affine /\ q[1] # x1
    BY <1>1, <1>2, <2>1, <2>3, BatchPoint
  <2>5. inverse \in Number /\ Same(inverse * (q[1] - x1), 1)
    BY <1>1, <1>2, <2>1, <2>3 DEF Served
  <2>6. Plus(<<x1, y1>>, q) = PointOf(centre + B)
    BY <1>4, <2>3, <2>4, Above
  <2>7. nextp = Sum(q[1], q[2], inverse)
    BY <2>3
  <2>. HIDE DEF q, nextp
  <2>8. <<nextp.x, y3>> = Plus(<<x1, y1>>, q)
    BY <2>2, <2>4, <2>5, <2>7, JumpCorrect
  <2>9. PointOf(centre + B) = PointOf(centre')
    BY <1>1, <1>4, PointReduced
  <2>. QED BY <1>1, <2>6, <2>8, <2>9
<1>8. HashedSoFar'
  BY <1>1 DEF HashedSoFar, Done
<1>. QED BY <1>1, <1>3, <1>5, <1>7, <1>8 DEF BatchRight, Prefixed, Served

LEMMA StillStep ==
  ASSUME BatchRight, UNCHANGED vars
  PROVE  BatchRight'
<1>1. /\ UNCHANGED setup /\ harm' = harm /\ centre' = centre /\ pc' = pc /\ i' = i
      /\ x1' = x1 /\ y1' = y1 /\ subp' = subp /\ inverse' = inverse
      /\ hashed' = hashed /\ batches_done' = batches_done
  BY DEF vars, svars, bvars, setup
<1>2. MultiplesRight'
  BY <1>1, MultiplesStay DEF BatchRight
<1>3. Sound' <=> Sound
  BY <1>1 DEF Sound
<1>4. Phase'
  BY <1>1 DEF BatchRight, Phase, setup
<1>5. Centred' /\ Prefixed'
  BY <1>1, <1>3 DEF BatchRight, Centred, Prefixed
<1>6. Served' /\ HashedSoFar'
  BY <1>1, <1>3 DEF BatchRight, Served, HashedSoFar, Done
<1>. QED BY <1>2, <1>4, <1>5, <1>6 DEF BatchRight

LEMMA BatchStep == BatchRight /\ [Next]_vars => BatchRight'
<1>. SUFFICES ASSUME BatchRight, [Next]_vars PROVE BatchRight'
  OBVIOUS
<1>1. CASE Multiply
  BY <1>1, MultiplyStep
<1>2. CASE Load
  BY <1>2, LoadStep
<1>3. CASE Test
  BY <1>3, TestStep
<1>4. CASE Product
  BY <1>4, ProductStep
<1>5. CASE Invert
  BY <1>5, InvertStep
<1>6. CASE Pair
  BY <1>6, PairStep
<1>7. CASE Last
  BY <1>7, LastStep
<1>8. CASE Jump
  BY <1>8, JumpStep
<1>9. CASE Over \/ UNCHANGED vars
  BY <1>9, StillStep DEF Over
<1>. QED BY <1>1, <1>2, <1>3, <1>4, <1>5, <1>6, <1>7, <1>8, <1>9 DEF Next

-------------------------------------------------------------------------------
(* The theorems                                                            *)

LEMMA InverseServes ==
  ASSUME BatchRight
  PROVE  InverseServesPair
<1>0. Phase /\ Centred /\ Prefixed /\ Served /\ i \in Index
  BY DEF BatchRight, Phase
<1>1. ASSUME pc = "pair", Sound
      PROVE  (((subp[i] * inverse) % P) * sub_mod(c_Gx[i], x1)) % P = 1
  <2>. DEFINE u == subp[i]
              w == inverse
              d == c_Gx[i] - x1
              f == sub_mod(c_Gx[i], x1)
              l == u * w
              m == l % P
  <2>1. u \in Number /\ w \in Number /\ Same(w * (u * d), 1)
    BY <1>0, <1>1 DEF Prefixed, Served
  <2>2. d \in Int /\ f \in Int /\ Same(f, d)
    BY <1>0, <1>1, Factors
  <2>. HIDE DEF u, w, d, f
  <2>3. u \in Int /\ w \in Int
    BY <2>1, Modulus
  <2>4. l \in Int /\ l * d = w * (u * d)
    BY <2>2, <2>3
  <2>5. Same(l * d, 1)
    BY <2>1, <2>4
  <2>. HIDE DEF l
  <2>6. m \in Residue /\ Same(m, l)
    BY <2>4, SameMod
  <2>7. m \in Int
    BY <2>6, Modulus
  <2>. HIDE DEF m
  <2>8. Same(m * f, l * d)
    BY <2>2, <2>4, <2>6, <2>7, SameProduct
  <2>9. m * f \in Int /\ l * d \in Int /\ 1 \in Int
    BY <2>2, <2>4, <2>7
  <2>10. Same(m * f, 1)
    BY <2>5, <2>8, <2>9, SameThrough
  <2>11. (m * f) % P = 1
    BY <2>9, <2>10, SameZero
  <2>. QED BY <2>11 DEF m, l, u, w, f
<1>2. ASSUME pc = "jump", Sound
      PROVE  (inverse * sub_mod(c_J[1], x1)) % P = 1
  <2>. DEFINE w == inverse
              d == c_J[1] - x1
              f == sub_mod(c_J[1], x1)
  <2>1. w \in Number /\ Same(w * d, 1)
    BY <1>0, <1>2 DEF Served
  <2>2. d \in Int /\ f \in Int /\ Same(f, d)
    BY <1>0, <1>2, Factors
  <2>. HIDE DEF w, d, f
  <2>3. w \in Int /\ Same(w, w)
    BY <2>1, SameSelf, Modulus
  <2>4. Same(w * f, w * d)
    BY <2>2, <2>3, SameProduct
  <2>5. w * f \in Int /\ w * d \in Int /\ 1 \in Int
    BY <2>2, <2>3
  <2>6. Same(w * f, 1)
    BY <2>1, <2>4, <2>5, SameThrough
  <2>7. (w * f) % P = 1
    BY <2>5, <2>6, SameZero
  <2>. QED BY <2>7 DEF w, f
<1>. QED BY <1>1, <1>2 DEF InverseServesPair

LEMMA HashedIs ==
  ASSUME BatchRight
  PROVE  HashedIsPublicKey
<1>1. SUFFICES ASSUME Sound, NEW s \in Offsets
               PROVE  hashed[s] = PublicKey(centre + s) \/ (hashed[s] = Nothing /\ pc # "jump")
  BY DEF HashedIsPublicKey
<1>2. hashed[s] = IF Done(s) THEN PublicKey(centre + s) ELSE Nothing
  BY <1>1 DEF BatchRight, HashedSoFar
<1>3. pc = "jump" => Done(s)
  BY DEF Done
<1>. QED BY <1>2, <1>3

LEMMA AlwaysRight == Spec => []BatchRight
<1>. QED BY BatchStart, BatchStep, PTL DEF Spec

\* scalarMulBaseAffine (GpuEc.cu): whatever the curve and the scalar, after every bit the device
\* holds the multiple by the bits seen so far, unless a product or a sum lost its carry or a
\* coordinate came out unreduced.
THEOREM DeviceMultipleCorrect == Spec => []DevicePrefixMultiple
<1>1. BatchRight => DevicePrefixMultiple
  BY DEF BatchRight, MultiplesRight
<1>. QED BY <1>1, AlwaysRight, PTL

\* Ec::MultiplyG (Ec.cpp): for every scalar below the order of the base point, adding without looking
\* for equal, opposite or infinite points gives the multiple by the low bits.
THEOREM HostMultipleCorrect == Spec => []HostSuffixMultiple
<1>1. BatchRight => HostSuffixMultiple
  BY DEF BatchRight, MultiplesRight
<1>. QED BY <1>1, AlwaysRight, PTL

\* The batch of TestKernel (GpuCore.cu): for every field, curve and batch size, what is hashed for
\* each offset is the public key of centre + offset, and no offset is left out.
THEOREM BatchHashesPublicKeys == Spec => []HashedIsPublicKey
<1>1. BatchRight => HashedIsPublicKey
  BY HashedIs
<1>. QED BY <1>1, AlwaysRight, PTL

\* The one inversion of a batch (GpuCore.cu): the running inverse times the prefix product is the
\* inverse of each pair's factor in turn, and in the end of the jump's.
THEOREM OneInverseServesAll == Spec => []InverseServesPair
<1>1. BatchRight => InverseServesPair
  BY InverseServes
<1>. QED BY <1>1, AlwaysRight, PTL
===============================================================================
