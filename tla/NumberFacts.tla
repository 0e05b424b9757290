------------------------------ MODULE NumberFacts ------------------------------
(***************************************************************************)
(* What the proofs about limbs, bits and residues share: induction over    *)
(* numbers, recursive functions, divisibility, and the digits of a number. *)
(*                                                                         *)
(* An induction runs over a set that holds the numbers a formula is true   *)
(* of; a recursive function is given the function that makes each value    *)
(* from the one before.                                                    *)
(***************************************************************************)
EXTENDS Integers, WellFoundedInduction, TLAPS

LEMMA LeastMember ==
  ASSUME NEW T, T \subseteq Nat, T # {}
  PROVE  \E n \in T : \A m \in T : n <= m
<1>1. \E n \in T : \A m \in T : ~(<<m, n>> \in OpToRel(<, Nat))
  BY NatLessThanWellFounded, WFMin
<1>2. PICK n \in T : \A m \in T : ~(<<m, n>> \in OpToRel(<, Nat))
  BY <1>1
<1>3. \A m \in T : ~(m < n)
  BY <1>2 DEF OpToRel
<1>. QED BY <1>3

LEMMA Induction ==
  ASSUME NEW T, 0 \in T, \A n \in Nat : n \in T => n + 1 \in T
  PROVE  Nat \subseteq T
<1>1. SUFFICES ASSUME Nat \ T # {} PROVE FALSE
  OBVIOUS
<1>2. PICK n \in Nat \ T : \A m \in Nat \ T : n <= m
  BY <1>1, LeastMember
<1>3. n - 1 \in Nat
  BY <1>2
<1>4. n - 1 \in T
  BY <1>2, <1>3
<1>. QED BY <1>2, <1>3, <1>4

\* f is defined from 0 up to n: c, and then what "next" makes of the value before.
Follows(f, n, S, c, next) ==
  f \in [0..n -> S] /\ f[0] = c /\ \A i \in 1..n : f[i] = next[i][f[i-1]]

LEMMA UpwardFunction ==
  ASSUME NEW N \in Nat, NEW S, NEW c \in S, NEW next \in [1..N -> [S -> S]]
  PROVE  \E f : Follows(f, N, S, c, next)
<1>. DEFINE T == {n \in Nat : n <= N => \E f : Follows(f, n, S, c, next)}
<1>1. 0 \in T
  <2>1. Follows([i \in 0..0 |-> c], 0, S, c, next)
    BY DEF Follows
  <2>. QED BY <2>1
<1>2. ASSUME NEW n \in Nat, n \in T PROVE n + 1 \in T
  <2>1. SUFFICES ASSUME n + 1 <= N PROVE \E f : Follows(f, n + 1, S, c, next)
    OBVIOUS
  <2>2. PICK f : Follows(f, n, S, c, next)
    BY <1>2, <2>1
  <2>3. f[n] \in S /\ n + 1 \in 1..N
    BY <2>1, <2>2 DEF Follows
  <2>. DEFINE v == next[n+1][f[n]]
              g == [i \in 0..n+1 |-> IF i = n + 1 THEN v ELSE f[i]]
  <2>4. v \in S
    BY <2>3
  <2>. HIDE DEF v
  <2>5. g \in [0..n+1 -> S] /\ g[n+1] = v /\ \A i \in 0..n : g[i] = f[i]
    BY <2>2, <2>4 DEF Follows
  <2>6. ASSUME NEW i \in 1..n+1 PROVE g[i] = next[i][g[i-1]]
    <3>1. CASE i = n + 1
      BY <2>5, <3>1 DEF v
    <3>2. CASE i \in 1..n
      BY <2>2, <2>5, <3>2 DEF Follows
    <3>. QED BY <3>1, <3>2
  <2>. HIDE DEF g
  <2>7. Follows(g, n + 1, S, c, next)
    BY <2>2, <2>5, <2>6 DEF Follows
  <2>. QED BY <2>7
<1>. HIDE DEF T
<1>3. N \in T
  BY <1>1, <1>2, Induction
<1>. QED BY <1>3 DEF T

LEMMA UpTo ==
  ASSUME NEW N \in Nat, NEW T, 0 \in T, \A i \in 0..N-1 : i \in T => i + 1 \in T
  PROVE  \A i \in 0..N : i \in T
<1>. DEFINE U == {n \in Nat : n <= N => n \in T}
<1>1. Nat \subseteq U
  <2>1. 0 \in U /\ \A n \in Nat : n \in U => n + 1 \in U
    OBVIOUS
  <2>. HIDE DEF U
  <2>. QED BY <2>1, Induction
<1>. QED BY <1>1

LEMMA DownFrom ==
  ASSUME NEW N \in Nat, NEW T, N \in T, \A i \in 0..N-1 : i + 1 \in T => i \in T
  PROVE  \A i \in 0..N : i \in T
<1>. DEFINE U == {n \in Nat : n <= N => N - n \in T}
<1>1. Nat \subseteq U
  <2>1. 0 \in U
    OBVIOUS
  <2>2. ASSUME NEW n \in Nat, n \in U PROVE n + 1 \in U
    <3>. SUFFICES ASSUME n + 1 <= N PROVE N - (n + 1) \in T
      OBVIOUS
    <3>1. N - (n + 1) \in 0..N-1 /\ (N - (n + 1)) + 1 = N - n /\ N - n \in T
      BY <2>2
    <3>. QED BY <3>1
  <2>. HIDE DEF U
  <2>. QED BY <2>1, <2>2, Induction
<1>2. ASSUME NEW i \in 0..N PROVE i \in T
  <2>1. N - i \in Nat /\ N - i <= N /\ N - (N - i) = i
    OBVIOUS
  <2>. QED BY <1>1, <2>1
<1>. QED BY <1>2

\* f is defined from N down to 0.
Descends(f, N, S, c, next) ==
  f \in [0..N -> S] /\ f[N] = c /\ \A i \in 0..N-1 : f[i] = next[i][f[i+1]]

LEMMA DownwardFunction ==
  ASSUME NEW N \in Nat, NEW S, NEW c \in S, NEW next \in [0..N-1 -> [S -> S]]
  PROVE  \E f : Descends(f, N, S, c, next)
<1>. DEFINE up == [i \in 1..N |-> next[N-i]]
<1>1. up \in [1..N -> [S -> S]]
  OBVIOUS
<1>2. PICK g : Follows(g, N, S, c, up)
  <2>. HIDE DEF up
  <2>. QED BY <1>1, UpwardFunction
<1>. DEFINE f == [i \in 0..N |-> g[N-i]]
<1>3. f \in [0..N -> S] /\ f[N] = c
  BY <1>2 DEF Follows
<1>4. ASSUME NEW i \in 0..N-1 PROVE f[i] = next[i][f[i+1]]
  <2>1. N - i \in 1..N /\ (N - i) - 1 = N - (i + 1) /\ N - (N - i) = i /\ i + 1 \in 0..N /\ i \in 0..N
    OBVIOUS
  <2>2. g[N-i] = up[N-i][g[(N-i)-1]]
    BY <1>2, <2>1 DEF Follows
  <2>. QED BY <2>1, <2>2
<1>. HIDE DEF f
<1>5. Descends(f, N, S, c, next)
  BY <1>3, <1>4 DEF Descends
<1>. QED BY <1>5

-------------------------------------------------------------------------------
(* Divisibility                                                            *)

Divides(n, k) == \E j \in Int : k = n * j

LEMMA DividesSum ==
  ASSUME NEW n \in Int, NEW k \in Int, NEW l \in Int, Divides(n, k), Divides(n, l)
  PROVE  Divides(n, k + l) /\ Divides(n, k - l)
<1>1. PICK i \in Int, j \in Int : k = n * i /\ l = n * j
  BY DEF Divides
<1>2. k + l = n * (i + j) /\ k - l = n * (i - j) /\ i + j \in Int /\ i - j \in Int
  BY <1>1
<1>. QED BY <1>2 DEF Divides

LEMMA DividesMultiple ==
  ASSUME NEW n \in Int, NEW k \in Int, NEW l \in Int, Divides(n, k)
  PROVE  Divides(n, k * l) /\ Divides(n, l * k)
<1>1. PICK i \in Int : k = n * i
  BY DEF Divides
<1>2. k * l = n * (i * l) /\ l * k = n * (i * l) /\ i * l \in Int
  BY <1>1
<1>. QED BY <1>2 DEF Divides

LEMMA DividesItself ==
  ASSUME NEW n \in Int, NEW k \in Int
  PROVE  Divides(n, 0) /\ Divides(n, n) /\ Divides(n, n * k) /\ Divides(n, k * n)
<1>1. 0 = n * 0 /\ n = n * 1 /\ k * n = n * k
  OBVIOUS
<1>. QED BY <1>1 DEF Divides

LEMMA DividesThrough ==
  ASSUME NEW n \in Int, NEW k \in Int, NEW l \in Int, Divides(n, k), Divides(k, l)
  PROVE  Divides(n, l)
<1>1. PICK i \in Int, j \in Int : k = n * i /\ l = k * j
  BY DEF Divides
<1>2. l = n * (i * j) /\ i * j \in Int
  BY <1>1
<1>. QED BY <1>2 DEF Divides

LEMMA DivModFacts ==
  ASSUME NEW n \in Nat \ {0}, NEW k \in Int
  PROVE  /\ k \div n \in Int /\ k % n \in 0..n-1
         /\ k = n * (k \div n) + (k % n)
OBVIOUS

\* A multiple that is less than one multiple is none.
LEMMA NoMultiple ==
  ASSUME NEW n \in Nat \ {0}, NEW j \in Int, n * j < n, n * j > -n
  PROVE  j = 0
<1>1. ASSUME j >= 1 PROVE FALSE
  <2>1. n * j >= n
    BY <1>1
  <2>. QED BY <2>1
<1>2. ASSUME j <= -1 PROVE FALSE
  <2>1. n * j <= -n
    BY <1>2
  <2>. QED BY <2>1
<1>. QED BY <1>1, <1>2

LEMMA DividesMod ==
  ASSUME NEW n \in Nat \ {0}, NEW k \in Int
  PROVE  /\ Divides(n, k) <=> k % n = 0
         /\ Divides(n, k - (k % n))
         /\ k % n = 0 => k = n * (k \div n)
<1>. DEFINE q == k \div n
            s == k % n
<1>1. q \in Int /\ s \in 0..n-1 /\ k = n * q + s
  BY DivModFacts
<1>. HIDE DEF q, s
<1>2. Divides(n, k - s)
  <2>1. n * q \in Int /\ k - s = n * q
    BY <1>1
  <2>. QED BY <1>1, <2>1 DEF Divides
<1>3. ASSUME Divides(n, k) PROVE s = 0
  <2>1. PICK j \in Int : k = n * j
    BY <1>3 DEF Divides
  <2>2. n * (j - q) = s
    BY <1>1, <2>1
  <2>3. j - q = 0
    BY <1>1, <2>2, NoMultiple
  <2>. QED BY <1>1, <2>2, <2>3
<1>4. ASSUME s = 0 PROVE k = n * q /\ Divides(n, k)
  BY <1>1, <1>4 DEF Divides
<1>5. Divides(n, k) <=> s = 0
  BY <1>3, <1>4
<1>. QED BY <1>2, <1>4, <1>5 DEF q, s

\* A remainder that is 1 and one that is not 0.
LEMMA RemainderOne ==
  ASSUME NEW n \in Nat, n > 1, NEW k \in Int
  PROVE  Divides(n, k - 1) <=> k % n = 1
<1>. DEFINE s == k % n
<1>0. n \in Nat \ {0}
  OBVIOUS
<1>1. s \in 0..n-1 /\ Divides(n, k - s)
  BY <1>0, DivModFacts, DividesMod
<1>. HIDE DEF s
<1>2. ASSUME Divides(n, k - 1) PROVE s = 1
  <2>1. Divides(n, (k - 1) - (k - s))
    BY <1>1, <1>2, DividesSum
  <2>2. PICK j \in Int : s - 1 = n * j
    <3>1. (k - 1) - (k - s) = s - 1
      BY <1>1
    <3>. QED BY <2>1, <3>1 DEF Divides
  <2>3. j = 0
    BY <1>0, <1>1, <2>2, NoMultiple
  <2>. QED BY <1>1, <2>2, <2>3
<1>3. s = 1 => Divides(n, k - 1)
  BY <1>1
<1>. QED BY <1>2, <1>3 DEF s

-------------------------------------------------------------------------------
(* Digits, high one first                                                  *)

\* h has the value of c followed by the first k of the n digits s, the first digit highest.
IsHorner(h, B, c, s, n) ==
  h \in [0..n -> Int] /\ h[0] = c /\ \A k \in 1..n : h[k] = B * h[k-1] + s[k]

Horner(B, c, s, n) == CHOOSE h : IsHorner(h, B, c, s, n)

LEMMA HornerFacts ==
  ASSUME NEW B \in Int, NEW c \in Int, NEW n \in Nat, NEW s \in [1..n -> Int]
  PROVE  IsHorner(Horner(B, c, s, n), B, c, s, n)
<1>. DEFINE next == [k \in 1..n |-> [v \in Int |-> B * v + s[k]]]
<1>1. next \in [1..n -> [Int -> Int]] /\ \A k \in 1..n, v \in Int : next[k][v] = B * v + s[k]
  OBVIOUS
<1>. HIDE DEF next
<1>2. PICK h : Follows(h, n, Int, c, next)
  BY <1>1, UpwardFunction
<1>3. ASSUME NEW k \in 1..n PROVE h[k] = B * h[k-1] + s[k]
  <2>1. k - 1 \in 0..n /\ h[k-1] \in Int /\ h[k] = next[k][h[k-1]]
    BY <1>2 DEF Follows
  <2>. QED BY <1>1, <2>1
<1>4. IsHorner(h, B, c, s, n)
  BY <1>2, <1>3 DEF Follows, IsHorner
<1>. QED BY <1>4 DEF Horner

\* The digits after the first m go on from the value of those.
Continued(B, c, m, s, n, u) == /\ B \in Int /\ c \in Int /\ m \in Nat /\ n \in Nat
                               /\ s \in [1..m+n -> Int] /\ u \in [1..n -> Int]
                               /\ \A k \in 1..n : s[m+k] = u[k]

GoesOn(h, B, m, n, u) == \A k \in 0..n : h[m+k] = Horner(B, h[m], u, n)[k]

LEMMA HornerContinues ==
  ASSUME NEW B, NEW c, NEW m, NEW n, NEW s, NEW u, Continued(B, c, m, s, n, u)
  PROVE  GoesOn(Horner(B, c, s, m + n), B, m, n, u)
<1>. USE DEF Continued
<1>. DEFINE h == Horner(B, c, s, m + n)
            g == Horner(B, h[m], u, n)
            T == {k \in 0..n : h[m+k] = g[k]}
<1>0. m + n \in Nat
  OBVIOUS
<1>1. IsHorner(h, B, c, s, m + n)
  BY <1>0, HornerFacts
<1>. HIDE DEF h
<1>2. h[m] \in Int
  BY <1>1 DEF IsHorner
<1>3. IsHorner(g, B, h[m], u, n)
  BY <1>2, HornerFacts
<1>. HIDE DEF g
<1>4. 0 \in T
  BY <1>3 DEF IsHorner
<1>5. ASSUME NEW k \in 0..n-1, k \in T PROVE k + 1 \in T
  <2>1. h[m+(k+1)] = B * h[(m+(k+1))-1] + s[m+(k+1)] /\ (m+(k+1))-1 = m+k
    BY <1>1 DEF IsHorner
  <2>2. g[k+1] = B * g[(k+1)-1] + u[k+1] /\ (k+1)-1 = k /\ k + 1 \in 1..n
    BY <1>3 DEF IsHorner
  <2>3. s[m+(k+1)] = u[k+1]
    BY <2>2
  <2>. QED BY <1>5, <2>1, <2>2, <2>3
<1>. HIDE DEF T
<1>6. \A k \in 0..n : k \in T
  BY <1>4, <1>5, UpTo
<1>. QED BY <1>6 DEF GoesOn, T, g, h

\* z of the n digits s are zeros at its front, and no more.
Leads(s, n, z) == z \in 0..n /\ (\A m \in 1..z : s[m] = 0) /\ (z < n => s[z+1] # 0)

LEMMA LeadsExists ==
  ASSUME NEW n \in Nat, NEW s
  PROVE  \E z : Leads(s, n, z)
<1>1. CASE \A m \in 1..n : s[m] = 0
  <2>1. Leads(s, n, n)
    BY <1>1 DEF Leads
  <2>. QED BY <2>1
<1>2. CASE \E m \in 1..n : s[m] # 0
  <2>. DEFINE T == {m \in 1..n : s[m] # 0}
  <2>1. T \subseteq Nat /\ T # {}
    BY <1>2
  <2>2. PICK m \in T : \A k \in T : m <= k
    <3>. HIDE DEF T
    <3>. QED BY <2>1, LeastMember
  <2>3. \A k \in 1..m-1 : k \notin T
    BY <2>2
  <2>4. Leads(s, n, m - 1)
    BY <2>2, <2>3 DEF Leads
  <2>. QED BY <2>4
<1>. QED BY <1>1, <1>2

LEMMA LeadsUnique ==
  ASSUME NEW n \in Nat, NEW s, NEW y, NEW z, Leads(s, n, y), Leads(s, n, z)
  PROVE  y = z
<1>1. y \in 0..n /\ z \in 0..n
  BY DEF Leads
<1>2. ~(y < z)
  <2>. SUFFICES ASSUME y < z PROVE FALSE
    OBVIOUS
  <2>1. y + 1 \in 1..z /\ y < n
    BY <1>1
  <2>. QED BY <2>1 DEF Leads
<1>3. ~(z < y)
  <2>. SUFFICES ASSUME z < y PROVE FALSE
    OBVIOUS
  <2>1. z + 1 \in 1..y /\ z < n
    BY <1>1
  <2>. QED BY <2>1 DEF Leads
<1>. QED BY <1>1, <1>2, <1>3

LEMMA StepPositive ==
  ASSUME NEW B \in Nat, B > 1, NEW v \in Nat, NEW d \in Nat
  PROVE  B * v + d \in Nat /\ (B * v + d = 0 <=> v = 0 /\ d = 0)
<1>1. v > 0 => B * v >= v
  OBVIOUS
<1>2. B * v \in Nat /\ (v = 0 => B * v = 0)
  OBVIOUS
<1>. QED BY <1>1, <1>2

\* A value is 0 as far as the zeros at the front go, and not 0 from there on.
ZeroUpTo(h, n, z) == \A k \in 0..n : h[k] \in Nat /\ (h[k] = 0 <=> k <= z)

LEMMA HornerZero ==
  ASSUME NEW B \in Nat, B > 1, NEW n \in Nat, NEW s \in [1..n -> Nat], NEW z, Leads(s, n, z)
  PROVE  ZeroUpTo(Horner(B, 0, s, n), n, z)
<1>. DEFINE h == Horner(B, 0, s, n)
            T == {k \in 0..n : h[k] \in Nat /\ (h[k] = 0 <=> k <= z)}
<1>0. s \in [1..n -> Int] /\ B \in Int /\ 0 \in Int
  OBVIOUS
<1>1. IsHorner(h, B, 0, s, n)
  BY <1>0, HornerFacts, Zenon
<1>. HIDE DEF h
<1>2. z \in 0..n
  BY DEF Leads
<1>3. 0 \in T
  BY <1>1, <1>2 DEF IsHorner
<1>4. ASSUME NEW k \in 0..n-1, k \in T PROVE k + 1 \in T
  <2>1. k + 1 \in 1..n /\ (k+1)-1 = k /\ k + 1 \in 0..n
    OBVIOUS
  <2>2. h[k+1] = B * h[k] + s[k+1]
    BY <1>1, <2>1, Zenon DEF IsHorner
  <2>3. h[k] \in Nat /\ s[k+1] \in Nat
    BY <1>4, <2>1
  <2>. DEFINE v == h[k]
              d == s[k+1]
  <2>9. B * v + d \in Nat /\ (B * v + d = 0 <=> v = 0 /\ d = 0)
    <3>. HIDE DEF v, d
    <3>1. v \in Nat /\ d \in Nat
      BY <2>3 DEF v, d
    <3>. QED BY <3>1, StepPositive
  <2>4. h[k+1] \in Nat /\ (h[k+1] = 0 <=> h[k] = 0 /\ s[k+1] = 0)
    BY <2>2, <2>9
  <2>5. k + 1 <= z => s[k+1] = 0
    BY <1>2, <2>1 DEF Leads
  <2>6. k = z => s[k+1] # 0
    BY <1>2, <2>1 DEF Leads
  <2>7. h[k] = 0 <=> k <= z
    BY <1>4
  <2>8. h[k+1] = 0 <=> k + 1 <= z
    BY <1>2, <2>4, <2>5, <2>6, <2>7
  <2>. QED BY <2>1, <2>4, <2>8
<1>. HIDE DEF T
<1>5. \A k \in 0..n : k \in T
  BY <1>3, <1>4, UpTo
<1>. QED BY <1>5 DEF T, h, ZeroUpTo

\* Two numbers and a digit to go on with, for each the same result.
SameNext(B, x, a, y, b) ==
  x \in Int /\ y \in Int /\ a \in 0..B-1 /\ b \in 0..B-1 /\ B * x + a = B * y + b

LEMMA LastDigit ==
  ASSUME NEW B \in Nat, B > 1, NEW x, NEW y, NEW a, NEW b, SameNext(B, x, a, y, b)
  PROVE  x = y /\ a = b
<1>1. x \in Int /\ y \in Int /\ a \in 0..B-1 /\ b \in 0..B-1 /\ B * x + a = B * y + b
  BY DEF SameNext
<1>2. B * (x - y) = b - a
  BY <1>1
<1>3. B * (x - y) < B /\ B * (x - y) > -B /\ x - y \in Int /\ B \in Nat \ {0}
  BY <1>1, <1>2
<1>4. x - y = 0
  BY <1>3, NoMultiple
<1>. QED BY <1>1, <1>4

\* s and u agree at the low end, as far as s goes, and so do the values before each digit.
SameLow(h, g, s, u, m, n) ==
  \A i \in 0..m : h[i] = g[n-m+i] /\ (i > 0 => s[i] = u[n-m+i])

LEMMA SameFromLow ==
  ASSUME NEW B \in Nat, B > 1, NEW m \in Nat, NEW n \in Nat, m <= n,
         NEW s \in [1..m -> 0..B-1], NEW u \in [1..n -> 0..B-1],
         Horner(B, 0, s, m)[m] = Horner(B, 0, u, n)[n]
  PROVE  SameLow(Horner(B, 0, s, m), Horner(B, 0, u, n), s, u, m, n)
<1>. DEFINE h == Horner(B, 0, s, m)
            g == Horner(B, 0, u, n)
            T == {i \in 0..m : h[i] = g[n-m+i]}
<1>0. s \in [1..m -> Int] /\ u \in [1..n -> Int] /\ B \in Int /\ 0 \in Int
  OBVIOUS
<1>1. IsHorner(h, B, 0, s, m) /\ IsHorner(g, B, 0, u, n)
  BY <1>0, HornerFacts, Zenon
<1>2. h[m] = g[n]
  OBVIOUS
<1>. HIDE DEF h, g
<1>3. m \in T
  BY <1>2
<1>4. ASSUME NEW i \in 0..m-1, i + 1 \in T PROVE i \in T /\ s[i+1] = u[n-m+(i+1)]
  <2>. DEFINE j == n-m+i
  <2>1. /\ i + 1 \in 1..m /\ (i+1)-1 = i /\ i \in 0..m
        /\ j + 1 \in 1..n /\ (j+1)-1 = j /\ j \in 0..n
        /\ n-m+(i+1) = j + 1
    OBVIOUS
  <2>2. h[i+1] = g[j+1]
    BY <1>4, <2>1
  <2>. HIDE DEF j
  <2>3. h[i+1] = B * h[i] + s[i+1] /\ g[j+1] = B * g[j] + u[j+1]
    BY <1>1, <2>1, Zenon DEF IsHorner
  <2>4. h[i] \in Int /\ g[j] \in Int /\ s[i+1] \in 0..B-1 /\ u[j+1] \in 0..B-1
    BY <1>1, <2>1 DEF IsHorner
  <2>5. B * h[i] + s[i+1] = B * g[j] + u[j+1]
    BY <2>2, <2>3
  <2>6. h[i] = g[j] /\ s[i+1] = u[j+1]
    <3>1. SameNext(B, h[i], s[i+1], g[j], u[j+1])
      BY <2>4, <2>5, Zenon DEF SameNext
    <3>2. B \in Nat /\ B > 1
      OBVIOUS
    <3>3. ASSUME NEW x, NEW y, NEW a, NEW b, SameNext(B, x, a, y, b) PROVE x = y /\ a = b
      BY <3>2, <3>3, LastDigit
    <3>4. h[i] = g[j]
      BY <3>1, <3>3
    <3>5. s[i+1] = u[j+1]
      BY <3>1, <3>3
    <3>. QED BY <3>4, <3>5
  <2>. QED BY <2>1, <2>6 DEF j
<1>5. \A i \in 0..m : i \in T
  <2>. HIDE DEF T
  <2>. QED BY <1>3, <1>4, DownFrom
<1>6. ASSUME NEW i \in 0..m, i > 0 PROVE s[i] = u[n-m+i]
  <2>1. i - 1 \in 0..m-1 /\ (i - 1) + 1 = i
    BY <1>6
  <2>2. (i - 1) + 1 \in T
    BY <1>5, <2>1
  <2>. QED BY <1>4, <2>1, <2>2
<1>. QED BY <1>5, <1>6 DEF h, g, SameLow

LEMMA NotShorter ==
  ASSUME NEW B \in Nat, B > 1, NEW m \in Nat, NEW n \in Nat, m <= n,
         NEW s \in [1..m -> 0..B-1], NEW u \in [1..n -> 0..B-1],
         NEW z, Leads(s, m, z), Leads(u, n, z),
         Horner(B, 0, s, m)[m] = Horner(B, 0, u, n)[n]
  PROVE  m = n /\ s = u
<1>. DEFINE h == Horner(B, 0, s, m)
            g == Horner(B, 0, u, n)
<1>1. SameLow(h, g, s, u, m, n)
  BY SameFromLow
<1>2. s \in [1..m -> Nat] /\ u \in [1..n -> Nat]
  OBVIOUS
<1>3. ZeroUpTo(h, m, z)
  BY <1>2, HornerZero
<1>4. ZeroUpTo(g, n, z)
  BY <1>2, HornerZero
<1>. HIDE DEF h, g
<1>5. z \in 0..m
  BY DEF Leads
<1>6. h[z] = 0 /\ h[z] = g[n-m+z]
  BY <1>1, <1>3, <1>5 DEF SameLow, ZeroUpTo
<1>7. n-m+z \in 0..n
  BY <1>5
<1>8. n-m+z <= z
  BY <1>4, <1>6, <1>7 DEF ZeroUpTo
<1>9. m = n
  BY <1>5, <1>8
<1>10. \A i \in 1..m : s[i] = u[i]
  BY <1>1, <1>9 DEF SameLow
<1>. QED BY <1>9, <1>10

\* s and u write the same number in base B, after as many zeros.
SameDigits(B, s, m, u, n, z) ==
  /\ B \in Nat /\ B > 1 /\ m \in Nat /\ n \in Nat
  /\ s \in [1..m -> 0..B-1] /\ u \in [1..n -> 0..B-1]
  /\ Leads(s, m, z) /\ Leads(u, n, z)
  /\ Horner(B, 0, s, m)[m] = Horner(B, 0, u, n)[n]

\* Digits are determined by their value and the number of zeros in front.
LEMMA DigitsUnique ==
  ASSUME NEW B, NEW s, NEW m, NEW u, NEW n, NEW z, SameDigits(B, s, m, u, n, z)
  PROVE  m = n /\ s = u
<1>1. /\ B \in Nat /\ B > 1 /\ m \in Nat /\ n \in Nat
      /\ s \in [1..m -> 0..B-1] /\ u \in [1..n -> 0..B-1]
      /\ Leads(s, m, z) /\ Leads(u, n, z)
      /\ Horner(B, 0, s, m)[m] = Horner(B, 0, u, n)[n]
  BY DEF SameDigits
<1>2. CASE m <= n
  BY <1>1, <1>2, NotShorter
<1>3. CASE n <= m
  <2>1. n = m /\ u = s
    BY <1>1, <1>3, NotShorter
  <2>. QED BY <2>1
<1>. QED BY <1>1, <1>2, <1>3

\* s is m zeros and the n digits u.
Padded(s, m, u, n) ==
  /\ m \in Nat /\ n \in Nat
  /\ s \in [1..m+n -> Nat] /\ u \in [1..n -> Nat]
  /\ \A k \in 1..m : s[k] = 0
  /\ \A k \in 1..n : s[m+k] = u[k]

LEMMA PaddedValue ==
  ASSUME NEW B \in Nat, B > 1, NEW m, NEW n, NEW s, NEW u, Padded(s, m, u, n)
  PROVE  Horner(B, 0, s, m + n)[m + n] = Horner(B, 0, u, n)[n]
<1>. DEFINE l == m + n
            h == Horner(B, 0, s, l)
<1>0. m \in Nat /\ n \in Nat
  BY DEF Padded
<1>1. s \in [1..m+n -> Nat] /\ m + n \in Nat
  BY <1>0 DEF Padded
<1>2. PICK z : Leads(s, m + n, z)
  BY <1>1, LeadsExists, Zenon
<1>3. ZeroUpTo(h, m + n, z)
  BY <1>1, <1>2, HornerZero, Zenon
<1>4. m <= z /\ m \in 0..m+n
  <2>1. z \in 0..m+n /\ (z < m + n => s[z+1] # 0)
    BY <1>2 DEF Leads
  <2>2. \A k \in 1..m : s[k] = 0
    BY DEF Padded
  <2>. QED BY <1>0, <2>1, <2>2
<1>5. h[m] = 0
  BY <1>3, <1>4 DEF ZeroUpTo
<1>6. s \in [1..m+n -> Int] /\ u \in [1..n -> Int] /\ (\A k \in 1..n : s[m+k] = u[k]) /\ B \in Int /\ 0 \in Int
  <2>1. s \in [1..m+n -> Nat] /\ u \in [1..n -> Nat] /\ Nat \subseteq Int
    BY DEF Padded
  <2>2. s \in [1..m+n -> Int] /\ u \in [1..n -> Int]
    BY <2>1
  <2>3. \A k \in 1..n : s[m+k] = u[k]
    BY DEF Padded
  <2>. QED BY <2>2, <2>3
<1>7. \A k \in 0..n : h[m+k] = Horner(B, h[m], u, n)[k]
  <2>1. m \in Nat /\ n \in Nat
    BY DEF Padded
  <2>2. Continued(B, 0, m, s, n, u)
    BY <1>6, <2>1, Zenon DEF Continued
  <2>3. GoesOn(h, B, m, n, u)
    BY <2>2, HornerContinues, Zenon
  <2>. QED BY <2>3, Zenon DEF GoesOn
<1>8. n \in 0..n
  BY <1>0
<1>9. h[m+n] = Horner(B, h[m], u, n)[n]
  BY <1>7, <1>8, Zenon
<1>. HIDE DEF h
<1>10. h[m+n] = Horner(B, 0, u, n)[n]
  BY <1>5, <1>9, Zenon
<1>. QED BY <1>10, Zenon DEF h

LEMMA PaddedLeads ==
  ASSUME NEW m, NEW n, NEW s, NEW u, Padded(s, m, u, n), n = 0 \/ u[1] # 0
  PROVE  Leads(s, m + n, m)
<1>0. m \in Nat /\ n \in Nat
  BY DEF Padded
<1>1. \A k \in 1..m : s[k] = 0
  BY DEF Padded
<1>2. m \in 0..m+n
  BY <1>0
<1>3. ASSUME m < m + n PROVE s[m+1] # 0
  <2>1. 1 \in 1..n /\ u[1] # 0
    BY <1>0, <1>3
  <2>2. s[m+1] = u[1]
    BY <2>1 DEF Padded
  <2>. QED BY <2>1, <2>2
<1>. QED BY <1>1, <1>2, <1>3 DEF Leads
===============================================================================
