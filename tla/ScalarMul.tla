------------------------------- MODULE ScalarMul -------------------------------
(***************************************************************************)
(* Multiples of the base point, as the two halves of the program compute   *)
(* them: scalarMulBaseAffine (GpuEc.cu) gives every thread its first       *)
(* centre, from the top bit of the scalar down; Ec::MultiplyG (Ec.cpp)     *)
(* gives the tables of small multiples and the jump, from the low bit up.  *)
(* Both work on affine points with one inversion for every step. The       *)
(* inversion itself is the module Inversion's subject.                     *)
(***************************************************************************)
EXTENDS Curve

CONSTANTS
  Scalars,      \* the scalars multiplied on the device
  HostScalars   \* and on the host

ASSUME ScalarAssumption == Scalars \subseteq Nat /\ HostScalars \subseteq Nat

VARIABLES
  device,   \* TRUE: scalarMulBaseAffine, FALSE: MultiplyG
  k,        \* the scalar
  stage,    \* what comes next in the loop over the bits
  bi,       \* the bit it is at
  res,      \* the sum so far; Zero stands for infinity, and for `first` on the host
  t,        \* host: the multiple 2^bi of the base point
  harm      \* a result that matters came out wrong or unreduced (history)

svars == <<device, k, stage, bi, res, t, harm>>

Pow2 == LET f[b \in Nat] == IF b = 0 THEN 1 ELSE 2 * f[b-1] IN f

\* The number of bits of a scalar.
Bits(n) == CHOOSE b \in 0..n : n < Pow2[b] /\ (b = 0 \/ Pow2[b-1] <= n)

Bit(n, b) == (n \div Pow2[b]) % 2 = 1

\* The device starts at the top bit and has nothing to do for 0; the host starts at bit 0.
ScalarMulInit ==
  /\ device \in BOOLEAN /\ k \in (IF device THEN Scalars ELSE HostScalars)
  /\ bi = (IF device THEN Bits(k) - 1 ELSE 0)
  /\ stage = (IF k = 0 THEN "multiplied" ELSE IF device THEN "double" ELSE "add")
  /\ res = Zero /\ t = G
  /\ harm = FALSE

\* What inv_mod may return: any number congruent to the inverse; of 0 it is 0, of an unreduced 0 it is 1.
inv_mod(v) ==
  CASE v = 0 -> {0}
    [] v = P -> {1}
    [] v % P # 0 -> {w \in Number : w % P = Reciprocal[v % P]}

\* InvModP returns the reduced one.
InvModP(v) == IF v % P = 0 THEN 0 ELSE Reciprocal[v % P]

\* A point, and whether an operation on the way to it went wrong or left a coordinate unreduced.
Result(x, y, lost) ==
  [point |-> <<x, y>>, harm |-> lost \/ x \notin Residue \/ y \notin Residue]

Exactly(p) == [point |-> p, harm |-> FALSE]

-------------------------------------------------------------------------------
(* The device                                                              *)

\* add_mod of unreduced operands may overflow.
SumLost(a, b) == a + b - P >= R

\* The slope of the tangent, by the inverse of 2y.
Tangent(p, inv) ==
  LET x2    == sqr_mod(p[1])
      two   == add_mod(x2, x2)
      three == add_mod(two, x2)
  IN  [slope |-> mul_mod(three, inv),
       lost  |-> SqrLost(p[1]) \/ SumLost(x2, x2) \/ SumLost(two, x2) \/ MulLost(three, inv)]

\* The ends of pointDoubleAffine and pointAddAffine, which take x apart from one another.
Mirrored(p, lam, x3, lost) ==
  LET dx == sub_mod(p[1], x3)
  IN  Result(x3, sub_mod(mul_mod(lam, dx), p[2]),
             lost \/ SqrLost(lam) \/ MulLost(lam, dx))

pointDoubleAffine(p, inv) ==
  LET line == Tangent(p, inv)
      lam  == line.slope
  IN  Mirrored(p, lam, sub_mod(sqr_mod(lam), add_mod(p[1], p[1])), line.lost)

\* Defect of the next definition: the same x is taken for the same point.
SamePointByX(p, q) == p[1] = q[1]

SamePoint(p, q) == p = q

\* What pointAddAffine inverts for two points that are not opposite.
Denominator(p, q) == IF SamePoint(p, q) THEN add_mod(p[2], p[2]) ELSE sub_mod(q[1], p[1])

pointAddAffine(p, q, inv) ==
  CASE SamePoint(p, q) -> pointDoubleAffine(p, inv)
    [] ~SamePoint(p, q) /\ p[1] = q[1] -> Exactly(Zero)
    [] ~SamePoint(p, q) /\ p[1] # q[1] ->
         LET dy  == sub_mod(q[2], p[2])
             lam == mul_mod(dy, inv)
             x3  == sub_mod(sub_mod(sqr_mod(lam), p[1]), q[1])
         IN  Mirrored(p, lam, x3, MulLost(dy, inv))

Becomes(sum) == res' = sum.point /\ harm' = (harm \/ sum.harm)

\* R = 2*R, unless R is infinity.
DeviceDouble ==
  /\ device /\ stage = "double" /\ stage' = "add"
  /\ IF res = Zero THEN Becomes(Exactly(Zero))
     ELSE \E inv \in inv_mod(add_mod(res[2], res[2])) : Becomes(pointDoubleAffine(res, inv))
  /\ UNCHANGED <<device, k, bi, t>>

\* R = R + G if the bit is set; on to the next bit.
DeviceAdd ==
  /\ device /\ stage = "add"
  /\ CASE ~Bit(k, bi) -> UNCHANGED <<res, harm>>
       [] Bit(k, bi) /\ res = Zero -> Becomes(Exactly(G))
       [] Bit(k, bi) /\ res # Zero ->
            \E inv \in inv_mod(Denominator(res, G)) : Becomes(pointAddAffine(res, G, inv))
  /\ bi' = bi - 1
  /\ stage' = IF bi = 0 THEN "multiplied" ELSE "double"
  /\ UNCHANGED <<device, k, t>>

-------------------------------------------------------------------------------
(* The host                                                                *)

\* MulModP reads four of the five limbs.
HostProduct(a, b) == MulModP(a % R, b % R)
LimbLost(a, b) == a \notin Number \/ b \notin Number

\* The mirrored third point of the line of slope lam through p and q.
HostThird(p, q, lam, lost) ==
  LET x3 == SubModP(SubModP(HostProduct(lam, lam), p[1]), q[1])
      dx == SubModP(q[1], x3)
  IN  Result(x3, SubModP(HostProduct(dx, lam), q[2]),
             lost \/ LimbLost(dx, lam))

AddPoints(p, q) ==
  LET dx == InvModP(SubModP(q[1], p[1]))
      dy == SubModP(q[2], p[2])
  IN  HostThird(p, q, HostProduct(dy, dx), LimbLost(dy, dx))

DoublePoint(p) ==
  LET t1    == InvModP(AddModP(p[2], p[2]))
      t2    == HostProduct(p[1], p[1])
      three == AddModP(AddModP(t2, t2), t2)
  IN  HostThird(p, p, HostProduct(three, t1), LimbLost(p[1], p[1]) \/ LimbLost(three, t1))

\* The multiple of this bit is added; the first one is taken as it is.
HostAdd ==
  /\ ~device /\ stage = "add" /\ stage' = "double"
  /\ CASE ~Bit(k, bi) -> UNCHANGED <<res, harm>>
       [] Bit(k, bi) /\ res = Zero -> Becomes(Exactly(t))
       [] Bit(k, bi) /\ res # Zero -> Becomes(AddPoints(res, t))
  /\ UNCHANGED <<device, k, bi, t>>

\* Defect of the next definition: the doubling stands in the branch of a set bit.
DoubledIfAdded == IF Bit(k, bi) THEN DoublePoint(t) ELSE Exactly(t)

Doubled == DoublePoint(t)

HostDouble ==
  /\ ~device /\ stage = "double"
  /\ t' = Doubled.point /\ harm' = (harm \/ Doubled.harm)
  /\ bi' = bi + 1
  /\ stage' = IF bi + 1 = Bits(k) THEN "multiplied" ELSE "add"
  /\ UNCHANGED <<device, k, res>>

ScalarMulNext == DeviceDouble \/ DeviceAdd \/ HostAdd \/ HostDouble

-------------------------------------------------------------------------------
(* Properties                                                              *)

\* After every bit the device holds the multiple by the bits seen so far, for any scalar: sums that
\* meet the base point itself, its opposite or infinity on the way, as scalars beyond the order do,
\* included.
DevicePrefixMultiple ==
  (device /\ ~harm) =>
    CASE stage = "double"     -> res = PointOf(k \div Pow2[bi+1])
      [] stage = "add"        -> res = PointOf(2 * (k \div Pow2[bi+1]))
      [] stage = "multiplied" -> res = PointOf(k)

\* The host adds without looking whether the two points are the same, opposite or infinity: below
\* the order they never are, and after every bit it holds the multiple by the low bits.
HostSuffixMultiple ==
  (~device /\ ~harm /\ k \in 1 .. Order-1) =>
    /\ t = PointOf(Pow2[bi])
    /\ stage \in {"add", "multiplied"} => res = PointOf(k % Pow2[bi])
===============================================================================
