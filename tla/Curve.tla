--------------------------------- MODULE Curve ---------------------------------
(***************************************************************************)
(* The group of the curve y^2 = x^3 + A6 over the residues modulo P, as the *)
(* textbook defines it: the reference that the point arithmetic of the     *)
(* host (Ec.cpp) and of the kernel (GpuEc.cu, GpuCore.cu) is measured by.  *)
(***************************************************************************)
EXTENDS FieldMath

CONSTANTS
  A6,     \* 7 in the code; no operation uses it
  G,      \* the base point
  Order   \* its order, a prime

Zero == <<>>   \* the point at infinity

OnCurve(x, y) == (y * y) % P = (x * x * x + A6) % P

ASSUME CurveAssumption ==
  /\ \A d \in 2 .. P-1 : P % d # 0
  /\ A6 \in Residue
  /\ Order \in Nat /\ Order > 2 /\ \A d \in 2 .. Order-1 : Order % d # 0
  /\ G \in Residue \X Residue /\ OnCurve(G[1], G[2])

\* The multiplicative inverse of a residue other than 0.
Reciprocal == [d \in 1 .. P-1 |-> CHOOSE m \in 1 .. P-1 : (d * m) % P = 1]

\* The third point of the line of slope m through p and q, mirrored.
Third(p, q, m) ==
  LET x == (m * m - p[1] - q[1]) % P
  IN  <<x, (m * (p[1] - x) - p[2]) % P>>

Plus(p, q) ==
  CASE p = Zero -> q
    [] p # Zero /\ q = Zero -> p
    [] p # Zero /\ q # Zero /\ p[1] # q[1] ->
         Third(p, q, ((q[2] - p[2]) * Reciprocal[(q[1] - p[1]) % P]) % P)
    [] p # Zero /\ q # Zero /\ p[1] = q[1] /\ (p[2] + q[2]) % P = 0 -> Zero
    [] p # Zero /\ q # Zero /\ p[1] = q[1] /\ (p[2] + q[2]) % P # 0 ->
         Third(p, q, (((3 * p[1] * p[1]) % P) * Reciprocal[(2 * p[2]) % P]) % P)

\* k*G for k below the order.
Multiple ==
  LET m[k \in 0 .. Order-1] ==
        IF k = 0 THEN Zero
        ELSE LET h == m[k \div 2] IN IF k % 2 = 0 THEN Plus(h, h) ELSE Plus(Plus(h, h), G)
  IN  m

\* k*G for any k.
PointOf(k) == Multiple[k % Order]

ASSUME OrderAssumption == Plus(Multiple[Order-1], G) = Zero

\* The textbook's theorems: the multiples are points of the curve, and Plus is associative.
ASSUME GroupAssumption ==
  LET Points == {Multiple[k] : k \in 0 .. Order-1}
  IN  /\ \A p \in Points \ {Zero} : p \in Residue \X Residue /\ OnCurve(p[1], p[2])
      /\ \A p, q \in Points : Plus(p, Plus(q, G)) = Plus(Plus(p, q), G)
===============================================================================
