------------------------------ MODULE PointBatch -------------------------------
(***************************************************************************)
(* The arithmetic of one lane of TestKernel: one batch of B keys around a  *)
(* centre point shares a single modular inversion, and the point jump adds *)
(* B*G.  This is what the module TestKernel takes as given when it stands  *)
(* a point for its key. The first centre comes from the setup kernel.      *)
(*                                                                         *)
(* The factors of the shared product are c_Jx - x1 and c_Gx[i] - x1; the   *)
(* prefix products subp are built from the top down, and the inverse is    *)
(* multiplied by the factor of each pair of points it has served.          *)
(***************************************************************************)
EXTENDS ScalarMul

CONSTANTS
  B,         \* batch_size
  Batches    \* bound on the batches walked

ASSUME BatchAssumption ==
  /\ B \in Nat /\ B % 2 = 0 /\ B > 0 /\ B < Order
  /\ Batches \in Nat \ {0}

half == B \div 2
Index == 0 .. half-1

\* The tables in constant memory.
c_Gx    == [i \in Index |-> Multiple[i+1][1]]
c_Gy    == [i \in Index |-> Multiple[i+1][2]]
c_GyNeg == [i \in Index |-> neg_mod(c_Gy[i])]
c_J     == Multiple[B]

VARIABLES
  centre,     \* the key of the centre (history)
  pc, i,
  x1, y1,     \* the centre
  subp,       \* the prefix products
  inverse,
  hashed,     \* what was hashed for each offset of the batch: x and the prefix byte (history)
  batches_done

setup == <<device, k, stage, bi, res, t>>
bvars == <<centre, pc, i, x1, y1, subp, inverse, hashed, batches_done>>
vars  == <<svars, bvars>>

Nothing == <<>>
Offsets == -half .. half-1

Init ==
  /\ ScalarMulInit
  /\ centre = 0 /\ pc = "load" /\ i = 0
  /\ x1 = 0 /\ y1 = 0
  /\ subp = [n \in Index |-> 0] /\ inverse = 0
  /\ hashed = [s \in Offsets |-> Nothing]
  /\ batches_done = 0

\* The setup kernel runs before the search kernel.
Multiply == pc = "load" /\ ScalarMulNext /\ UNCHANGED bvars

\* The lane reads the point of its scalar; infinity was stored as (0, 0).
Load ==
  /\ pc = "load" /\ device /\ stage = "multiplied"
  /\ LET p == IF res = Zero THEN <<0, 0>> ELSE res IN x1' = p[1] /\ y1' = p[2]
  /\ centre' = k % Order
  /\ pc' = "test"
  /\ UNCHANGED <<svars, i, subp, inverse, hashed, batches_done>>

\* The centre is hashed as it is, and the first factor of the product is c_Jx - x1.
Test ==
  /\ pc = "test"
  /\ hashed' = [hashed EXCEPT ![0] = <<x1, 2 + (y1 % 2)>>]
  /\ subp' = [subp EXCEPT ![half-1] = sub_mod(c_J[1], x1)]
  /\ IF half = 1 THEN i' = 0 /\ pc' = "invert" ELSE i' = half - 2 /\ pc' = "product"
  /\ UNCHANGED <<svars, centre, x1, y1, inverse, batches_done>>

\* Defect of the next definition: the factor of the entry's own index is taken.
FactorOwn(n) == sub_mod(c_Gx[n], x1)

\* The factor that enters the prefix product at index n.
Factor(n) == sub_mod(c_Gx[n+1], x1)

Product ==
  /\ pc = "product"
  /\ subp' = [subp EXCEPT ![i] = mul_mod(subp[i+1], Factor(i))]
  /\ harm' = (harm \/ MulLost(subp[i+1], Factor(i)))
  /\ IF i = 0 THEN i' = 0 /\ pc' = "invert" ELSE i' = i - 1 /\ pc' = "product"
  /\ UNCHANGED <<setup, centre, x1, y1, inverse, hashed, batches_done>>

Invert ==
  /\ pc = "invert"
  /\ LET d0 == sub_mod(c_Gx[0], x1)
     IN  /\ inverse' \in inv_mod(mul_mod(d0, subp[0]))
         /\ harm' = (harm \/ MulLost(d0, subp[0]))
  /\ pc' = "pair"
  /\ UNCHANGED <<setup, centre, i, x1, y1, subp, hashed, batches_done>>

\* The centre plus the point (gx, gy), by the inverse of gx - x1.
Sum(gx, gy, inv) ==
  LET s   == sub_mod(gy, y1)
      lam == mul_mod(s, inv)
      x3  == sub_mod3(sqr_mod(lam), x1, gx)
      dx  == sub_mod(x1, x3)
      y3  == mul_mod(dx, lam)
  IN  [x |-> x3, y |-> y3, lost |-> MulLost(s, inv) \/ SqrLost(lam) \/ MulLost(dx, lam)]

\* What is hashed of a sum: its x, and the parity of y3 - y1.
Hashed(sum) == <<sum.x, sub_mod_is_odd_prefix(sum.y, y1)>>

\* The hash and the prefix need reduced values.
Harmful(sum) == sum.lost \/ sum.x \notin Residue \/ sum.y \notin Residue

dx_inv == mul_mod(subp[i], inverse)

\* The inverse of the product without factor i.
InverseAdvanced == mul_mod(inverse, sub_mod(c_Gx[i], x1))

LossesAround ==
  MulLost(subp[i], inverse) \/ MulLost(inverse, sub_mod(c_Gx[i], x1))

\* The points i + 1 above and below the centre.
Pair ==
  /\ pc = "pair" /\ i < half - 1
  /\ LET above == Sum(c_Gx[i], c_Gy[i], dx_inv)
         below == Sum(c_Gx[i], c_GyNeg[i], dx_inv)
     IN  /\ hashed' = [hashed EXCEPT ![i+1] = Hashed(above), ![-(i+1)] = Hashed(below)]
         /\ harm' = (harm \/ LossesAround \/ Harmful(above) \/ Harmful(below))
  /\ inverse' = InverseAdvanced
  /\ i' = i + 1
  /\ UNCHANGED <<setup, centre, pc, x1, y1, subp, batches_done>>

\* Defect of the next definition: the tail takes c_Gy instead of c_GyNeg.
TailAbove == Sum(c_Gx[i], c_Gy[i], dx_inv)

Tail == Sum(c_Gx[i], c_GyNeg[i], dx_inv)

TailOffset == -half

\* The last point, half below the centre.
Last ==
  /\ pc = "pair" /\ i = half - 1
  /\ hashed' = [hashed EXCEPT ![TailOffset] = Hashed(Tail)]
  /\ harm' = (harm \/ LossesAround \/ Harmful(Tail))
  /\ inverse' = InverseAdvanced
  /\ pc' = "jump"
  /\ UNCHANGED <<setup, centre, i, x1, y1, subp, batches_done>>

\* The point jump: what is left of the inverse is that of c_Jx - x1.
Jump ==
  /\ pc = "jump"
  /\ LET next == Sum(c_J[1], c_J[2], inverse)
         y3   == sub_mod(next.y, y1)
     IN  /\ x1' = next.x /\ y1' = y3
         /\ harm' = (harm \/ next.lost \/ next.x \notin Residue \/ y3 \notin Residue)
  /\ centre' = (centre + B) % Order
  /\ hashed' = [s \in Offsets |-> Nothing]
  /\ batches_done' = batches_done + 1
  /\ pc' = IF batches_done + 1 < Batches THEN "test" ELSE "exit"
  /\ UNCHANGED <<setup, i, subp, inverse>>

\* A lane that has left the kernel; the host has its multiple.
Over == (pc = "exit" \/ (~device /\ stage = "multiplied")) /\ UNCHANGED vars

Next == Multiply \/ Load \/ Test \/ Product \/ Invert \/ Pair \/ Last \/ Jump \/ Over

Spec == Init /\ [][Next]_vars

-------------------------------------------------------------------------------
(* Properties                                                              *)

\* A factor of the product is 0, or the centre is no point: the centre has the x of a table entry or
\* of the jump, or is infinity.
Degenerate(n) == \E j \in (0..half) \union {B} : (n - j) % Order = 0 \/ (n + j) % Order = 0

\* Nothing has gone wrong in this batch or an earlier one.
Sound == ~harm /\ \A b \in 0..batches_done : ~Degenerate(centre - b*B)

\* What the compressed public key of the key n is hashed from.
PublicKey(n) == <<PointOf(n)[1], 2 + (PointOf(n)[2] % 2)>>

\* Until a batch is degenerate or a product that matters comes out wrong or unreduced, the lane
\* hashes for each offset the public key of centre + offset, and has left none out, half on each
\* side, when the jump comes; unreduced prefix products, inverses and slopes do no harm.
HashedIsPublicKey ==
  Sound => \A s \in Offsets :
    hashed[s] = PublicKey(centre + s) \/ (hashed[s] = Nothing /\ pc # "jump")

\* One inversion serves the whole batch: before each pair the inverse times the prefix product is
\* the inverse of that pair's factor, and in the end of the jump's.
InverseServesPair ==
  /\ pc = "pair" /\ Sound => (((subp[i] * inverse) % P) * sub_mod(c_Gx[i], x1)) % P = 1
  /\ pc = "jump" /\ Sound => (inverse * sub_mod(c_J[1], x1)) % P = 1
===============================================================================
