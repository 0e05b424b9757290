------------------------------- MODULE FieldUnit -------------------------------
(***************************************************************************)
(* The field arithmetic as a whole: a call of one of its operations, or    *)
(* one of the two that take many steps: an inversion, or a double-width    *)
(* product with its accumulators.                                          *)
(***************************************************************************)
EXTENDS FieldCall, Inversion

CONSTANTS Operands, Squares   \* those of SplitProduct

ASSUME OperandAssumption == Operands \subseteq [0..N-1 -> 0..W-1] /\ Squares \subseteq BOOLEAN

VARIABLES square, left, right, e, o, product, pc, parity, row, column, cc, dropped

pvars == <<square, left, right, e, o, product, pc, parity, row, column, cc, dropped>>

Split == INSTANCE SplitProduct WITH
  a <- left, b <- right, p <- product, r <- row, c <- column

uvars == <<vars, ivars, pvars>>

\* No product is being taken.
NoProduct ==
  /\ pc = "idle"
  /\ square = FALSE /\ left = <<>> /\ right = <<>> /\ e = <<>> /\ o = <<>>
  /\ product = 0 /\ parity = 0 /\ row = 0 /\ column = 0 /\ cc = 0 /\ dropped = 0

NoCall == op = "none" /\ r = 0 /\ a = 0 /\ b = 0 /\ c = 0

UnitInit ==
  /\ Idle
  /\ \/ Init /\ NoProduct
     \/ NoCall /\ Split!Init

Call == step = "idle" /\ pc = "idle" /\ Next /\ UNCHANGED <<ivars, pvars>>

\* inv_mod or InvModP of the first operand; the others are not taken.
Invert ==
  /\ op = "none" /\ pc = "idle" /\ b = 0 /\ c = 0
  /\ \E dev \in BOOLEAN : Begin(a, dev)
  /\ UNCHANGED <<vars, pvars>>

Inverting == InversionNext /\ UNCHANGED <<vars, pvars>>

Inverted == step = "inverted" /\ UNCHANGED uvars

Multiplying == pc # "idle" /\ Split!Next /\ UNCHANGED <<vars, ivars>>

\* mul_mod and sqr_mod fold the product they have taken.
Fold ==
  /\ pc = "done" /\ op = "none"
  /\ op' = (IF square THEN "sqr" ELSE "mul")
  /\ r' = ReturnedOf(product)
  /\ UNCHANGED <<a, b, c, ivars, pvars>>

UnitNext == Call \/ Invert \/ Inverting \/ Inverted \/ Multiplying \/ Fold

\* The thread that makes the call runs on.
UnitSpec == UnitInit /\ [][UnitNext]_uvars /\ WF_uvars(UnitNext)

-------------------------------------------------------------------------------
(* Properties                                                              *)

IsProduct == op \in {"mul", "sqr"}

LeftValue  == Split!Value(left, N)
RightValue == Split!Value(right, N)

\* mul_mod and sqr_mod from the words of their operands to the result: modulo P it falls short of the
\* product by the carries the closing adds of the passes lose and by that of the last addition, and by
\* nothing else, whether the operands are reduced or not.
EveryLossCounted ==
  IsProduct => (r + R * LastCarry(product) + dropped - LeftValue * RightValue) % P = 0

\* Every pair of words is multiplied once, at its own column, by the passes of a product and by the
\* halved passes of a square: but for the carries that closing adds lose, nothing is lost.
ExactUpToClosingCarries == Split!ExactUpToClosingCarries

\* What the instructions compute, lost carries included, is what the operators give that mul_mod and
\* sqr_mod stand on wherever points are computed.
OperatorsAreExecuted == Split!OperatorsAreExecuted

\* The comments on mul_mod and sqr_mod: "r = a * b (mod P)", "r = a ^ 2 (mod P)"; here of operands
\* whose double-width product lost nothing.
ProductCongruent ==
  (IsProduct /\ dropped = 0 /\ LeftValue \in Residue /\ RightValue \in Residue) =>
    (r - LeftValue * RightValue) % P = 0

\* An inversion ends: the loop that runs until val is 0 takes off bits in every chunk, of unreduced
\* numbers and of 0 as well.
InversionEnds == step = "chunk" ~> step = "inverted"
===============================================================================
