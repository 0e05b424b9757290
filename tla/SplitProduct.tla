----------------------------- MODULE SplitProduct -----------------------------
(***************************************************************************)
(* mul512_split and sqr512_split: the double-width product of two numbers  *)
(* of N words (in the code N = 8 and W = 2^32), on which every field       *)
(* multiplication of the kernel rests.                                     *)
(*                                                                         *)
(* The products a[i]*b[j] with i + j even are summed in the words e, the   *)
(* others in the words o, which stand one word higher.  Each is summed in  *)
(* passes: pass r adds row r of the product table and then its column      *)
(* N-1-r, two words further at each step, so that one carry flag runs      *)
(* through a whole pass.  The closing add of a pass puts its carry into    *)
(* the next word with addc, which sets no carry itself.                    *)
(***************************************************************************)
EXTENDS WordProduct

CONSTANTS
  Operands,   \* the operands tried
  Squares     \* the algorithms tried: TRUE for sqr512_split

Wide == 0 .. 2*N-1

VARIABLES
  square, a, b,   \* inputs; a square takes b = a
  e, o,           \* the two accumulators
  p,              \* the result, as a number
  pc,
  parity,         \* 0 while e is summed, 1 for o
  r, c,           \* the pass, and the column i + j in it
  cc,             \* CC.CF
  dropped         \* the carries lost so far, each at its weight (history)

inputs == <<square, a, b>>
flow   == <<parity, r, c>>
vars   == <<inputs, e, o, p, pc, flow, cc, dropped>>

\* The number that words stand for.
Value(words, n) ==
  LET from[k \in 0..n] == IF k = n THEN 0 ELSE words[k] + W * from[k+1] IN from[0]

Acc == IF parity = 0 THEN e ELSE o

\* Column k of the product table starts at word k of e, at word k-1 of o.
At(k) == k - parity

\* The pass in progress, on the operation in progress.
Factors(k)    == PassFactors(r, k)
Columns(q, s) == PassColumns(square, q, s)

FirstColumn(q, s) == CHOOSE k \in Columns(q, s) : \A l \in Columns(q, s) : k <= l

Init ==
  /\ square \in Squares /\ a \in Operands
  /\ IF square THEN b = a ELSE b \in Operands
  /\ e = [k \in Wide |-> 0] /\ o = [k \in Wide |-> 0]
  /\ p = 0
  /\ pc = "mac"
  /\ parity = 0 /\ r = 0 /\ c = FirstColumn(0, 0)
  /\ cc = 0
  /\ dropped = 0

Store(words) ==
  IF parity = 0 THEN e' = words /\ o' = o ELSE o' = words /\ e' = e

NextColumn == c + 2

\* mad.lo.cc and madc.hi.cc of one column, and on to the next column of the pass.
Mac ==
  /\ pc = "mac"
  /\ LET i   == Factors(c)[1]
         j   == Factors(c)[2]
         sum == Acc[At(c)] + W * Acc[At(c)+1] + a[i] * b[j] + cc
     IN  /\ Store([Acc EXCEPT ![At(c)] = sum % W, ![At(c)+1] = (sum \div W) % W])
         /\ cc' = sum \div (W*W)
  /\ c' = NextColumn
  /\ pc' = IF NextColumn \in Columns(parity, r) THEN "mac" ELSE "close"
  /\ UNCHANGED <<inputs, p, parity, r, dropped>>

\* Where the next pass starts: the rows of e, then the rows of o, then the merge.
NextPass ==
  CASE Columns(parity, r+1) # {} ->
         pc' = "mac" /\ parity' = parity /\ r' = r + 1 /\ c' = FirstColumn(parity, r+1)
    [] Columns(parity, r+1) = {} /\ parity = 0 ->
         pc' = "mac" /\ parity' = 1 /\ r' = 0 /\ c' = FirstColumn(1, 0)
    [] Columns(parity, r+1) = {} /\ parity = 1 ->
         pc' = "merge" /\ UNCHANGED flow

\* Defect of the next definition: the closing add is left out.
CloseNothing == Acc[At(c)]

\* The word after the pass, plus its carry.
Closed == Acc[At(c)] + cc

\* addc, which sets no carry; a pass that ends at the top word has none.
Close ==
  /\ pc = "close"
  /\ IF At(c) \in Wide
     THEN /\ Store([Acc EXCEPT ![At(c)] = Closed % W])
          /\ dropped' = dropped + (Closed \div W) * Weight[c+1]
     ELSE UNCHANGED <<e, o, dropped>>
  /\ cc' = 0
  /\ NextPass
  /\ UNCHANGED <<inputs, p>>

\* p = e + (o << 32); the top word of o takes no part.
Merged == Value(e, 2*N) + W * Value(o, 2*N-1)

Merge ==
  /\ pc = "merge"
  /\ p' = Merged % Weight[2*N]
  /\ pc' = IF square THEN "double" ELSE "done"
  /\ UNCHANGED <<inputs, e, o, flow, cc, dropped>>

\* p = 2*p; every carry lost so far doubles with it.
Double ==
  /\ pc = "double"
  /\ p' = (2 * p) % Weight[2*N]
  /\ dropped' = 2 * dropped
  /\ pc' = "diagonal"
  /\ UNCHANGED <<inputs, e, o, flow, cc>>

DiagonalSum == SquaresSum(a)

\* The diagonal is added in one carry chain.
Diagonal ==
  /\ pc = "diagonal"
  /\ p' = (p + DiagonalSum) % Weight[2*N]
  /\ pc' = "done"
  /\ UNCHANGED <<inputs, e, o, flow, cc, dropped>>

Over == pc = "done" /\ UNCHANGED vars

Next == Mac \/ Close \/ Merge \/ Double \/ Diagonal \/ Over

Spec == Init /\ [][Next]_vars

-------------------------------------------------------------------------------
(* Properties                                                              *)

\* Every pair of words is multiplied once, at its own column, by the passes of a product and by
\* the halved passes of a square: but for the carries that closing adds lose, nothing is lost.
ExactUpToClosingCarries ==
  pc = "done" => p + dropped = Value(a, N) * Value(b, N)

\* What the instructions compute, lost carries included, is what the operators give that mul_mod and
\* sqr_mod stand on wherever points are computed.
OperatorsAreExecuted ==
  pc = "done" => p = IF square THEN sqr512_split(Value(a, N)) ELSE mul512_split(Value(a, N), Value(b, N))

\* The comments on mul512_split and mul_mod: the 512 bits are the product.
ProductExact == pc = "done" => p = Value(a, N) * Value(b, N)
===============================================================================
