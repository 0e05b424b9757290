------------------------------ MODULE WordProduct ------------------------------
(***************************************************************************)
(* What mul512_split and sqr512_split make of their operands, pass by      *)
(* pass.  The products u[i]*v[j] with i + j even are summed in one         *)
(* accumulator (q = 0), the others in another (q = 1), which stands one    *)
(* word higher.  Pass s adds row s of the product table and then its       *)
(* column N-1-s in one carry chain.  The module SplitProduct takes the     *)
(* passes apart into instructions.                                         *)
(***************************************************************************)
EXTENDS Integers

CONSTANTS
  N,   \* words of an operand, 8 in the code
  W    \* a word holds 0 .. W-1; 2^32 in the code

ASSUME WordAssumption == N \in Nat /\ N > 2 /\ N % 2 = 0 /\ W \in Nat /\ W > 1

\* What a 1 in word k is worth.
Weight == LET weight[k \in 0..2*N+1] == IF k = 0 THEN 1 ELSE W * weight[k-1] IN weight

\* The words of a number.
WordsOf(n) == [k \in 0..N-1 |-> (n \div Weight[k]) % W]

\* The factors pass s multiplies at column k: along its row, then down its column.
PassFactors(s, k) == IF k < N THEN <<s, k-s>> ELSE <<k-(N-1)+s, N-1-s>>

\* Where a pass begins in the table. A square leaves out the pairs with i >= j.
PassStart(sq, s) == IF sq THEN 2*s+1 ELSE s

\* The columns i + j of a pass.
PassColumns(sq, q, s) ==
  {k \in PassStart(sq, s) .. 2*N-2-PassStart(sq, s) : k % 2 = q}

\* The word after the last that a pass adds to.
PassEnd(sq, q, s) ==
  LET first == PassStart(sq, s) IN 2*N - q - (IF first % 2 = q THEN first ELSE first + 1)

\* The products of a pass, each at its place.
PassSum(sq, q, s, u, v) ==
  LET worth(k) == IF k \in PassColumns(sq, q, s)
                  THEN u[PassFactors(s, k)[1]] * v[PassFactors(s, k)[2]] * Weight[k-q] ELSE 0
      from[k \in 0..2*N] == IF k = 2*N THEN 0 ELSE worth(k) + from[k+1]
  IN  from[0]

\* Defect of the next definition: the carry runs on beyond the word after the pass.
AddPassCarrying(acc, k, sum) == acc + sum

\* A carry chain through the words below k; the closing addc puts its carry into word k, and sets
\* none itself.
AddPass(acc, k, sum) ==
  LET chain == (acc % Weight[k]) + sum
      word  == ((acc \div Weight[k]) % W) + (chain \div Weight[k])
  IN  (acc - (acc % Weight[k+1])) + ((word % W) * Weight[k]) + (chain % Weight[k])

Accumulated(sq, q, u, v) ==
  LET after[s \in 0..N] ==
        IF s = 0 THEN 0
        ELSE IF PassColumns(sq, q, s-1) = {} THEN after[s-1]
        ELSE AddPass(after[s-1], PassEnd(sq, q, s-1), PassSum(sq, q, s-1, u, v))
  IN  after[N]

\* The two accumulators added; the top word of the second takes no part.
Columns512(sq, u, v) ==
  (Accumulated(sq, 0, u, v) + (W * (Accumulated(sq, 1, u, v) % Weight[2*N-1]))) % Weight[2*N]

\* The squares u[k]^2, each at column 2k.
SquaresSum(u) ==
  LET from[k \in 0..N] == IF k = N THEN 0 ELSE u[k] * u[k] + W * W * from[k+1] IN from[0]

mul512_split(a, b) == Columns512(FALSE, WordsOf(a), WordsOf(b))

sqr512_split(a) ==
  LET u == WordsOf(a)
  IN  (((2 * Columns512(TRUE, u, u)) % Weight[2*N]) + SquaresSum(u)) % Weight[2*N]
===============================================================================
