------------------------------- MODULE Inversion -------------------------------
(***************************************************************************)
(* The modular inversion of the kernel (inv_mod, Math.cuh) and of the host *)
(* (EcInt::InvModP, DIV_62), one algorithm at two word sizes: the greatest *)
(* common divisor of P and x is taken from the low end, C bits at a time.  *)
(* A chunk works on the low words of modp and val alone and collects in    *)
(* the matrix m what it did; then the whole numbers, and with them the     *)
(* coefficients, are multiplied by m and shifted by C.  In the code C is   *)
(* 30 with 32-bit words and 288-bit numbers on the device, 62 with 64-bit  *)
(* words and 320-bit numbers on the host: a word has two bits more than C, *)
(* and a number a word more than a field element.                          *)
(***************************************************************************)
EXTENDS FieldMath

CONSTANT C   \* bits a chunk takes off

ASSUME ChunkAssumption == C \in Nat /\ C > 2

Pow2 == LET f[k \in 0..C+2] == IF k = 0 THEN 1 ELSE 2 * f[k-1] IN f

Half == Pow2[C+1]   \* a word holds -Half .. Half-1

\* The low words of P and of 1 differ.
ASSUME PrimeAssumption == (\A d \in 2..P-1 : P % d # 0) /\ P % (2*Half) # 1

VARIABLES
  step,        \* where the inversion is
  device,      \* TRUE: inv_mod, FALSE: InvModP
  first,       \* this is the chunk before the loop
  modp, val,   \* the two numbers whose divisor is sought
  result, co,  \* their coefficients: result*x = modp and co*x = val modulo P (r and a in the kernel)
  p, v,        \* the low words of modp and val, as the chunk changes them
  m,           \* the matrix of the chunk
  kbnt, cnt,   \* balance of the two numbers; bits left in the chunk
  x            \* what is inverted (history)

ivars == <<step, device, first, modp, val, result, co, p, v, m, kbnt, cnt, x>>

\* A number cut to a word.
Wrapped(n) == ((n + Half) % (2*Half)) - Half

Identity == [k \in 0..3 |-> IF k \in {0, 3} THEN 1 ELSE 0]

Idle ==
  /\ step = "idle" /\ device = TRUE /\ first = TRUE
  /\ modp = P /\ val = 0 /\ result = 0 /\ co = 1
  /\ p = 0 /\ v = 0 /\ m = Identity /\ kbnt = -1 /\ cnt = 0
  /\ x = 0

Begin(n, dev) ==
  /\ step = "idle" /\ step' = "chunk"
  /\ x' = n /\ val' = n /\ device' = dev
  /\ UNCHANGED <<first, modp, result, co, p, v, m, kbnt, cnt>>

\* The zeros at the low end of a word, n at most (ffs and BitScanForward of w | 1 << n).
Zeros(w, n) ==
  CHOOSE k \in 0..n : w % Pow2[k] = 0 /\ (k = n \/ w % Pow2[k+1] # 0)

\* APPLY_DIV_SHIFT: the zeros leave the word, and the first row of the matrix makes up for them.
Shifted(w, row, balance, bits) ==
  LET z == Zeros(w, bits)
  IN  /\ v' = w \div Pow2[z]
      /\ m' = [k \in 0..3 |-> IF k < 2 THEN row[k] * Pow2[z] ELSE row[k]]
      /\ kbnt' = balance - z
      /\ cnt' = bits - z
      /\ step' = IF bits - z > 0 THEN "divide" ELSE "update"

Chunk ==
  /\ step = "chunk"
  /\ p' = Wrapped(modp)
  /\ Shifted(Wrapped(val), Identity, kbnt, C)
  /\ UNCHANGED <<device, first, modp, val, result, co, x>>

\* DO_INV_STEP: the two words and the two rows change places, one of them negated.
Swapped == [k \in 0..3 |-> IF k < 2 THEN m[k+2] ELSE -m[k-2]]

\* Defect of the next definition: the mask is one bit short.
BitsOneShort(balance) == IF balance < cnt - 1 THEN balance ELSE cnt - 1

\* How many zeros one multiple of p may make: no more than the balance and the chunk allow.
BitsWanted(balance) == IF balance + 1 < cnt THEN balance + 1 ELSE cnt

\* The multiple of p whose addition clears up to three low bits of v.
Factor(pw, vw, bits) == ((-pw * vw) % 8) % Pow2[IF bits < 3 THEN bits ELSE 3]

Divide ==
  /\ step = "divide"
  /\ LET swap == kbnt < 0
         pw   == IF swap THEN v ELSE p
         vw   == IF swap THEN Wrapped(-p) ELSE v
         row  == IF swap THEN Swapped ELSE m
         bal  == IF swap THEN -kbnt ELSE kbnt
         mul  == Factor(pw, vw, BitsWanted(bal))
     IN  /\ p' = pw
         /\ Shifted(Wrapped(vw + (pw * mul)),
                    [k \in 0..3 |-> IF k < 2 THEN row[k] ELSE row[k] + (row[k-2] * mul)],
                    bal, cnt)
  /\ UNCHANGED <<device, first, modp, val, result, co, x>>

\* -1/P modulo 2^C: 0xD2253531 and 0xD838091DD2253531.
NegInverseP == CHOOSE q \in 0 .. Pow2[C]-1 : (P * q) % Pow2[C] = Pow2[C] - 1

\* Defect of the next definition: the coefficient is shifted as it is.
LiftedNothing(n) == n

\* The multiple of P whose addition makes a coefficient divisible by 2^C.
Lifted(n) == n + (P * ((n * NegInverseP) % Pow2[C]))

\* The whole numbers, before they are shifted.
Sums ==
  [modp   |-> (modp * m[0]) + (val * m[1]),
   val    |-> (modp * m[2]) + (val * m[3]),
   result |-> Lifted((result * m[0]) + (co * m[1])),
   co     |-> Lifted((result * m[2]) + (co * m[3]))]

\* The loop looks at the words of val below the top one; the device's first chunk stands before its loop.
Exhausted(value) == value % R = 0 /\ ~(device /\ first)

Update ==
  /\ step = "update"
  /\ modp' = Sums.modp \div Pow2[C]
  /\ val' = Sums.val \div Pow2[C]
  /\ result' = Sums.result \div Pow2[C]
  /\ co' = Sums.co \div Pow2[C]
  /\ first' = FALSE
  /\ step' = IF Exhausted(Sums.val \div Pow2[C]) THEN "finish" ELSE "chunk"
  /\ UNCHANGED <<device, p, v, m, kbnt, cnt, x>>

\* Defect of the next definition: a negative divisor is not looked at.
SignKept == result

\* The coefficient of the positive divisor.
Signed == IF modp < 0 THEN -result ELSE result

\* InvModP: P is added at most twice, then subtracted at most twice; 0 if the divisor is not 1.
Normalised(n) ==
  LET up == IF n >= 0 THEN n ELSE IF n + P >= 0 THEN n + P ELSE n + (2*P)
      dn == IF up \in Residue THEN up ELSE up - P
  IN  IF (IF modp < 0 THEN -modp ELSE modp) % (2*Half) # 1 THEN 0
      ELSE IF dn \in Residue THEN dn ELSE dn - P

\* inv_mod: P is added or subtracted until the top word is 0.
TopWordCleared(n) ==
  CASE n < 0      -> n % P
    [] n \in Number -> n
    [] n >= R     -> n - (P * (((n - R) \div P) + 1))

Finish ==
  /\ step = "finish" /\ step' = "inverted"
  /\ result' = IF device THEN TopWordCleared(Signed) ELSE Normalised(Signed)
  /\ UNCHANGED <<device, first, modp, val, co, p, v, m, kbnt, cnt, x>>

InversionNext == Chunk \/ Divide \/ Update \/ Finish

-------------------------------------------------------------------------------
(* Properties                                                              *)

Invertible(n) == \E y \in Residue : (n * y) % P = 1

\* The loop ends with the inverse; the host's is reduced, the device's fits its four limbs. 0 stays 0,
\* and so does on the host what has no inverse.
InverseExact ==
  step = "inverted" =>
    /\ result \in (IF device THEN Number ELSE Residue)
    /\ Invertible(x) => (result * x) % P = 1
    /\ x = 0 \/ (~device /\ ~Invertible(x)) => result = 0

\* What the registers of the whole numbers hold: a word more than a field element.
Wide == -(R * Half) .. (R * Half) - 1

MatrixFits == step \in {"divide", "update"} => \A k \in 0..3 : m[k] \in -Half .. Half-1

NumbersFit ==
  step = "update" =>
    {modp * m[0], val * m[1], modp * m[2], val * m[3], Sums.modp, Sums.val} \subseteq Wide

CoefficientsFit ==
  step = "update" =>
    {result * m[0], co * m[1], result * m[2], co * m[3], Sums.result, Sums.co} \subseteq Wide

NothingIsShiftedOut ==
  step = "update" => \A n \in {Sums.modp, Sums.val, Sums.result, Sums.co} : n % Pow2[C] = 0

RelationKept ==
  step \in {"chunk", "finish"} => (modp - (result * x)) % P = 0 /\ (val - (co * x)) % P = 0

\* A chunk that saw only the low words has made the whole numbers divisible: nothing is lost in the
\* shift, the coefficients keep their relation to the numbers, and no register overflows.
ChunkIsExact == MatrixFits /\ NumbersFit /\ CoefficientsFit /\ NothingIsShiftedOut /\ RelationKept
===============================================================================
