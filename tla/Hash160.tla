-------------------------------- MODULE Hash160 -------------------------------
(***************************************************************************)
(* The device's hash160 of a compressed public key: the one block of       *)
(* SHA-256 and the one of RIPEMD-160, a round at a time.                   *)
(*                                                                         *)
(* The code has both hashes unrolled.  No register moves: instead each     *)
(* round names them anew, one place further round.  The schedule lies in   *)
(* 16 words, each overwritten when it has been used.                       *)
(*                                                                         *)
(* With full FALSE only word 2 of the digest is wanted, and the seven      *)
(* rounds that cannot reach it are left out (RIPEMD160Transform<false>).   *)
(***************************************************************************)
EXTENDS Sha256

VARIABLES
  key,     \* the argument: the prefix byte and the words e0 .. e7 of x, high word first
  full,    \* which entry point: getHash160_33_from_limbs, or getHash160_w2_from_limbs
  phase,
  t,       \* the round
  w,       \* the 16 message words of the block
  reg,     \* a .. h of SHA-256, under their names
  line1, line2,  \* a1 .. e1 and a2 .. e2 of RIPEMD-160
  digest   \* what was returned: five words, or word 2 alone

hvars == <<key, full, phase, t, w, reg, line1, line2, digest>>

RipemdIV ==
  <<Hex(\h6745, \h2301), Hex(\hEFCD, \hAB89), Hex(\h98BA, \hDCFE), Hex(\h1032, \h5476),
    Hex(\hC3D2, \hE1F0)>>

NoKey == [prefix |-> 0, e |-> <<>>]
Zeros(n) == [i \in 0..n-1 |-> {}]

HashInit ==
  /\ key = NoKey /\ full = FALSE
  /\ phase = "idle"
  /\ t = 0
  /\ w = Zeros(16) /\ reg = Zeros(8) /\ line1 = Zeros(5) /\ line2 = Zeros(5)
  /\ digest = <<>>

-------------------------------------------------------------------------------
(* The message                                                             *)

\* __byte_perm: each byte of the result is picked from the eight of y and x; the picks are the
\* hexadecimal digits of the selector.
BytePerm(x, y, picks) ==
  LET wide == x \union {i + 32 : i \in y}
  IN  UNION {{24 - 8*k + i : i \in {j \in 0..7 : 8 * picks[k+1] + j \in wide}} : k \in 0..3}

bswap32(x) == BytePerm(x, {}, <<0,1,2,3>>)

\* M[0..8]: prefix, x and the padding bit in nine words, each a window of one byte's offset.
Message(k, j) ==
  CASE j = 0      -> BytePerm(k.e[1], Small(k.prefix), <<4,3,2,1>>)
    [] j \in 1..7 -> BytePerm(k.e[j+1], k.e[j], <<4,3,2,1>>)
    [] j = 8      -> BytePerm(k.e[8], Small(\h80), <<0,4,5,5>>)

\* The caller's key goes into the block, with the zeros and the length SHA256Transform builds in.
Call(k, f) ==
  /\ key' = k /\ full' = f
  /\ w' = [j \in 0..15 |-> CASE j <= 8 -> Message(k, j) [] j = 15 -> Small(33 * 8) [] OTHER -> {}]
  /\ reg' = ShaIV
  /\ t' = 0
  /\ phase' = "sha"
  /\ UNCHANGED <<line1, line2, digest>>

-------------------------------------------------------------------------------
(* SHA256Transform                                                         *)

bigS0(x)   == Ror(Xor3(x, Ror(x, 11), Ror(x, 20)), 2)
bigS1(x)   == Ror(Xor3(x, Ror(x, 5), Ror(x, 19)), 6)
smallS0(x) == Xor3(Ror(x, 7), Ror(x, 18), Shr(x, 3))
smallS1(x) == Xor3(Ror(x, 17), Ror(x, 19), Shr(x, 10))

Majority(x, y, z) == (x \intersect y) \union (x \intersect z) \union (y \intersect z)

\* w[t]; from round 16 on the new word takes the place of the one 16 rounds older.
RoundWord ==
  IF t < 16 THEN w[t]
  ELSE Total(<<w[t % 16], smallS1(w[(t+14) % 16]), w[(t+9) % 16], smallS0(w[(t+1) % 16])>>)

\* The register that is the i-th argument of SHA_RND in round t.
Named(i) == (i + 64 - t) % 8

\* SHA_RND: only the registers named d and h change.
ShaRound ==
  /\ phase = "sha" /\ t < 64
  /\ LET R(i) == reg[Named(i)]
         T1   == Total(<<R(7), bigS1(R(4)), Ch(R(4), R(5), R(6)), K[t], RoundWord>>)
         T2   == Plus(bigS0(R(0)), Majority(R(0), R(1), R(2)))
     IN  reg' = [reg EXCEPT ![Named(3)] = Plus(@, T1), ![Named(7)] = Plus(T1, T2)]
  /\ w' = [w EXCEPT ![t % 16] = RoundWord]
  /\ t' = t + 1
  /\ UNCHANGED <<key, full, phase, line1, line2, digest>>

\* The words of the digest.
ShaState(i) == Plus(ShaIV[i], reg[i])

\* RIPEMD160_PAD_TAIL, under the eight words of the SHA digest, turned to little endian.
PadTail(i) == CASE i = 8 -> Small(\h80) [] i = 14 -> Small(256) [] OTHER -> {}

ShaEnd ==
  /\ phase = "sha" /\ t = 64
  /\ w' = [i \in 0..15 |-> IF i < 8 THEN bswap32(ShaState(i)) ELSE PadTail(i)]
  /\ line1' = [i \in 0..4 |-> RipemdIV[i+1]]
  /\ line2' = line1'
  /\ t' = 0
  /\ phase' = "ripemd"
  /\ UNCHANGED <<key, full, reg, digest>>

-------------------------------------------------------------------------------
(* RIPEMD160Transform                                                      *)

f1(x, y, z) == Xor3(x, y, z)
f2(x, y, z) == (x \intersect y) \union (Not(x) \intersect z)
f3(x, y, z) == Xor(x \union Not(y), z)
f4(x, y, z) == (x \intersect z) \union (Not(z) \intersect y)
f5(x, y, z) == Xor(x, y \union Not(z))

\* The message word and the rotation of each round: of line 1, then of line 2.
Rounds1 ==
  <<<<<<0,11>>, <<1,14>>, <<2,15>>, <<3,12>>, <<4,5>>, <<5,8>>, <<6,7>>, <<7,9>>, <<8,11>>,
      <<9,13>>, <<10,14>>, <<11,15>>, <<12,6>>, <<13,7>>, <<14,9>>, <<15,8>>>>,
    <<<<5,8>>, <<14,9>>, <<7,9>>, <<0,11>>, <<9,13>>, <<2,15>>, <<11,15>>, <<4,5>>, <<13,7>>,
      <<6,7>>, <<15,8>>, <<8,11>>, <<1,14>>, <<10,14>>, <<3,12>>, <<12,6>>>>>>

Rounds2 ==
  <<<<<<7,7>>, <<4,6>>, <<13,8>>, <<1,13>>, <<10,11>>, <<6,9>>, <<15,7>>, <<3,15>>, <<12,7>>,
      <<0,12>>, <<9,15>>, <<5,9>>, <<2,11>>, <<14,7>>, <<11,13>>, <<8,12>>>>,
    <<<<6,9>>, <<11,13>>, <<3,15>>, <<7,7>>, <<0,12>>, <<13,8>>, <<5,9>>, <<10,11>>, <<14,7>>,
      <<15,7>>, <<8,12>>, <<12,7>>, <<4,6>>, <<9,15>>, <<1,13>>, <<2,11>>>>>>

Rounds3 ==
  <<<<<<3,11>>, <<10,13>>, <<14,6>>, <<4,7>>, <<9,14>>, <<15,9>>, <<8,13>>, <<1,15>>, <<2,14>>,
      <<7,8>>, <<0,13>>, <<6,6>>, <<13,5>>, <<11,12>>, <<5,7>>, <<12,5>>>>,
    <<<<15,9>>, <<5,7>>, <<1,15>>, <<3,11>>, <<7,8>>, <<14,6>>, <<6,6>>, <<9,14>>, <<11,12>>,
      <<8,13>>, <<12,5>>, <<2,14>>, <<10,13>>, <<0,13>>, <<4,7>>, <<13,5>>>>>>

Rounds4 ==
  <<<<<<1,11>>, <<9,12>>, <<11,14>>, <<10,15>>, <<0,14>>, <<8,15>>, <<12,9>>, <<4,8>>, <<13,9>>,
      <<3,14>>, <<7,5>>, <<15,6>>, <<14,8>>, <<5,6>>, <<6,5>>, <<2,12>>>>,
    <<<<8,15>>, <<6,5>>, <<4,8>>, <<1,11>>, <<3,14>>, <<11,14>>, <<15,6>>, <<0,14>>, <<5,6>>,
      <<12,9>>, <<2,12>>, <<13,9>>, <<9,12>>, <<7,5>>, <<10,15>>, <<14,8>>>>>>

Rounds5 ==
  <<<<<<4,9>>, <<0,15>>, <<5,5>>, <<9,11>>, <<7,6>>, <<12,8>>, <<2,13>>, <<10,12>>, <<14,5>>,
      <<1,12>>, <<3,13>>, <<8,14>>, <<11,11>>, <<6,8>>, <<15,5>>, <<13,6>>>>,
    <<<<12,8>>, <<15,5>>, <<10,12>>, <<4,9>>, <<1,12>>, <<5,5>>, <<8,14>>, <<7,6>>, <<6,8>>,
      <<2,13>>, <<13,6>>, <<14,5>>, <<0,15>>, <<3,13>>, <<9,11>>, <<11,11>>>>>>

Step(line) == (<<Rounds1, Rounds2, Rounds3, Rounds4, Rounds5>>)[1 + (t \div 16)][line][1 + (t % 16)]

\* The function and the constant of R11 .. R52: line 2 takes the functions from the last.
Mixed(line, g, x, y, z) ==
  LET n == IF line = 1 THEN g + 1 ELSE 5 - g
  IN  CASE n = 1 -> f1(x, y, z)
        [] n = 2 -> f2(x, y, z)
        [] n = 3 -> f3(x, y, z)
        [] n = 4 -> f4(x, y, z)
        [] n = 5 -> f5(x, y, z)

Constant(line, g) ==
  (<< <<{}, Hex(\h5A82, \h7999), Hex(\h6ED9, \hEBA1), Hex(\h8F1B, \hBCDC), Hex(\hA953, \hFD4E)>>,
      <<Hex(\h50A2, \h8BE6), Hex(\h5C4D, \hD124), Hex(\h6D70, \h3EF3), Hex(\h7A6D, \h76E9), {}>>
   >>)[line][g+1]

\* The register that is the i-th argument of a round macro in round t.
Called(i) == (i + 80 - t) % 5

\* RPRound on the registers v of a line: only those named a and c change.
Round(line, v) ==
  LET R(i) == v[Called(i)]
      g    == t \div 16
      u    == Total(<<R(0), Mixed(line, g, R(1), R(2), R(3)), w[Step(line)[1]], Constant(line, g)>>)
  IN  [v EXCEPT ![Called(0)] = Plus(Rol(u, Step(line)[2]), R(4)), ![Called(2)] = Rol(@, 10)]

\* Rounds of both lines; 76 of them are common to both entry points.
RipemdRound ==
  /\ phase = "ripemd" /\ t < (IF full THEN 80 ELSE 76)
  /\ line1' = Round(1, line1)
  /\ line2' = Round(2, line2)
  /\ t' = t + 1
  /\ UNCHANGED <<key, full, phase, w, reg, digest>>

\* Defect of the next definition: the rotations are left out with the rounds.
NotRotated(v, i) == v

\* What is left of line-1 rounds 77..79 and line-2 rounds 76..79: the rotations of e1 and of a2.
OnlyRotated(v, i) == [v EXCEPT ![i] = Rol(@, 10)]

\* Round 76 of line 1, the last to write e1.
TrimmedRounds ==
  /\ phase = "ripemd" /\ ~full /\ t = 76
  /\ line1' = OnlyRotated(Round(1, line1), 4)
  /\ line2' = OnlyRotated(line2, 0)
  /\ t' = 80
  /\ UNCHANGED <<key, full, phase, w, reg, digest>>

\* s[2] = s[3] + e1 + a2
Word2 == Total(<<RipemdIV[4], line1[4], line2[0]>>)

Return ==
  /\ phase = "ripemd" /\ t = 80
  /\ digest' = IF full
               THEN <<Total(<<RipemdIV[2], line1[2], line2[3]>>),
                      Total(<<RipemdIV[3], line1[3], line2[4]>>),
                      Word2,
                      Total(<<RipemdIV[5], line1[0], line2[1]>>),
                      Total(<<RipemdIV[1], line1[1], line2[2]>>)>>
               ELSE <<Word2>>
  /\ phase' = "returned"
  /\ UNCHANGED <<key, full, t, w, reg, line1, line2>>

Hashing == ShaRound \/ ShaEnd \/ RipemdRound \/ TrimmedRounds \/ Return
===============================================================================
