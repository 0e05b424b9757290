------------------------------ MODULE HashUnitProofs ------------------------------
(***************************************************************************)
(* The filter's word is word 2 of the digest, a point is found exactly if  *)
(* its hash is the target, and an address is accepted exactly if it        *)
(* encodes a hash, for every point and every request.                      *)
(*                                                                         *)
(* The proof goes round by round, the device's registers and window beside *)
(* the histories of the reference: sums are reordered, rotations merged,   *)
(* limbs read as bytes, and tables compared with the orders that generate  *)
(* them.  An address and its bytes are the digits of one number with as    *)
(* many zeros in front, which determines either from the other.            *)
(***************************************************************************)
EXTENDS HashUnit, NumberFacts, SequenceTheorems

-------------------------------------------------------------------------------
(* Words                                                                   *)

LEMMA XorMember ==
  ASSUME NEW x, NEW y, NEW i
  PROVE  i \in Xor(x, y) <=> ((i \in x) # (i \in y))
BY DEF Xor

LEMMA Xor3Member ==
  ASSUME NEW x, NEW y, NEW z, NEW i
  PROVE  i \in Xor3(x, y, z) <=> (((i \in x) # (i \in y)) # (i \in z))
BY DEF Xor3, Xor

\* A carry comes out of a bit where at least two of its three summands are 1.
LEMMA CarryStep ==
  ASSUME NEW x \in Word, NEW y \in Word
  PROVE  /\ 0 \notin Carries(x, y)
         /\ \A i \in 0..30 : i + 1 \in Carries(x, y) <=>
              \/ i \in x /\ i \in y
              \/ i \in Carries(x, y) /\ (i \in x \/ i \in y)
<1>1. 0 \notin Carries(x, y)
  BY DEF Carries, Word, Bit
<1>2. ASSUME NEW i \in 0..30, i \in x, i \in y PROVE i + 1 \in Carries(x, y)
  <2>1. i \in x \intersect y /\ i < i + 1 /\ \A k \in i+1..(i+1)-1 : k \in x \union y
    BY <1>2
  <2>. QED BY <2>1 DEF Carries, Bit
<1>3. ASSUME NEW i \in 0..30, i \in Carries(x, y), i \in x \/ i \in y PROVE i + 1 \in Carries(x, y)
  <2>1. PICK j \in x \intersect y : j < i /\ \A k \in j+1..i-1 : k \in x \union y
    BY <1>3 DEF Carries
  <2>2. j \in Int
    BY DEF Word, Bit
  <2>3. j < i + 1 /\ \A k \in j+1..(i+1)-1 : k \in x \union y
    BY <1>3, <2>1, <2>2
  <2>. QED BY <2>3 DEF Carries, Bit
<1>4. ASSUME NEW i \in 0..30, i + 1 \in Carries(x, y), ~(i \in x /\ i \in y)
      PROVE  i \in Carries(x, y) /\ (i \in x \/ i \in y)
  <2>1. PICK j \in x \intersect y : j < i + 1 /\ \A k \in j+1..(i+1)-1 : k \in x \union y
    BY <1>4 DEF Carries
  <2>2. j \in Int /\ j # i
    BY <1>4 DEF Word, Bit
  <2>3. j < i /\ i \in j+1..(i+1)-1 /\ \A k \in j+1..i-1 : k \in x \union y
    BY <2>1, <2>2
  <2>. QED BY <2>1, <2>3 DEF Carries, Bit
<1>. QED BY <1>1, <1>2, <1>3, <1>4

LEMMA PlusWord ==
  ASSUME NEW x \in Word, NEW y \in Word
  PROVE  Plus(x, y) \in Word /\ Plus(x, y) = Plus(y, x)
<1>1. Carries(x, y) = Carries(y, x)
  BY DEF Carries
<1>. QED BY <1>1 DEF Plus, Xor3, Xor, Carries, Word, Bit

\* The carries of both sums arrive at each bit in the same number.
LEMMA PlusAssociative ==
  ASSUME NEW x \in Word, NEW y \in Word, NEW z \in Word
  PROVE  Plus(Plus(x, y), z) = Plus(x, Plus(y, z))
<1>. DEFINE xy == Plus(x, y)
            yz == Plus(y, z)
            c  == Carries(x, y)
            d  == Carries(xy, z)
            e  == Carries(y, z)
            f  == Carries(x, yz)
            one(s, i) == IF i \in s THEN 1 ELSE 0
            T == {i \in 0..31 : one(c, i) + one(d, i) = one(e, i) + one(f, i)}
<1>1. xy \in Word /\ yz \in Word
  BY PlusWord
<1>2. \A i : /\ i \in xy <=> (((i \in x) # (i \in y)) # (i \in c))
             /\ i \in yz <=> (((i \in y) # (i \in z)) # (i \in e))
  BY Xor3Member DEF Plus
<1>3. \A i : /\ i \in Plus(xy, z) <=> (((i \in xy) # (i \in z)) # (i \in d))
             /\ i \in Plus(x, yz) <=> (((i \in x) # (i \in yz)) # (i \in f))
  BY Xor3Member DEF Plus
<1>4. /\ 0 \notin c /\ 0 \notin d /\ 0 \notin e /\ 0 \notin f
      /\ \A i \in 0..30 :
           /\ i + 1 \in c <=> (i \in x /\ i \in y) \/ (i \in c /\ (i \in x \/ i \in y))
           /\ i + 1 \in d <=> (i \in xy /\ i \in z) \/ (i \in d /\ (i \in xy \/ i \in z))
           /\ i + 1 \in e <=> (i \in y /\ i \in z) \/ (i \in e /\ (i \in y \/ i \in z))
           /\ i + 1 \in f <=> (i \in x /\ i \in yz) \/ (i \in f /\ (i \in x \/ i \in yz))
  <2>. HIDE DEF xy, yz
  <2>. QED BY <1>1, CarryStep
<1>. HIDE DEF xy, yz, c, d, e, f
<1>5. \A i \in 0..31 : i \in T
  <2>1. 0 \in T
    BY <1>4
  <2>2. ASSUME NEW i \in 0..31-1, i \in T PROVE i + 1 \in T
    BY <1>2, <1>4, <2>2
  <2>. HIDE DEF T
  <2>. QED BY <2>1, <2>2, UpTo
<1>6. \A i \in 0..31 : i \in Plus(xy, z) <=> i \in Plus(x, yz)
  BY <1>2, <1>3, <1>5
<1>7. Plus(xy, z) \in SUBSET (0..31) /\ Plus(x, yz) \in SUBSET (0..31)
  BY <1>1, PlusWord DEF Word, Bit
<1>8. Plus(xy, z) = Plus(x, yz)
  BY <1>6, <1>7
<1>. QED BY <1>8 DEF xy, yz

\* Total adds from the right.
LEMMA TotalUnfolds ==
  ASSUME NEW words \in Seq(Word), Len(words) # 0
  PROVE  \E total \in [1..Len(words) -> Word] :
           /\ Total(words) = total[1]
           /\ total[Len(words)] = words[Len(words)]
           /\ \A n \in 1..Len(words)-1 : total[n] = Plus(words[n], total[n+1])
<1>. DEFINE l == Len(words)
            Body(f) == [n \in 1..l |-> IF n = l THEN words[n] ELSE Plus(words[n], f[n+1])]
            total == CHOOSE f : f = Body(f)
            next == [i \in 0..l-2 |-> [y \in Word |-> Plus(words[i+1], y)]]
<1>1. l \in Nat \ {0} /\ words \in [1..l -> Word]
  OBVIOUS
<1>. HIDE DEF l
<1>2. next \in [0..(l-1)-1 -> [Word -> Word]]
  BY <1>1, PlusWord
<1>3. PICK g : Descends(g, l-1, Word, words[l], next)
  <2>1. l - 1 \in Nat /\ words[l] \in Word
    BY <1>1
  <2>. HIDE DEF next
  <2>. QED BY <1>2, <2>1, DownwardFunction, Zenon
<1>4. /\ g \in [0..l-1 -> Word] /\ g[l-1] = words[l]
      /\ \A i \in 0..l-2 : g[i] = Plus(words[i+1], g[i+1])
  BY <1>1, <1>3 DEF Descends
<1>. DEFINE f == [n \in 1..l |-> g[n-1]]
<1>5. f = Body(f)
  BY <1>1, <1>4
<1>. HIDE DEF f
<1>6. total = Body(total)
  BY <1>5
<1>. HIDE DEF total
<1>7. total[l] = words[l] /\ \A n \in 1..l-1 : total[n] = Plus(words[n], total[n+1])
  BY <1>1, <1>6
<1>8. \A n \in 0..l-1 : n + 1 \in 1..l /\ total[n+1] \in Word
  <2>. DEFINE T == {n \in 0..l-1 : total[n+1] \in Word}
  <2>1. l - 1 \in T
    BY <1>1, <1>7
  <2>2. ASSUME NEW n \in 0..(l-1)-1, n + 1 \in T PROVE n \in T
    <3>1. total[n+1] = Plus(words[n+1], total[n+2]) /\ total[n+2] \in Word /\ words[n+1] \in Word
      BY <1>1, <1>7, <2>2
    <3>2. total[n+1] \in Word
      BY <3>1, PlusWord
    <3>. QED BY <1>1, <3>2
  <2>. HIDE DEF T
  <2>3. \A n \in 0..l-1 : n \in T
    BY <1>1, <2>1, <2>2, DownFrom
  <2>. QED BY <1>1, <2>3 DEF T
<1>9. total \in [1..l -> Word]
  <2>1. \A n \in 1..l : n - 1 \in 0..l-1 /\ (n - 1) + 1 = n
    BY <1>1
  <2>2. \A n \in 1..l : total[n] \in Word
    BY <1>8, <2>1
  <2>3. total = [n \in 1..l |-> total[n]]
    BY <1>6
  <2>. QED BY <2>2, <2>3
<1>10. Total(words) = total[1]
  BY DEF Total, total, l
<1>. QED BY <1>7, <1>9, <1>10 DEF l

LEMMA TotalWord ==
  ASSUME NEW words \in Seq(Word), Len(words) # 0
  PROVE  Total(words) \in Word
<1>1. 1 \in 1..Len(words)
  OBVIOUS
<1>. QED BY <1>1, TotalUnfolds

\* A sum of four is added from the back.
LEMMA TotalOfFour ==
  ASSUME NEW x1 \in Word, NEW x2 \in Word, NEW x3 \in Word, NEW x4 \in Word
  PROVE  Total(<<x1, x2, x3, x4>>) = Plus(x1, Plus(x2, Plus(x3, x4)))
<1>. DEFINE words == <<x1, x2, x3, x4>>
<1>1. words \in Seq(Word) /\ Len(words) = 4 /\ words[1] = x1 /\ words[2] = x2 /\ words[3] = x3 /\ words[4] = x4
  OBVIOUS
<1>. HIDE DEF words
<1>2. PICK total : /\ Total(words) = total[1]
                   /\ total[4] = words[4]
                   /\ \A n \in 1..3 : total[n] = Plus(words[n], total[n+1])
  BY <1>1, TotalUnfolds
<1>3. total[1] = Plus(x1, total[2]) /\ total[2] = Plus(x2, total[3]) /\ total[3] = Plus(x3, total[4])
  BY <1>1, <1>2
<1>4. Total(words) = Plus(x1, Plus(x2, Plus(x3, x4)))
  BY <1>1, <1>2, <1>3
<1>. QED BY <1>4 DEF words

\* The last word of four may as well come first.
LEMMA TotalRotated ==
  ASSUME NEW x1 \in Word, NEW x2 \in Word, NEW x3 \in Word, NEW x4 \in Word
  PROVE  Total(<<x4, x1, x2, x3>>) = Total(<<x1, x2, x3, x4>>)
<1>. DEFINE s == Plus(x2, x3)
<1>1. s \in Word /\ Plus(x1, s) \in Word
  BY PlusWord
<1>2. Plus(x4, Plus(x1, s)) = Plus(Plus(x1, s), x4)
  BY <1>1, PlusWord
<1>3. Plus(Plus(x1, s), x4) = Plus(x1, Plus(s, x4))
  BY <1>1, PlusAssociative
<1>4. Plus(s, x4) = Plus(x2, Plus(x3, x4))
  BY PlusAssociative
<1>. QED BY <1>2, <1>3, <1>4, TotalOfFour

LEMMA RorFacts ==
  ASSUME NEW x \in Word, NEW y \in Word, NEW n \in 0..31
  PROVE  /\ Ror(x, n) \in Word
         /\ Ror(Xor(x, y), n) = Xor(Ror(x, n), Ror(y, n))
<1>1. \A i, j \in Bit : (i + 32 - n) % 32 = (j + 32 - n) % 32 => i = j
  BY DEF Bit
<1>2. \A i \in Bit : (i + 32 - n) % 32 \in Bit
  BY DEF Bit
<1>. QED BY <1>1, <1>2 DEF Ror, Xor, Word

\* Two rotations are one.
LEMMA RorTwice ==
  ASSUME NEW x \in Word, NEW n \in 0..31, NEW m \in 0..31, n + m < 32
  PROVE  Ror(Ror(x, n), m) = Ror(x, n + m)
<1>1. \A i \in Bit : (((i + 32 - n) % 32) + 32 - m) % 32 = (i + 32 - (n + m)) % 32
  BY DEF Bit
<1>2. Ror(Ror(x, n), m) = {(((i + 32 - n) % 32) + 32 - m) % 32 : i \in x}
  BY DEF Ror
<1>3. {(((i + 32 - n) % 32) + 32 - m) % 32 : i \in x} = {(i + 32 - (n + m)) % 32 : i \in x}
  BY <1>1 DEF Word
<1>. QED BY <1>2, <1>3 DEF Ror

LEMMA WordsClosed ==
  ASSUME NEW x \in Word, NEW y \in Word, NEW z \in Word
  PROVE  /\ Xor(x, y) \in Word /\ Xor3(x, y, z) \in Word /\ Not(x) \in Word
         /\ x \intersect y \in Word /\ x \union y \in Word
         /\ Ch(x, y, z) \in Word /\ Maj(x, y, z) \in Word
         /\ \A n \in 0..31 : Shr(x, n) \in Word
<1>1. \A n \in 0..31 : \A i \in x : i >= n => i - n \in Bit
  BY DEF Word, Bit
<1>2. \A n \in 0..31 : Shr(x, n) \in Word
  BY <1>1 DEF Shr, Word
<1>. QED BY <1>2 DEF Xor, Xor3, Not, Ch, Maj, Word

\* bigS0 and bigS1 rotate thrice what the host rotates apart.
LEMMA SigmasAgree ==
  ASSUME NEW x \in Word
  PROVE  /\ bigS0(x) = BSIG0(x) /\ bigS1(x) = BSIG1(x)
         /\ smallS0(x) = SSIG0(x) /\ smallS1(x) = SSIG1(x)
         /\ BSIG0(x) \in Word /\ BSIG1(x) \in Word /\ SSIG0(x) \in Word /\ SSIG1(x) \in Word
<1>1. ASSUME NEW i \in 0..31, NEW j \in 0..31, NEW k \in 0..31, i + k < 32, j + k < 32
      PROVE  Ror(Xor3(x, Ror(x, i), Ror(x, j)), k) = Xor3(Ror(x, k), Ror(x, i + k), Ror(x, j + k))
  <2>1. Ror(x, i) \in Word /\ Ror(x, j) \in Word
    BY RorFacts
  <2>2. Xor(x, Ror(x, i)) \in Word
    BY <2>1, WordsClosed
  <2>3. Ror(Xor(Xor(x, Ror(x, i)), Ror(x, j)), k) = Xor(Ror(Xor(x, Ror(x, i)), k), Ror(Ror(x, j), k))
    BY <2>1, <2>2, RorFacts
  <2>4. Ror(Xor(x, Ror(x, i)), k) = Xor(Ror(x, k), Ror(Ror(x, i), k))
    BY <2>1, RorFacts
  <2>5. Ror(Ror(x, i), k) = Ror(x, i + k) /\ Ror(Ror(x, j), k) = Ror(x, j + k)
    BY <1>1, RorTwice
  <2>. QED BY <2>3, <2>4, <2>5 DEF Xor3
<1>2. bigS0(x) = BSIG0(x)
  <2>1. Ror(Xor3(x, Ror(x, 11), Ror(x, 20)), 2) = Xor3(Ror(x, 2), Ror(x, 11 + 2), Ror(x, 20 + 2))
    <3>1. 11 \in 0..31 /\ 20 \in 0..31 /\ 2 \in 0..31 /\ 11 + 2 < 32 /\ 20 + 2 < 32
      OBVIOUS
    <3>. QED BY <1>1, <3>1, Zenon
  <2>2. 11 + 2 = 13 /\ 20 + 2 = 22
    OBVIOUS
  <2>. QED BY <2>1, <2>2 DEF bigS0, BSIG0
<1>3. bigS1(x) = BSIG1(x)
  <2>1. Ror(Xor3(x, Ror(x, 5), Ror(x, 19)), 6) = Xor3(Ror(x, 6), Ror(x, 5 + 6), Ror(x, 19 + 6))
    <3>1. 5 \in 0..31 /\ 19 \in 0..31 /\ 6 \in 0..31 /\ 5 + 6 < 32 /\ 19 + 6 < 32
      OBVIOUS
    <3>. QED BY <1>1, <3>1, Zenon
  <2>2. 5 + 6 = 11 /\ 19 + 6 = 25
    OBVIOUS
  <2>. QED BY <2>1, <2>2 DEF bigS1, BSIG1
<1>4. /\ Ror(x, 2) \in Word /\ Ror(x, 6) \in Word /\ Ror(x, 7) \in Word /\ Ror(x, 11) \in Word
      /\ Ror(x, 13) \in Word /\ Ror(x, 17) \in Word /\ Ror(x, 18) \in Word /\ Ror(x, 19) \in Word
      /\ Ror(x, 22) \in Word /\ Ror(x, 25) \in Word
  <2>1. \A n \in 0..31 : Ror(x, n) \in Word
    BY RorFacts
  <2>. HIDE DEF Ror
  <2>. QED BY <2>1
<1>5. BSIG0(x) \in Word /\ BSIG1(x) \in Word
  BY <1>4, WordsClosed DEF BSIG0, BSIG1
<1>6. Shr(x, 3) \in Word /\ Shr(x, 10) \in Word
  <2>1. \A n \in 0..31 : Shr(x, n) \in Word
    BY WordsClosed
  <2>2. 3 \in 0..31 /\ 10 \in 0..31
    OBVIOUS
  <2>. QED BY <2>1, <2>2, Zenon
<1>7. SSIG0(x) \in Word /\ SSIG1(x) \in Word
  BY <1>4, <1>6, WordsClosed DEF SSIG0, SSIG1
<1>. QED BY <1>2, <1>3, <1>5, <1>7 DEF smallS0, smallS1, SSIG0, SSIG1

\* Both ways to compute a majority.
LEMMA MajoritiesAgree ==
  ASSUME NEW x, NEW y, NEW z
  PROVE  Majority(x, y, z) = Maj(x, y, z)
BY DEF Majority, Maj, Xor3, Xor

-------------------------------------------------------------------------------
(* Bytes                                                                   *)

ByteRange == 0..255

\* Two words of the same bytes are the same.
LEMMA SameBytes ==
  ASSUME NEW x \in Word, NEW y \in Word,
         \A i \in 0..7 : /\ 24 + i \in x <=> 24 + i \in y
                         /\ 16 + i \in x <=> 16 + i \in y
                         /\ 8 + i \in x <=> 8 + i \in y
                         /\ i \in x <=> i \in y
  PROVE  x = y
<1>1. ASSUME NEW j \in 0..31 PROVE j \in x <=> j \in y
  <2>1. CASE j < 8
    BY <2>1
  <2>2. CASE j >= 8 /\ j < 16
    <3>1. j - 8 \in 0..7 /\ 8 + (j - 8) = j
      BY <2>2
    <3>. QED BY <3>1
  <2>3. CASE j >= 16 /\ j < 24
    <3>1. j - 16 \in 0..7 /\ 16 + (j - 16) = j
      BY <2>3
    <3>. QED BY <3>1
  <2>4. CASE j >= 24
    <3>1. j - 24 \in 0..7 /\ 24 + (j - 24) = j
      BY <2>4
    <3>. QED BY <3>1
  <2>. QED BY <2>1, <2>2, <2>3, <2>4
<1>. QED BY <1>1 DEF Word, Bit

LEMMA PlaceCases ==
  ASSUME NEW i \in 0..7
  PROVE  \/ i = 0 /\ Places[i+1] = 1 /\ Places[8+i+1] = 256
         \/ i = 1 /\ Places[i+1] = 2 /\ Places[8+i+1] = 512
         \/ i = 2 /\ Places[i+1] = 4 /\ Places[8+i+1] = 1024
         \/ i = 3 /\ Places[i+1] = 8 /\ Places[8+i+1] = 2048
         \/ i = 4 /\ Places[i+1] = 16 /\ Places[8+i+1] = 4096
         \/ i = 5 /\ Places[i+1] = 32 /\ Places[8+i+1] = 8192
         \/ i = 6 /\ Places[i+1] = 64 /\ Places[8+i+1] = 16384
         \/ i = 7 /\ Places[i+1] = 128 /\ Places[8+i+1] = 32768
<1>1. i = 0 \/ i = 1 \/ i = 2 \/ i = 3 \/ i = 4 \/ i = 5 \/ i = 6 \/ i = 7
  OBVIOUS
<1>. QED BY <1>1 DEF Places

LEMMA BitsOfHalf ==
  ASSUME NEW a \in ByteRange, NEW b \in ByteRange
  PROVE  \A i \in 0..7 : /\ i \in Bits(256 * a + b) <=> i \in Bits(b)
                         /\ 8 + i \in Bits(256 * a + b) <=> i \in Bits(a)
<1>. DEFINE n == 256 * a + b
<1>1. /\ (n \div 1) % 2 = (b \div 1) % 2 /\ (n \div 2) % 2 = (b \div 2) % 2
      /\ (n \div 4) % 2 = (b \div 4) % 2 /\ (n \div 8) % 2 = (b \div 8) % 2
  BY DEF ByteRange
<1>2. (n \div 16) % 2 = (b \div 16) % 2 /\ (n \div 32) % 2 = (b \div 32) % 2
  BY DEF ByteRange
<1>3. (n \div 64) % 2 = (b \div 64) % 2 /\ (n \div 128) % 2 = (b \div 128) % 2
  BY DEF ByteRange
<1>4. n \div 256 = a /\ n \div 512 = a \div 2 /\ n \div 1024 = a \div 4 /\ n \div 2048 = a \div 8
  BY DEF ByteRange
<1>5. n \div 4096 = a \div 16 /\ n \div 8192 = a \div 32 /\ n \div 16384 = a \div 64 /\ n \div 32768 = a \div 128
  BY DEF ByteRange
<1>6. a \div 1 = a
  BY DEF ByteRange
<1>. HIDE DEF n
<1>7. ASSUME NEW i \in 0..7
      PROVE  (n \div Places[i+1]) % 2 = (b \div Places[i+1]) % 2 /\ (n \div Places[8+i+1]) % 2 = (a \div Places[i+1]) % 2
  <2>. DEFINE p == Places[i+1]
              q == Places[8+i+1]
  <2>1. \/ (p = 1 /\ q = 256) \/ (p = 2 /\ q = 512) \/ (p = 4 /\ q = 1024) \/ (p = 8 /\ q = 2048)
        \/ (p = 16 /\ q = 4096) \/ (p = 32 /\ q = 8192) \/ (p = 64 /\ q = 16384)
        \/ (p = 128 /\ q = 32768)
    BY PlaceCases
  <2>. HIDE DEF p, q
  <2>2. (n \div p) % 2 = (b \div p) % 2 /\ (n \div q) % 2 = (a \div p) % 2
    BY <1>1, <1>2, <1>3, <1>4, <1>5, <1>6, <2>1
  <2>. QED BY <2>2 DEF p, q
<1>8. \A i \in 0..7 : i \in 0..15 /\ 8 + i \in 0..15
  OBVIOUS
<1>9. \A i \in 0..7 : i \in Bits(n) <=> i \in Bits(b)
  BY <1>7, <1>8, Zenon DEF Bits
<1>10. \A i \in 0..7 : 8 + i \in Bits(n) <=> i \in Bits(a)
  BY <1>7, <1>8, Zenon DEF Bits
<1>. QED BY <1>9, <1>10 DEF n

\* Bit by bit, a word is its four bytes.
LEMMA FromBytesBits ==
  ASSUME NEW b, b[1] \in ByteRange, b[2] \in ByteRange, b[3] \in ByteRange, b[4] \in ByteRange
  PROVE  /\ FromBytes(b) \in Word
         /\ \A i \in 0..7 : /\ 24 + i \in FromBytes(b) <=> i \in Bits(b[1])
                            /\ 16 + i \in FromBytes(b) <=> i \in Bits(b[2])
                            /\ 8 + i \in FromBytes(b) <=> i \in Bits(b[3])
                            /\ i \in FromBytes(b) <=> i \in Bits(b[4])
<1>. DEFINE hi == 256 * b[1] + b[2]
            lo == 256 * b[3] + b[4]
<1>1. \A i \in 0..7 : /\ i \in Bits(hi) <=> i \in Bits(b[2])
                      /\ 8 + i \in Bits(hi) <=> i \in Bits(b[1])
  BY BitsOfHalf
<1>2. \A i \in 0..7 : /\ i \in Bits(lo) <=> i \in Bits(b[4])
                      /\ 8 + i \in Bits(lo) <=> i \in Bits(b[3])
  BY BitsOfHalf
<1>3. Bits(hi) \subseteq 0..15 /\ Bits(lo) \subseteq 0..15
  BY DEF Bits
<1>4. FromBytes(b) = Bits(lo) \union {i + 16 : i \in Bits(hi)}
  BY DEF FromBytes, Hex
<1>. HIDE DEF hi, lo
<1>5. \A i \in 0..15 : i \in FromBytes(b) <=> i \in Bits(lo)
  BY <1>3, <1>4
<1>6. \A i \in 0..15 : 16 + i \in FromBytes(b) <=> i \in Bits(hi)
  BY <1>3, <1>4
<1>7. FromBytes(b) \in Word
  BY <1>3, <1>4 DEF Word, Bit
<1>8. \A i \in 0..7 : i \in 0..15 /\ 8 + i \in 0..15 /\ 16 + (8 + i) = 24 + i
  OBVIOUS
<1>. QED BY <1>1, <1>2, <1>5, <1>6, <1>7, <1>8

LEMMA ByteBits ==
  ASSUME NEW x \in Word, NEW k \in 0..3
  PROVE  /\ Byte(x, k) \in ByteRange
         /\ \A i \in 0..7 : i \in Bits(Byte(x, k)) <=> 24 - 8*k + i \in x
<1>. DEFINE bit(i) == IF 24 - 8*k + i \in x THEN 1 ELSE 0
            n == Byte(x, k)
<1>1. n = bit(0) + 2 * bit(1) + 4 * bit(2) + 8 * bit(3) + 16 * bit(4) + 32 * bit(5) + 64 * bit(6)
            + 128 * bit(7)
  BY DEF Byte
<1>2. \A i \in 0..7 : bit(i) \in 0..1 /\ (bit(i) = 1 <=> 24 - 8*k + i \in x)
  OBVIOUS
<1>. HIDE DEF bit, n
<1>3. /\ bit(0) \in 0..1 /\ bit(1) \in 0..1 /\ bit(2) \in 0..1 /\ bit(3) \in 0..1
      /\ bit(4) \in 0..1 /\ bit(5) \in 0..1 /\ bit(6) \in 0..1 /\ bit(7) \in 0..1
  BY <1>2
<1>4. n \in 0..255
  BY <1>1, <1>3
<1>5. (n \div 1) % 2 = bit(0)
  <2>. DEFINE low  == 0
              high == bit(1) + 2 * bit(2) + 4 * bit(3) + 8 * bit(4) + 16 * bit(5) + 32 * bit(6) + 64 * bit(7)
  <2>1. low \in 0..0 /\ high \in Nat /\ bit(0) \in 0..1
    BY <1>3
  <2>2. n = low + 1 * (bit(0) + 2 * high)
    BY <1>1, <1>3
  <2>. HIDE DEF low, high
  <2>. DEFINE m == bit(0) + 2 * high
  <2>3. n = low + 1 * m /\ m \in Nat /\ m % 2 = bit(0)
    BY <2>1, <2>2
  <2>. HIDE DEF m
  <2>4. n \div 1 = m
    BY <2>1, <2>3
  <2>. QED BY <2>3, <2>4
<1>6. (n \div 2) % 2 = bit(1)
  <2>. DEFINE low  == bit(0)
              high == bit(2) + 2 * bit(3) + 4 * bit(4) + 8 * bit(5) + 16 * bit(6) + 32 * bit(7)
  <2>1. low \in 0..1 /\ high \in Nat /\ bit(1) \in 0..1
    BY <1>3
  <2>2. n = low + 2 * (bit(1) + 2 * high)
    BY <1>1, <1>3
  <2>. HIDE DEF low, high
  <2>. DEFINE m == bit(1) + 2 * high
  <2>3. n = low + 2 * m /\ m \in Nat /\ m % 2 = bit(1)
    BY <2>1, <2>2
  <2>. HIDE DEF m
  <2>4. n \div 2 = m
    BY <2>1, <2>3
  <2>. QED BY <2>3, <2>4
<1>7. (n \div 4) % 2 = bit(2)
  <2>. DEFINE low  == bit(0) + 2 * bit(1)
              high == bit(3) + 2 * bit(4) + 4 * bit(5) + 8 * bit(6) + 16 * bit(7)
  <2>1. low \in 0..3 /\ high \in Nat /\ bit(2) \in 0..1
    BY <1>3
  <2>2. n = low + 4 * (bit(2) + 2 * high)
    BY <1>1, <1>3
  <2>. HIDE DEF low, high
  <2>. DEFINE m == bit(2) + 2 * high
  <2>3. n = low + 4 * m /\ m \in Nat /\ m % 2 = bit(2)
    BY <2>1, <2>2
  <2>. HIDE DEF m
  <2>4. n \div 4 = m
    BY <2>1, <2>3
  <2>. QED BY <2>3, <2>4
<1>8. (n \div 8) % 2 = bit(3)
  <2>. DEFINE low  == bit(0) + 2 * bit(1) + 4 * bit(2)
              high == bit(4) + 2 * bit(5) + 4 * bit(6) + 8 * bit(7)
  <2>1. low \in 0..7 /\ high \in Nat /\ bit(3) \in 0..1
    BY <1>3
  <2>2. n = low + 8 * (bit(3) + 2 * high)
    BY <1>1, <1>3
  <2>. HIDE DEF low, high
  <2>. DEFINE m == bit(3) + 2 * high
  <2>3. n = low + 8 * m /\ m \in Nat /\ m % 2 = bit(3)
    BY <2>1, <2>2
  <2>. HIDE DEF m
  <2>4. n \div 8 = m
    BY <2>1, <2>3
  <2>. QED BY <2>3, <2>4
<1>9. (n \div 16) % 2 = bit(4)
  <2>. DEFINE low  == bit(0) + 2 * bit(1) + 4 * bit(2) + 8 * bit(3)
              high == bit(5) + 2 * bit(6) + 4 * bit(7)
  <2>1. low \in 0..15 /\ high \in Nat /\ bit(4) \in 0..1
    BY <1>3
  <2>2. n = low + 16 * (bit(4) + 2 * high)
    BY <1>1, <1>3
  <2>. HIDE DEF low, high
  <2>. DEFINE m == bit(4) + 2 * high
  <2>3. n = low + 16 * m /\ m \in Nat /\ m % 2 = bit(4)
    BY <2>1, <2>2
  <2>. HIDE DEF m
  <2>4. n \div 16 = m
    BY <2>1, <2>3
  <2>. QED BY <2>3, <2>4
<1>10. (n \div 32) % 2 = bit(5)
  <2>. DEFINE low  == bit(0) + 2 * bit(1) + 4 * bit(2) + 8 * bit(3) + 16 * bit(4)
              high == bit(6) + 2 * bit(7)
  <2>1. low \in 0..31 /\ high \in Nat /\ bit(5) \in 0..1
    BY <1>3
  <2>2. n = low + 32 * (bit(5) + 2 * high)
    BY <1>1, <1>3
  <2>. HIDE DEF low, high
  <2>. DEFINE m == bit(5) + 2 * high
  <2>3. n = low + 32 * m /\ m \in Nat /\ m % 2 = bit(5)
    BY <2>1, <2>2
  <2>. HIDE DEF m
  <2>4. n \div 32 = m
    BY <2>1, <2>3
  <2>. QED BY <2>3, <2>4
<1>11. (n \div 64) % 2 = bit(6)
  <2>. DEFINE low  == bit(0) + 2 * bit(1) + 4 * bit(2) + 8 * bit(3) + 16 * bit(4) + 32 * bit(5)
              high == bit(7)
  <2>1. low \in 0..63 /\ high \in Nat /\ bit(6) \in 0..1
    BY <1>3
  <2>2. n = low + 64 * (bit(6) + 2 * high)
    BY <1>1, <1>3
  <2>. HIDE DEF low, high
  <2>. DEFINE m == bit(6) + 2 * high
  <2>3. n = low + 64 * m /\ m \in Nat /\ m % 2 = bit(6)
    BY <2>1, <2>2
  <2>. HIDE DEF m
  <2>4. n \div 64 = m
    BY <2>1, <2>3
  <2>. QED BY <2>3, <2>4
<1>12. (n \div 128) % 2 = bit(7)
  <2>. DEFINE low  == bit(0) + 2 * bit(1) + 4 * bit(2) + 8 * bit(3) + 16 * bit(4) + 32 * bit(5) + 64 * bit(6)
              high == 0
  <2>1. low \in 0..127 /\ high \in Nat /\ bit(7) \in 0..1
    BY <1>3
  <2>2. n = low + 128 * (bit(7) + 2 * high)
    BY <1>1, <1>3
  <2>. HIDE DEF low, high
  <2>. DEFINE m == bit(7) + 2 * high
  <2>3. n = low + 128 * m /\ m \in Nat /\ m % 2 = bit(7)
    BY <2>1, <2>2
  <2>. HIDE DEF m
  <2>4. n \div 128 = m
    BY <2>1, <2>3
  <2>. QED BY <2>3, <2>4
<1>13. ASSUME NEW i \in 0..7 PROVE i \in Bits(n) <=> 24 - 8*k + i \in x
  <2>1. (n \div Places[i+1]) % 2 = bit(i)
    <3>. DEFINE p == Places[i+1]
    <3>1. \/ (i = 0 /\ p = 1) \/ (i = 1 /\ p = 2) \/ (i = 2 /\ p = 4) \/ (i = 3 /\ p = 8)
          \/ (i = 4 /\ p = 16) \/ (i = 5 /\ p = 32) \/ (i = 6 /\ p = 64) \/ (i = 7 /\ p = 128)
      BY PlaceCases
    <3>. HIDE DEF p
    <3>2. (n \div p) % 2 = bit(i)
      BY <1>5, <1>6, <1>7, <1>8, <1>9, <1>10, <1>11, <1>12, <3>1
    <3>. QED BY <3>2 DEF p
  <2>2. i \in 0..15
    OBVIOUS
  <2>3. i \in Bits(n) <=> bit(i) = 1
    BY <2>1, <2>2, Zenon DEF Bits
  <2>. QED BY <1>2, <2>3
<1>. QED BY <1>4, <1>13 DEF n, ByteRange

\* Swapping the bytes of a word turns its significance round.
LEMMA ReversedIsSwapped ==
  ASSUME NEW x \in Word
  PROVE  bswap32(x) = Reversed(x) /\ Reversed(x) \in Word
<1>. DEFINE b == <<Byte(x, 3), Byte(x, 2), Byte(x, 1), Byte(x, 0)>>
<1>1. /\ Byte(x, 0) \in ByteRange /\ Byte(x, 1) \in ByteRange /\ Byte(x, 2) \in ByteRange /\ Byte(x, 3) \in ByteRange
      /\ \A i \in 0..7 : /\ i \in Bits(Byte(x, 0)) <=> 24 + i \in x
                         /\ i \in Bits(Byte(x, 1)) <=> 16 + i \in x
                         /\ i \in Bits(Byte(x, 2)) <=> 8 + i \in x
                         /\ i \in Bits(Byte(x, 3)) <=> i \in x
  <2>1. \A k \in 0..3 : Byte(x, k) \in ByteRange /\ \A i \in 0..7 : i \in Bits(Byte(x, k)) <=> 24 - 8*k + i \in x
    BY ByteBits
  <2>. QED BY <2>1
<1>2. b[1] = Byte(x, 3) /\ b[2] = Byte(x, 2) /\ b[3] = Byte(x, 1) /\ b[4] = Byte(x, 0) /\ Reversed(x) = FromBytes(b)
  BY DEF Reversed
<1>. HIDE DEF b
<1>3. /\ Reversed(x) \in Word
      /\ \A i \in 0..7 : /\ 24 + i \in Reversed(x) <=> i \in x
                         /\ 16 + i \in Reversed(x) <=> 8 + i \in x
                         /\ 8 + i \in Reversed(x) <=> 16 + i \in x
                         /\ i \in Reversed(x) <=> 24 + i \in x
  BY <1>1, <1>2, FromBytesBits
<1>4. /\ bswap32(x) \in Word
      /\ \A i \in 0..7 : /\ 24 + i \in bswap32(x) <=> i \in x
                         /\ 16 + i \in bswap32(x) <=> 8 + i \in x
                         /\ 8 + i \in bswap32(x) <=> 16 + i \in x
                         /\ i \in bswap32(x) <=> 24 + i \in x
  <2>. DEFINE picks == <<0, 1, 2, 3>>
  <2>1. picks[0+1] = 0 /\ picks[1+1] = 1 /\ picks[2+1] = 2 /\ picks[3+1] = 3
    OBVIOUS
  <2>. HIDE DEF picks
  <2>2. BytePerm(x, {}, picks) \in Word
    BY DEF BytePerm, Word, Bit
  <2>3. ASSUME NEW k \in 0..3, NEW i \in 0..7 PROVE 24 - 8*k + i \in BytePerm(x, {}, picks) <=> 8 * picks[k+1] + i \in x
    BY DEF BytePerm
  <2>4. bswap32(x) = BytePerm(x, {}, picks)
    BY DEF bswap32, picks
  <2>. QED BY <2>1, <2>2, <2>3, <2>4
<1>5. bswap32(x) = Reversed(x)
  BY <1>3, <1>4, SameBytes
<1>. QED BY <1>3, <1>5

LEMMA BytePermBits ==
  ASSUME NEW x \in Word, NEW y \in Word, NEW picks, \A k \in 0..3 : picks[k+1] \in 0..7
  PROVE  /\ BytePerm(x, y, picks) \in Word
         /\ \A k \in 0..3, i \in 0..7 :
              24 - 8*k + i \in BytePerm(x, y, picks) <=>
                IF picks[k+1] < 4 THEN 8 * picks[k+1] + i \in x ELSE 8 * (picks[k+1] - 4) + i \in y
<1>. DEFINE wide == x \union {i + 32 : i \in y}
<1>1. BytePerm(x, y, picks) = UNION {{24 - 8*k + i : i \in {j \in 0..7 : 8 * picks[k+1] + j \in wide}} : k \in 0..3}
  BY DEF BytePerm
<1>2. \A p \in 0..7, i \in 0..7 : 8 * p + i \in wide <=> IF p < 4 THEN 8 * p + i \in x ELSE 8 * (p - 4) + i \in y
  <2>. TAKE p \in 0..7, i \in 0..7
  <2>1. CASE p < 4
    BY <2>1 DEF Word, Bit
  <2>2. CASE p >= 4
    <3>1. 8 * p + i \notin x
      BY <2>2 DEF Word, Bit
    <3>2. 8 * p + i = (8 * (p - 4) + i) + 32
      OBVIOUS
    <3>3. 8 * p + i \in {j + 32 : j \in y} <=> 8 * (p - 4) + i \in y
      BY <2>2, <3>2 DEF Word, Bit
    <3>. QED BY <2>2, <3>1, <3>3
  <2>. QED BY <2>1, <2>2
<1>. HIDE DEF wide
<1>3. BytePerm(x, y, picks) \in Word
  BY <1>1 DEF Word, Bit
<1>4. ASSUME NEW k \in 0..3, NEW i \in 0..7
      PROVE  24 - 8*k + i \in BytePerm(x, y, picks) <=> 8 * picks[k+1] + i \in wide
  BY <1>1
<1>5. ASSUME NEW k \in 0..3, NEW i \in 0..7
      PROVE  24 - 8*k + i \in BytePerm(x, y, picks) <=>
                IF picks[k+1] < 4 THEN 8 * picks[k+1] + i \in x ELSE 8 * (picks[k+1] - 4) + i \in y
  <2>1. picks[k+1] \in 0..7
    OBVIOUS
  <2>. QED BY <1>2, <1>4, <2>1
<1>. QED BY <1>3, <1>5

\* The window one byte further: the last byte of y and the first three of x.
LEMMA WindowIsBytes ==
  ASSUME NEW x \in Word, NEW y \in Word, NEW n \in ByteRange, \A i \in 0..7 : i \in Bits(n) <=> i \in y
  PROVE  BytePerm(x, y, <<4,3,2,1>>) = FromBytes(<<n, Byte(x, 0), Byte(x, 1), Byte(x, 2)>>)
<1>. DEFINE b == <<n, Byte(x, 0), Byte(x, 1), Byte(x, 2)>>
            picks == <<4,3,2,1>>
<1>1. /\ Byte(x, 0) \in ByteRange /\ Byte(x, 1) \in ByteRange /\ Byte(x, 2) \in ByteRange
      /\ \A i \in 0..7 : /\ i \in Bits(Byte(x, 0)) <=> 24 + i \in x
                         /\ i \in Bits(Byte(x, 1)) <=> 16 + i \in x
                         /\ i \in Bits(Byte(x, 2)) <=> 8 + i \in x
  <2>1. \A k \in 0..3 : Byte(x, k) \in ByteRange /\ \A i \in 0..7 : i \in Bits(Byte(x, k)) <=> 24 - 8*k + i \in x
    BY ByteBits
  <2>. QED BY <2>1
<1>2. b[1] = n /\ b[2] = Byte(x, 0) /\ b[3] = Byte(x, 1) /\ b[4] = Byte(x, 2)
  OBVIOUS
<1>3. picks[0+1] = 4 /\ picks[1+1] = 3 /\ picks[2+1] = 2 /\ picks[3+1] = 1
  OBVIOUS
<1>. HIDE DEF b, picks
<1>4. /\ FromBytes(b) \in Word
      /\ \A i \in 0..7 : /\ 24 + i \in FromBytes(b) <=> i \in y
                         /\ 16 + i \in FromBytes(b) <=> 24 + i \in x
                         /\ 8 + i \in FromBytes(b) <=> 16 + i \in x
                         /\ i \in FromBytes(b) <=> 8 + i \in x
  BY <1>1, <1>2, FromBytesBits
<1>5. \A k \in 0..3 : picks[k+1] \in 0..7
  BY <1>3
<1>6. /\ BytePerm(x, y, picks) \in Word
      /\ \A k \in 0..3, i \in 0..7 :
              24 - 8*k + i \in BytePerm(x, y, picks) <=>
                IF picks[k+1] < 4 THEN 8 * picks[k+1] + i \in x ELSE 8 * (picks[k+1] - 4) + i \in y
  BY <1>5, BytePermBits
<1>. DEFINE z == BytePerm(x, y, picks)
<1>. HIDE DEF z
<1>7. \A i \in 0..7 : /\ 24 + i \in z <=> i \in y
                      /\ 16 + i \in z <=> 24 + i \in x
                      /\ 8 + i \in z <=> 16 + i \in x
                      /\ i \in z <=> 8 + i \in x
  BY <1>3, <1>6 DEF z
<1>8. z = FromBytes(b)
  BY <1>4, <1>6, <1>7, SameBytes DEF z
<1>. QED BY <1>8 DEF z, b, picks

LEMMA NoBits == Bits(0) = {} /\ Bits(128) = {7}
<1>1. ASSUME NEW i \in 0..15
      PROVE  (0 \div Places[i+1]) % 2 = 0 /\ ((128 \div Places[i+1]) % 2 = 1 <=> i = 7)
  <2>1. CASE i \in 0..7
    <3>1. /\ 0 \div 1 = 0 /\ 0 \div 2 = 0 /\ 0 \div 4 = 0 /\ 0 \div 8 = 0
          /\ 0 \div 16 = 0 /\ 0 \div 32 = 0 /\ 0 \div 64 = 0 /\ 0 \div 128 = 0 /\ 0 % 2 = 0
      OBVIOUS
    <3>2. /\ 128 \div 1 = 128 /\ 128 \div 2 = 64 /\ 128 \div 4 = 32 /\ 128 \div 8 = 16
          /\ 128 \div 16 = 8 /\ 128 \div 32 = 4 /\ 128 \div 64 = 2 /\ 128 \div 128 = 1
          /\ 128 % 2 = 0 /\ 64 % 2 = 0 /\ 32 % 2 = 0 /\ 16 % 2 = 0 /\ 8 % 2 = 0 /\ 4 % 2 = 0 /\ 2 % 2 = 0 /\ 1 % 2 = 1
      OBVIOUS
    <3>. DEFINE p == Places[i+1]
    <3>3. \/ (i = 0 /\ p = 1) \/ (i = 1 /\ p = 2) \/ (i = 2 /\ p = 4) \/ (i = 3 /\ p = 8)
          \/ (i = 4 /\ p = 16) \/ (i = 5 /\ p = 32) \/ (i = 6 /\ p = 64) \/ (i = 7 /\ p = 128)
      BY <2>1, PlaceCases
    <3>. HIDE DEF p
    <3>4. (0 \div p) % 2 = 0 /\ ((128 \div p) % 2 = 1 <=> i = 7)
      BY <3>1, <3>2, <3>3
    <3>. QED BY <3>4 DEF p
  <2>2. CASE i \notin 0..7
    <3>1. i - 8 \in 0..7 /\ 8 + (i - 8) = i /\ i # 7
      BY <2>2
    <3>. DEFINE p == Places[i+1]
    <3>2. p \in {256, 512, 1024, 2048, 4096, 8192, 16384, 32768}
      <4>. DEFINE j == i - 8
      <4>. HIDE DEF j
      <4>1. \/ Places[8+j+1] = 256 \/ Places[8+j+1] = 512 \/ Places[8+j+1] = 1024 \/ Places[8+j+1] = 2048
            \/ Places[8+j+1] = 4096 \/ Places[8+j+1] = 8192 \/ Places[8+j+1] = 16384 \/ Places[8+j+1] = 32768
        <5>1. j \in 0..7
          BY <3>1 DEF j
        <5>. QED BY <5>1, PlaceCases
      <4>2. 8 + j = i
        BY <3>1 DEF j
      <4>. QED BY <4>1, <4>2
    <3>. HIDE DEF p
    <3>3. 0 \div p = 0 /\ 128 \div p = 0 /\ 0 % 2 = 0
      BY <3>2
    <3>4. (0 \div p) % 2 = 0 /\ (128 \div p) % 2 = 0
      BY <3>3
    <3>. QED BY <3>1, <3>4 DEF p
  <2>. QED BY <2>1, <2>2
<1>2. Bits(0) = {}
  BY <1>1 DEF Bits
<1>3. \A i : i \in Bits(128) <=> i = 7
  <2>1. 7 \in 0..15
    OBVIOUS
  <2>. QED BY <1>1, <2>1, Zenon DEF Bits
<1>. QED BY <1>2, <1>3

\* The last word of the message: the last byte of x and the padding.
LEMMA TailIsBytes ==
  ASSUME NEW x \in Word
  PROVE  BytePerm(x, Small(\h80), <<0,4,5,5>>) = FromBytes(<<Byte(x, 3), 128, 0, 0>>)
<1>. DEFINE b == <<Byte(x, 3), 128, 0, 0>>
            picks == <<0,4,5,5>>
            y == Small(\h80)
<1>1. Byte(x, 3) \in ByteRange /\ \A i \in 0..7 : i \in Bits(Byte(x, 3)) <=> i \in x
  <2>1. \A k \in 0..3 : Byte(x, k) \in ByteRange /\ \A i \in 0..7 : i \in Bits(Byte(x, k)) <=> 24 - 8*k + i \in x
    BY ByteBits
  <2>. QED BY <2>1
<1>2. b[1] = Byte(x, 3) /\ b[2] = 128 /\ b[3] = 0 /\ b[4] = 0
  OBVIOUS
<1>3. picks[0+1] = 0 /\ picks[1+1] = 4 /\ picks[2+1] = 5 /\ picks[3+1] = 5
  OBVIOUS
<1>4. Bits(0) = {} /\ Bits(128) = {7}
  BY NoBits
<1>5. y = {7}
  BY <1>4 DEF Small, Hex
<1>. HIDE DEF b, picks, y
<1>6. /\ FromBytes(b) \in Word
      /\ \A i \in 0..7 : /\ 24 + i \in FromBytes(b) <=> i \in x
                         /\ 16 + i \in FromBytes(b) <=> i = 7
                         /\ 8 + i \notin FromBytes(b)
                         /\ i \notin FromBytes(b)
  <2>1. 128 \in ByteRange /\ 0 \in ByteRange
    BY DEF ByteRange
  <2>. QED BY <1>1, <1>2, <1>4, <2>1, FromBytesBits
<1>7. y \in Word /\ \A k \in 0..3 : picks[k+1] \in 0..7
  BY <1>3, <1>5 DEF Word, Bit
<1>. DEFINE z == BytePerm(x, y, picks)
<1>8. /\ z \in Word
      /\ \A k \in 0..3, i \in 0..7 :
              24 - 8*k + i \in z <=>
                IF picks[k+1] < 4 THEN 8 * picks[k+1] + i \in x ELSE 8 * (picks[k+1] - 4) + i \in y
  BY <1>7, BytePermBits
<1>. HIDE DEF z
<1>9. \A i \in 0..7 : /\ 24 + i \in z <=> i \in x
                      /\ 16 + i \in z <=> i \in y
                      /\ 8 + i \in z <=> 8 + i \in y
                      /\ i \in z <=> 8 + i \in y
  BY <1>3, <1>8
<1>10. \A i \in 0..7 : (i \in y <=> i = 7) /\ 8 + i \notin y
  BY <1>5
<1>11. z = FromBytes(b)
  BY <1>6, <1>8, <1>9, <1>10, SameBytes
<1>. QED BY <1>11 DEF z, b, picks, y

LEMMA NoBytes == FromBytes(<<0, 0, 0, 0>>) = {} /\ FromBytes(<<0, 0, 1, 8>>) = Small(264)
<1>1. Bits(0) = {}
  BY NoBits
<1>2. 256 * 0 + 0 = 0 /\ 256 * 1 + 8 = 264
  OBVIOUS
<1>. QED BY <1>1, <1>2 DEF FromBytes, Hex, Small

-------------------------------------------------------------------------------
(* The message                                                             *)

LEMMA FunctionIsSequence ==
  ASSUME NEW S, NEW n \in Nat, NEW f \in [1..n -> S]
  PROVE  f \in Seq(S) /\ Len(f) = n
<1>1. f \in Seq(S)
  BY SeqDef
<1>2. DOMAIN f = 1..n /\ DOMAIN f = 1..Len(f) /\ Len(f) \in Nat
  BY <1>1, LenProperties
<1>. QED BY <1>1, <1>2

IsPoint(p) == p.x \in Seq(Word) /\ Len(p.x) = 8 /\ p.odd \in BOOLEAN

PrefixOf(p) == IF p.odd THEN 3 ELSE 2

\* The printed digits give the prefix and the bytes of x back.
LEMMA PrintedKeyBytes ==
  ASSUME NEW p, IsPoint(p)
  PROVE  /\ PrintedKey(p) \in [1..33 -> ByteRange]
         /\ PrintedKey(p)[1] = PrefixOf(p)
         /\ \A n \in 2..33 : PrintedKey(p)[n] = Byte(p.x[(n + 2) \div 4], (n + 2) % 4)
<1>. DEFINE out == [n \in 1..33 |-> IF n = 1 THEN IF p.odd THEN 3 ELSE 2
                                    ELSE Byte(p.x[(n + 2) \div 4], (n + 2) % 4)]
            d == [n \in 1..66 |-> LET b == out[(n + 1) \div 2] IN IF n % 2 = 1 THEN b \div 16 ELSE b % 16]
<1>1. out \in [1..33 -> ByteRange]
  <2>1. \A n \in 2..33 : (n + 2) \div 4 \in 1..8 /\ (n + 2) % 4 \in 0..3
    OBVIOUS
  <2>2. \A i \in 1..8 : p.x[i] \in Word
    BY ElementOfSeq DEF IsPoint
  <2>3. ASSUME NEW n \in 2..33 PROVE Byte(p.x[(n + 2) \div 4], (n + 2) % 4) \in ByteRange
    BY <2>1, <2>2, ByteBits, Zenon
  <2>4. 2 \in ByteRange /\ 3 \in ByteRange
    BY DEF ByteRange
  <2>5. ASSUME NEW n \in 1..33 PROVE out[n] \in ByteRange
    <3>1. CASE n = 1
      BY <2>4, <3>1
    <3>2. CASE n \in 2..33
      BY <2>3, <3>2
    <3>. QED BY <3>1, <3>2
  <2>. HIDE DEF ByteRange, Byte
  <2>6. out = [n \in 1..33 |-> out[n]]
    OBVIOUS
  <2>. HIDE DEF out
  <2>. QED BY <2>5, <2>6
<1>2. out[1] = PrefixOf(p) /\ \A n \in 2..33 : out[n] = Byte(p.x[(n + 2) \div 4], (n + 2) % 4)
  BY DEF PrefixOf
<1>. HIDE DEF out
<1>3. ASSUME NEW n \in 1..33 PROVE 16 * d[2*n - 1] + d[2*n] = out[n]
  <2>1. d[2*n - 1] = out[n] \div 16
    <3>1. 2*n - 1 \in 1..66 /\ ((2*n - 1) + 1) \div 2 = n /\ (2*n - 1) % 2 = 1
      OBVIOUS
    <3>. QED BY <3>1
  <2>2. d[2*n] = out[n] % 16
    <3>1. 2*n \in 1..66 /\ (2*n + 1) \div 2 = n /\ (2*n) % 2 = 0
      OBVIOUS
    <3>. QED BY <3>1
  <2>3. out[n] \in 0..255
    BY <1>1 DEF ByteRange
  <2>. QED BY <2>1, <2>2, <2>3
<1>. HIDE DEF d
<1>4. formatCompressedPubHex(p) = d
  BY DEF formatCompressedPubHex, d, out
<1>5. PrintedKey(p) = [n \in 1..33 |-> 16 * d[2*n - 1] + d[2*n]]
  BY <1>4 DEF PrintedKey
<1>6. PrintedKey(p) = [n \in 1..33 |-> out[n]]
  BY <1>3, <1>5
<1>. QED BY <1>1, <1>2, <1>6

\* v has s at its first m places and u at the n after them.
Joined(v, S, s, m, u, n) ==
  /\ v \in [1..m+n -> S]
  /\ \A i \in 1..m : v[i] = s[i]
  /\ \A i \in m+1..m+n : v[i] = u[i - m]

LEMMA Concatenation ==
  ASSUME NEW S, NEW m \in Nat, NEW n \in Nat, NEW s \in [1..m -> S], NEW u \in [1..n -> S]
  PROVE  Joined(s \o u, S, s, m, u, n)
<1>. DEFINE both == s \o u
<1>1. s \in Seq(S) /\ Len(s) = m /\ u \in Seq(S) /\ Len(u) = n
  BY FunctionIsSequence
<1>2. /\ both \in Seq(S) /\ Len(both) = m + n
      /\ \A i \in 1..m+n : both[i] = IF i <= Len(s) THEN s[i] ELSE u[i - Len(s)]
  <2>1. /\ both \in Seq(S) /\ Len(both) = Len(s) + Len(u)
        /\ \A i \in 1..Len(s) + Len(u) : both[i] = IF i <= Len(s) THEN s[i] ELSE u[i - Len(s)]
    BY <1>1, ConcatProperties, Zenon
  <2>. HIDE DEF both
  <2>. QED BY <1>1, <2>1, Zenon
<1>. HIDE DEF both
<1>3. both \in [1..m+n -> S]
  BY <1>2, LenProperties
<1>4. \A i \in 1..m+n : both[i] = IF i <= m THEN s[i] ELSE u[i - m]
  BY <1>1, <1>2, Zenon
<1>5. /\ \A i \in 1..m : both[i] = s[i]
      /\ \A i \in m+1..m+n : both[i] = u[i - m]
  BY <1>4
<1>. QED BY <1>3, <1>5 DEF both, Joined

\* The padded block of the host: the key, a 1 bit, zeros and the length.
LEMMA BlockBytes ==
  ASSUME NEW data \in [1..33 -> ByteRange]
  PROVE  /\ Block(data) \in [1..64 -> ByteRange]
         /\ \A n \in 1..33 : Block(data)[n] = data[n]
         /\ Block(data)[34] = 128
         /\ \A n \in 35..62 : Block(data)[n] = 0
         /\ Block(data)[63] = 1 /\ Block(data)[64] = 8
<1>. DEFINE mark   == <<128>>
            zeros  == [i \in 1..28 |-> 0]
            ending == <<1, 8>>
            one    == data \o mark
            two    == one \o zeros
            all    == two \o ending
<1>1. Block(data) = all
  <2>1. 33 \in Nat
    OBVIOUS
  <2>2. Len(data) = 33
    BY <2>1, FunctionIsSequence, ZenonT(60)
  <2>3. 61 - 33 = 28 /\ (8 * 33) \div 256 = 1 /\ (8 * 33) % 256 = 8
    OBVIOUS
  <2>. QED BY <2>2, <2>3 DEF Block
<1>2. /\ mark \in [1..1 -> ByteRange] /\ mark[1] = 128
      /\ zeros \in [1..28 -> ByteRange] /\ \A i \in 1..28 : zeros[i] = 0
      /\ ending \in [1..2 -> ByteRange] /\ ending[1] = 1 /\ ending[2] = 8
  <2>1. 128 \in ByteRange /\ 0 \in ByteRange /\ 1 \in ByteRange /\ 8 \in ByteRange
    BY DEF ByteRange
  <2>2. mark \in [1..1 -> ByteRange] /\ mark[1] = 128
    BY <2>1
  <2>3. ending \in [1..2 -> ByteRange] /\ ending[1] = 1 /\ ending[2] = 8
    <3>1. ending \in Seq(ByteRange) /\ Len(ending) = 2
      BY <2>1
    <3>. QED BY <3>1, LenProperties
  <2>. QED BY <2>1, <2>2, <2>3
<1>3. 33 + 1 = 34 /\ 34 + 28 = 62 /\ 62 + 2 = 64
  OBVIOUS
<1>4. 33 \in Nat /\ 1 \in Nat /\ 28 \in Nat /\ 34 \in Nat /\ 62 \in Nat /\ 2 \in Nat
  OBVIOUS
<1>. HIDE DEF mark, zeros, ending
<1>5. /\ one \in [1..34 -> ByteRange]
      /\ \A i \in 1..33 : one[i] = data[i]
      /\ \A i \in 33+1..33+1 : one[i] = mark[i - 33]
  <2>1. data \in [1..33 -> ByteRange] /\ mark \in [1..1 -> ByteRange] /\ 33 \in Nat /\ 1 \in Nat
    BY <1>2, <1>4
  <2>2. Joined(data \o mark, ByteRange, data, 33, mark, 1)
    BY <2>1, Concatenation, Zenon
  <2>. QED BY <1>3, <2>1, <2>2 DEF Joined, one
<1>. HIDE DEF one
<1>6. /\ two \in [1..62 -> ByteRange]
      /\ \A i \in 1..34 : two[i] = one[i]
      /\ \A i \in 34+1..34+28 : two[i] = zeros[i - 34]
  <2>1. one \in [1..34 -> ByteRange] /\ zeros \in [1..28 -> ByteRange] /\ 34 \in Nat /\ 28 \in Nat
    BY <1>2, <1>4, <1>5
  <2>2. Joined(one \o zeros, ByteRange, one, 34, zeros, 28)
    BY <2>1, Concatenation, Zenon
  <2>. QED BY <1>3, <2>1, <2>2 DEF Joined, two
<1>. HIDE DEF two
<1>7. /\ all \in [1..64 -> ByteRange]
      /\ \A i \in 1..62 : all[i] = two[i]
      /\ \A i \in 62+1..62+2 : all[i] = ending[i - 62]
  <2>1. two \in [1..62 -> ByteRange] /\ ending \in [1..2 -> ByteRange] /\ 62 \in Nat /\ 2 \in Nat
    BY <1>2, <1>4, <1>6
  <2>2. Joined(two \o ending, ByteRange, two, 62, ending, 2)
    BY <2>1, Concatenation, Zenon
  <2>. QED BY <1>3, <2>1, <2>2 DEF Joined, all
<1>. HIDE DEF all
<1>8. one[34] = 128
  BY <1>2, <1>5
<1>9. \A n \in 35..62 : two[n] = 0
  <2>1. ASSUME NEW n \in 35..62 PROVE n - 34 \in 1..28 /\ n \in 34+1..34+28
    OBVIOUS
  <2>2. ASSUME NEW n \in 35..62 PROVE two[n] = 0
    <3>1. two[n] = zeros[n - 34]
      BY <1>6, <2>1, Zenon
    <3>2. zeros[n - 34] = 0
      BY <1>2, <2>1, Zenon
    <3>. QED BY <3>1, <3>2
  <2>. QED BY <2>2
<1>10. all[63] = 1 /\ all[64] = 8
  BY <1>2, <1>7
<1>11. \A n \in 1..33 : all[n] = data[n]
  BY <1>5, <1>6, <1>7
<1>12. all[34] = 128 /\ \A n \in 35..62 : all[n] = 0
  BY <1>6, <1>7, <1>8, <1>9
<1>. QED BY <1>1, <1>7, <1>10, <1>11, <1>12

\* The words the host loads from the printed key are those the device builds from the limbs.
LEMMA LoadedIsMessage ==
  ASSUME NEW p, IsPoint(p)
  PROVE  LET words == Loaded(Block(PrintedKey(p)))
             k     == [prefix |-> PrefixOf(p), e |-> p.x]
         IN  /\ words \in [1..16 -> Word]
             /\ \A j \in 0..8 : words[j+1] = Message(k, j)
             /\ \A j \in 9..14 : words[j+1] = {}
             /\ words[16] = Small(33 * 8)
<1>. DEFINE b == Block(PrintedKey(p))
            words == Loaded(b)
            k == [prefix |-> PrefixOf(p), e |-> p.x]
            out == PrintedKey(p)
<1>1. /\ out \in [1..33 -> ByteRange]
      /\ out[1] = PrefixOf(p)
      /\ \A n \in 2..33 : out[n] = Byte(p.x[(n + 2) \div 4], (n + 2) % 4)
  BY PrintedKeyBytes
<1>. HIDE DEF out
<1>2. /\ b \in [1..64 -> ByteRange]
      /\ \A n \in 1..33 : b[n] = out[n]
      /\ b[34] = 128
      /\ \A n \in 35..62 : b[n] = 0
      /\ b[63] = 1 /\ b[64] = 8
  BY <1>1, BlockBytes DEF out
<1>. HIDE DEF b
<1>3. ASSUME NEW i \in 1..16
      PROVE  /\ words[i] = FromBytes(<<b[4*i - 3], b[4*i - 2], b[4*i - 1], b[4*i]>>)
             /\ words[i] \in Word
  <2>. DEFINE s == SubSeq(b, 4*i - 3, 4*i)
              q == <<b[4*i - 3], b[4*i - 2], b[4*i - 1], b[4*i]>>
  <2>1. 4*i - 3 \in 1..64 /\ 4*i - 2 \in 1..64 /\ 4*i - 1 \in 1..64 /\ 4*i \in 1..64
    OBVIOUS
  <2>2. s[1] = b[4*i - 3] /\ s[2] = b[4*i - 2] /\ s[3] = b[4*i - 1] /\ s[4] = b[4*i]
    <3>1. b \in Seq(ByteRange) /\ Len(b) = 64
      <4>1. 64 \in Nat
        OBVIOUS
      <4>2. b \in [1..64 -> ByteRange]
        BY <1>2
      <4>. QED BY <4>1, <4>2, FunctionIsSequence, ZenonT(60)
    <3>2. \A m \in 1..4 : s[m] = b[(4*i - 3) + m - 1]
      BY <2>1, <3>1
    <3>. HIDE DEF s
    <3>. QED BY <3>2
  <2>3. q[1] = b[4*i - 3] /\ q[2] = b[4*i - 2] /\ q[3] = b[4*i - 1] /\ q[4] = b[4*i]
    OBVIOUS
  <2>4. words[i] = FromBytes(s)
    BY DEF Loaded
  <2>. HIDE DEF s, q
  <2>5. FromBytes(s) = FromBytes(q)
    BY <2>2, <2>3 DEF FromBytes
  <2>6. FromBytes(q) \in Word
    BY <1>2, <2>1, <2>3, FromBytesBits
  <2>. QED BY <2>4, <2>5, <2>6 DEF q
<1>4. words = [i \in 1..16 |-> words[i]]
  BY DEF Loaded
<1>. HIDE DEF words
<1>5. words \in [1..16 -> Word]
  BY <1>3, <1>4
<1>6. p.x \in [1..8 -> Word] /\ PrefixOf(p) \in ByteRange
  <2>1. p.x \in [1..8 -> Word]
    BY LenProperties DEF IsPoint
  <2>. QED BY <2>1 DEF PrefixOf, ByteRange
<1>7. words[1] = Message(k, 0)
  <2>1. words[1] = FromBytes(<<b[4*1 - 3], b[4*1 - 2], b[4*1 - 1], b[4*1]>>)
    BY <1>3
  <2>2. b[1] = PrefixOf(p) /\ b[2] = Byte(p.x[1], 0) /\ b[3] = Byte(p.x[1], 1) /\ b[4] = Byte(p.x[1], 2)
    BY <1>1, <1>2
  <2>3. words[1] = FromBytes(<<PrefixOf(p), Byte(p.x[1], 0), Byte(p.x[1], 1), Byte(p.x[1], 2)>>)
    BY <2>1, <2>2
  <2>. DEFINE y == Small(PrefixOf(p))
  <2>4. y \in Word /\ \A i \in 0..7 : i \in Bits(PrefixOf(p)) <=> i \in y
    BY NoBits DEF Small, Hex, Bits, Word, Bit
  <2>. HIDE DEF y
  <2>5. BytePerm(p.x[1], y, <<4,3,2,1>>) = FromBytes(<<PrefixOf(p), Byte(p.x[1], 0), Byte(p.x[1], 1), Byte(p.x[1], 2)>>)
    <3>1. p.x[1] \in Word
      BY <1>6
    <3>. QED BY <1>6, <2>4, <3>1, WindowIsBytes
  <2>6. Message(k, 0) = BytePerm(p.x[1], y, <<4,3,2,1>>)
    BY DEF Message, y
  <2>. QED BY <2>3, <2>5, <2>6
<1>8. ASSUME NEW j \in 1..7 PROVE words[j+1] = Message(k, j)
  <2>. DEFINE x == p.x[j+1]
              y == p.x[j]
  <2>1. words[j+1] = FromBytes(<<b[4*(j+1) - 3], b[4*(j+1) - 2], b[4*(j+1) - 1], b[4*(j+1)]>>)
    BY <1>3
  <2>2. /\ b[4*(j+1) - 3] = Byte(y, 3) /\ b[4*(j+1) - 2] = Byte(x, 0)
        /\ b[4*(j+1) - 1] = Byte(x, 1) /\ b[4*(j+1)] = Byte(x, 2)
    <3>1. /\ 4*(j+1) - 3 \in 2..33 /\ 4*(j+1) - 2 \in 2..33 /\ 4*(j+1) - 1 \in 2..33 /\ 4*(j+1) \in 2..33
      OBVIOUS
    <3>2. /\ ((4*(j+1) - 3) + 2) \div 4 = j /\ ((4*(j+1) - 2) + 2) \div 4 = j+1
          /\ ((4*(j+1) - 1) + 2) \div 4 = j+1 /\ (4*(j+1) + 2) \div 4 = j+1
      OBVIOUS
    <3>3. /\ ((4*(j+1) - 3) + 2) % 4 = 3 /\ ((4*(j+1) - 2) + 2) % 4 = 0
          /\ ((4*(j+1) - 1) + 2) % 4 = 1 /\ (4*(j+1) + 2) % 4 = 2
      OBVIOUS
    <3>4. \A n \in 2..33 : b[n] = Byte(p.x[(n + 2) \div 4], (n + 2) % 4)
      BY <1>1, <1>2
    <3>. QED BY <3>1, <3>2, <3>3, <3>4
  <2>3. x \in Word /\ y \in Word
    BY <1>6
  <2>4. Message(k, j) = BytePerm(x, y, <<4,3,2,1>>)
    BY DEF Message
  <2>. HIDE DEF x, y
  <2>5. Byte(y, 3) \in ByteRange /\ \A i \in 0..7 : i \in Bits(Byte(y, 3)) <=> i \in y
    <3>1. 3 \in 0..3 /\ \A i \in 0..7 : 24 - 8*3 + i = i
      OBVIOUS
    <3>. QED BY <2>3, <3>1, ByteBits
  <2>6. BytePerm(x, y, <<4,3,2,1>>) = FromBytes(<<Byte(y, 3), Byte(x, 0), Byte(x, 1), Byte(x, 2)>>)
    BY <2>3, <2>5, WindowIsBytes
  <2>. QED BY <2>1, <2>2, <2>4, <2>6
<1>9. words[8+1] = Message(k, 8)
  <2>1. words[9] = FromBytes(<<b[4*9 - 3], b[4*9 - 2], b[4*9 - 1], b[4*9]>>)
    BY <1>3
  <2>2. b[33] = Byte(p.x[8], 3) /\ b[34] = 128 /\ b[35] = 0 /\ b[36] = 0
    BY <1>1, <1>2
  <2>3. words[9] = FromBytes(<<Byte(p.x[8], 3), 128, 0, 0>>)
    BY <2>1, <2>2
  <2>4. p.x[8] \in Word
    BY <1>6
  <2>5. Message(k, 8) = BytePerm(p.x[8], Small(\h80), <<0,4,5,5>>)
    BY DEF Message
  <2>. QED BY <2>3, <2>4, <2>5, TailIsBytes
<1>10. ASSUME NEW j \in 9..14 PROVE words[j+1] = {}
  <2>1. words[j+1] = FromBytes(<<b[4*(j+1) - 3], b[4*(j+1) - 2], b[4*(j+1) - 1], b[4*(j+1)]>>)
    BY <1>3
  <2>2. b[4*(j+1) - 3] = 0 /\ b[4*(j+1) - 2] = 0 /\ b[4*(j+1) - 1] = 0 /\ b[4*(j+1)] = 0
    BY <1>2
  <2>. QED BY <2>1, <2>2, NoBytes
<1>11. words[16] = Small(33 * 8)
  <2>1. words[16] = FromBytes(<<b[4*16 - 3], b[4*16 - 2], b[4*16 - 1], b[4*16]>>)
    BY <1>3
  <2>2. b[61] = 0 /\ b[62] = 0 /\ b[63] = 1 /\ b[64] = 8 /\ 33 * 8 = 264
    BY <1>2
  <2>. QED BY <2>1, <2>2, NoBytes
<1>12. \A j \in 0..8 : words[j+1] = Message(k, j)
  <2>1. \A j \in 0..8 : j = 0 \/ j = 8 \/ j \in 1..7
    OBVIOUS
  <2>2. 0 + 1 = 1
    OBVIOUS
  <2>. QED BY <1>7, <1>8, <1>9, <2>1, <2>2
<1>. QED BY <1>5, <1>10, <1>11, <1>12 DEF words, b

-------------------------------------------------------------------------------
(* Histories: sequences that grow by one at each step                      *)

LEMMA Appended ==
  ASSUME NEW S, NEW h \in Seq(S), NEW v \in S
  PROVE  /\ Append(h, v) \in Seq(S) /\ Len(Append(h, v)) = Len(h) + 1
         /\ \A j \in 1..Len(h) : Append(h, v)[j] = h[j]
         /\ Append(h, v)[Len(h) + 1] = v
BY AppendProperties

\* g begins with the m entries of first, and as long as it does what it should, it goes on so.
Growing(g, S, m, N, first, step) ==
  /\ g[0] = first
  /\ \A i \in 1..N : g[i-1] \in Seq(S) /\ Len(g[i-1]) = m + i - 1
                       => g[i] = Append(g[i-1], step[i][g[i-1]])

\* What comes of it: each entry is made from those before it, and stays.
Grown(g, S, m, N, first, step) ==
  /\ \A i \in 0..N : g[i] \in Seq(S) /\ Len(g[i]) = m + i
  /\ g[N] \in [1..m+N -> S]
  /\ \A j \in 1..m : g[N][j] = first[j]
  /\ \A i \in 1..N : \E h \in Seq(S) :
       /\ Len(h) = m + i - 1
       /\ \A j \in 1..m+i-1 : h[j] = g[N][j]
       /\ g[N][m+i] = step[i][h]

LEMMA GrowthExists ==
  ASSUME NEW S, NEW m \in Nat, NEW N \in Nat, NEW first \in [1..m -> S],
         NEW step \in [1..N -> [Seq(S) -> S]]
  PROVE  \E g : Growing(g, S, m, N, first, step)
<1>. DEFINE next == [i \in 1..N |-> [h \in Seq(S) |-> Append(h, step[i][h])]]
<1>1. next \in [1..N -> [Seq(S) -> Seq(S)]]
  <2>1. ASSUME NEW i \in 1..N, NEW h \in Seq(S) PROVE Append(h, step[i][h]) \in Seq(S)
    <3>1. step[i][h] \in S
      OBVIOUS
    <3>. QED BY <3>1, AppendProperties
  <2>. QED BY <2>1
<1>2. first \in Seq(S)
  BY FunctionIsSequence
<1>3. PICK g : Follows(g, N, Seq(S), first, next)
  <2>. HIDE DEF next
  <2>. QED BY <1>1, <1>2, UpwardFunction
<1>4. g \in [0..N -> Seq(S)] /\ g[0] = first /\ \A i \in 1..N : g[i] = next[i][g[i-1]]
  BY <1>3 DEF Follows
<1>5. ASSUME NEW i \in 1..N PROVE g[i] = Append(g[i-1], step[i][g[i-1]])
  <2>1. g[i-1] \in Seq(S)
    BY <1>4
  <2>. QED BY <1>4, <2>1
<1>. QED BY <1>4, <1>5 DEF Growing

\* A sequence defined by what each step appends has all those steps, whatever its length.
LEMMA Growth ==
  ASSUME NEW S, NEW m \in Nat, NEW N \in Nat, NEW first \in [1..m -> S],
         NEW step \in [1..N -> [Seq(S) -> S]], NEW g, Growing(g, S, m, N, first, step)
  PROVE  Grown(g, S, m, N, first, step)
<1>0. /\ g[0] = first
      /\ \A i \in 1..N : g[i-1] \in Seq(S) /\ Len(g[i-1]) = m + i - 1
                           => g[i] = Append(g[i-1], step[i][g[i-1]])
  BY DEF Growing
<1>. DEFINE T == {i \in 0..N : /\ g[i] \in Seq(S) /\ Len(g[i]) = m + i
                               /\ \A k \in 0..i : \A j \in 1..m+k : g[i][j] = g[k][j]}
<1>1. 0 \in T
  <2>1. first \in Seq(S) /\ Len(first) = m
    BY FunctionIsSequence
  <2>. QED BY <1>0, <2>1
<1>2. ASSUME NEW i \in 0..N-1, i \in T PROVE i + 1 \in T
  <2>. DEFINE h == g[i]
              v == step[i+1][h]
  <2>1. h \in Seq(S) /\ Len(h) = m + i /\ \A k \in 0..i : \A j \in 1..m+k : h[j] = g[k][j]
    BY <1>2
  <2>2. i + 1 \in 1..N /\ (i + 1) - 1 = i /\ m + (i + 1) - 1 = m + i
    OBVIOUS
  <2>3. g[i+1] = Append(h, v)
    BY <1>0, <2>1, <2>2
  <2>4. v \in S
    BY <2>1, <2>2
  <2>. HIDE DEF h, v
  <2>5. /\ g[i+1] \in Seq(S) /\ Len(g[i+1]) = m + i + 1
        /\ \A j \in 1..m+i : g[i+1][j] = h[j]
    <3>1. /\ Append(h, v) \in Seq(S) /\ Len(Append(h, v)) = Len(h) + 1
          /\ \A j \in 1..Len(h) : Append(h, v)[j] = h[j]
      BY <2>1, <2>4, Appended
    <3>. QED BY <2>1, <2>3, <3>1
  <2>6. ASSUME NEW k \in 0..i+1, NEW j \in 1..m+k PROVE g[i+1][j] = g[k][j]
    <3>1. CASE k = i + 1
      BY <3>1
    <3>2. CASE k \in 0..i
      <4>1. j \in 1..m+i
        BY <3>2
      <4>. QED BY <2>1, <2>5, <3>2, <4>1
    <3>. QED BY <3>1, <3>2
  <2>. QED BY <2>2, <2>5, <2>6
<1>. HIDE DEF T
<1>3. \A i \in 0..N : i \in T
  BY <1>1, <1>2, UpTo
<1>4. \A i \in 0..N : g[i] \in Seq(S) /\ Len(g[i]) = m + i
  BY <1>3 DEF T
<1>5. \A k \in 0..N : \A j \in 1..m+k : g[N][j] = g[k][j]
  <2>1. N \in 0..N
    OBVIOUS
  <2>. QED BY <1>3, <2>1 DEF T
<1>6. g[N] \in [1..m+N -> S]
  <2>1. g[N] \in Seq(S) /\ Len(g[N]) = m + N
    BY <1>4
  <2>. QED BY <2>1, LenProperties
<1>7. \A j \in 1..m : g[N][j] = first[j]
  <2>1. 0 \in 0..N /\ m + 0 = m
    OBVIOUS
  <2>. QED BY <1>0, <1>5, <2>1
<1>8. ASSUME NEW i \in 1..N
      PROVE  \E h \in Seq(S) : /\ Len(h) = m + i - 1
                               /\ \A j \in 1..m+i-1 : h[j] = g[N][j]
                               /\ g[N][m+i] = step[i][h]
  <2>. DEFINE h == g[i-1]
              v == step[i][h]
  <2>1. i - 1 \in 0..N /\ i \in 0..N /\ m + (i - 1) = m + i - 1
    OBVIOUS
  <2>2. h \in Seq(S) /\ Len(h) = m + i - 1
    BY <1>4, <2>1
  <2>3. \A j \in 1..m+i-1 : h[j] = g[N][j]
    BY <1>5, <2>1
  <2>4. g[i] = Append(h, v) /\ v \in S
    BY <1>0, <2>2
  <2>5. g[N][m+i] = g[i][m+i]
    <3>1. m + i \in 1..m+i
      OBVIOUS
    <3>. QED BY <1>5, <2>1, <3>1
  <2>. HIDE DEF h, v
  <2>6. g[i][m+i] = v
    <3>1. Append(h, v)[Len(h)+1] = v
      BY <2>2, <2>4, AppendProperties
    <3>2. Len(h) + 1 = m + i
      BY <2>2
    <3>. QED BY <2>4, <3>1, <3>2
  <2>7. g[N][m+i] = v
    BY <2>5, <2>6
  <2>. QED BY <2>2, <2>3, <2>7 DEF v
<1>. QED BY <1>4, <1>6, <1>7, <1>8 DEF Grown

-------------------------------------------------------------------------------
(* The host's SHA-256                                                      *)

LEMMA HexWord == \A hi, lo : Hex(hi, lo) \in Word
BY DEF Hex, Bits, Word, Bit

LEMMA ConstantsAreWords == K \in [0..63 -> Word] /\ ShaIV \in [0..7 -> Word]
<1>. HIDE DEF Hex
<1>1. K \in [0..63 -> Word]
  BY HexWord DEF K
<1>2. ShaIV \in [0..7 -> Word]
  BY HexWord DEF ShaIV
<1>. QED BY <1>1, <1>2

\* The word SCH puts at place n of the schedule, from the words before.
NextWord(W, n) == Total(<<SSIG1(W[n-2]), W[n-7], SSIG0(W[n-15]), W[n-16]>>)

LEMMA NextWordIsWord ==
  ASSUME NEW W, NEW n, W[n-2] \in Word, W[n-7] \in Word, W[n-15] \in Word, W[n-16] \in Word
  PROVE  NextWord(W, n) \in Word
<1>. DEFINE words == <<SSIG1(W[n-2]), W[n-7], SSIG0(W[n-15]), W[n-16]>>
<1>1. SSIG1(W[n-2]) \in Word /\ SSIG0(W[n-15]) \in Word
  BY SigmasAgree
<1>2. words \in Seq(Word) /\ Len(words) # 0
  BY <1>1
<1>. HIDE DEF words
<1>3. Total(words) \in Word
  BY <1>2, TotalWord
<1>. QED BY <1>3 DEF NextWord, words

LEMMA SchedulePlaces ==
  /\ \A n \in 17..64 :
       /\ n \in 16..64 /\ n # 16 /\ n - 1 \in 16..64 /\ n - 16 \in 1..48 /\ n - 17 \in 0..48
       /\ (n - 16) - 1 = n - 17 /\ (n - 1) - 16 = n - 17 /\ 16 + (n - 17) = n - 1 /\ 16 + (n - 16) = n
       /\ n - 2 \in 1..n-1 /\ n - 7 \in 1..n-1 /\ n - 15 \in 1..n-1 /\ n - 16 \in 1..n-1
  /\ \A i \in 1..48 :
       /\ i \in 0..48 /\ i - 1 \in 0..48 /\ 16 + i \in 17..64
       /\ 16 + i - 1 = 15 + i /\ 16 + (i - 1) = (16 + i) - 1 /\ (16 + i) - 1 = 15 + i
  /\ 16 \in 16..64 /\ 64 \in 16..64 /\ 0 \in 0..48 /\ 48 \in 0..48 /\ 16 - 16 = 0 /\ 16 + 0 = 16
  /\ 16 \in Nat /\ 48 \in Nat /\ 16 + 48 = 64
OBVIOUS

\* The host's schedule: the message, then each word from the four before it.
LEMMA ScheduleFacts ==
  ASSUME NEW first \in [1..16 -> Word]
  PROVE  /\ Scheduled(first) \in [1..64 -> Word]
         /\ \A n \in 1..16 : Scheduled(first)[n] = first[n]
         /\ \A n \in 17..64 : Scheduled(first)[n] = NextWord(Scheduled(first), n)
<1>. DEFINE Body(f) == [n \in 16..64 |-> IF n = 16 THEN first ELSE Append(f[n-1], NextWord(f[n-1], n))]
            schedule == CHOOSE f : f = Body(f)
            step == [i \in 1..48 |-> [h \in Seq(Word) |-> IF Len(h) = 16 + i - 1 THEN NextWord(h, 16 + i) ELSE {}]]
<1>1. Len(first) = 16 /\ first \in Seq(Word)
  <2>1. 16 \in Nat
    OBVIOUS
  <2>. QED BY <2>1, FunctionIsSequence, ZenonT(60)
<1>2. Scheduled(first) = schedule[64]
  BY <1>1 DEF Scheduled, NextWord
<1>3. step \in [1..48 -> [Seq(Word) -> Word]]
  <2>1. ASSUME NEW i \in 1..48, NEW h \in Seq(Word), Len(h) = 16 + i - 1 PROVE NextWord(h, 16 + i) \in Word
    <3>1. 16 + i \in 17..64 /\ (16 + i) - 1 = Len(h)
      BY <2>1
    <3>2. /\ (16 + i) - 2 \in 1..Len(h) /\ (16 + i) - 7 \in 1..Len(h)
          /\ (16 + i) - 15 \in 1..Len(h) /\ (16 + i) - 16 \in 1..Len(h)
      BY <3>1, SchedulePlaces, ZenonT(60)
    <3>3. \A j \in 1..Len(h) : h[j] \in Word
      BY ElementOfSeq
    <3>. QED BY <3>2, <3>3, NextWordIsWord, Zenon
  <2>2. {} \in Word
    BY DEF Word
  <2>. QED BY <2>1, <2>2
<1>4. \A i \in 1..48, h \in Seq(Word) : Len(h) = 16 + i - 1 => step[i][h] = NextWord(h, 16 + i)
  OBVIOUS
<1>. HIDE DEF step
<1>5. PICK g : Growing(g, Word, 16, 48, first, step)
  BY <1>3, SchedulePlaces, GrowthExists, ZenonT(60)
<1>6. Grown(g, Word, 16, 48, first, step)
  BY <1>3, <1>5, SchedulePlaces, Growth, ZenonT(60)
<1>7. schedule = Body(schedule)
  <2>. DEFINE f == [n \in 16..64 |-> g[n-16]]
  <2>1. ASSUME NEW n \in 17..64 PROVE f[n] = Append(f[n-1], NextWord(f[n-1], n))
    <3>. DEFINE i == n - 16
    <3>1. /\ i \in 1..48 /\ i - 1 \in 0..48 /\ i - 1 = (n - 1) - 16 /\ 16 + i = n /\ 16 + (i - 1) = 16 + i - 1
          /\ n \in 16..64 /\ n - 1 \in 16..64
      BY SchedulePlaces
    <3>2. f[n] = g[i] /\ f[n-1] = g[i-1]
      BY <3>1, SMTT(30)
    <3>. HIDE DEF i, f
    <3>3. g[i-1] \in Seq(Word) /\ Len(g[i-1]) = 16 + i - 1
      BY <1>6, <3>1, Zenon DEF Grown
    <3>4. g[i] = Append(g[i-1], step[i][g[i-1]])
      BY <1>5, <3>1, <3>3, Zenon DEF Growing
    <3>5. step[i][g[i-1]] = NextWord(g[i-1], n)
      BY <1>4, <3>1, <3>3, Zenon
    <3>. QED BY <3>2, <3>4, <3>5
  <2>2. f[16] = first
    BY <1>5, SchedulePlaces DEF Growing
  <2>3. f = [n \in 16..64 |-> f[n]]
    BY SMTT(30)
  <2>. HIDE DEF f
  <2>4. f = Body(f)
    <3>1. ASSUME NEW n \in 16..64 PROVE f[n] = IF n = 16 THEN first ELSE Append(f[n-1], NextWord(f[n-1], n))
      <4>1. CASE n = 16
        BY <2>2, <4>1, Zenon
      <4>2. CASE n # 16
        <5>1. n \in 17..64
          BY <4>2
        <5>. QED BY <2>1, <4>2, <5>1, Zenon
      <4>. QED BY <4>1, <4>2
    <3>. QED BY <2>3, <3>1, Zenon
  <2>. QED BY <2>4, Zenon
<1>8. schedule[16] = first
  <2>1. Body(schedule)[16] = first
    <3>1. 16 \in 16..64
      OBVIOUS
    <3>. QED BY <3>1, Zenon
  <2>. HIDE DEF Body, schedule
  <2>. QED BY <1>7, <2>1
<1>9. ASSUME NEW n \in 17..64 PROVE schedule[n] = Append(schedule[n-1], NextWord(schedule[n-1], n))
  <2>1. n \in 16..64 /\ n # 16
    BY SchedulePlaces, Zenon
  <2>. QED BY <1>7, <2>1, Zenon
<1>. HIDE DEF schedule
<1>. DEFINE s == [i \in 0..48 |-> schedule[16+i]]
<1>10. s[0] = first /\ s[48] = schedule[64]
  BY <1>8, SchedulePlaces
<1>11. Growing(s, Word, 16, 48, first, step)
  <2>1. ASSUME NEW i \in 1..48, s[i-1] \in Seq(Word), Len(s[i-1]) = 16 + i - 1
        PROVE  s[i] = Append(s[i-1], step[i][s[i-1]])
    <3>1. 16 + i \in 17..64 /\ 16 + (i - 1) = (16 + i) - 1 /\ i \in 0..48 /\ i - 1 \in 0..48
      BY SchedulePlaces, Zenon
    <3>2. s[i] = schedule[16+i] /\ s[i-1] = schedule[(16+i)-1]
      BY <3>1
    <3>. HIDE DEF s
    <3>3. s[i] = Append(s[i-1], NextWord(s[i-1], 16 + i))
      BY <1>9, <3>1, <3>2, Zenon
    <3>4. step[i][s[i-1]] = NextWord(s[i-1], 16 + i)
      BY <1>4, <2>1, Zenon
    <3>. QED BY <3>3, <3>4
  <2>. HIDE DEF s
  <2>. QED BY <1>10, <2>1 DEF Growing
<1>. HIDE DEF s
<1>12. Grown(s, Word, 16, 48, first, step)
  BY <1>3, <1>11, SchedulePlaces, Growth, ZenonT(60)
<1>. DEFINE W == s[48]
<1>13. ASSUME NEW n \in 17..64 PROVE W[n] = NextWord(W, n)
  <2>. DEFINE i == n - 16
  <2>1. i \in 1..48 /\ 16 + i = n /\ 16 + i - 1 = n - 1
    BY SchedulePlaces
  <2>2. n-2 \in 1..n-1 /\ n-7 \in 1..n-1 /\ n-15 \in 1..n-1 /\ n-16 \in 1..n-1
    BY SchedulePlaces, Zenon
  <2>. HIDE DEF i
  <2>3. PICK h \in Seq(Word) : /\ Len(h) = 16 + i - 1
                               /\ \A j \in 1..16+i-1 : h[j] = W[j]
                               /\ W[16+i] = step[i][h]
    BY <1>12, <2>1, Zenon DEF Grown
  <2>. HIDE DEF W
  <2>4. step[i][h] = NextWord(h, 16 + i)
    BY <1>4, <2>1, <2>3, Zenon
  <2>5. \A j \in 1..n-1 : h[j] = W[j]
    BY <2>1, <2>3
  <2>6. h[n-2] = W[n-2] /\ h[n-7] = W[n-7] /\ h[n-15] = W[n-15] /\ h[n-16] = W[n-16]
    BY <2>2, <2>5, Zenon
  <2>7. NextWord(h, n) = NextWord(W, n)
    BY <2>6, Zenon DEF NextWord
  <2>. QED BY <2>1, <2>3, <2>4, <2>7
<1>14. Scheduled(first) = W
  BY <1>2, <1>10
<1>15. W \in [1..64 -> Word] /\ \A j \in 1..16 : W[j] = first[j]
  <2>1. W \in [1..16+48 -> Word] /\ \A j \in 1..16 : W[j] = first[j]
    BY <1>12, Zenon DEF Grown
  <2>. HIDE DEF W
  <2>. QED BY <2>1, SchedulePlaces
<1>. QED BY <1>13, <1>14, <1>15

\* g begins with the one state start and appends the rounds in turn.
Recorded(g, S, N, start, round) ==
  /\ g[0] = <<start>>
  /\ \A n \in 1..N : g[n-1][n] \in S => g[n] = Append(g[n-1], round[n][g[n-1][n]])

\* The same as a growing sequence.
Appending(S, N, start, round) ==
  [i \in 1..N |-> [h \in Seq(S) |-> IF Len(h) = 1 + i - 1 THEN round[i][h[i]] ELSE start]]

AppendsRounds(step, S, N, round) ==
  \A i \in 1..N, h \in Seq(S) : Len(h) = 1 + i - 1 => h[i] \in S /\ step[i][h] = round[i][h[i]]

RoundsFollow(h, S, N, start, round) ==
  /\ h \in [1..N+1 -> S] /\ h[1] = start
  /\ \A n \in 1..N : h[n+1] = round[n][h[n]]

LEMMA RecordedIsGrowing ==
  ASSUME NEW S, NEW N \in Nat, NEW start \in S, NEW round \in [1..N -> [S -> S]]
  PROVE  /\ <<start>> \in [1..1 -> S] /\ Appending(S, N, start, round) \in [1..N -> [Seq(S) -> S]]
         /\ AppendsRounds(Appending(S, N, start, round), S, N, round)
         /\ \A g : Growing(g, S, 1, N, <<start>>, Appending(S, N, start, round)) =>
                     Recorded(g, S, N, start, round) /\ \A n \in 1..N : g[n-1][n] \in S
         /\ \A g : Recorded(g, S, N, start, round) =>
                     Growing(g, S, 1, N, <<start>>, Appending(S, N, start, round))
<1>. DEFINE first == <<start>>
            step  == Appending(S, N, start, round)
<1>1. first \in [1..1 -> S]
  OBVIOUS
<1>2. ASSUME NEW i \in 1..N, NEW h \in Seq(S), Len(h) = 1 + i - 1 PROVE h[i] \in S /\ round[i][h[i]] \in S
  <2>1. i \in 1..Len(h)
    BY <1>2
  <2>2. h[i] \in S
    BY <2>1, ElementOfSeq
  <2>. QED BY <2>2
<1>3. step \in [1..N -> [Seq(S) -> S]]
  BY <1>2 DEF Appending
<1>4. ASSUME NEW i \in 1..N, NEW h \in Seq(S), Len(h) = 1 + i - 1
      PROVE  h[i] \in S /\ step[i][h] = round[i][h[i]]
  BY <1>2, <1>4 DEF Appending
<1>5. 1 \in Nat
  OBVIOUS
<1>. HIDE DEF first, step
<1>6. ASSUME NEW g, Growing(g, S, 1, N, first, step)
      PROVE  Recorded(g, S, N, start, round) /\ \A n \in 1..N : g[n-1][n] \in S
  <2>1. Grown(g, S, 1, N, first, step)
    BY <1>1, <1>3, <1>5, <1>6, Growth, Zenon
  <2>2. ASSUME NEW n \in 1..N
        PROVE  g[n-1][n] \in S /\ g[n] = Append(g[n-1], round[n][g[n-1][n]])
    <3>1. n - 1 \in 0..N /\ 1 + (n - 1) = 1 + n - 1
      OBVIOUS
    <3>2. g[n-1] \in Seq(S) /\ Len(g[n-1]) = 1 + (n - 1)
      BY <2>1, <3>1, Zenon DEF Grown
    <3>3. g[n-1] \in Seq(S) /\ Len(g[n-1]) = 1 + n - 1
      BY <3>1, <3>2, Zenon
    <3>4. g[n] = Append(g[n-1], step[n][g[n-1]])
      BY <1>6, <3>3, Zenon DEF Growing
    <3>. QED BY <1>4, <3>3, <3>4, Zenon
  <2>3. g[0] = <<start>>
    BY <1>6, Zenon DEF Growing, first
  <2>. QED BY <2>2, <2>3, Zenon DEF Recorded
<1>7. ASSUME NEW g, Recorded(g, S, N, start, round) PROVE Growing(g, S, 1, N, first, step)
  <2>1. ASSUME NEW n \in 1..N, g[n-1] \in Seq(S), Len(g[n-1]) = 1 + n - 1
        PROVE  g[n] = Append(g[n-1], step[n][g[n-1]])
    <3>1. g[n-1][n] \in S /\ step[n][g[n-1]] = round[n][g[n-1][n]]
      BY <1>4, <2>1, Zenon
    <3>. QED BY <1>7, <3>1, Zenon DEF Recorded
  <2>2. g[0] = first
    BY <1>7, Zenon DEF Recorded, first
  <2>. QED BY <2>1, <2>2, Zenon DEF Growing
<1>8. AppendsRounds(step, S, N, round)
  BY <1>4, Zenon DEF AppendsRounds
<1>. QED BY <1>1, <1>3, <1>6, <1>7, <1>8, Zenon DEF first, step

LEMMA RecordExists ==
  ASSUME NEW S, NEW N \in Nat, NEW start \in S, NEW round \in [1..N -> [S -> S]]
  PROVE  \E g : Recorded(g, S, N, start, round) /\ \A n \in 1..N : g[n-1][n] \in S
<1>. DEFINE first == <<start>>
            step  == Appending(S, N, start, round)
<1>1. /\ first \in [1..1 -> S] /\ step \in [1..N -> [Seq(S) -> S]]
      /\ \A g : Growing(g, S, 1, N, first, step) =>
                  Recorded(g, S, N, start, round) /\ \A n \in 1..N : g[n-1][n] \in S
  BY RecordedIsGrowing, Zenon
<1>. HIDE DEF first, step
<1>2. 1 \in Nat
  OBVIOUS
<1>3. PICK g : Growing(g, S, 1, N, first, step)
  BY <1>1, <1>2, GrowthExists, Zenon
<1>. QED BY <1>1, <1>3, Zenon

\* A history of rounds starts where it should and has a round between any two entries.
LEMMA RecordFacts ==
  ASSUME NEW S, NEW N \in Nat, NEW start \in S, NEW round \in [1..N -> [S -> S]],
         NEW g, Recorded(g, S, N, start, round)
  PROVE  RoundsFollow(g[N], S, N, start, round)
<1>. DEFINE first == <<start>>
            step  == Appending(S, N, start, round)
<1>1. /\ first \in [1..1 -> S] /\ step \in [1..N -> [Seq(S) -> S]]
      /\ \A i \in 1..N, h \in Seq(S) : Len(h) = 1 + i - 1 => h[i] \in S /\ step[i][h] = round[i][h[i]]
      /\ Growing(g, S, 1, N, first, step)
  <2>1. AppendsRounds(step, S, N, round)
    BY RecordedIsGrowing, Zenon
  <2>2. Growing(g, S, 1, N, first, step)
    BY RecordedIsGrowing, Zenon
  <2>3. first \in [1..1 -> S] /\ step \in [1..N -> [Seq(S) -> S]]
    BY RecordedIsGrowing, Zenon
  <2>. HIDE DEF first, step
  <2>. QED BY <2>1, <2>2, <2>3, Zenon DEF AppendsRounds
<1>2. first[1] = start /\ 1 \in 1..1 /\ 1 \in Nat
  OBVIOUS
<1>. HIDE DEF first, step
<1>3. Grown(g, S, 1, N, first, step)
  BY <1>1, <1>2, Growth, Zenon
<1>. DEFINE last == g[N]
<1>4. last \in [1..1+N -> S] /\ last[1] = start
  BY <1>2, <1>3, Zenon DEF Grown
<1>5. ASSUME NEW n \in 1..N PROVE last[n+1] = round[n][last[n]]
  <2>1. PICK h \in Seq(S) : /\ Len(h) = 1 + n - 1
                            /\ \A j \in 1..1+n-1 : h[j] = last[j]
                            /\ last[1+n] = step[n][h]
    BY <1>3, Zenon DEF Grown
  <2>2. step[n][h] = round[n][h[n]]
    BY <1>1, <2>1, Zenon
  <2>3. n \in 1..1+n-1 /\ 1 + n = n + 1
    OBVIOUS
  <2>4. h[n] = last[n]
    BY <2>1, <2>3, Zenon
  <2>. QED BY <2>1, <2>2, <2>3, <2>4, Zenon
<1>. HIDE DEF last
<1>6. last \in [1..N+1 -> S]
  BY <1>4
<1>. QED BY <1>4, <1>5, <1>6, Zenon DEF last, RoundsFollow

-------------------------------------------------------------------------------
(* The host's rounds                                                       *)

Registers == [1..8 -> Word]

LEMMA TotalOfFive ==
  ASSUME NEW x1 \in Word, NEW x2 \in Word, NEW x3 \in Word, NEW x4 \in Word, NEW x5 \in Word
  PROVE  Total(<<x1, x2, x3, x4, x5>>) \in Word
<1>. DEFINE words == <<x1, x2, x3, x4, x5>>
<1>1. words \in Seq(Word) /\ Len(words) # 0
  OBVIOUS
<1>. HIDE DEF words
<1>2. Total(words) \in Word
  BY <1>1, TotalWord
<1>. QED BY <1>2 DEF words

FirstSum(s, k, x) == Total(<<s[8], BSIG1(s[5]), Ch(s[5], s[6], s[7]), k, x>>)
SecondSum(s) == Plus(BSIG0(s[1]), Maj(s[1], s[2], s[3]))

\* One of the host's rounds, register by register.
LEMMA HostRoundFacts ==
  ASSUME NEW s \in Registers, NEW k \in Word, NEW x \in Word
  PROVE  /\ HostRound(s, k, x) \in Registers
         /\ FirstSum(s, k, x) \in Word /\ SecondSum(s) \in Word
         /\ HostRound(s, k, x)[1] = Plus(FirstSum(s, k, x), SecondSum(s))
         /\ HostRound(s, k, x)[5] = Plus(s[4], FirstSum(s, k, x))
         /\ \A i \in {2, 3, 4, 6, 7, 8} : HostRound(s, k, x)[i] = s[i-1]
<1>1. s[1] \in Word /\ s[2] \in Word /\ s[3] \in Word /\ s[4] \in Word /\ s[5] \in Word /\ s[6] \in Word
      /\ s[7] \in Word /\ s[8] \in Word
  BY DEF Registers
<1>. DEFINE T1 == FirstSum(s, k, x)
            T2 == SecondSum(s)
<1>2. T1 \in Word
  <2>1. BSIG1(s[5]) \in Word
    BY <1>1, SigmasAgree, Zenon
  <2>2. Ch(s[5], s[6], s[7]) \in Word
    BY <1>1, WordsClosed, Zenon
  <2>. QED BY <1>1, <2>1, <2>2, TotalOfFive, Zenon DEF FirstSum
<1>3. T2 \in Word
  <2>1. BSIG0(s[1]) \in Word
    BY <1>1, SigmasAgree, Zenon
  <2>2. Maj(s[1], s[2], s[3]) \in Word
    BY <1>1, WordsClosed, Zenon
  <2>. QED BY <2>1, <2>2, PlusWord, Zenon DEF SecondSum
<1>4. Plus(T1, T2) \in Word /\ Plus(s[4], T1) \in Word
  BY <1>1, <1>2, <1>3, PlusWord, Zenon
<1>5. HostRound(s, k, x) = <<Plus(T1, T2), s[1], s[2], s[3], Plus(s[4], T1), s[5], s[6], s[7]>>
  BY Zenon DEF HostRound, FirstSum, SecondSum
<1>. HIDE DEF T1, T2
<1>. DEFINE p == Plus(T1, T2)
            q == Plus(s[4], T1)
            r == <<p, s[1], s[2], s[3], q, s[5], s[6], s[7]>>
<1>. HIDE DEF p, q
<1>6. p \in Word /\ q \in Word
  BY <1>4 DEF p, q
<1>7. r \in [1..8 -> Word]
  <2>1. r \in Seq(Word) /\ Len(r) = 8
    BY <1>1, <1>6
  <2>. HIDE DEF r
  <2>. QED BY <2>1, LenProperties
<1>8. r[1] = p /\ r[5] = q /\ \A i \in {2, 3, 4, 6, 7, 8} : r[i] = s[i-1]
  OBVIOUS
<1>9. HostRound(s, k, x) = r
  BY <1>5, Zenon DEF p, q
<1>. HIDE DEF r
<1>. QED BY <1>2, <1>3, <1>7, <1>8, <1>9 DEF Registers, p, q, T1, T2

LEMMA RoundsFacts ==
  ASSUME NEW W \in [1..64 -> Word]
  PROVE  /\ Rounds(W) \in [1..65 -> Registers]
         /\ \A i \in 1..8 : Rounds(W)[1][i] = ShaIV[i-1]
         /\ \A n \in 1..64 : Rounds(W)[n+1] = HostRound(Rounds(W)[n], K[n-1], W[n])
<1>. DEFINE start == [i \in 1..8 |-> ShaIV[i-1]]
            Body(f) == [n \in 0..64 |-> IF n = 0 THEN <<start>>
                                        ELSE Append(f[n-1], HostRound(f[n-1][n], K[n-1], W[n]))]
            history == CHOOSE f : f = Body(f)
            round == [n \in 1..64 |-> [s \in Registers |-> HostRound(s, K[n-1], W[n])]]
<1>1. Len(W) = 64
  <2>1. 64 \in Nat
    OBVIOUS
  <2>. QED BY <2>1, FunctionIsSequence, ZenonT(60)
<1>2. Rounds(W) = history[64]
  BY <1>1 DEF Rounds
<1>3. start \in Registers
  <2>1. \A i \in 1..8 : i - 1 \in 0..7
    OBVIOUS
  <2>2. \A i \in 1..8 : ShaIV[i-1] \in Word
    BY <2>1, ConstantsAreWords
  <2>. QED BY <2>2 DEF Registers
<1>4. round \in [1..64 -> [Registers -> Registers]]
  <2>1. ASSUME NEW n \in 1..64, NEW s \in Registers PROVE HostRound(s, K[n-1], W[n]) \in Registers
    <3>1. n - 1 \in 0..63
      OBVIOUS
    <3>2. K[n-1] \in Word /\ W[n] \in Word
      BY <3>1, ConstantsAreWords
    <3>. QED BY <3>2, HostRoundFacts, Zenon
  <2>. QED BY <2>1
<1>5. \A n \in 1..64, s \in Registers : round[n][s] = HostRound(s, K[n-1], W[n])
  OBVIOUS
<1>6. 64 \in Nat /\ 0 \in 0..64 /\ 64 + 1 = 65
  OBVIOUS
<1>7. \A n \in 1..64 : n \in 0..64 /\ n - 1 \in 0..64 /\ n # 0
  OBVIOUS
<1>. HIDE DEF start, round
<1>8. PICK g : Recorded(g, Registers, 64, start, round) /\ \A n \in 1..64 : g[n-1][n] \in Registers
  <2>1. 64 \in Nat
    OBVIOUS
  <2>. QED BY <1>3, <1>4, <2>1, RecordExists, Zenon
<1>9. history = Body(history)
  <2>. DEFINE f == [n \in 0..64 |-> g[n]]
  <2>1. ASSUME NEW n \in 1..64 PROVE f[n] = Append(f[n-1], HostRound(f[n-1][n], K[n-1], W[n]))
    <3>1. g[n-1][n] \in Registers
      BY <1>8, Zenon
    <3>2. g[n] = Append(g[n-1], round[n][g[n-1][n]])
      BY <1>8, <3>1, Zenon DEF Recorded
    <3>3. round[n][g[n-1][n]] = HostRound(g[n-1][n], K[n-1], W[n])
      BY <1>5, <3>1, Zenon
    <3>4. f[n] = g[n] /\ f[n-1] = g[n-1]
      BY <1>7, SMTT(30)
    <3>. HIDE DEF f
    <3>. QED BY <3>2, <3>3, <3>4, Zenon
  <2>2. f[0] = <<start>>
    BY <1>6, <1>8 DEF Recorded
  <2>3. f = [n \in 0..64 |-> f[n]]
    OBVIOUS
  <2>. HIDE DEF f
  <2>4. f = Body(f)
    <3>1. ASSUME NEW n \in 0..64
          PROVE  f[n] = IF n = 0 THEN <<start>> ELSE Append(f[n-1], HostRound(f[n-1][n], K[n-1], W[n]))
      <4>1. CASE n = 0
        BY <2>2, <4>1, Zenon
      <4>2. CASE n # 0
        <5>1. n \in 1..64
          BY <4>2
        <5>. QED BY <2>1, <4>2, <5>1, Zenon
      <4>. QED BY <4>1, <4>2
    <3>. QED BY <2>3, <3>1, Zenon
  <2>. QED BY <2>4, Zenon
<1>. HIDE DEF history
<1>10. Recorded(history, Registers, 64, start, round)
  <2>1. history[0] = <<start>>
    <3>1. Body(history)[0] = <<start>>
      BY <1>6, Zenon
    <3>. HIDE DEF Body
    <3>. QED BY <1>9, <3>1, Zenon
  <2>2. ASSUME NEW n \in 1..64, history[n-1][n] \in Registers
        PROVE  history[n] = Append(history[n-1], round[n][history[n-1][n]])
    <3>1. Body(history)[n] = Append(history[n-1], HostRound(history[n-1][n], K[n-1], W[n]))
      BY <1>7, Zenon
    <3>. HIDE DEF Body
    <3>. QED BY <1>5, <1>9, <2>2, <3>1, Zenon
  <2>. HIDE DEF Body
  <2>. QED BY <2>1, <2>2, Zenon DEF Recorded
<1>11. RoundsFollow(history[64], Registers, 64, start, round)
  <2>1. 64 \in Nat
    OBVIOUS
  <2>. QED BY <1>3, <1>4, <1>10, <2>1, RecordFacts, ZenonT(60)
<1>. DEFINE R == history[64]
<1>. HIDE DEF R
<1>12. R \in [1..65 -> Registers] /\ R[1] = start /\ \A n \in 1..64 : R[n+1] = round[n][R[n]]
  BY <1>6, <1>11, Zenon DEF RoundsFollow, R
<1>13. ASSUME NEW n \in 1..64 PROVE R[n+1] = HostRound(R[n], K[n-1], W[n])
  <2>1. n \in 1..65
    OBVIOUS
  <2>2. R[n] \in Registers
    BY <1>12, <2>1, SMTT(30)
  <2>. QED BY <1>5, <1>12, <2>2, Zenon
<1>14. \A i \in 1..8 : start[i] = ShaIV[i-1]
  BY DEF start
<1>. QED BY <1>2, <1>12, <1>13, <1>14, Zenon DEF R

-------------------------------------------------------------------------------
(* The device's SHA-256 follows the host's                                 *)

KeyOf(p) == [prefix |-> PrefixOf(p), e |-> p.x]

Schedule(p) == Scheduled(Loaded(Block(PrintedKey(p))))
States(p)   == Rounds(Schedule(p))

\* The places of the schedule that lie in w before round n.
InWindow(k, n) == IF n <= 16 THEN k < 16 ELSE n - 16 <= k /\ k < n

\* After t rounds the device's registers, under the names they have in round t, are the host's after t
\* rounds, and its window holds the last sixteen words of the schedule.
ShaInv(p) ==
  /\ t \in 0..64 /\ w \in [0..15 -> Word] /\ reg \in [0..7 -> Word]
  /\ \A k \in 0..63 : InWindow(k, t) => w[k % 16] = Schedule(p)[k+1]
  /\ \A i \in 0..7 : reg[Named(i)] = States(p)[t+1][i+1]

LEMMA HostFacts ==
  ASSUME NEW p, IsPoint(p)
  PROVE  /\ Schedule(p) \in [1..64 -> Word]
         /\ \A j \in 0..8 : Schedule(p)[j+1] = Message(KeyOf(p), j)
         /\ \A j \in 9..14 : Schedule(p)[j+1] = {}
         /\ Schedule(p)[16] = Small(33 * 8)
         /\ \A n \in 17..64 : Schedule(p)[n] = NextWord(Schedule(p), n)
         /\ States(p) \in [1..65 -> Registers]
         /\ \A i \in 1..8 : States(p)[1][i] = ShaIV[i-1]
         /\ \A n \in 1..64 : States(p)[n+1] = HostRound(States(p)[n], K[n-1], Schedule(p)[n])
<1>. DEFINE words == Loaded(Block(PrintedKey(p)))
<1>1. /\ words \in [1..16 -> Word]
      /\ \A j \in 0..8 : words[j+1] = Message(KeyOf(p), j)
      /\ \A j \in 9..14 : words[j+1] = {}
      /\ words[16] = Small(33 * 8)
  BY LoadedIsMessage, Zenon DEF KeyOf
<1>. HIDE DEF words
<1>2. /\ Scheduled(words) \in [1..64 -> Word]
      /\ \A n \in 1..16 : Scheduled(words)[n] = words[n]
      /\ \A n \in 17..64 : Scheduled(words)[n] = NextWord(Scheduled(words), n)
  BY <1>1, ScheduleFacts, Zenon
<1>3. Schedule(p) = Scheduled(words)
  BY DEF Schedule, words
<1>. DEFINE W == Schedule(p)
<1>. HIDE DEF W
<1>4. /\ W \in [1..64 -> Word]
      /\ \A n \in 1..16 : W[n] = words[n]
      /\ \A n \in 17..64 : W[n] = NextWord(W, n)
  BY <1>2, <1>3, Zenon DEF W
<1>5. /\ \A j \in 0..8 : j + 1 \in 1..16
      /\ \A j \in 9..14 : j + 1 \in 1..16
      /\ 16 \in 1..16
  OBVIOUS
<1>6. /\ \A j \in 0..8 : W[j+1] = Message(KeyOf(p), j)
      /\ \A j \in 9..14 : W[j+1] = {}
      /\ W[16] = Small(33 * 8)
  BY <1>1, <1>4, <1>5, Zenon
<1>7. /\ Rounds(W) \in [1..65 -> Registers]
      /\ \A i \in 1..8 : Rounds(W)[1][i] = ShaIV[i-1]
      /\ \A n \in 1..64 : Rounds(W)[n+1] = HostRound(Rounds(W)[n], K[n-1], W[n])
  BY <1>4, RoundsFacts, Zenon
<1>. QED BY <1>4, <1>6, <1>7, Zenon DEF W, States

LEMMA ShaStarts ==
  ASSUME NEW p, IsPoint(p), NEW f, Call(KeyOf(p), f)
  PROVE  ShaInv(p)'
<1>. DEFINE W == Schedule(p)
<1>1. /\ W \in [1..64 -> Word]
      /\ \A j \in 0..8 : W[j+1] = Message(KeyOf(p), j)
      /\ \A j \in 9..14 : W[j+1] = {}
      /\ W[16] = Small(33 * 8)
  BY HostFacts, Zenon
<1>2. \A i \in 1..8 : States(p)[1][i] = ShaIV[i-1]
  BY HostFacts, Zenon
<1>. HIDE DEF W
<1>3. t' = 0 /\ reg' = ShaIV
  BY DEF Call
<1>4. w' = [j \in 0..15 |-> CASE j <= 8 -> Message(KeyOf(p), j) [] j = 15 -> Small(33 * 8) [] OTHER -> {}]
  BY DEF Call
<1>5. \A j \in 0..15 : w'[j] = W[j+1]
  <2>. TAKE j \in 0..15
  <2>1. CASE j \in 0..8
    <3>1. w'[j] = Message(KeyOf(p), j)
      BY <1>4, <2>1
    <3>. QED BY <1>1, <2>1, <3>1, Zenon
  <2>2. CASE j \in 9..14
    <3>1. w'[j] = {}
      BY <1>4, <2>2
    <3>. QED BY <1>1, <2>2, <3>1, Zenon
  <2>3. CASE j = 15
    <3>1. w'[j] = Small(33 * 8) /\ j + 1 = 16
      BY <1>4, <2>3
    <3>. QED BY <1>1, <3>1, Zenon
  <2>4. j \in 0..8 \/ j \in 9..14 \/ j = 15
    OBVIOUS
  <2>. QED BY <2>1, <2>2, <2>3, <2>4
<1>6. w' \in [0..15 -> Word]
  <2>1. \A j \in 0..15 : j + 1 \in 1..64
    OBVIOUS
  <2>2. \A j \in 0..15 : w'[j] \in Word
    BY <1>1, <1>5, <2>1
  <2>3. w' = [j \in 0..15 |-> w'[j]]
    BY <1>4
  <2>. QED BY <2>2, <2>3
<1>7. \A k \in 0..63 : InWindow(k, t') => w'[k % 16] = W[k+1]
  BY <1>3, <1>5 DEF InWindow
<1>8. \A i \in 0..7 : reg'[(i + 64 - t') % 8] = States(p)[t'+1][i+1]
  <2>1. \A i \in 0..7 : (i + 64 - 0) % 8 = i /\ i + 1 \in 1..8 /\ (i + 1) - 1 = i
    OBVIOUS
  <2>2. 0 + 1 = 1
    OBVIOUS
  <2>. QED BY <1>2, <1>3, <2>1, <2>2, ZenonT(60)
<1>9. reg' \in [0..7 -> Word] /\ t' \in 0..64
  BY <1>3, ConstantsAreWords
<1>. QED BY <1>6, <1>7, <1>8, <1>9 DEF ShaInv, Named, W

\* What a round puts into w is the next word of the schedule.
LEMMA RoundWordIsScheduled ==
  ASSUME NEW p, IsPoint(p), ShaInv(p), t < 64
  PROVE  RoundWord = Schedule(p)[t+1]
<1>. DEFINE W == Schedule(p)
<1>1. W \in [1..64 -> Word] /\ \A n \in 17..64 : W[n] = NextWord(W, n)
  BY HostFacts, Zenon
<1>2. t \in 0..63 /\ \A k \in 0..63 : InWindow(k, t) => w[k % 16] = W[k+1]
  BY DEF ShaInv
<1>. HIDE DEF W
<1>3. CASE t < 16
  <2>1. t % 16 = t /\ t \in 0..63 /\ InWindow(t, t)
    BY <1>2, <1>3 DEF InWindow
  <2>2. RoundWord = w[t]
    BY <1>3 DEF RoundWord
  <2>. QED BY <1>2, <2>1, <2>2 DEF W
<1>4. CASE t >= 16
  <2>. DEFINE n == t + 1
  <2>1. /\ n \in 17..64
        /\ n - 16 \in 1..64 /\ n - 2 \in 1..64 /\ n - 7 \in 1..64 /\ n - 15 \in 1..64
    BY <1>2, <1>4
  <2>2. w[t % 16] = W[n - 16]
    <3>1. t - 16 \in 0..63 /\ InWindow(t - 16, t) /\ (t - 16) % 16 = t % 16 /\ (t - 16) + 1 = n - 16
      BY <1>2, <1>4 DEF InWindow
    <3>. QED BY <1>2, <3>1
  <2>3. w[(t + 14) % 16] = W[n - 2]
    <3>1. t - 2 \in 0..63 /\ InWindow(t - 2, t) /\ (t - 2) % 16 = (t + 14) % 16 /\ (t - 2) + 1 = n - 2
      BY <1>2, <1>4 DEF InWindow
    <3>. QED BY <1>2, <3>1
  <2>4. w[(t + 9) % 16] = W[n - 7]
    <3>1. t - 7 \in 0..63 /\ InWindow(t - 7, t) /\ (t - 7) % 16 = (t + 9) % 16 /\ (t - 7) + 1 = n - 7
      BY <1>2, <1>4 DEF InWindow
    <3>. QED BY <1>2, <3>1
  <2>5. w[(t + 1) % 16] = W[n - 15]
    <3>1. t - 15 \in 0..63 /\ InWindow(t - 15, t) /\ (t - 15) % 16 = (t + 1) % 16 /\ (t - 15) + 1 = n - 15
      BY <1>2, <1>4 DEF InWindow
    <3>. QED BY <1>2, <3>1
  <2>6. RoundWord = Total(<<w[t % 16], smallS1(w[(t+14) % 16]), w[(t+9) % 16], smallS0(w[(t+1) % 16])>>)
    <3>1. ~(t < 16)
      BY <1>2, <1>4
    <3>. QED BY <3>1 DEF RoundWord
  <2>. HIDE DEF n
  <2>7. W[n-16] \in Word /\ W[n-2] \in Word /\ W[n-7] \in Word /\ W[n-15] \in Word
    BY <1>1, <2>1
  <2>. DEFINE x1 == SSIG1(W[n-2])
              x2 == W[n-7]
              x3 == SSIG0(W[n-15])
              x4 == W[n-16]
  <2>8. x1 = smallS1(W[n-2]) /\ x3 = smallS0(W[n-15]) /\ x1 \in Word /\ x3 \in Word
    BY <2>7, SigmasAgree, Zenon
  <2>9. RoundWord = Total(<<x4, x1, x2, x3>>)
    BY <2>2, <2>3, <2>4, <2>5, <2>6, <2>8, Zenon
  <2>10. W[n] = Total(<<x1, x2, x3, x4>>)
    BY <1>1, <2>1, Zenon DEF NextWord
  <2>11. x2 \in Word /\ x4 \in Word
    BY <2>7, Zenon
  <2>. HIDE DEF x1, x2, x3, x4
  <2>12. x1 \in Word /\ x3 \in Word
    BY <2>8
  <2>13. Total(<<x4, x1, x2, x3>>) = Total(<<x1, x2, x3, x4>>)
    BY <2>11, <2>12, TotalRotated
  <2>. QED BY <2>9, <2>10, <2>13, Zenon DEF n, W
<1>. QED BY <1>2, <1>3, <1>4

\* Registers named anew instead of moved.
LEMMA NamedFacts ==
  ASSUME NEW n \in 0..63
  PROVE  /\ \A i \in 0..7 : (i + 64 - n) % 8 \in 0..7
         /\ \A i, j \in 0..7 : (i + 64 - n) % 8 = (j + 64 - n) % 8 => i = j
         /\ \A i \in 1..7 : (i + 64 - (n + 1)) % 8 = ((i - 1) + 64 - n) % 8 /\ i - 1 \in 0..7
         /\ (0 + 64 - (n + 1)) % 8 = (7 + 64 - n) % 8
BY SMTT(30)

\* A round of the device is a round of the host.
LEMMA ShaContinues ==
  ASSUME NEW p, IsPoint(p), ShaInv(p), ShaRound
  PROVE  ShaInv(p)'
<1>. DEFINE W == Schedule(p)
            R(i) == reg[Named(i)]
            s == States(p)[t+1]
            T1 == Total(<<R(7), bigS1(R(4)), Ch(R(4), R(5), R(6)), K[t], RoundWord>>)
            T2 == Plus(bigS0(R(0)), Majority(R(0), R(1), R(2)))
<1>1. t \in 0..63 /\ t' = t + 1
  BY DEF ShaRound, ShaInv
<1>2. w' = [w EXCEPT ![t % 16] = W[t+1]]
  <2>1. RoundWord = W[t+1]
    BY <1>1, RoundWordIsScheduled
  <2>. QED BY <2>1, Zenon DEF ShaRound
<1>3. reg' = [reg EXCEPT ![Named(3)] = Plus(reg[Named(3)], T1), ![Named(7)] = Plus(T1, T2)]
  BY Zenon DEF ShaRound
<1>4. /\ W \in [1..64 -> Word]
      /\ s \in Registers
      /\ States(p)[(t+1)+1] = HostRound(s, K[t], W[t+1])
  <2>1. t + 1 \in 1..64 /\ t + 1 \in 1..65 /\ (t + 1) - 1 = t
    BY <1>1
  <2>2. W \in [1..64 -> Word] /\ States(p) \in [1..65 -> Registers]
    BY HostFacts, Zenon
  <2>3. \A n \in 1..64 : States(p)[n+1] = HostRound(States(p)[n], K[n-1], W[n])
    BY HostFacts, Zenon
  <2>4. States(p)[(t+1)+1] = HostRound(s, K[(t+1)-1], W[t+1])
    BY <2>1, <2>3, Zenon
  <2>. HIDE DEF W
  <2>. QED BY <2>1, <2>2, <2>4
<1>5. W[t+1] \in Word /\ K[t] \in Word
  BY <1>1, <1>4, ConstantsAreWords
<1>6. \A i \in 0..7 : R(i) = s[i+1]
  BY DEF ShaInv
<1>7. R(0) = s[1] /\ R(1) = s[2] /\ R(2) = s[3] /\ R(3) = s[4] /\ R(4) = s[5] /\ R(5) = s[6] /\ R(6) = s[7] /\ R(7) = s[8]
  <2>1. /\ 0 \in 0..7 /\ 1 \in 0..7 /\ 2 \in 0..7 /\ 3 \in 0..7 /\ 4 \in 0..7 /\ 5 \in 0..7 /\ 6 \in 0..7 /\ 7 \in 0..7
        /\ 0 + 1 = 1 /\ 1 + 1 = 2 /\ 2 + 1 = 3 /\ 3 + 1 = 4 /\ 4 + 1 = 5 /\ 5 + 1 = 6 /\ 6 + 1 = 7 /\ 7 + 1 = 8
    OBVIOUS
  <2>. HIDE DEF R, s
  <2>. QED BY <1>6, <2>1, Zenon
<1>8. s[1] \in Word /\ s[5] \in Word
  <2>. HIDE DEF s
  <2>. QED BY <1>4 DEF Registers
<1>9. T1 = FirstSum(s, K[t], W[t+1])
  <2>1. RoundWord = W[t+1]
    BY <1>1, RoundWordIsScheduled
  <2>2. bigS1(s[5]) = BSIG1(s[5])
    BY <1>8, SigmasAgree, Zenon
  <2>. HIDE DEF R, s, W
  <2>. QED BY <1>7, <2>1, <2>2, Zenon DEF FirstSum
<1>10. T2 = SecondSum(s)
  <2>1. bigS0(s[1]) = BSIG0(s[1])
    BY <1>8, SigmasAgree, Zenon
  <2>2. Majority(s[1], s[2], s[3]) = Maj(s[1], s[2], s[3])
    BY MajoritiesAgree, Zenon
  <2>. HIDE DEF R, s
  <2>. QED BY <1>7, <2>1, <2>2, Zenon DEF SecondSum
<1>. DEFINE after == HostRound(s, K[t], W[t+1])
<1>. HIDE DEF W, s, T1, T2
<1>11. /\ after \in Registers /\ T1 \in Word /\ T2 \in Word
       /\ after[1] = Plus(T1, T2)
       /\ after[5] = Plus(s[4], T1)
       /\ \A i \in {2, 3, 4, 6, 7, 8} : after[i] = s[i-1]
  BY <1>4, <1>5, <1>9, <1>10, HostRoundFacts, Zenon
<1>. HIDE DEF after
<1>12. w' \in [0..15 -> Word]
  <2>1. w \in [0..15 -> Word]
    BY DEF ShaInv
  <2>. QED BY <1>2, <1>5, <2>1
<1>13. ASSUME NEW k \in 0..63, InWindow(k, t') PROVE w'[k % 16] = W[k+1]
  <2>1. k % 16 \in 0..15 /\ t % 16 \in 0..15 /\ w \in [0..15 -> Word]
    BY <1>1 DEF ShaInv
  <2>2. CASE k % 16 = t % 16
    <3>1. CASE k = t
      BY <1>2, <2>1, <2>2, <3>1
    <3>2. CASE k # t
      BY <1>1, <1>13, <2>2, <3>2 DEF InWindow
    <3>. QED BY <3>1, <3>2
  <2>3. CASE k % 16 # t % 16
    <3>1. InWindow(k, t)
      BY <1>1, <1>13, <2>3 DEF InWindow
    <3>2. w[k % 16] = W[k+1]
      BY <3>1 DEF ShaInv, W
    <3>3. w'[k % 16] = w[k % 16]
      BY <1>2, <2>1, <2>3
    <3>. QED BY <3>2, <3>3
  <2>. QED BY <2>2, <2>3
<1>. DEFINE a == Named(3)
            b == Named(7)
            x == Plus(reg[a], T1)
            y == Plus(T1, T2)
<1>14. \A i \in 0..7 : Named(i) \in 0..7 /\ Named(i)' = (i + 64 - (t + 1)) % 8
  BY <1>1, NamedFacts DEF Named
<1>15. \A i, j \in 0..7 : Named(i) = Named(j) => i = j
  BY <1>1, NamedFacts, Zenon DEF Named
<1>16. /\ \A i \in 1..7 : Named(i)' = Named(i - 1) /\ i - 1 \in 0..7
       /\ Named(0)' = Named(7)
  <2>1. 0 \in 0..7 /\ \A i \in 1..7 : i \in 0..7
    OBVIOUS
  <2>2. /\ \A i \in 1..7 : (i + 64 - (t + 1)) % 8 = ((i - 1) + 64 - t) % 8 /\ i - 1 \in 0..7
        /\ (0 + 64 - (t + 1)) % 8 = (7 + 64 - t) % 8
    BY <1>1, NamedFacts, Zenon
  <2>. QED BY <1>14, <2>1, <2>2, Zenon DEF Named
<1>17. 3 \in 0..7 /\ 7 \in 0..7 /\ 3 # 7
  OBVIOUS
<1>18. a \in 0..7 /\ b \in 0..7 /\ a # b
  BY <1>14, <1>15, <1>17, Zenon
<1>19. x = after[5] /\ y = after[1] /\ x \in Word /\ y \in Word
  <2>1. reg[a] = s[4]
    BY <1>7, Zenon
  <2>2. after[5] \in Word /\ after[1] \in Word
    BY <1>11 DEF Registers
  <2>. QED BY <1>11, <2>1, <2>2, Zenon
<1>. HIDE DEF x, y
<1>20. reg \in [0..7 -> Word]
  BY DEF ShaInv
<1>21. reg' = [reg EXCEPT ![a] = x, ![b] = y]
  BY <1>3, Zenon DEF x, y
<1>22. /\ reg' \in [0..7 -> Word] /\ reg'[a] = x /\ reg'[b] = y
       /\ \A n \in 0..7 : n # a /\ n # b => reg'[n] = reg[n]
  <2>. HIDE DEF a, b
  <2>. QED BY <1>18, <1>19, <1>20, <1>21
<1>23. ASSUME NEW i \in 0..7 PROVE reg'[Named(i)'] = after[i+1]
  <2>1. CASE i = 0
    <3>1. 0 + 1 = 1
      OBVIOUS
    <3>. QED BY <1>16, <1>19, <1>22, <2>1, <3>1, Zenon
  <2>2. CASE i = 4
    <3>1. 4 \in 1..7 /\ 4 - 1 = 3 /\ 4 + 1 = 5
      OBVIOUS
    <3>2. Named(4)' = Named(3)
      BY <1>16, <3>1, Zenon
    <3>. QED BY <1>19, <1>22, <2>2, <3>1, <3>2, Zenon
  <2>3. CASE i # 0 /\ i # 4
    <3>1. i \in 1..7 /\ i - 1 # 3 /\ i - 1 # 7 /\ i - 1 \in 0..7 /\ (i - 1) + 1 = i /\ (i + 1) - 1 = i
      BY <2>3
    <3>2. i + 1 \in {2, 3, 4, 6, 7, 8}
      BY <2>3
    <3>3. Named(i)' = Named(i - 1)
      BY <1>16, <3>1, Zenon
    <3>4. Named(i - 1) # a /\ Named(i - 1) # b /\ Named(i - 1) \in 0..7
      BY <1>14, <1>15, <1>17, <3>1, Zenon
    <3>5. reg'[Named(i - 1)] = reg[Named(i - 1)]
      BY <1>22, <3>4, Zenon
    <3>6. R(i - 1) = s[(i - 1) + 1]
      BY <1>6, <3>1, Zenon
    <3>7. after[i+1] = s[(i + 1) - 1]
      BY <1>11, <3>2, Zenon
    <3>. QED BY <3>1, <3>3, <3>5, <3>6, <3>7, Zenon
  <2>. QED BY <2>1, <2>2, <2>3
<1>24. States(p)[t'+1] = after
  BY <1>1, <1>4 DEF after
<1>25. t' \in 0..64
  BY <1>1
<1>26. \A i \in 0..7 : reg'[Named(i)'] = States(p)[t'+1][i+1]
  BY <1>23, <1>24, Zenon
<1>. QED BY <1>12, <1>13, <1>22, <1>25, <1>26, Zenon DEF ShaInv, W

-------------------------------------------------------------------------------
(* RIPEMD-160 by the book                                                  *)

\* The message words of line 1 in each of its five rounds of sixteen.
Orders ==
  << <<0, 1, 2, 3, 4, 5, 6, 7, 8, 9, 10, 11, 12, 13, 14, 15>>,
     <<7, 4, 13, 1, 10, 6, 15, 3, 12, 0, 9, 5, 2, 14, 11, 8>>,
     <<3, 10, 14, 4, 9, 15, 8, 1, 2, 7, 0, 6, 13, 11, 5, 12>>,
     <<1, 9, 11, 10, 0, 8, 12, 4, 13, 3, 7, 15, 14, 5, 6, 2>>,
     <<4, 0, 5, 9, 7, 12, 2, 10, 14, 1, 3, 8, 11, 6, 15, 13>> >>

LEMMA Sixteen ==
  ASSUME NEW i \in 0..15
  PROVE  \/ i = 0 \/ i = 1 \/ i = 2 \/ i = 3 \/ i = 4 \/ i = 5 \/ i = 6 \/ i = 7
         \/ i = 8 \/ i = 9 \/ i = 10 \/ i = 11 \/ i = 12 \/ i = 13 \/ i = 14 \/ i = 15
OBVIOUS

\* Each group of sixteen rounds has the order of the one before, permuted by rho.
LEMMA OrdersPermute ==
  ASSUME NEW i \in 0..15
  PROVE  /\ Orders[1][i+1] = i
         /\ \A g \in 1..4 : Orders[g+1][i+1] = Rho[1 + Orders[g][i+1]]
<1>1. Orders[1][i+1] = i
  BY Sixteen DEF Orders
<1>2. Orders[2][i+1] = Rho[1 + Orders[1][i+1]]
  BY Sixteen DEF Orders, Rho
<1>3. Orders[3][i+1] = Rho[1 + Orders[2][i+1]]
  BY Sixteen DEF Orders, Rho
<1>4. Orders[4][i+1] = Rho[1 + Orders[3][i+1]]
  BY Sixteen DEF Orders, Rho
<1>5. Orders[5][i+1] = Rho[1 + Orders[4][i+1]]
  BY Sixteen DEF Orders, Rho
<1>. QED BY <1>1, <1>2, <1>3, <1>4, <1>5

LEMMA OrdersInRange ==
  ASSUME NEW g \in 0..4, NEW i \in 0..15
  PROVE  Orders[g+1][i+1] \in 0..15 /\ Turns[g+1][i+1] \in 5..15
<1>1. /\ Orders[1][i+1] \in 0..15 /\ Orders[2][i+1] \in 0..15 /\ Orders[3][i+1] \in 0..15
      /\ Orders[4][i+1] \in 0..15 /\ Orders[5][i+1] \in 0..15
  BY Sixteen DEF Orders
<1>2. /\ Turns[1][i+1] \in 5..15 /\ Turns[2][i+1] \in 5..15 /\ Turns[3][i+1] \in 5..15
      /\ Turns[4][i+1] \in 5..15 /\ Turns[5][i+1] \in 5..15
  BY Sixteen DEF Turns
<1>. QED BY <1>1, <1>2

LEMMA PermutedIsOrder ==
  ASSUME NEW g \in 0..4, NEW i \in 0..15
  PROVE  Permuted(g, i) = Orders[g+1][i+1]
<1>. DEFINE Body(f) == [n \in 0..4 |-> IF n = 0 THEN i ELSE Rho[1 + f[n-1]]]
            turn == CHOOSE f : f = Body(f)
            f0 == [n \in 0..4 |-> Orders[n+1][i+1]]
<1>1. f0 = Body(f0)
  <2>1. ASSUME NEW n \in 0..4 PROVE f0[n] = IF n = 0 THEN i ELSE Rho[1 + f0[n-1]]
    <3>1. CASE n = 0
      BY <3>1, OrdersPermute
    <3>2. CASE n # 0
      <4>1. n \in 1..4 /\ n - 1 \in 0..4 /\ (n - 1) + 1 = n
        BY <3>2
      <4>2. f0[n] = Orders[n+1][i+1] /\ f0[n-1] = Orders[n][i+1]
        BY <4>1
      <4>. QED BY <3>2, <4>1, <4>2, OrdersPermute, ZenonT(60)
    <3>. QED BY <3>1, <3>2
  <2>. QED BY <2>1
<1>. HIDE DEF f0
<1>2. turn = Body(turn)
  BY <1>1, Zenon
<1>. HIDE DEF turn
<1>3. /\ turn[0] = i /\ turn[1] = Rho[1 + turn[0]] /\ turn[2] = Rho[1 + turn[1]]
      /\ turn[3] = Rho[1 + turn[2]] /\ turn[4] = Rho[1 + turn[3]]
  BY <1>2
<1>4. /\ Orders[1][i+1] = i
      /\ Orders[2][i+1] = Rho[1 + Orders[1][i+1]] /\ Orders[3][i+1] = Rho[1 + Orders[2][i+1]]
      /\ Orders[4][i+1] = Rho[1 + Orders[3][i+1]] /\ Orders[5][i+1] = Rho[1 + Orders[4][i+1]]
  <2>1. \A h \in 1..4 : Orders[h+1][i+1] = Rho[1 + Orders[h][i+1]]
    BY OrdersPermute, Zenon
  <2>2. Orders[1][i+1] = i
    BY OrdersPermute, Zenon
  <2>3. Orders[1+1][i+1] = Rho[1 + Orders[1][i+1]] /\ Orders[2+1][i+1] = Rho[1 + Orders[2][i+1]]
        /\ Orders[3+1][i+1] = Rho[1 + Orders[3][i+1]] /\ Orders[4+1][i+1] = Rho[1 + Orders[4][i+1]]
    <3>1. 1 \in 1..4 /\ 2 \in 1..4 /\ 3 \in 1..4 /\ 4 \in 1..4
      OBVIOUS
    <3>. QED BY <2>1, <3>1, Zenon
  <2>4. 1 + 1 = 2 /\ 2 + 1 = 3 /\ 3 + 1 = 4 /\ 4 + 1 = 5
    OBVIOUS
  <2>5. Orders[2][i+1] = Rho[1 + Orders[1][i+1]] /\ Orders[3][i+1] = Rho[1 + Orders[2][i+1]]
    BY <2>3, <2>4, Zenon
  <2>6. Orders[4][i+1] = Rho[1 + Orders[3][i+1]] /\ Orders[5][i+1] = Rho[1 + Orders[4][i+1]]
    BY <2>3, <2>4, Zenon
  <2>. QED BY <2>2, <2>5, <2>6, Zenon
<1>5. /\ turn[0] = Orders[1][i+1] /\ turn[1] = Orders[2][i+1] /\ turn[2] = Orders[3][i+1]
      /\ turn[3] = Orders[4][i+1] /\ turn[4] = Orders[5][i+1]
  BY <1>3, <1>4, ZenonT(60)
<1>6. turn[g] = Orders[g+1][i+1]
  <2>1. \/ (g = 0 /\ g + 1 = 1) \/ (g = 1 /\ g + 1 = 2) \/ (g = 2 /\ g + 1 = 3)
        \/ (g = 3 /\ g + 1 = 4) \/ (g = 4 /\ g + 1 = 5)
    OBVIOUS
  <2>. QED BY <1>5, <2>1, Zenon
<1>. QED BY <1>6 DEF Permuted, turn

\* The message word a line takes in round n.
WordOf(line, n) == Orders[(n \div 16) + 1][(IF line = 1 THEN n % 16 ELSE Pi(n % 16)) + 1]
TurnOf(line, n) == Turns[(n \div 16) + 1][WordOf(line, n) + 1]

LEMMA WordOfFacts ==
  ASSUME NEW line \in {1, 2}, NEW n \in 0..79
  PROVE  /\ n \div 16 \in 0..4 /\ n % 16 \in 0..15
         /\ WordOf(line, n) \in 0..15 /\ TurnOf(line, n) \in 5..15
         /\ Permuted(n \div 16, IF line = 1 THEN n % 16 ELSE Pi(n % 16)) = WordOf(line, n)
<1>1. n \div 16 \in 0..4 /\ n % 16 \in 0..15 /\ (IF line = 1 THEN n % 16 ELSE Pi(n % 16)) \in 0..15
  BY DEF Pi
<1>2. WordOf(line, n) \in 0..15
  BY <1>1, OrdersInRange, Zenon DEF WordOf
<1>3. TurnOf(line, n) \in 5..15
  BY <1>1, <1>2, OrdersInRange, Zenon DEF TurnOf
<1>4. Permuted(n \div 16, IF line = 1 THEN n % 16 ELSE Pi(n % 16)) = WordOf(line, n)
  BY <1>1, PermutedIsOrder, Zenon DEF WordOf
<1>. QED BY <1>1, <1>2, <1>3, <1>4

LEMMA PiCases ==
  ASSUME NEW i \in 0..15
  PROVE  \/ (i + 1 = 1 /\ Pi(i) + 1 = 6) \/ (i + 1 = 2 /\ Pi(i) + 1 = 15) \/ (i + 1 = 3 /\ Pi(i) + 1 = 8) \/ (i + 1 = 4 /\ Pi(i) + 1 = 1)
         \/ (i + 1 = 5 /\ Pi(i) + 1 = 10) \/ (i + 1 = 6 /\ Pi(i) + 1 = 3) \/ (i + 1 = 7 /\ Pi(i) + 1 = 12) \/ (i + 1 = 8 /\ Pi(i) + 1 = 5)
         \/ (i + 1 = 9 /\ Pi(i) + 1 = 14) \/ (i + 1 = 10 /\ Pi(i) + 1 = 7) \/ (i + 1 = 11 /\ Pi(i) + 1 = 16) \/ (i + 1 = 12 /\ Pi(i) + 1 = 9)
         \/ (i + 1 = 13 /\ Pi(i) + 1 = 2) \/ (i + 1 = 14 /\ Pi(i) + 1 = 11) \/ (i + 1 = 15 /\ Pi(i) + 1 = 4) \/ (i + 1 = 16 /\ Pi(i) + 1 = 13)
BY Sixteen DEF Pi

\* The tables of the device, against the orders and turns of the book.
Row(table, g, i) ==
  /\ table[1][1+i] = <<Orders[g][i+1], Turns[g][Orders[g][i+1]+1]>>
  /\ table[2][1+i] = <<Orders[g][Pi(i)+1], Turns[g][Orders[g][Pi(i)+1]+1]>>

\* The tables in the code are the orders and turns of the book.
LEMMA TableRows ==
  ASSUME NEW i \in 0..15
  PROVE  /\ Row(Rounds1, 1, i) /\ Row(Rounds2, 2, i) /\ Row(Rounds3, 3, i)
         /\ Row(Rounds4, 4, i) /\ Row(Rounds5, 5, i)
<1>1. Rounds1[1][1+i] = <<Orders[1][i+1], Turns[1][Orders[1][i+1]+1]>>
  BY Sixteen DEF Rounds1, Orders, Turns
<1>2. Rounds1[2][1+i] = <<Orders[1][Pi(i)+1], Turns[1][Orders[1][Pi(i)+1]+1]>>
  <2>1. 1 + i = i + 1
    OBVIOUS
  <2>. DEFINE j == i + 1
              k == Pi(i) + 1
  <2>2. \/ (j = 1 /\ k = 6) \/ (j = 2 /\ k = 15) \/ (j = 3 /\ k = 8) \/ (j = 4 /\ k = 1) \/ (j = 5 /\ k = 10)
        \/ (j = 6 /\ k = 3) \/ (j = 7 /\ k = 12) \/ (j = 8 /\ k = 5) \/ (j = 9 /\ k = 14) \/ (j = 10 /\ k = 7)
        \/ (j = 11 /\ k = 16) \/ (j = 12 /\ k = 9) \/ (j = 13 /\ k = 2) \/ (j = 14 /\ k = 11) \/ (j = 15 /\ k = 4)
        \/ (j = 16 /\ k = 13)
    BY PiCases
  <2>. HIDE DEF j, k
  <2>3. Rounds1[2][j] = <<Orders[1][k], Turns[1][Orders[1][k]+1]>>
    BY <2>2 DEF Rounds1, Orders, Turns
  <2>. QED BY <2>1, <2>3 DEF j, k
<1>3. Rounds2[1][1+i] = <<Orders[2][i+1], Turns[2][Orders[2][i+1]+1]>>
  BY Sixteen DEF Rounds2, Orders, Turns
<1>4. Rounds2[2][1+i] = <<Orders[2][Pi(i)+1], Turns[2][Orders[2][Pi(i)+1]+1]>>
  <2>1. 1 + i = i + 1
    OBVIOUS
  <2>. DEFINE j == i + 1
              k == Pi(i) + 1
  <2>2. \/ (j = 1 /\ k = 6) \/ (j = 2 /\ k = 15) \/ (j = 3 /\ k = 8) \/ (j = 4 /\ k = 1) \/ (j = 5 /\ k = 10)
        \/ (j = 6 /\ k = 3) \/ (j = 7 /\ k = 12) \/ (j = 8 /\ k = 5) \/ (j = 9 /\ k = 14) \/ (j = 10 /\ k = 7)
        \/ (j = 11 /\ k = 16) \/ (j = 12 /\ k = 9) \/ (j = 13 /\ k = 2) \/ (j = 14 /\ k = 11) \/ (j = 15 /\ k = 4)
        \/ (j = 16 /\ k = 13)
    BY PiCases
  <2>. HIDE DEF j, k
  <2>3. Rounds2[2][j] = <<Orders[2][k], Turns[2][Orders[2][k]+1]>>
    BY <2>2 DEF Rounds2, Orders, Turns
  <2>. QED BY <2>1, <2>3 DEF j, k
<1>5. Rounds3[1][1+i] = <<Orders[3][i+1], Turns[3][Orders[3][i+1]+1]>>
  BY Sixteen DEF Rounds3, Orders, Turns
<1>6. Rounds3[2][1+i] = <<Orders[3][Pi(i)+1], Turns[3][Orders[3][Pi(i)+1]+1]>>
  <2>1. 1 + i = i + 1
    OBVIOUS
  <2>. DEFINE j == i + 1
              k == Pi(i) + 1
  <2>2. \/ (j = 1 /\ k = 6) \/ (j = 2 /\ k = 15) \/ (j = 3 /\ k = 8) \/ (j = 4 /\ k = 1) \/ (j = 5 /\ k = 10)
        \/ (j = 6 /\ k = 3) \/ (j = 7 /\ k = 12) \/ (j = 8 /\ k = 5) \/ (j = 9 /\ k = 14) \/ (j = 10 /\ k = 7)
        \/ (j = 11 /\ k = 16) \/ (j = 12 /\ k = 9) \/ (j = 13 /\ k = 2) \/ (j = 14 /\ k = 11) \/ (j = 15 /\ k = 4)
        \/ (j = 16 /\ k = 13)
    BY PiCases
  <2>. HIDE DEF j, k
  <2>3. Rounds3[2][j] = <<Orders[3][k], Turns[3][Orders[3][k]+1]>>
    BY <2>2 DEF Rounds3, Orders, Turns
  <2>. QED BY <2>1, <2>3 DEF j, k
<1>7. Rounds4[1][1+i] = <<Orders[4][i+1], Turns[4][Orders[4][i+1]+1]>>
  BY Sixteen DEF Rounds4, Orders, Turns
<1>8. Rounds4[2][1+i] = <<Orders[4][Pi(i)+1], Turns[4][Orders[4][Pi(i)+1]+1]>>
  <2>1. 1 + i = i + 1
    OBVIOUS
  <2>. DEFINE j == i + 1
              k == Pi(i) + 1
  <2>2. \/ (j = 1 /\ k = 6) \/ (j = 2 /\ k = 15) \/ (j = 3 /\ k = 8) \/ (j = 4 /\ k = 1) \/ (j = 5 /\ k = 10)
        \/ (j = 6 /\ k = 3) \/ (j = 7 /\ k = 12) \/ (j = 8 /\ k = 5) \/ (j = 9 /\ k = 14) \/ (j = 10 /\ k = 7)
        \/ (j = 11 /\ k = 16) \/ (j = 12 /\ k = 9) \/ (j = 13 /\ k = 2) \/ (j = 14 /\ k = 11) \/ (j = 15 /\ k = 4)
        \/ (j = 16 /\ k = 13)
    BY PiCases
  <2>. HIDE DEF j, k
  <2>3. Rounds4[2][j] = <<Orders[4][k], Turns[4][Orders[4][k]+1]>>
    BY <2>2 DEF Rounds4, Orders, Turns
  <2>. QED BY <2>1, <2>3 DEF j, k
<1>9. Rounds5[1][1+i] = <<Orders[5][i+1], Turns[5][Orders[5][i+1]+1]>>
  BY Sixteen DEF Rounds5, Orders, Turns
<1>10. Rounds5[2][1+i] = <<Orders[5][Pi(i)+1], Turns[5][Orders[5][Pi(i)+1]+1]>>
  <2>1. 1 + i = i + 1
    OBVIOUS
  <2>. DEFINE j == i + 1
              k == Pi(i) + 1
  <2>2. \/ (j = 1 /\ k = 6) \/ (j = 2 /\ k = 15) \/ (j = 3 /\ k = 8) \/ (j = 4 /\ k = 1) \/ (j = 5 /\ k = 10)
        \/ (j = 6 /\ k = 3) \/ (j = 7 /\ k = 12) \/ (j = 8 /\ k = 5) \/ (j = 9 /\ k = 14) \/ (j = 10 /\ k = 7)
        \/ (j = 11 /\ k = 16) \/ (j = 12 /\ k = 9) \/ (j = 13 /\ k = 2) \/ (j = 14 /\ k = 11) \/ (j = 15 /\ k = 4)
        \/ (j = 16 /\ k = 13)
    BY PiCases
  <2>. HIDE DEF j, k
  <2>3. Rounds5[2][j] = <<Orders[5][k], Turns[5][Orders[5][k]+1]>>
    BY <2>2 DEF Rounds5, Orders, Turns
  <2>. QED BY <2>1, <2>3 DEF j, k
<1>. QED BY <1>1, <1>2, <1>3, <1>4, <1>5, <1>6, <1>7, <1>8, <1>9, <1>10, Zenon DEF Row

\* So are the word and the turn of each single step.
LEMMA StepFacts ==
  ASSUME NEW line \in {1, 2}, t \in 0..79
  PROVE  Step(line)[1] = WordOf(line, t) /\ Step(line)[2] = TurnOf(line, t)
<1>. DEFINE g == t \div 16
            i == t % 16
            tables == <<Rounds1, Rounds2, Rounds3, Rounds4, Rounds5>>
<1>1. g \in 0..4 /\ i \in 0..15
  OBVIOUS
<1>2. Step(line) = tables[1+g][line][1+i]
  BY Zenon DEF Step
<1>3. /\ tables[1] = Rounds1 /\ tables[2] = Rounds2 /\ tables[3] = Rounds3
      /\ tables[4] = Rounds4 /\ tables[5] = Rounds5
  OBVIOUS
<1>4. \/ (1 + g = 1 /\ g + 1 = 1) \/ (1 + g = 2 /\ g + 1 = 2) \/ (1 + g = 3 /\ g + 1 = 3)
      \/ (1 + g = 4 /\ g + 1 = 4) \/ (1 + g = 5 /\ g + 1 = 5)
  BY <1>1
<1>. HIDE DEF g, i, tables
<1>5. /\ tables[1+g][1][1+i] = <<Orders[g+1][i+1], Turns[g+1][Orders[g+1][i+1]+1]>>
      /\ tables[1+g][2][1+i] = <<Orders[g+1][Pi(i)+1], Turns[g+1][Orders[g+1][Pi(i)+1]+1]>>
  <2>1. /\ Row(tables[1], 1, i) /\ Row(tables[2], 2, i) /\ Row(tables[3], 3, i)
        /\ Row(tables[4], 4, i) /\ Row(tables[5], 5, i)
    BY <1>1, <1>3, TableRows, Zenon
  <2>2. Row(tables[1+g], g + 1, i)
    BY <1>4, <2>1, Zenon
  <2>. QED BY <2>2, Zenon DEF Row
<1>6. CASE line = 1
  <2>1. WordOf(line, t) = Orders[g+1][i+1] /\ TurnOf(line, t) = Turns[g+1][Orders[g+1][i+1]+1]
    BY <1>6, Zenon DEF WordOf, TurnOf, g, i
  <2>. QED BY <1>2, <1>5, <1>6, <2>1
<1>7. CASE line = 2
  <2>1. WordOf(line, t) = Orders[g+1][Pi(i)+1] /\ TurnOf(line, t) = Turns[g+1][Orders[g+1][Pi(i)+1]+1]
    <3>1. 2 # 1
      OBVIOUS
    <3>. QED BY <1>7, <3>1, Zenon DEF WordOf, TurnOf, g, i
  <2>. QED BY <1>2, <1>5, <1>7, <2>1
<1>. QED BY <1>6, <1>7

Five == [1..5 -> Word]

LEMMA RolWord ==
  ASSUME NEW x \in Word, NEW n \in 5..15
  PROVE  Rol(x, n) \in Word
<1>1. 32 - n \in 0..31
  OBVIOUS
<1>. QED BY <1>1, RorFacts DEF Rol

LEMMA AddedWords ==
  ASSUME NEW line \in {1, 2}, NEW g \in 0..4
  PROVE  Added[line][g+1] \in Word
<1>. DEFINE h1 == Hex(\h5A82, \h7999)
            h2 == Hex(\h6ED9, \hEBA1)
            h3 == Hex(\h8F1B, \hBCDC)
            h4 == Hex(\hA953, \hFD4E)
            h5 == Hex(\h50A2, \h8BE6)
            h6 == Hex(\h5C4D, \hD124)
            h7 == Hex(\h6D70, \h3EF3)
            h8 == Hex(\h7A6D, \h76E9)
            left  == <<{}, h1, h2, h3, h4>>
            right == <<h5, h6, h7, h8, {}>>
<1>1. /\ h1 \in Word /\ h2 \in Word /\ h3 \in Word /\ h4 \in Word
      /\ h5 \in Word /\ h6 \in Word /\ h7 \in Word /\ h8 \in Word
  BY HexWord
<1>2. {} \in Word
  BY DEF Word
<1>3. Added = <<left, right>>
  BY DEF Added
<1>. HIDE DEF h1, h2, h3, h4, h5, h6, h7, h8
<1>4. left[g+1] \in Word /\ right[g+1] \in Word
  <2>1. g + 1 = 1 \/ g + 1 = 2 \/ g + 1 = 3 \/ g + 1 = 4 \/ g + 1 = 5
    OBVIOUS
  <2>. QED BY <1>1, <1>2, <2>1
<1>5. Added[1] = left /\ Added[2] = right
  <2>. HIDE DEF left, right
  <2>. QED BY <1>3
<1>. QED BY <1>4, <1>5, Zenon

LEMMA BookFunctionWord ==
  ASSUME NEW n \in 0..4, NEW x \in Word, NEW y \in Word, NEW z \in Word
  PROVE  BookFunction(n, x, y, z) \in Word
<1>1. n = 0 \/ n = 1 \/ n = 2 \/ n = 3 \/ n = 4
  OBVIOUS
<1>. QED BY <1>1 DEF BookFunction, Xor3, Xor, Not, Word, Bit

\* What is added up, turned and added to the last register in round j of a line.
BookTerm(line, v, X, j) ==
  Total(<<v[1], BookFunction(IF line = 1 THEN j \div 16 ELSE 4 - (j \div 16), v[2], v[3], v[4]),
          X[WordOf(line, j) + 1], Added[line][(j \div 16) + 1]>>)
BookSum(line, v, X, j) == Plus(Rol(BookTerm(line, v, X, j), TurnOf(line, j)), v[5])

LEMMA TotalOfFourWord ==
  ASSUME NEW x1 \in Word, NEW x2 \in Word, NEW x3 \in Word, NEW x4 \in Word
  PROVE  Total(<<x1, x2, x3, x4>>) \in Word
<1>. DEFINE words == <<x1, x2, x3, x4>>
<1>1. words \in Seq(Word) /\ Len(words) # 0
  OBVIOUS
<1>. HIDE DEF words
<1>2. Total(words) \in Word
  BY <1>1, TotalWord
<1>. QED BY <1>2 DEF words

\* One round by the book, register by register.
LEMMA BookRoundFacts ==
  ASSUME NEW line \in {1, 2}, NEW v \in Five, NEW X \in [1..16 -> Word], NEW j \in 0..79
  PROVE  /\ BookRound(line, v, X, j) \in Five
         /\ BookSum(line, v, X, j) \in Word
         /\ BookRound(line, v, X, j)[1] = v[5]
         /\ BookRound(line, v, X, j)[2] = BookSum(line, v, X, j)
         /\ BookRound(line, v, X, j)[3] = v[2]
         /\ BookRound(line, v, X, j)[4] = Rol(v[3], 10)
         /\ BookRound(line, v, X, j)[5] = v[4]
<1>1. v[1] \in Word /\ v[2] \in Word /\ v[3] \in Word /\ v[4] \in Word /\ v[5] \in Word
  BY DEF Five
<1>2. /\ j \div 16 \in 0..4 /\ WordOf(line, j) \in 0..15 /\ TurnOf(line, j) \in 5..15
      /\ Permuted(j \div 16, IF line = 1 THEN j % 16 ELSE Pi(j % 16)) = WordOf(line, j)
  BY WordOfFacts, Zenon
<1>3. BookRound(line, v, X, j) = <<v[5], BookSum(line, v, X, j), v[2], Rol(v[3], 10), v[4]>>
  BY <1>2, Zenon DEF BookRound, BookSum, BookTerm, TurnOf
<1>4. BookTerm(line, v, X, j) \in Word
  <2>1. (IF line = 1 THEN j \div 16 ELSE 4 - (j \div 16)) \in 0..4
    BY <1>2
  <2>2. BookFunction(IF line = 1 THEN j \div 16 ELSE 4 - (j \div 16), v[2], v[3], v[4]) \in Word
    BY <1>1, <2>1, BookFunctionWord, Zenon
  <2>3. X[WordOf(line, j) + 1] \in Word
    <3>1. WordOf(line, j) + 1 \in 1..16
      BY <1>2
    <3>. QED BY <3>1
  <2>4. Added[line][(j \div 16) + 1] \in Word
    BY <1>2, AddedWords, Zenon
  <2>. QED BY <1>1, <2>2, <2>3, <2>4, TotalOfFourWord, Zenon DEF BookTerm
<1>5. BookSum(line, v, X, j) \in Word
  <2>1. Rol(BookTerm(line, v, X, j), TurnOf(line, j)) \in Word
    BY <1>2, <1>4, RolWord, Zenon
  <2>. QED BY <1>1, <2>1, PlusWord, Zenon DEF BookSum
<1>6. Rol(v[3], 10) \in Word
  <2>1. 10 \in 5..15
    OBVIOUS
  <2>. QED BY <1>1, <2>1, RolWord, Zenon
<1>. DEFINE x == BookSum(line, v, X, j)
            y == Rol(v[3], 10)
            r == <<v[5], x, v[2], y, v[4]>>
<1>7. x \in Word /\ y \in Word
  BY <1>5, <1>6
<1>. HIDE DEF x, y
<1>8. r \in [1..5 -> Word]
  <2>1. r \in Seq(Word) /\ Len(r) = 5
    BY <1>1, <1>7
  <2>. HIDE DEF r
  <2>. QED BY <2>1, LenProperties
<1>9. r[1] = v[5] /\ r[2] = x /\ r[3] = v[2] /\ r[4] = y /\ r[5] = v[4]
  OBVIOUS
<1>10. BookRound(line, v, X, j) = r
  BY <1>3, Zenon DEF x, y
<1>. HIDE DEF r
<1>. QED BY <1>5, <1>8, <1>9, <1>10, Zenon DEF Five, x, y

LEMMA BookIVWords == BookIV \in Five
<1>. DEFINE h1 == Hex(\h6745, \h2301)
            h2 == Hex(\hEFCD, \hAB89)
            h3 == Hex(\h98BA, \hDCFE)
            h4 == Hex(\h1032, \h5476)
            h5 == Hex(\hC3D2, \hE1F0)
            h == <<h1, h2, h3, h4, h5>>
<1>1. h1 \in Word /\ h2 \in Word /\ h3 \in Word /\ h4 \in Word /\ h5 \in Word
  BY HexWord
<1>2. BookIV = h
  BY DEF BookIV
<1>. HIDE DEF h1, h2, h3, h4, h5
<1>3. h \in [1..5 -> Word]
  <2>1. h \in Seq(Word) /\ Len(h) = 5
    BY <1>1
  <2>. HIDE DEF h
  <2>. QED BY <2>1, LenProperties
<1>. QED BY <1>2, <1>3, Zenon DEF Five

LEMMA BlockLength ==
  ASSUME NEW X \in [1..16 -> Word]
  PROVE  5 * Len(X) = 80
<1>1. 16 \in Nat
  OBVIOUS
<1>2. X \in Seq(Word) /\ Len(X) = 16
  BY <1>1, FunctionIsSequence, ZenonT(60)
<1>. QED BY <1>2

\* A line by the book is eighty such rounds.
LEMMA LineFacts ==
  ASSUME NEW line \in {1, 2}, NEW X \in [1..16 -> Word]
  PROVE  /\ Line(line, X) \in [1..81 -> Five]
         /\ Line(line, X)[1] = BookIV
         /\ \A n \in 1..80 : Line(line, X)[n+1] = BookRound(line, Line(line, X)[n], X, n - 1)
<1>. DEFINE Generic(f) == [n \in 0..5*Len(X) |-> IF n = 0 THEN <<BookIV>>
                                                 ELSE Append(f[n-1], BookRound(line, f[n-1][n], X, n - 1))]
            Body(f) == [n \in 0..80 |-> IF n = 0 THEN <<BookIV>>
                                        ELSE Append(f[n-1], BookRound(line, f[n-1][n], X, n - 1))]
            history == CHOOSE f : f = Generic(f)
            round == [n \in 1..80 |-> [s \in Five |-> BookRound(line, s, X, n - 1)]]
<1>1. 5 * Len(X) = 80
  BY BlockLength
<1>2. Line(line, X) = history[80] /\ \A f : Generic(f) = Body(f)
  <2>1. Line(line, X) = history[5 * Len(X)]
    BY Zenon DEF Line
  <2>2. \A f : Generic(f) = Body(f)
    BY <1>1, Zenon
  <2>. HIDE DEF history, Generic, Body
  <2>. QED BY <1>1, <2>1, <2>2, Zenon
<1>3. BookIV \in Five
  BY BookIVWords
<1>4. round \in [1..80 -> [Five -> Five]]
  <2>1. ASSUME NEW n \in 1..80, NEW s \in Five PROVE BookRound(line, s, X, n - 1) \in Five
    <3>1. n - 1 \in 0..79
      OBVIOUS
    <3>. QED BY <3>1, BookRoundFacts, Zenon
  <2>. QED BY <2>1
<1>5. \A n \in 1..80, s \in Five : round[n][s] = BookRound(line, s, X, n - 1)
  OBVIOUS
<1>6. 80 \in Nat
  OBVIOUS
<1>7. /\ \A n \in 1..80 : n \in 0..80 /\ n - 1 \in 0..80 /\ n # 0
      /\ 0 \in 0..80
  OBVIOUS
<1>. HIDE DEF round
<1>8. PICK g : Recorded(g, Five, 80, BookIV, round) /\ \A n \in 1..80 : g[n-1][n] \in Five
  BY <1>3, <1>4, <1>6, RecordExists, ZenonT(60)
<1>9. history = Body(history)
  <2>. DEFINE f == [n \in 0..80 |-> g[n]]
  <2>1. ASSUME NEW n \in 1..80 PROVE f[n] = Append(f[n-1], BookRound(line, f[n-1][n], X, n - 1))
    <3>1. g[n-1][n] \in Five
      BY <1>8, Zenon
    <3>2. g[n] = Append(g[n-1], round[n][g[n-1][n]])
      BY <1>8, <3>1, Zenon DEF Recorded
    <3>3. round[n][g[n-1][n]] = BookRound(line, g[n-1][n], X, n - 1)
      BY <1>5, <3>1, Zenon
    <3>4. f[n] = g[n] /\ f[n-1] = g[n-1]
      BY <1>7
    <3>. HIDE DEF f
    <3>. QED BY <3>2, <3>3, <3>4, Zenon
  <2>2. f[0] = <<BookIV>>
    BY <1>7, <1>8 DEF Recorded
  <2>3. f = [n \in 0..80 |-> f[n]]
    OBVIOUS
  <2>. HIDE DEF f
  <2>4. f = Body(f)
    <3>1. ASSUME NEW n \in 0..80
          PROVE  f[n] = IF n = 0 THEN <<BookIV>> ELSE Append(f[n-1], BookRound(line, f[n-1][n], X, n - 1))
      <4>1. CASE n = 0
        BY <2>2, <4>1, Zenon
      <4>2. CASE n # 0
        <5>1. n \in 1..80
          BY <4>2
        <5>. QED BY <2>1, <4>2, <5>1, Zenon
      <4>. QED BY <4>1, <4>2
    <3>. QED BY <2>3, <3>1, Zenon
  <2>. HIDE DEF Body, Generic
  <2>5. f = Generic(f)
    BY <1>2, <2>4, Zenon
  <2>6. history = Generic(history)
    BY <2>5, Zenon
  <2>. HIDE DEF history
  <2>. QED BY <1>2, <2>6, Zenon
<1>. HIDE DEF history, Generic
<1>10. Recorded(history, Five, 80, BookIV, round)
  <2>1. history[0] = <<BookIV>>
    <3>1. Body(history)[0] = <<BookIV>>
      BY <1>7, Zenon
    <3>. HIDE DEF Body
    <3>. QED BY <1>9, <3>1, Zenon
  <2>2. ASSUME NEW n \in 1..80, history[n-1][n] \in Five
        PROVE  history[n] = Append(history[n-1], round[n][history[n-1][n]])
    <3>1. Body(history)[n] = Append(history[n-1], BookRound(line, history[n-1][n], X, n - 1))
      BY <1>7, Zenon
    <3>. HIDE DEF Body
    <3>. QED BY <1>5, <1>9, <2>2, <3>1, Zenon
  <2>. HIDE DEF Body
  <2>. QED BY <2>1, <2>2, Zenon DEF Recorded
<1>11. RoundsFollow(history[80], Five, 80, BookIV, round)
  BY <1>3, <1>4, <1>6, <1>10, RecordFacts, ZenonT(60)
<1>. DEFINE R == history[80]
<1>. HIDE DEF R
<1>12. R \in [1..81 -> Five] /\ R[1] = BookIV /\ \A n \in 1..80 : R[n+1] = round[n][R[n]]
  <2>1. 80 + 1 = 81
    OBVIOUS
  <2>. QED BY <1>11, <2>1, Zenon DEF RoundsFollow, R
<1>13. ASSUME NEW n \in 1..80 PROVE R[n+1] = BookRound(line, R[n], X, n - 1)
  <2>1. n \in 1..81
    OBVIOUS
  <2>2. R[n] \in Five
    BY <1>12, <2>1, SMTT(30)
  <2>. QED BY <1>5, <1>12, <2>2, Zenon
<1>. QED BY <1>2, <1>12, <1>13, ZenonT(60) DEF R

-------------------------------------------------------------------------------
(* The device's RIPEMD-160 follows the book                                *)

\* The sixteen words the host hashes again.
Book(p) ==
  [i \in 1..16 |-> CASE i <= 8 -> Reversed(Sha256Words(PrintedKey(p))[i-1])
                     [] i = 9  -> Small(\h80)
                     [] i = 15 -> Small(256)
                     [] OTHER  -> {}]
BookLine(line, p) == Line(line, Book(p))

\* The registers v of a line, under the names they have in round t, are those of the book.
Tracks(v, line, p) ==
  v \in [0..4 -> Word] /\ \A i \in 0..4 : v[Called(i)] = BookLine(line, p)[t+1][i+1]

BlockInv(p) == w \in [0..15 -> Word] /\ \A i \in 0..15 : w[i] = Book(p)[i+1]

\* After t rounds both lines are those of the book; after the trimmed rounds two registers of them are.
RipemdInv(p) ==
  /\ t \in 0..80 /\ BlockInv(p)
  /\ full \/ t <= 76 => Tracks(line1, 1, p) /\ Tracks(line2, 2, p)
  /\ ~full /\ t > 76 => /\ t = 80
                        /\ line1[4] = BookLine(1, p)[81][5]
                        /\ line2[0] = BookLine(2, p)[81][1]

ShaWordsOf(p) == Sha256Words(PrintedKey(p))

LEMMA BookFacts ==
  ASSUME NEW p, IsPoint(p)
  PROVE  /\ \A i \in 0..7 : /\ ShaWordsOf(p)[i] = Plus(ShaIV[i], States(p)[65][i+1])
                            /\ ShaWordsOf(p)[i] \in Word
         /\ Book(p) \in [1..16 -> Word]
         /\ PublicKeyHash(PrintedKey(p)) = Ripemd160(Book(p))
<1>1. ShaWordsOf(p) = [i \in 0..7 |-> Plus(ShaIV[i], States(p)[65][i+1])]
  BY Zenon DEF ShaWordsOf, Sha256Words, States, Schedule
<1>2. States(p)[65] \in Registers
  <2>1. States(p) \in [1..65 -> Registers]
    BY HostFacts, Zenon
  <2>2. 65 \in 1..65
    OBVIOUS
  <2>. QED BY <2>1, <2>2
<1>3. ASSUME NEW i \in 0..7
      PROVE  /\ ShaWordsOf(p)[i] = Plus(ShaIV[i], States(p)[65][i+1])
             /\ ShaWordsOf(p)[i] \in Word
  <2>1. ShaIV[i] \in Word
    BY ConstantsAreWords
  <2>2. States(p)[65][i+1] \in Word
    <3>1. i + 1 \in 1..8
      OBVIOUS
    <3>. QED BY <1>2, <3>1 DEF Registers
  <2>. QED BY <1>1, <2>1, <2>2, PlusWord, ZenonT(60)
<1>4. Book(p) \in [1..16 -> Word]
  <2>. DEFINE B == Book(p)
  <2>1. ASSUME NEW i \in 1..16 PROVE B[i] \in Word
    <3>1. CASE i <= 8
      <4>1. i - 1 \in 0..7
        BY <3>1
      <4>2. Reversed(ShaWordsOf(p)[i-1]) \in Word
        BY <1>3, <4>1, ReversedIsSwapped, Zenon
      <4>3. B[i] = Reversed(ShaWordsOf(p)[i-1])
        BY <3>1 DEF Book, ShaWordsOf
      <4>. QED BY <4>2, <4>3, Zenon
    <3>2. CASE i > 8
      <4>1. B[i] = Small(\h80) \/ B[i] = Small(256) \/ B[i] = {}
        BY <3>2 DEF Book
      <4>2. Small(\h80) \in Word /\ Small(256) \in Word /\ {} \in Word
        BY HexWord DEF Small, Word
      <4>. QED BY <4>1, <4>2
    <3>. QED BY <3>1, <3>2
  <2>2. B = [i \in 1..16 |-> B[i]]
    BY DEF Book
  <2>. HIDE DEF B
  <2>3. B \in [1..16 -> Word]
    BY <2>1, <2>2
  <2>. QED BY <2>3 DEF B
<1>5. PublicKeyHash(PrintedKey(p)) = Ripemd160(Book(p))
  BY DEF PublicKeyHash, Book
<1>. QED BY <1>3, <1>4, <1>5

LEMMA ConstantsAgree ==
  /\ RipemdIV = BookIV
  /\ \A line \in {1, 2}, g \in 0..4 : Constant(line, g) = Added[line][g+1]
<1>1. RipemdIV = BookIV
  BY DEF RipemdIV, BookIV
<1>2. ASSUME NEW line \in {1, 2}, NEW g \in 0..4 PROVE Constant(line, g) = Added[line][g+1]
  BY DEF Constant, Added
<1>. QED BY <1>1, <1>2

\* The mixing functions, in whatever form, are those of the book.
LEMMA MixedAgrees ==
  ASSUME NEW line \in {1, 2}, NEW g \in 0..4, NEW x, NEW y, NEW z
  PROVE  Mixed(line, g, x, y, z) = BookFunction(IF line = 1 THEN g ELSE 4 - g, x, y, z)
<1>1. g = 0 \/ g = 1 \/ g = 2 \/ g = 3 \/ g = 4
  OBVIOUS
<1>2. (Not(z) \intersect y) = (y \intersect Not(z))
  OBVIOUS
<1>3. CASE line = 1
  BY <1>1, <1>2, <1>3 DEF Mixed, BookFunction, f1, f2, f3, f4, f5
<1>4. CASE line = 2
  BY <1>1, <1>2, <1>4 DEF Mixed, BookFunction, f1, f2, f3, f4, f5
<1>. QED BY <1>3, <1>4

LEMMA CalledFacts ==
  ASSUME NEW n \in 0..79
  PROVE  /\ \A i \in 0..4 : (i + 80 - n) % 5 \in 0..4
         /\ \A i, j \in 0..4 : (i + 80 - n) % 5 = (j + 80 - n) % 5 => i = j
         /\ \A i \in 1..4 : (i + 80 - (n + 1)) % 5 = ((i - 1) + 80 - n) % 5 /\ i - 1 \in 0..4
         /\ (0 + 80 - (n + 1)) % 5 = (4 + 80 - n) % 5
OBVIOUS

LEMMA RipemdStarts ==
  ASSUME NEW p, IsPoint(p), ShaInv(p), ShaEnd
  PROVE  RipemdInv(p)'
<1>1. t = 64 /\ t' = 0 /\ full' = full
  BY DEF ShaEnd
<1>2. ASSUME NEW i \in 0..7 PROVE ShaState(i) = ShaWordsOf(p)[i] /\ ShaWordsOf(p)[i] \in Word
  <2>1. Named(i) = i /\ t + 1 = 65
    BY <1>1 DEF Named
  <2>2. reg[i] = States(p)[65][i+1]
    BY <2>1 DEF ShaInv
  <2>. QED BY <2>2, BookFacts DEF ShaState
<1>3. w' = [i \in 0..15 |-> IF i < 8 THEN bswap32(ShaState(i)) ELSE PadTail(i)]
  BY DEF ShaEnd
<1>4. ASSUME NEW i \in 0..15 PROVE w'[i] = Book(p)[i+1]
  <2>1. CASE i < 8
    <3>1. i \in 0..7 /\ i + 1 <= 8 /\ (i + 1) - 1 = i /\ i + 1 \in 1..16
      BY <2>1
    <3>2. w'[i] = bswap32(ShaState(i))
      BY <1>3, <2>1
    <3>3. Book(p)[i+1] = Reversed(ShaWordsOf(p)[i])
      BY <3>1 DEF Book, ShaWordsOf
    <3>4. bswap32(ShaWordsOf(p)[i]) = Reversed(ShaWordsOf(p)[i])
      BY <1>2, <3>1, ReversedIsSwapped, Zenon
    <3>. QED BY <1>2, <3>1, <3>2, <3>3, <3>4, Zenon
  <2>2. CASE i >= 8
    <3>1. w'[i] = PadTail(i)
      BY <1>3, <2>2
    <3>2. PadTail(i) = Book(p)[i+1]
      BY <2>2 DEF PadTail, Book
    <3>. QED BY <3>1, <3>2
  <2>. QED BY <2>1, <2>2
<1>5. w' \in [0..15 -> Word]
  <2>1. Book(p) \in [1..16 -> Word]
    BY BookFacts, Zenon
  <2>2. \A i \in 0..15 : i + 1 \in 1..16
    OBVIOUS
  <2>3. \A i \in 0..15 : w'[i] \in Word
    BY <1>4, <2>1, <2>2
  <2>4. w' = [i \in 0..15 |-> w'[i]]
    BY <1>3
  <2>. QED BY <2>3, <2>4
<1>6. line1' = [i \in 0..4 |-> RipemdIV[i+1]] /\ line2' = line1'
  BY DEF ShaEnd
<1>7. ASSUME NEW line \in {1, 2}
      PROVE  /\ line1' \in [0..4 -> Word]
             /\ \A i \in 0..4 : line1'[(i + 80 - t') % 5] = BookLine(line, p)[t'+1][i+1]
  <2>1. BookLine(line, p)[1] = BookIV
    <3>1. Book(p) \in [1..16 -> Word]
      BY BookFacts, Zenon
    <3>. QED BY <3>1, LineFacts, Zenon DEF BookLine
  <2>2. \A i \in 0..4 : (i + 80 - 0) % 5 = i /\ i + 1 \in 1..5 /\ 0 + 1 = 1
    OBVIOUS
  <2>3. \A i \in 0..4 : line1'[i] = BookIV[i+1]
    BY <1>6, ConstantsAgree
  <2>4. \A i \in 0..4 : line1'[(i + 80 - t') % 5] = BookLine(line, p)[t'+1][i+1]
    BY <1>1, <2>1, <2>2, <2>3, Zenon
  <2>5. BookIV \in [1..5 -> Word]
    BY BookIVWords DEF Five
  <2>6. line1' = [i \in 0..4 |-> BookIV[i+1]]
    BY <1>6, ConstantsAgree, Zenon
  <2>7. line1' \in [0..4 -> Word]
    BY <2>2, <2>5, <2>6
  <2>. QED BY <2>4, <2>7
<1>8. Tracks(line1, 1, p)' /\ Tracks(line2, 2, p)'
  BY <1>6, <1>7, Zenon DEF Tracks, Called
<1>9. t' \in 0..80 /\ ~(t' > 76)
  BY <1>1
<1>. QED BY <1>4, <1>5, <1>8, <1>9, Zenon DEF RipemdInv, BlockInv

\* One round of a line.
LEMMA RoundTracks ==
  ASSUME NEW p, IsPoint(p), NEW line \in {1, 2}, NEW v, Tracks(v, line, p), BlockInv(p), t \in 0..79
  PROVE  /\ Round(line, v) \in [0..4 -> Word]
         /\ \A i \in 0..4 : Round(line, v)[(i + 80 - (t + 1)) % 5] = BookLine(line, p)[(t+1)+1][i+1]
<1>. DEFINE R(i) == v[Called(i)]
            g == t \div 16
            X == Book(p)
            s == BookLine(line, p)[t+1]
            after == BookLine(line, p)[(t+1)+1]
            u == Total(<<R(0), Mixed(line, g, R(1), R(2), R(3)), w[Step(line)[1]], Constant(line, g)>>)
            x == Plus(Rol(u, Step(line)[2]), R(4))
            y == Rol(v[Called(2)], 10)
            a == Called(0)
            b == Called(2)
<1>1. X \in [1..16 -> Word]
  BY BookFacts, Zenon
<1>2. s \in Five /\ after = BookRound(line, s, X, t)
  <2>1. /\ BookLine(line, p) \in [1..81 -> Five]
        /\ \A n \in 1..80 : BookLine(line, p)[n+1] = BookRound(line, BookLine(line, p)[n], X, n - 1)
    BY <1>1, LineFacts, Zenon DEF BookLine
  <2>2. t + 1 \in 1..80 /\ t + 1 \in 1..81 /\ (t + 1) - 1 = t
    OBVIOUS
  <2>3. after = BookRound(line, s, X, (t + 1) - 1)
    BY <2>1, <2>2, Zenon
  <2>4. s \in Five
    BY <2>1, <2>2
  <2>. QED BY <2>2, <2>3, <2>4
<1>3. v \in [0..4 -> Word] /\ \A i \in 0..4 : R(i) = s[i+1]
  BY DEF Tracks
<1>4. R(0) = s[1] /\ R(1) = s[2] /\ R(2) = s[3] /\ R(3) = s[4] /\ R(4) = s[5]
  <2>1. /\ 0 \in 0..4 /\ 1 \in 0..4 /\ 2 \in 0..4 /\ 3 \in 0..4 /\ 4 \in 0..4
        /\ 0 + 1 = 1 /\ 1 + 1 = 2 /\ 2 + 1 = 3 /\ 3 + 1 = 4 /\ 4 + 1 = 5
    OBVIOUS
  <2>. HIDE DEF R, s
  <2>. QED BY <1>3, <2>1, Zenon
<1>5. Step(line)[1] = WordOf(line, t) /\ Step(line)[2] = TurnOf(line, t)
  BY StepFacts, Zenon
<1>6. WordOf(line, t) \in 0..15 /\ TurnOf(line, t) \in 5..15 /\ g \in 0..4
  BY WordOfFacts, Zenon
<1>7. w[WordOf(line, t)] = X[WordOf(line, t) + 1]
  BY <1>6 DEF BlockInv
<1>8. Constant(line, g) = Added[line][g+1]
  BY <1>6, ConstantsAgree, Zenon
<1>9. Mixed(line, g, s[2], s[3], s[4]) = BookFunction(IF line = 1 THEN g ELSE 4 - g, s[2], s[3], s[4])
  <2>. DEFINE s2 == s[2]
              s3 == s[3]
              s4 == s[4]
  <2>1. g \in 0..4
    BY <1>6
  <2>. HIDE DEF g, s2, s3, s4
  <2>2. Mixed(line, g, s2, s3, s4) = BookFunction(IF line = 1 THEN g ELSE 4 - g, s2, s3, s4)
    BY <2>1, MixedAgrees
  <2>. QED BY <2>2 DEF s2, s3, s4
<1>10. u = BookTerm(line, s, X, t)
  <2>1. u = Total(<<s[1], Mixed(line, g, s[2], s[3], s[4]), w[WordOf(line, t)], Added[line][g+1]>>)
    <3>. HIDE DEF R, s, g
    <3>. QED BY <1>4, <1>5, <1>8, Zenon
  <2>2. BookTerm(line, s, X, t) =
          Total(<<s[1], BookFunction(IF line = 1 THEN g ELSE 4 - g, s[2], s[3], s[4]),
                  X[WordOf(line, t) + 1], Added[line][g+1]>>)
    BY Zenon DEF BookTerm
  <2>. HIDE DEF s, g, u, X
  <2>. QED BY <1>7, <1>9, <2>1, <2>2, Zenon
<1>11. x = BookSum(line, s, X, t)
  <2>. HIDE DEF R, s, u, X
  <2>. QED BY <1>4, <1>5, <1>10, Zenon DEF BookSum
<1>12. y = Rol(s[3], 10)
  <2>. HIDE DEF s
  <2>. QED BY <1>4, Zenon
<1>13. Round(line, v) = [v EXCEPT ![a] = x, ![b] = y]
  BY Zenon DEF Round
<1>. HIDE DEF s, after, x, y, X
<1>14. /\ after \in Five
       /\ after[1] = s[5] /\ after[2] = x /\ after[3] = s[2] /\ after[4] = y /\ after[5] = s[4]
  <2>1. /\ BookRound(line, s, X, t) \in Five
        /\ BookRound(line, s, X, t)[1] = s[5]
        /\ BookRound(line, s, X, t)[2] = BookSum(line, s, X, t)
        /\ BookRound(line, s, X, t)[3] = s[2]
        /\ BookRound(line, s, X, t)[4] = Rol(s[3], 10)
        /\ BookRound(line, s, X, t)[5] = s[4]
    BY <1>1, <1>2, BookRoundFacts, ZenonT(60)
  <2>. QED BY <1>2, <1>11, <1>12, <2>1, Zenon
<1>15. x \in Word /\ y \in Word
  <2>1. after[2] \in Word /\ after[4] \in Word
    BY <1>14 DEF Five
  <2>. QED BY <1>14, <2>1
<1>16. \A i \in 0..4 : Called(i) \in 0..4
  BY CalledFacts, Zenon DEF Called
<1>17. \A i, j \in 0..4 : Called(i) = Called(j) => i = j
  BY CalledFacts, Zenon DEF Called
<1>18. 0 \in 0..4 /\ 2 \in 0..4 /\ 0 # 2
  OBVIOUS
<1>19. a \in 0..4 /\ b \in 0..4 /\ a # b
  BY <1>16, <1>17, <1>18, Zenon
<1>20. /\ Round(line, v) \in [0..4 -> Word]
       /\ Round(line, v)[a] = x /\ Round(line, v)[b] = y
       /\ \A n \in 0..4 : n # a /\ n # b => Round(line, v)[n] = v[n]
  <2>. HIDE DEF a, b
  <2>. QED BY <1>3, <1>13, <1>15, <1>19
<1>21. /\ \A i \in 1..4 : (i + 80 - (t + 1)) % 5 = Called(i - 1) /\ i - 1 \in 0..4
       /\ (0 + 80 - (t + 1)) % 5 = Called(4)
  BY CalledFacts, Zenon DEF Called
<1>22. ASSUME NEW i \in 0..4, i # 0, i # 2, NEW n, n = Called(i) PROVE Round(line, v)[n] = s[i+1]
  <2>1. n # a /\ n # b /\ n \in 0..4
    BY <1>16, <1>17, <1>18, <1>22, Zenon
  <2>2. Round(line, v)[n] = v[n]
    BY <1>20, <2>1, Zenon
  <2>. QED BY <1>3, <1>22, <2>2, Zenon
<1>23. ASSUME NEW i \in 0..4 PROVE Round(line, v)[(i + 80 - (t + 1)) % 5] = after[i+1]
  <2>1. CASE i = 0
    <3>1. 4 \in 0..4 /\ 4 # 0 /\ 4 # 2 /\ 4 + 1 = 5 /\ 0 + 1 = 1
      OBVIOUS
    <3>2. Round(line, v)[Called(4)] = s[4+1]
      BY <1>22, <3>1, Zenon
    <3>. QED BY <1>14, <1>21, <2>1, <3>1, <3>2, Zenon
  <2>2. CASE i = 1
    <3>1. 1 \in 1..4 /\ 1 - 1 = 0 /\ 1 + 1 = 2
      OBVIOUS
    <3>2. (1 + 80 - (t + 1)) % 5 = Called(1 - 1)
      BY <1>21, <3>1, Zenon
    <3>. QED BY <1>14, <1>20, <2>2, <3>1, <3>2, Zenon
  <2>3. CASE i = 2
    <3>1. 2 \in 1..4 /\ 2 - 1 = 1 /\ 2 + 1 = 3 /\ 1 \in 0..4 /\ 1 # 0 /\ 1 # 2 /\ 1 + 1 = 2
      OBVIOUS
    <3>2. (2 + 80 - (t + 1)) % 5 = Called(2 - 1)
      BY <1>21, <3>1, Zenon
    <3>3. Round(line, v)[Called(1)] = s[1+1]
      BY <1>22, <3>1, Zenon
    <3>. QED BY <1>14, <2>3, <3>1, <3>2, <3>3, Zenon
  <2>4. CASE i = 3
    <3>1. 3 \in 1..4 /\ 3 - 1 = 2 /\ 3 + 1 = 4
      OBVIOUS
    <3>2. (3 + 80 - (t + 1)) % 5 = Called(3 - 1)
      BY <1>21, <3>1, Zenon
    <3>. QED BY <1>14, <1>20, <2>4, <3>1, <3>2, Zenon
  <2>5. CASE i = 4
    <3>1. 4 \in 1..4 /\ 4 - 1 = 3 /\ 4 + 1 = 5 /\ 3 \in 0..4 /\ 3 # 0 /\ 3 # 2 /\ 3 + 1 = 4
      OBVIOUS
    <3>2. (4 + 80 - (t + 1)) % 5 = Called(4 - 1)
      BY <1>21, <3>1, Zenon
    <3>3. Round(line, v)[Called(3)] = s[3+1]
      BY <1>22, <3>1, Zenon
    <3>. QED BY <1>14, <2>5, <3>1, <3>2, <3>3, Zenon
  <2>6. i = 0 \/ i = 1 \/ i = 2 \/ i = 3 \/ i = 4
    OBVIOUS
  <2>. QED BY <2>1, <2>2, <2>3, <2>4, <2>5, <2>6
<1>. QED BY <1>20, <1>23, Zenon DEF after

LEMMA RipemdContinues ==
  ASSUME NEW p, IsPoint(p), full \in BOOLEAN, RipemdInv(p), RipemdRound
  PROVE  RipemdInv(p)'
<1>1. t \in 0..79 /\ (full \/ t < 76) /\ t' = t + 1 /\ w' = w /\ full' = full
  BY DEF RipemdRound, RipemdInv
<1>2. line1' = Round(1, line1) /\ line2' = Round(2, line2)
  BY DEF RipemdRound
<1>3. BlockInv(p) /\ Tracks(line1, 1, p) /\ Tracks(line2, 2, p)
  BY <1>1 DEF RipemdInv
<1>4. 1 \in {1, 2} /\ 2 \in {1, 2}
  OBVIOUS
<1>5. /\ line1' \in [0..4 -> Word]
      /\ \A i \in 0..4 : line1'[(i + 80 - (t + 1)) % 5] = BookLine(1, p)[(t+1)+1][i+1]
  BY <1>1, <1>2, <1>3, <1>4, RoundTracks, Zenon
<1>6. /\ line2' \in [0..4 -> Word]
      /\ \A i \in 0..4 : line2'[(i + 80 - (t + 1)) % 5] = BookLine(2, p)[(t+1)+1][i+1]
  BY <1>1, <1>2, <1>3, <1>4, RoundTracks, Zenon
<1>7. Tracks(line1, 1, p)' /\ Tracks(line2, 2, p)'
  BY <1>1, <1>5, <1>6, Zenon DEF Tracks, Called
<1>8. BlockInv(p)'
  BY <1>1, <1>3, Zenon DEF BlockInv
<1>9. t' \in 0..80 /\ ~(~full' /\ t' > 76)
  BY <1>1
<1>. QED BY <1>7, <1>8, <1>9, Zenon DEF RipemdInv

\* In a round all registers but one only move on, and the third is turned.
Moves(line, p, n, m) ==
  /\ BookLine(line, p)[m][1] = BookLine(line, p)[n][5]
  /\ BookLine(line, p)[m][3] = BookLine(line, p)[n][2]
  /\ BookLine(line, p)[m][4] = Rol(BookLine(line, p)[n][3], 10)
  /\ BookLine(line, p)[m][5] = BookLine(line, p)[n][4]

LEMMA BookMoves ==
  ASSUME NEW p, IsPoint(p), NEW line \in {1, 2}, NEW n \in 1..80, NEW m, m = n + 1
  PROVE  Moves(line, p, n, m)
<1>. DEFINE s == BookLine(line, p)[n]
            X == Book(p)
<1>1. X \in [1..16 -> Word]
  BY BookFacts, Zenon
<1>2. /\ BookLine(line, p) \in [1..81 -> Five]
      /\ \A k \in 1..80 : BookLine(line, p)[k+1] = BookRound(line, BookLine(line, p)[k], X, k - 1)
  BY <1>1, LineFacts, Zenon DEF BookLine
<1>3. n \in 1..81 /\ n - 1 \in 0..79
  OBVIOUS
<1>4. s \in Five /\ BookLine(line, p)[n+1] = BookRound(line, s, X, n - 1)
  BY <1>2, <1>3
<1>. HIDE DEF s, X
<1>5. /\ BookRound(line, s, X, n - 1)[1] = s[5]
      /\ BookRound(line, s, X, n - 1)[3] = s[2]
      /\ BookRound(line, s, X, n - 1)[4] = Rol(s[3], 10)
      /\ BookRound(line, s, X, n - 1)[5] = s[4]
  BY <1>1, <1>3, <1>4, BookRoundFacts, ZenonT(60)
<1>. QED BY <1>4, <1>5, Zenon DEF s, Moves

\* Of the rounds left out, word 2 sees two rotations.
LEMMA TrimmedEnds ==
  ASSUME NEW p, IsPoint(p), RipemdInv(p), TrimmedRounds
  PROVE  RipemdInv(p)'
<1>1. t = 76 /\ ~full /\ t' = 80 /\ w' = w /\ full' = full
  BY DEF TrimmedRounds
<1>2. line1' = [Round(1, line1) EXCEPT ![4] = Rol(@, 10)] /\ line2' = [line2 EXCEPT ![0] = Rol(@, 10)]
  BY DEF TrimmedRounds, OnlyRotated
<1>3. BlockInv(p) /\ Tracks(line1, 1, p) /\ Tracks(line2, 2, p)
  BY <1>1 DEF RipemdInv
<1>4. 1 \in {1, 2} /\ 2 \in {1, 2} /\ t \in 0..79
  BY <1>1
<1>5. /\ Round(1, line1) \in [0..4 -> Word]
      /\ \A i \in 0..4 : Round(1, line1)[(i + 80 - (t + 1)) % 5] = BookLine(1, p)[(t+1)+1][i+1]
  BY <1>3, <1>4, RoundTracks, Zenon
<1>6. line1'[4] = BookLine(1, p)[81][5]
  <2>1. Round(1, line1)[4] = BookLine(1, p)[78][2]
    <3>1. 1 \in 0..4 /\ (1 + 80 - (t + 1)) % 5 = 4 /\ (t + 1) + 1 = 78 /\ 1 + 1 = 2
      BY <1>1
    <3>. QED BY <1>5, <3>1, ZenonT(60)
  <2>2. line1'[4] = Rol(Round(1, line1)[4], 10)
    BY <1>2, <1>5
  <2>3. 78 \in 1..80 /\ 79 \in 1..80 /\ 80 \in 1..80 /\ 79 = 78 + 1 /\ 80 = 79 + 1 /\ 81 = 80 + 1
    OBVIOUS
  <2>4. BookLine(1, p)[79][3] = BookLine(1, p)[78][2]
    <3>1. Moves(1, p, 78, 79)
      BY <1>4, <2>3, BookMoves, Zenon
    <3>. QED BY <3>1, Zenon DEF Moves
  <2>5. BookLine(1, p)[80][4] = Rol(BookLine(1, p)[79][3], 10)
    <3>1. Moves(1, p, 79, 80)
      BY <1>4, <2>3, BookMoves, ZenonT(60)
    <3>. QED BY <3>1, Zenon DEF Moves
  <2>6. BookLine(1, p)[81][5] = BookLine(1, p)[80][4]
    <3>1. Moves(1, p, 80, 81)
      BY <1>4, <2>3, BookMoves, ZenonT(60)
    <3>. QED BY <3>1, Zenon DEF Moves
  <2>. QED BY <2>1, <2>2, <2>4, <2>5, <2>6, Zenon
<1>7. line2'[0] = BookLine(2, p)[81][1]
  <2>1. line2[0] = BookLine(2, p)[77][2]
    <3>1. 1 \in 0..4 /\ Called(1) = 0 /\ t + 1 = 77 /\ 1 + 1 = 2
      BY <1>1 DEF Called
    <3>. QED BY <1>3, <3>1, Zenon DEF Tracks
  <2>2. line2'[0] = Rol(line2[0], 10)
    BY <1>2, <1>3 DEF Tracks
  <2>3. /\ 77 \in 1..80 /\ 78 \in 1..80 /\ 79 \in 1..80 /\ 80 \in 1..80
        /\ 78 = 77 + 1 /\ 79 = 78 + 1 /\ 80 = 79 + 1 /\ 81 = 80 + 1
    OBVIOUS
  <2>4. BookLine(2, p)[78][3] = BookLine(2, p)[77][2]
    <3>1. Moves(2, p, 77, 78)
      BY <1>4, <2>3, BookMoves, ZenonT(60)
    <3>. QED BY <3>1, Zenon DEF Moves
  <2>5. BookLine(2, p)[79][4] = Rol(BookLine(2, p)[78][3], 10)
    <3>1. Moves(2, p, 78, 79)
      BY <1>4, <2>3, BookMoves, ZenonT(60)
    <3>. QED BY <3>1, Zenon DEF Moves
  <2>6. BookLine(2, p)[80][5] = BookLine(2, p)[79][4]
    <3>1. Moves(2, p, 79, 80)
      BY <1>4, <2>3, BookMoves, ZenonT(60)
    <3>. QED BY <3>1, Zenon DEF Moves
  <2>7. BookLine(2, p)[81][1] = BookLine(2, p)[80][5]
    <3>1. Moves(2, p, 80, 81)
      BY <1>4, <2>3, BookMoves, ZenonT(60)
    <3>. QED BY <3>1, Zenon DEF Moves
  <2>. QED BY <2>1, <2>2, <2>4, <2>5, <2>6, <2>7, Zenon
<1>8. BlockInv(p)'
  BY <1>1, <1>3, Zenon DEF BlockInv
<1>9. t' \in 0..80 /\ t' = 80 /\ ~(full' \/ t' <= 76)
  BY <1>1
<1>. QED BY <1>6, <1>7, <1>8, <1>9, Zenon DEF RipemdInv

HashOf(p) == PublicKeyHash(PrintedKey(p))

\* A full hash is the digest; a filter's hash is word 2 of it.
DigestInv(p) ==
  /\ full  => \A i \in 1..5 : digest[i] = HashOf(p)[i]
  /\ ~full => digest[1] = HashOf(p)[3]

LEMMA HashOfWords ==
  ASSUME NEW p, IsPoint(p)
  PROVE  LET l == BookLine(1, p)[81]
             r == BookLine(2, p)[81]
         IN  /\ HashOf(p) = [i \in 1..5 |-> HashOf(p)[i]]
             /\ HashOf(p)[1] = Total(<<BookIV[2], l[3], r[4]>>)
             /\ HashOf(p)[2] = Total(<<BookIV[3], l[4], r[5]>>)
             /\ HashOf(p)[3] = Total(<<BookIV[4], l[5], r[1]>>)
             /\ HashOf(p)[4] = Total(<<BookIV[5], l[1], r[2]>>)
             /\ HashOf(p)[5] = Total(<<BookIV[1], l[2], r[3]>>)
<1>. DEFINE l == BookLine(1, p)[81]
            r == BookLine(2, p)[81]
            h(i) == Total(<<BookIV[1 + (i % 5)], l[1 + ((i + 1) % 5)], r[1 + ((i + 2) % 5)]>>)
<1>1. HashOf(p) = Ripemd160(Book(p))
  BY BookFacts, Zenon DEF HashOf
<1>2. HashOf(p) = [i \in 1..5 |-> h(i)]
  BY <1>1 DEF Ripemd160, BookLine
<1>. HIDE DEF l, r
<1>3. \A i \in 1..5 : HashOf(p)[i] = h(i)
  BY <1>2
<1>4. /\ h(1) = Total(<<BookIV[2], l[3], r[4]>>) /\ h(2) = Total(<<BookIV[3], l[4], r[5]>>)
      /\ h(3) = Total(<<BookIV[4], l[5], r[1]>>) /\ h(4) = Total(<<BookIV[5], l[1], r[2]>>)
      /\ h(5) = Total(<<BookIV[1], l[2], r[3]>>)
  <2>1. /\ 1 + (1 % 5) = 2 /\ 1 + ((1 + 1) % 5) = 3 /\ 1 + ((1 + 2) % 5) = 4
        /\ 1 + (2 % 5) = 3 /\ 1 + ((2 + 1) % 5) = 4 /\ 1 + ((2 + 2) % 5) = 5
        /\ 1 + (3 % 5) = 4 /\ 1 + ((3 + 1) % 5) = 5 /\ 1 + ((3 + 2) % 5) = 1
        /\ 1 + (4 % 5) = 5 /\ 1 + ((4 + 1) % 5) = 1 /\ 1 + ((4 + 2) % 5) = 2
        /\ 1 + (5 % 5) = 1 /\ 1 + ((5 + 1) % 5) = 2 /\ 1 + ((5 + 2) % 5) = 3
    OBVIOUS
  <2>. HIDE DEF Total
  <2>. QED BY <2>1
<1>. HIDE DEF h
<1>5. 1 \in 1..5 /\ 2 \in 1..5 /\ 3 \in 1..5 /\ 4 \in 1..5 /\ 5 \in 1..5
  OBVIOUS
<1>6. /\ HashOf(p)[1] = h(1) /\ HashOf(p)[2] = h(2) /\ HashOf(p)[3] = h(3)
      /\ HashOf(p)[4] = h(4) /\ HashOf(p)[5] = h(5)
  BY <1>3, <1>5, Zenon
<1>7. HashOf(p) = [i \in 1..5 |-> HashOf(p)[i]]
  BY <1>2, <1>3
<1>. QED BY <1>4, <1>6, <1>7, Zenon DEF l, r

LEMMA ReturnsHash ==
  ASSUME NEW p, IsPoint(p), full \in BOOLEAN, RipemdInv(p), Return
  PROVE  DigestInv(p)'
<1>1. t = 80 /\ full' = full
  BY DEF Return
<1>. DEFINE l == BookLine(1, p)[81]
            r == BookLine(2, p)[81]
<1>2. RipemdIV = BookIV
  BY ConstantsAgree, Zenon
<1>3. CASE full
  <2>1. Tracks(line1, 1, p) /\ Tracks(line2, 2, p)
    BY <1>3 DEF RipemdInv
  <2>2. \A i \in 0..4 : Called(i) = i /\ t + 1 = 81
    BY <1>1 DEF Called
  <2>3. \A i \in 0..4 : line1[i] = l[i+1] /\ line2[i] = r[i+1]
    BY <2>1, <2>2, ZenonT(60) DEF Tracks
  <2>. HIDE DEF l, r
  <2>4. /\ line1[0] = l[1] /\ line1[1] = l[2] /\ line1[2] = l[3] /\ line1[3] = l[4] /\ line1[4] = l[5]
        /\ line2[0] = r[1] /\ line2[1] = r[2] /\ line2[2] = r[3] /\ line2[3] = r[4] /\ line2[4] = r[5]
    BY <2>3
  <2>. DEFINE d == <<Total(<<BookIV[2], l[3], r[4]>>), Total(<<BookIV[3], l[4], r[5]>>),
                     Total(<<BookIV[4], l[5], r[1]>>), Total(<<BookIV[5], l[1], r[2]>>),
                     Total(<<BookIV[1], l[2], r[3]>>)>>
  <2>5. digest' = d
    BY <1>2, <1>3, <2>4, Zenon DEF Return, Word2
  <2>6. d[1] = HashOf(p)[1] /\ d[2] = HashOf(p)[2] /\ d[3] = HashOf(p)[3] /\ d[4] = HashOf(p)[4] /\ d[5] = HashOf(p)[5]
    <3>1. /\ HashOf(p)[1] = Total(<<BookIV[2], l[3], r[4]>>)
          /\ HashOf(p)[2] = Total(<<BookIV[3], l[4], r[5]>>)
          /\ HashOf(p)[3] = Total(<<BookIV[4], l[5], r[1]>>)
          /\ HashOf(p)[4] = Total(<<BookIV[5], l[1], r[2]>>)
          /\ HashOf(p)[5] = Total(<<BookIV[1], l[2], r[3]>>)
      BY HashOfWords, ZenonT(60) DEF l, r
    <3>. HIDE DEF Total
    <3>. QED BY <3>1
  <2>. HIDE DEF d
  <2>7. \A i \in 1..5 : i = 1 \/ i = 2 \/ i = 3 \/ i = 4 \/ i = 5
    OBVIOUS
  <2>8. \A i \in 1..5 : digest'[i] = HashOf(p)[i]
    BY <2>5, <2>6, <2>7, Zenon
  <2>. QED BY <1>1, <1>3, <2>8, Zenon DEF DigestInv
<1>4. CASE ~full
  <2>1. line1[4] = l[5] /\ line2[0] = r[1]
    BY <1>1, <1>4 DEF RipemdInv
  <2>. HIDE DEF l, r
  <2>2. digest' = <<Total(<<BookIV[4], l[5], r[1]>>)>>
    BY <1>2, <1>4, <2>1, Zenon DEF Return, Word2
  <2>3. HashOf(p)[3] = Total(<<BookIV[4], l[5], r[1]>>)
    BY HashOfWords, Zenon DEF l, r
  <2>4. digest'[1] = HashOf(p)[3]
    BY <2>2, <2>3
  <2>. QED BY <1>1, <1>4, <2>4, Zenon DEF DigestInv
<1>. QED BY <1>3, <1>4

-------------------------------------------------------------------------------
(* The hash and the target                                                 *)

\* Where the unit is, with the point it hashes.
UnitInv ==
  \E p \in Points :
    /\ point = p
    /\ full \in BOOLEAN
    /\ phase \in {"idle", "sha", "ripemd", "returned"}
    /\ phase # "idle" => key = KeyOf(p) /\ input = "accepted"
    /\ phase = "sha" => ShaInv(p)
    /\ phase = "ripemd" => RipemdInv(p)
    /\ phase = "returned" => DigestInv(p)
    /\ verdict # "none" =>
         phase = "returned" /\ (verdict = "found" <=> HashOf(p) = target_words)

LEMMA UnitInvInit == UnitInit => UnitInv
<1>. SUFFICES ASSUME UnitInit PROVE UnitInv
  OBVIOUS
<1>1. point \in Points /\ verdict = "none" /\ phase = "idle" /\ full = FALSE
  BY DEF UnitInit, HashInit
<1>. QED BY <1>1 DEF UnitInv

LEMMA UnitInvNext == UnitInv /\ [UnitNext]_uvars => UnitInv'
<1>. SUFFICES ASSUME UnitInv, [UnitNext]_uvars PROVE UnitInv'
  OBVIOUS
<1>1. PICK p \in Points :
        /\ point = p
        /\ full \in BOOLEAN
        /\ phase \in {"idle", "sha", "ripemd", "returned"}
        /\ phase # "idle" => key = KeyOf(p) /\ input = "accepted"
        /\ phase = "sha" => ShaInv(p)
        /\ phase = "ripemd" => RipemdInv(p)
        /\ phase = "returned" => DigestInv(p)
        /\ verdict # "none" =>
             phase = "returned" /\ (verdict = "found" <=> HashOf(p) = target_words)
  BY Zenon DEF UnitInv
<1>2. IsPoint(p)
  BY PointAssumption DEF IsPoint
<1>3. SUFFICES /\ point' = p
               /\ full' \in BOOLEAN
               /\ phase' \in {"idle", "sha", "ripemd", "returned"}
               /\ phase' # "idle" => key' = KeyOf(p) /\ input' = "accepted"
               /\ phase' = "sha" => ShaInv(p)'
               /\ phase' = "ripemd" => RipemdInv(p)'
               /\ phase' = "returned" => DigestInv(p)'
               /\ verdict' # "none" =>
                    phase' = "returned" /\ (verdict' = "found" <=> HashOf(p) = target_words')
  BY Zenon DEF UnitInv
<1>4. UNCHANGED <<t, w, reg>> => (ShaInv(p)' <=> ShaInv(p))
  BY Zenon DEF ShaInv, Named
<1>5. UNCHANGED hvars => (RipemdInv(p)' <=> RipemdInv(p)) /\ (DigestInv(p)' <=> DigestInv(p))
  <2>. SUFFICES ASSUME UNCHANGED hvars
                PROVE  (RipemdInv(p)' <=> RipemdInv(p)) /\ (DigestInv(p)' <=> DigestInv(p))
    OBVIOUS
  <2>1. UNCHANGED <<t, w, line1, line2, full, digest>>
    BY DEF hvars
  <2>2. BlockInv(p)' <=> BlockInv(p)
    BY <2>1, Zenon DEF BlockInv
  <2>3. Tracks(line1, 1, p)' <=> Tracks(line1, 1, p)
    BY <2>1, Zenon DEF Tracks, Called
  <2>4. Tracks(line2, 2, p)' <=> Tracks(line2, 2, p)
    BY <2>1, Zenon DEF Tracks, Called
  <2>5. RipemdInv(p)' <=> RipemdInv(p)
    BY <2>1, <2>2, <2>3, <2>4, Zenon DEF RipemdInv
  <2>6. DigestInv(p)' <=> DigestInv(p)
    BY <2>1, Zenon DEF DigestInv
  <2>. QED BY <2>5, <2>6
<1>6. UNCHANGED tvars => target_words' = target_words /\ input' = input
  BY Zenon DEF tvars, target_words
<1>7. CASE Read
  <2>1. input \in {"given", "base58"}
    BY <1>7 DEF Read, ReadingTarget, RefuseUsage, HexToHash160, StartAddress, Digit, EndAddress
  <2>2. phase = "idle" /\ verdict = "none"
    BY <1>1, <2>1
  <2>3. UNCHANGED <<hvars, point, verdict>>
    BY <1>7 DEF Read
  <2>. QED BY <1>1, <2>2, <2>3 DEF hvars
<1>8. CASE HashPoint
  <2>1. /\ input = "accepted" /\ phase = "idle" /\ verdict = "none"
        /\ UNCHANGED <<tvars, point, verdict>>
    BY <1>1, <1>8 DEF HashPoint
  <2>2. Call(KeyOf(p), FALSE)
    BY <1>1, <1>8 DEF HashPoint, KeyOf, PrefixOf, Prefix
  <2>3. ShaInv(p)'
    BY <1>2, <2>2, ShaStarts, Zenon
  <2>4. phase' = "sha" /\ full' = FALSE /\ key' = KeyOf(p)
    BY <2>2 DEF Call
  <2>. QED BY <1>1, <1>6, <2>1, <2>3, <2>4
<1>9. CASE ShaRound /\ UNCHANGED <<tvars, point, verdict>>
  <2>1. phase = "sha" /\ phase' = "sha" /\ UNCHANGED <<key, full>>
    BY <1>9 DEF ShaRound
  <2>2. ShaInv(p)'
    BY <1>1, <1>2, <1>9, <2>1, ShaContinues, Zenon
  <2>3. verdict = "none"
    BY <1>1, <2>1
  <2>. QED BY <1>1, <1>6, <1>9, <2>1, <2>2, <2>3
<1>10. CASE ShaEnd /\ UNCHANGED <<tvars, point, verdict>>
  <2>1. phase = "sha" /\ phase' = "ripemd" /\ UNCHANGED <<key, full>>
    BY <1>10 DEF ShaEnd
  <2>2. RipemdInv(p)'
    BY <1>1, <1>2, <1>10, <2>1, RipemdStarts, Zenon
  <2>3. verdict = "none"
    BY <1>1, <2>1
  <2>. QED BY <1>1, <1>6, <1>10, <2>1, <2>2, <2>3
<1>11. CASE RipemdRound /\ UNCHANGED <<tvars, point, verdict>>
  <2>1. phase = "ripemd" /\ phase' = "ripemd" /\ UNCHANGED <<key, full>>
    BY <1>11 DEF RipemdRound
  <2>2. RipemdInv(p)'
    BY <1>1, <1>2, <1>11, <2>1, RipemdContinues, Zenon
  <2>3. verdict = "none"
    BY <1>1, <2>1
  <2>. QED BY <1>1, <1>6, <1>11, <2>1, <2>2, <2>3
<1>12. CASE TrimmedRounds /\ UNCHANGED <<tvars, point, verdict>>
  <2>1. phase = "ripemd" /\ phase' = "ripemd" /\ UNCHANGED <<key, full>>
    BY <1>12 DEF TrimmedRounds
  <2>2. RipemdInv(p)'
    BY <1>1, <1>2, <1>12, <2>1, TrimmedEnds, Zenon
  <2>3. verdict = "none"
    BY <1>1, <2>1
  <2>. QED BY <1>1, <1>6, <1>12, <2>1, <2>2, <2>3
<1>13. CASE Return /\ UNCHANGED <<tvars, point, verdict>>
  <2>1. phase = "ripemd" /\ phase' = "returned" /\ UNCHANGED <<key, full>>
    BY <1>13 DEF Return
  <2>2. DigestInv(p)'
    BY <1>1, <1>2, <1>13, <2>1, ReturnsHash, Zenon
  <2>3. verdict = "none"
    BY <1>1, <2>1
  <2>. QED BY <1>1, <1>6, <1>13, <2>1, <2>2, <2>3
<1>14. HashOf(p) = target_words <=> \A i \in 1..5 : HashOf(p)[i] = target_words[i]
  <2>1. HashOf(p) = [i \in 1..5 |-> HashOf(p)[i]]
    BY <1>2, HashOfWords, Zenon
  <2>2. target_words = [i \in 1..5 |-> target_words[i]]
    BY DEF target_words
  <2>. QED BY <2>1, <2>2
<1>15. CASE Miss
  <2>1. /\ phase = "returned" /\ ~full /\ verdict' = "missed" /\ digest[1] # target_words[3]
        /\ UNCHANGED <<tvars, hvars, point>>
    BY <1>15 DEF Miss, FilterHit
  <2>2. HashOf(p)[3] # target_words[3]
    BY <1>1, <2>1 DEF DigestInv
  <2>3. 3 \in 1..5
    OBVIOUS
  <2>4. HashOf(p) # target_words
    BY <2>2
  <2>5. phase' = phase /\ key' = key /\ full' = full
    BY <2>1 DEF hvars
  <2>. QED BY <1>1, <1>5, <1>6, <2>1, <2>4, <2>5
<1>16. CASE Confirm
  <2>1. phase = "returned" /\ verdict = "none" /\ Call(key, TRUE) /\ UNCHANGED <<tvars, point, verdict>>
    BY <1>16 DEF Confirm
  <2>2. Call(KeyOf(p), TRUE)
    BY <1>1, <2>1
  <2>3. ShaInv(p)'
    BY <1>2, <2>2, ShaStarts, Zenon
  <2>4. phase' = "sha" /\ full' = TRUE /\ key' = KeyOf(p)
    BY <2>2 DEF Call
  <2>. QED BY <1>1, <1>6, <2>1, <2>3, <2>4
<1>17. CASE Decide
  <2>1. /\ phase = "returned" /\ full /\ UNCHANGED <<tvars, hvars, point>>
        /\ verdict' = IF MatchesFull THEN "found" ELSE "missed"
    BY <1>17 DEF Decide
  <2>2. MatchesFull <=> HashOf(p) = target_words
    BY <1>1, <1>14, <2>1, Zenon DEF MatchesFull, DigestInv
  <2>3. verdict' = "found" <=> HashOf(p) = target_words
    BY <2>1, <2>2
  <2>4. phase' = phase /\ key' = key /\ full' = full
    BY <2>1 DEF hvars
  <2>. QED BY <1>1, <1>5, <1>6, <2>1, <2>3, <2>4
<1>18. CASE UNCHANGED uvars
  <2>1. UNCHANGED <<tvars, hvars, point, verdict>>
    BY <1>18 DEF uvars
  <2>2. UNCHANGED <<t, w, reg, key, full, phase>>
    BY <2>1 DEF hvars
  <2>. QED BY <1>1, <1>4, <1>5, <1>6, <2>1, <2>2
<1>. QED
  BY <1>7, <1>8, <1>9, <1>10, <1>11, <1>12, <1>13, <1>15, <1>16, <1>17, <1>18, Zenon
  DEF UnitNext, Hash, Hashing, Over

\* In each phase of the device's hash (GpuHash.cu) the registers, the window and the two lines hold what the
\* standard's definition has at that place for the key the host prints for the point.
THEOREM UnitInvariant == UnitSpec => []UnitInv
BY UnitInvInit, UnitInvNext, PTL DEF UnitSpec

\* The value the filter compares (getHash160_w2_from_limbs) is word 2 of the digest of the key the host
\* prints, for every point, although seven rounds are left out.
THEOREM FilterWordCorrect == UnitSpec => []FilterWordIsWord2
<1>1. UnitInv => FilterWordIsWord2
  BY Zenon DEF UnitInv, FilterWordIsWord2, DigestInv, HashOf
<1>. QED BY <1>1, UnitInvariant, PTL

\* A lane that filters by word 2 and confirms by the whole digest (GpuCore.cu) finds a point exactly if the
\* hash of its printed key is the target, whatever was asked for.
THEOREM FoundCorrect == UnitSpec => []FoundIffTarget
<1>1. UnitInv => FoundIffTarget
  BY Zenon DEF UnitInv, FoundIffTarget, HashOf
<1>. QED BY <1>1, UnitInvariant, PTL

-------------------------------------------------------------------------------
(* Bytes, low one first                                                    *)

\* What a byte times 58 with what came in leaves for the next one, and what stays.
CarryOut(x, c) == (58 * x + c) \div 256
ByteOut(x, c)  == (58 * x + c) % 256

LEMMA CarryBounds ==
  ASSUME NEW x \in ByteRange, NEW c \in 0..57
  PROVE  /\ CarryOut(x, c) \in 0..57
         /\ ByteOut(x, c) \in ByteRange
         /\ 58 * x + c = 256 * CarryOut(x, c) + ByteOut(x, c)
         /\ CarryOut(x, c) = 0 /\ x # 0 => ByteOut(x, c) # 0
<1>1. x \in 0..255
  BY DEF ByteRange
<1>. QED BY <1>1 DEF ByteRange, CarryOut, ByteOut

\* carry is what comes in at each byte.
IsCarry(carry, bytes, d, n) ==
  /\ carry \in [1..n+1 -> 0..57]
  /\ carry[1] = d
  /\ \A j \in 1..n : carry[j+1] = CarryOut(bytes[j], carry[j])

LEMMA CarryFacts ==
  ASSUME NEW n \in Nat, NEW bytes \in [1..n -> ByteRange], NEW d \in 0..57
  PROVE  IsCarry(Carry(bytes, d), bytes, d, n)
<1>. DEFINE next == [j \in 1..n |-> [c \in 0..57 |-> CarryOut(bytes[j], c)]]
            at(v, j) == IF j = 1 THEN d ELSE CarryOut(bytes[j-1], v[j-1])
            Body(v) == [j \in 1..n+1 |-> at(v, j)]
            carry == CHOOSE v : v = Body(v)
<1>0. Len(bytes) = n
  BY FunctionIsSequence
<1>1. Carry(bytes, d) = carry
  BY <1>0, SMTT(30) DEF Carry, CarryOut
<1>2. next \in [1..n -> [0..57 -> 0..57]] /\ \A j \in 1..n, c \in 0..57 : next[j][c] = CarryOut(bytes[j], c)
  <2>1. \A j \in 1..n, c \in 0..57 : CarryOut(bytes[j], c) \in 0..57
    BY CarryBounds
  <2>. QED BY <2>1
<1>. HIDE DEF next
<1>3. PICK g : Follows(g, n, 0..57, d, next)
  BY <1>2, UpwardFunction
<1>. DEFINE f == [j \in 1..n+1 |-> g[j-1]]
<1>4. f = Body(f)
  <2>1. ASSUME NEW j \in 1..n+1 PROVE f[j] = at(f, j)
    <3>1. CASE j = 1
      BY <1>3, <3>1 DEF Follows
    <3>2. CASE j # 1
      <4>1. j - 1 \in 1..n /\ j - 1 \in 1..n+1 /\ (j - 1) - 1 \in 0..n
        BY <3>2
      <4>2. g[j-1] = next[j-1][g[(j-1)-1]] /\ g[(j-1)-1] \in 0..57
        BY <1>3, <4>1 DEF Follows
      <4>3. f[j] = g[j-1] /\ f[j-1] = g[(j-1)-1]
        BY <4>1
      <4>4. next[j-1][g[(j-1)-1]] = CarryOut(bytes[j-1], g[(j-1)-1])
        BY <1>2, <4>1, <4>2
      <4>. QED BY <3>2, <4>2, <4>3, <4>4
    <3>. QED BY <3>1, <3>2
  <2>2. f = [j \in 1..n+1 |-> f[j]]
    OBVIOUS
  <2>. HIDE DEF f, at
  <2>. QED BY <2>1, <2>2
<1>. HIDE DEF f
<1>5. carry = Body(carry)
  <2>. HIDE DEF Body
  <2>. QED BY <1>4
<1>. HIDE DEF carry
<1>. DEFINE T == {j \in 0..n : carry[j+1] \in 0..57}
<1>6. carry[1] = d /\ \A j \in 1..n : carry[j+1] = CarryOut(bytes[j], carry[j])
  <2>1. carry[1] = d
    BY <1>5
  <2>2. ASSUME NEW j \in 1..n PROVE carry[j+1] = CarryOut(bytes[j], carry[j])
    <3>1. j + 1 \in 1..n+1 /\ j + 1 # 1 /\ (j + 1) - 1 = j
      OBVIOUS
    <3>. QED BY <1>5, <3>1
  <2>. QED BY <2>1, <2>2
<1>7. \A j \in 0..n : j \in T
  <2>1. 0 \in T
    <3>1. carry[0+1] = d /\ d \in 0..57 /\ 0 \in 0..n
      BY <1>6
    <3>. HIDE DEF Body
    <3>. QED BY <3>1, Zenon
  <2>2. ASSUME NEW j \in 0..n-1, j \in T PROVE j + 1 \in T
    <3>1. j + 1 \in 1..n /\ carry[j+1] \in 0..57
      BY <2>2
    <3>2. bytes[j+1] \in ByteRange
      BY <3>1
    <3>3. CarryOut(bytes[j+1], carry[j+1]) \in 0..57
      BY <3>1, <3>2, CarryBounds
    <3>4. carry[(j+1)+1] = CarryOut(bytes[j+1], carry[j+1])
      BY <1>6, <3>1, Zenon
    <3>5. carry[(j+1)+1] \in 0..57
      BY <3>3, <3>4, Zenon
    <3>. QED BY <3>1, <3>5
  <2>. HIDE DEF T
  <2>. QED BY <2>1, <2>2, UpTo
<1>8. carry \in [1..n+1 -> 0..57]
  <2>1. ASSUME NEW j \in 1..n+1 PROVE carry[j] \in 0..57
    <3>1. j - 1 \in 0..n /\ (j - 1) + 1 = j
      OBVIOUS
    <3>. QED BY <1>7, <3>1
  <2>. QED BY <1>5, <2>1
<1>. QED BY <1>1, <1>6, <1>8 DEF IsCarry

\* The first n of b, last one first, and their value.
Backwards(b, n) == [j \in 1..n |-> b[n + 1 - j]]

LowValue(b, n) == Horner(256, 0, Backwards(b, n), n)[n]

\* f has the value of the places from each on.
IsFrom(f, b, n) ==
  f \in [1..n+1 -> Int] /\ f[n+1] = 0 /\ \A k \in 1..n : f[k] = b[k] + 256 * f[k+1]

LEMMA FromExists ==
  ASSUME NEW n \in Nat, NEW b \in [1..n -> Int]
  PROVE  \E f : IsFrom(f, b, n) /\ f[1] = LowValue(b, n)
<1>. DEFINE r == Backwards(b, n)
            h == Horner(256, 0, r, n)
            f == [k \in 1..n+1 |-> h[n+1-k]]
<1>1. r \in [1..n -> Int] /\ \A k \in 1..n : r[n+1-k] = b[k]
  BY DEF Backwards
<1>. HIDE DEF r
<1>2. IsHorner(h, 256, 0, r, n)
  BY <1>1, HornerFacts
<1>. HIDE DEF h
<1>3. f \in [1..n+1 -> Int] /\ f[n+1] = 0
  BY <1>2 DEF IsHorner
<1>4. ASSUME NEW k \in 1..n PROVE f[k] = b[k] + 256 * f[k+1]
  <2>1. n+1-k \in 1..n /\ (n+1-k)-1 = n+1-(k+1) /\ k \in 1..n+1 /\ k+1 \in 1..n+1
    OBVIOUS
  <2>2. h[n+1-k] = 256 * h[(n+1-k)-1] + r[n+1-k] /\ h[(n+1-k)-1] \in Int /\ b[k] \in Int
    BY <1>2, <2>1, SMTT(30) DEF IsHorner
  <2>3. f[k] = h[n+1-k] /\ f[k+1] = h[n+1-(k+1)] /\ r[n+1-k] = b[k]
    BY <1>1, <2>1
  <2>. QED BY <2>1, <2>2, <2>3
<1>5. f[1] = h[n]
  <2>1. 1 \in 1..n+1 /\ n+1-1 = n
    OBVIOUS
  <2>. QED BY <2>1
<1>6. h[n] = LowValue(b, n)
  BY DEF LowValue, h, r
<1>. QED BY <1>3, <1>4, <1>5, <1>6 DEF IsFrom

\* The highest byte, if there is one, is not 0.
Normal(b, n) == n = 0 \/ b[n] # 0

\* What TimesFiftyEight makes of the bytes it has: low to the last, and what is left.
LEMMA TimesShape ==
  ASSUME NEW n \in Nat, NEW bytes \in [1..n -> ByteRange], NEW d \in 0..57
  PROVE  LET c     == TimesFiftyEight(bytes, d)
             carry == Carry(bytes, d)
         IN  \E m \in n..n+1 :
               /\ c \in [1..m -> ByteRange] /\ c \in Seq(ByteRange) /\ Len(c) = m
               /\ \A j \in 1..n : c[j] = ByteOut(bytes[j], carry[j])
               /\ m = n => carry[n+1] = 0
               /\ m = n + 1 => c[n+1] = carry[n+1] /\ carry[n+1] # 0
<1>. DEFINE carry == Carry(bytes, d)
            low == [j \in 1..n |-> ByteOut(bytes[j], carry[j])]
            last == carry[n+1]
            c == TimesFiftyEight(bytes, d)
<1>1. Len(bytes) = n
  BY FunctionIsSequence
<1>2. c = low \o (IF last = 0 THEN <<>> ELSE <<last>>)
  BY <1>1, Zenon DEF TimesFiftyEight, ByteOut
<1>3. carry \in [1..n+1 -> 0..57]
  BY CarryFacts, Zenon DEF IsCarry
<1>. HIDE DEF carry, c
<1>4. low \in [1..n -> ByteRange]
  <2>1. \A j \in 1..n : bytes[j] \in ByteRange /\ carry[j] \in 0..57
    <3>1. \A j \in 1..n : j \in 1..n+1
      OBVIOUS
    <3>. QED BY <1>3, <3>1, Zenon
  <2>2. \A j \in 1..n : ByteOut(bytes[j], carry[j]) \in ByteRange
    BY <2>1, CarryBounds, Zenon
  <2>. QED BY <2>2
<1>5. \A j \in 1..n : low[j] = ByteOut(bytes[j], carry[j])
  OBVIOUS
<1>6. last \in 0..57 /\ last \in ByteRange
  BY <1>3 DEF ByteRange
<1>. HIDE DEF low, last
<1>7. low \in Seq(ByteRange) /\ Len(low) = n
  BY <1>4, FunctionIsSequence
<1>8. CASE last = 0
  <2>1. c = low
    BY <1>2, <1>7, <1>8, ConcatEmptySeq
  <2>. QED BY <1>4, <1>5, <1>7, <1>8, <2>1 DEF last, carry, c
<1>9. CASE last # 0
  <2>1. c = low \o <<last>> /\ 1 \in Nat
    BY <1>2, <1>9
  <2>2. <<last>> \in [1..1 -> ByteRange] /\ <<last>>[1] = last
    BY <1>6
  <2>. DEFINE e == <<last>>
  <2>. HIDE DEF e
  <2>3. Joined(low \o e, ByteRange, low, n, e, 1)
    BY <1>4, <2>1, <2>2, Concatenation, Zenon DEF e
  <2>4. /\ c \in [1..n+1 -> ByteRange] /\ \A j \in 1..n : c[j] = low[j]
        /\ c[n+1] = last
    <3>1. n + 1 \in n+1..n+1 /\ (n + 1) - n = 1
      OBVIOUS
    <3>. QED BY <2>1, <2>2, <2>3, <3>1 DEF Joined, e
  <2>5. n + 1 \in Nat /\ n + 1 \in n..n+1
    OBVIOUS
  <2>6. c \in Seq(ByteRange) /\ Len(c) = n + 1
    BY <2>4, <2>5, FunctionIsSequence
  <2>7. n + 1 # n
    OBVIOUS
  <2>. QED BY <1>5, <1>9, <2>4, <2>5, <2>6, <2>7, Zenon DEF last, carry, c
<1>. QED BY <1>8, <1>9

IsBytes(b, n) == b \in [1..n -> ByteRange]

\* One more digit of base 58: the value is times 58, and the digit.
LEMMA TimesValue ==
  ASSUME NEW n \in Nat, NEW bytes, IsBytes(bytes, n), NEW d \in 0..57, Normal(bytes, n)
  PROVE  LET c == TimesFiftyEight(bytes, d)
         IN  /\ c \in Seq(ByteRange)
             /\ Normal(c, Len(c))
             /\ LowValue(c, Len(c)) = 58 * LowValue(bytes, n) + d
<1>. DEFINE c == TimesFiftyEight(bytes, d)
            carry == Carry(bytes, d)
<1>1. PICK m \in n..n+1 :
        /\ c \in [1..m -> ByteRange] /\ c \in Seq(ByteRange) /\ Len(c) = m
        /\ \A j \in 1..n : c[j] = ByteOut(bytes[j], carry[j])
        /\ m = n => carry[n+1] = 0
        /\ m = n + 1 => c[n+1] = carry[n+1] /\ carry[n+1] # 0
  BY TimesShape, Zenon DEF IsBytes
<1>2. IsCarry(carry, bytes, d, n)
  BY CarryFacts, Zenon DEF IsBytes
<1>. HIDE DEF c, carry
<1>11. ASSUME NEW j \in 1..n+1 PROVE carry[j] \in 0..57 /\ carry[j] \in Int
  <2>1. carry[j] \in 0..57
    BY <1>2, Zenon DEF IsCarry
  <2>2. \A i \in 0..57 : i \in Int
    OBVIOUS
  <2>. QED BY <2>1, <2>2, Zenon
<1>12. n + 1 \in 1..n+1
  OBVIOUS
<1>3. m \in Nat /\ c \in [1..m -> Int] /\ bytes \in [1..n -> Int]
  <2>1. ByteRange \subseteq Int
    BY DEF ByteRange
  <2>2. m \in Nat
    OBVIOUS
  <2>3. c \in [1..m -> ByteRange]
    BY <1>1, Zenon
  <2>4. bytes \in [1..n -> ByteRange]
    BY DEF IsBytes
  <2>. QED BY <2>1, <2>2, <2>3, <2>4
<1>4. PICK f : IsFrom(f, bytes, n) /\ f[1] = LowValue(bytes, n)
  BY <1>3, FromExists, Zenon
<1>5. PICK g : IsFrom(g, c, m) /\ g[1] = LowValue(c, m)
  BY <1>3, FromExists, Zenon
<1>6. g[n+1] = 58 * f[n+1] + carry[n+1]
  <2>1. g[n+1] = carry[n+1]
    <3>1. CASE m = n
      BY <1>1, <1>5, <3>1 DEF IsFrom
    <3>2. CASE m = n + 1
      <4>1. n + 1 \in 1..m /\ g[(n+1)+1] = 0
        BY <1>5, <3>2 DEF IsFrom
      <4>2. g[n+1] = c[n+1] + 256 * g[(n+1)+1]
        BY <1>5, <4>1 DEF IsFrom
      <4>3. c[n+1] = carry[n+1]
        BY <1>1, <3>2, Zenon
      <4>4. carry[n+1] \in Int
        BY <1>11, <1>12, Zenon
      <4>. QED BY <4>1, <4>2, <4>3, <4>4
    <3>. QED BY <3>1, <3>2
  <2>2. f[n+1] = 0
    BY <1>4, Zenon DEF IsFrom
  <2>3. carry[n+1] \in Int
    BY <1>11, <1>12, Zenon
  <2>. QED BY <2>1, <2>2, <2>3
<1>7. ASSUME NEW j \in 1..n, g[j+1] = 58 * f[j+1] + carry[j+1] PROVE g[j] = 58 * f[j] + carry[j]
  <2>1. j \in 1..m /\ j + 1 \in 1..n+1 /\ j \in 1..n+1
    OBVIOUS
  <2>2. g[j] = c[j] + 256 * g[j+1] /\ f[j] = bytes[j] + 256 * f[j+1]
    BY <1>4, <1>5, <2>1, ZenonT(60) DEF IsFrom
  <2>3. bytes[j] \in ByteRange /\ carry[j] \in 0..57 /\ carry[j] \in Int /\ carry[j+1] \in Int
    BY <1>11, <2>1, Zenon DEF IsBytes
  <2>4. carry[j+1] = CarryOut(bytes[j], carry[j]) /\ c[j] = ByteOut(bytes[j], carry[j])
    BY <1>1, <1>2, Zenon DEF IsCarry
  <2>5. 58 * bytes[j] + carry[j] = 256 * carry[j+1] + c[j]
    <3>1. 58 * bytes[j] + carry[j] = 256 * CarryOut(bytes[j], carry[j]) + ByteOut(bytes[j], carry[j])
      BY <2>3, CarryBounds, ZenonT(60)
    <3>. QED BY <2>4, <3>1, Zenon
  <2>6. f[j+1] \in Int /\ bytes[j] \in Int /\ c[j] \in Int
    BY <1>3, <1>4, <2>1, ZenonT(60) DEF IsFrom
  <2>. QED BY <1>7, <2>2, <2>3, <2>5, <2>6
<1>. DEFINE T == {j \in 0..n : g[j+1] = 58 * f[j+1] + carry[j+1]}
<1>8. 0 \in T
  <2>1. n \in T
    BY <1>6
  <2>2. ASSUME NEW j \in 0..n-1, j + 1 \in T PROVE j \in T
    <3>1. j + 1 \in 1..n
      OBVIOUS
    <3>. QED BY <1>7, <2>2, <3>1
  <2>3. 0 \in 0..n
    OBVIOUS
  <2>4. \A j \in 0..n : j \in T
    <3>. HIDE DEF T
    <3>. QED BY <2>1, <2>2, DownFrom
  <2>. QED BY <2>3, <2>4
<1>9. LowValue(c, m) = 58 * LowValue(bytes, n) + d
  <2>1. g[0+1] = 58 * f[0+1] + carry[0+1]
    BY <1>8
  <2>2. carry[1] = d
    BY <1>2 DEF IsCarry
  <2>. QED BY <1>4, <1>5, <2>1, <2>2
<1>10. Normal(c, m)
  <2>1. CASE m = n + 1
    BY <1>1, <2>1, Zenon DEF Normal
  <2>2. CASE m = n /\ n # 0
    <3>1. n \in 1..n /\ n \in 1..n+1
      BY <2>2
    <3>2. bytes[n] \in ByteRange /\ bytes[n] # 0 /\ carry[n] \in 0..57
      BY <1>11, <2>2, <3>1, Zenon DEF Normal, IsBytes
    <3>3. CarryOut(bytes[n], carry[n]) = 0 /\ c[n] = ByteOut(bytes[n], carry[n])
      BY <1>1, <1>2, <2>2, <3>1, Zenon DEF IsCarry
    <3>4. c[n] # 0
      BY <3>2, <3>3, CarryBounds, ZenonT(60)
    <3>. QED BY <2>2, <3>4 DEF Normal
  <2>3. CASE m = 0
    BY <2>3 DEF Normal
  <2>4. m = n + 1 \/ m = n
    OBVIOUS
  <2>. QED BY <2>1, <2>2, <2>3, <2>4
<1>. QED BY <1>1, <1>9, <1>10, Zenon DEF c

-------------------------------------------------------------------------------
(* Division by 58, high byte first                                         *)

RestOf(x, r)     == (256 * r + x) % 58
QuotientOf(x, r) == (256 * r + x) \div 58

LEMMA DivisionBounds ==
  ASSUME NEW x \in ByteRange, NEW r \in 0..57
  PROVE  /\ RestOf(x, r) \in 0..57
         /\ QuotientOf(x, r) \in ByteRange
         /\ 256 * r + x = 58 * QuotientOf(x, r) + RestOf(x, r)
         /\ r = 0 => QuotientOf(x, r) <= 4
         /\ r = 0 /\ x <= 4 => QuotientOf(x, r) = 0
         /\ r = 0 /\ x = 0 => RestOf(x, r) = 0
<1>1. x \in 0..255
  BY DEF ByteRange
<1>. QED BY <1>1 DEF ByteRange, RestOf, QuotientOf

IsRest(f, s, n) == f \in [0..n -> 0..57] /\ f[0] = 0 /\ \A i \in 1..n : f[i] = RestOf(s[i], f[i-1])

LEMMA RestFacts ==
  ASSUME NEW n \in Nat, NEW s \in [1..n -> ByteRange]
  PROVE  IsRest(Rest(s), s, n)
<1>. DEFINE next == [i \in 1..n |-> [r \in 0..57 |-> RestOf(s[i], r)]]
            at(v, i) == IF i = 0 THEN 0 ELSE RestOf(s[i], v[i-1])
            Body(v) == [i \in 0..n |-> at(v, i)]
            rest == CHOOSE v : v = Body(v)
<1>0. Len(s) = n
  BY FunctionIsSequence
<1>1. Rest(s) = rest
  BY <1>0 DEF Rest, RestOf
<1>2. next \in [1..n -> [0..57 -> 0..57]] /\ \A i \in 1..n, r \in 0..57 : next[i][r] = RestOf(s[i], r)
  <2>1. \A i \in 1..n, r \in 0..57 : RestOf(s[i], r) \in 0..57
    BY DivisionBounds
  <2>. QED BY <2>1
<1>. HIDE DEF next
<1>3. PICK g : Follows(g, n, 0..57, 0, next)
  <2>1. 0 \in 0..57
    OBVIOUS
  <2>. QED BY <1>2, <2>1, UpwardFunction, Zenon
<1>4. IsRest(g, s, n)
  <2>1. g \in [0..n -> 0..57] /\ g[0] = 0
    BY <1>3, Zenon DEF Follows
  <2>2. ASSUME NEW i \in 1..n PROVE g[i] = RestOf(s[i], g[i-1])
    <3>1. i - 1 \in 0..n
      OBVIOUS
    <3>2. g[i-1] \in 0..57 /\ g[i] = next[i][g[i-1]]
      BY <1>3, <2>1, <3>1, Zenon DEF Follows
    <3>. QED BY <1>2, <3>2, Zenon
  <2>. QED BY <2>1, <2>2, Zenon DEF IsRest
<1>5. g = Body(g)
  <2>1. ASSUME NEW i \in 0..n PROVE g[i] = at(g, i)
    <3>1. CASE i = 0
      BY <1>4, <3>1, Zenon DEF IsRest
    <3>2. CASE i \in 1..n
      <4>1. i # 0
        BY <3>2
      <4>. QED BY <1>4, <3>2, <4>1, Zenon DEF IsRest
    <3>. QED BY <3>1, <3>2
  <2>2. g = [i \in 0..n |-> g[i]]
    BY <1>4, Zenon DEF IsRest
  <2>. HIDE DEF at
  <2>. QED BY <2>1, <2>2
<1>6. rest = Body(rest)
  <2>. HIDE DEF Body
  <2>. QED BY <1>5
<1>7. rest = g
  <2>. DEFINE T == {i \in 0..n : rest[i] = g[i]}
  <2>. HIDE DEF rest
  <2>1. rest[0] = 0 /\ \A i \in 1..n : rest[i] = RestOf(s[i], rest[i-1])
    <3>1. \A i \in 0..n : rest[i] = at(rest, i)
      <4>. HIDE DEF at
      <4>. QED BY <1>6, Zenon
    <3>2. 0 \in 0..n /\ \A i \in 1..n : i \in 0..n /\ i # 0
      OBVIOUS
    <3>. QED BY <3>1, <3>2, Zenon
  <2>2. 0 \in T
    BY <1>4, <2>1 DEF IsRest
  <2>3. ASSUME NEW i \in 0..n-1, i \in T PROVE i + 1 \in T
    <3>1. i + 1 \in 1..n /\ (i + 1) - 1 = i /\ i + 1 \in 0..n
      OBVIOUS
    <3>2. rest[i+1] = RestOf(s[i+1], rest[i]) /\ g[i+1] = RestOf(s[i+1], g[i])
      BY <1>4, <2>1, <3>1, Zenon DEF IsRest
    <3>. QED BY <2>3, <3>1, <3>2, Zenon
  <2>4. \A i \in 0..n : i \in T
    <3>. HIDE DEF T
    <3>. QED BY <2>2, <2>3, UpTo
  <2>5. \A i \in 0..n : rest[i] = g[i]
    BY <2>4
  <2>6. rest = [i \in 0..n |-> rest[i]] /\ g = [i \in 0..n |-> g[i]]
    BY <1>4, <1>6, Zenon DEF IsRest
  <2>. QED BY <2>5, <2>6, Zenon
<1>. QED BY <1>1, <1>4, <1>7, Zenon

Value256(s, n) == Horner(256, 0, s, n)[n]

IsQuotient(q, f, s, n) ==
  q \in [1..n -> ByteRange] /\ \A i \in 1..n : q[i] = QuotientOf(s[i], f[i-1])

LEMMA QuotientFacts ==
  ASSUME NEW n \in Nat, NEW s \in [1..n -> ByteRange]
  PROVE  IsQuotient(Quotient(s), Rest(s), s, n)
<1>0. Len(s) = n
  BY FunctionIsSequence
<1>1. Quotient(s) = [i \in 1..n |-> QuotientOf(s[i], Rest(s)[i-1])]
  BY <1>0 DEF Quotient, QuotientOf
<1>2. IsRest(Rest(s), s, n)
  BY RestFacts
<1>. DEFINE f == Rest(s)
            q == Quotient(s)
<1>3. ASSUME NEW i \in 1..n PROVE QuotientOf(s[i], f[i-1]) \in ByteRange
  <2>1. i - 1 \in 0..n
    OBVIOUS
  <2>2. f[i-1] \in 0..57 /\ s[i] \in ByteRange
    BY <1>2, <2>1, Zenon DEF IsRest
  <2>. QED BY <2>2, DivisionBounds, Zenon
<1>. HIDE DEF f, q
<1>4. q = [i \in 1..n |-> QuotientOf(s[i], f[i-1])]
  BY <1>1 DEF f, q
<1>5. IsQuotient(q, f, s, n)
  BY <1>3, <1>4, Zenon DEF IsQuotient
<1>. QED BY <1>5 DEF f, q

\* A step of the division, with the value before it.
Divided(hs, hq, x, y, r, e) ==
  /\ hs \in Int /\ hq \in Int /\ x \in Int /\ y \in Int /\ r \in Int /\ e \in Int
  /\ hs = 58 * hq + r
  /\ 256 * r + x = 58 * y + e

LEMMA DividedStep ==
  ASSUME NEW hs, NEW hq, NEW x, NEW y, NEW r, NEW e, Divided(hs, hq, x, y, r, e)
  PROVE  256 * hs + x = 58 * (256 * hq + y) + e
BY DEF Divided

LEMMA DivisionValue ==
  ASSUME NEW n \in Nat, NEW s, IsBytes(s, n)
  PROVE  /\ IsBytes(Quotient(s), n) /\ Rest(s)[n] \in 0..57
         /\ Value256(s, n) = 58 * Value256(Quotient(s), n) + Rest(s)[n]
<1>. DEFINE q == Quotient(s)
            f == Rest(s)
            hs == Horner(256, 0, s, n)
            hq == Horner(256, 0, q, n)
<1>1. IsRest(f, s, n) /\ IsQuotient(q, f, s, n)
  BY RestFacts, QuotientFacts, Zenon DEF IsBytes
<1>2. IsBytes(q, n) /\ f[n] \in 0..57
  <2>1. n \in 0..n
    OBVIOUS
  <2>. QED BY <1>1, <2>1, Zenon DEF IsQuotient, IsBytes, IsRest
<1>. HIDE DEF q, f
<1>3. ByteRange \subseteq Int /\ 256 \in Int /\ 0 \in Int
  BY DEF ByteRange
<1>4. s \in [1..n -> Int] /\ q \in [1..n -> Int]
  <2>1. s \in [1..n -> ByteRange] /\ q \in [1..n -> ByteRange]
    BY <1>2 DEF IsBytes
  <2>. QED BY <1>3, <2>1
<1>5. IsHorner(hs, 256, 0, s, n) /\ IsHorner(hq, 256, 0, q, n)
  BY <1>4, HornerFacts
<1>. HIDE DEF hs, hq
<1>6. ASSUME NEW i \in 1..n, hs[i-1] = 58 * hq[i-1] + f[i-1] PROVE hs[i] = 58 * hq[i] + f[i]
  <2>1. i - 1 \in 0..n /\ i \in 0..n
    OBVIOUS
  <2>2. hs[i] = 256 * hs[i-1] + s[i] /\ hq[i] = 256 * hq[i-1] + q[i]
    BY <1>5, ZenonT(60) DEF IsHorner
  <2>3. f[i-1] \in 0..57 /\ f[i] \in 0..57 /\ f[i] = RestOf(s[i], f[i-1]) /\ q[i] = QuotientOf(s[i], f[i-1])
    BY <1>1, <2>1, Zenon DEF IsRest, IsQuotient
  <2>4. s[i] \in ByteRange /\ s[i] \in Int /\ q[i] \in Int
    BY <1>4, Zenon DEF IsBytes
  <2>5. hs[i-1] \in Int /\ hq[i-1] \in Int /\ f[i-1] \in Int /\ f[i] \in Int
    <3>1. hs \in [0..n -> Int] /\ hq \in [0..n -> Int]
      BY <1>5 DEF IsHorner
    <3>2. \A m \in 0..57 : m \in Int
      OBVIOUS
    <3>. QED BY <2>1, <2>3, <3>1, <3>2, Zenon
  <2>6. 256 * f[i-1] + s[i] = 58 * q[i] + f[i]
    <3>1. 256 * f[i-1] + s[i] = 58 * QuotientOf(s[i], f[i-1]) + RestOf(s[i], f[i-1])
      BY <2>3, <2>4, DivisionBounds
    <3>. QED BY <2>3, <3>1
  <2>7. Divided(hs[i-1], hq[i-1], s[i], q[i], f[i-1], f[i])
    BY <1>6, <2>4, <2>5, <2>6 DEF Divided
  <2>8. 256 * hs[i-1] + s[i] = 58 * (256 * hq[i-1] + q[i]) + f[i]
    BY <2>7, DividedStep
  <2>. QED BY <2>2, <2>8
<1>. DEFINE T == {i \in 0..n : hs[i] = 58 * hq[i] + f[i]}
<1>7. 0 \in T
  <2>1. hs[0] = 0 /\ hq[0] = 0 /\ f[0] = 0 /\ 0 \in 0..n
    BY <1>1, <1>5 DEF IsHorner, IsRest
  <2>. QED BY <2>1
<1>8. ASSUME NEW i \in 0..n-1, i \in T PROVE i + 1 \in T
  <2>1. i + 1 \in 1..n /\ (i + 1) - 1 = i /\ i + 1 \in 0..n
    OBVIOUS
  <2>. QED BY <1>6, <1>8, <2>1
<1>9. n \in 0..n
  OBVIOUS
<1>10. n \in T
  <2>. HIDE DEF T
  <2>. QED BY <1>7, <1>8, <1>9, UpTo
<1>11. hs[n] = 58 * hq[n] + f[n]
  BY <1>10
<1>. QED BY <1>2, <1>11 DEF Value256, hs, hq, q, f

\* The first byte goes down to at most 4 with one division, and to 0 with the next; then the second.
Cleared(s, n, j) ==
  \A i \in 1..n : (2*i <= j => s[i] = 0) /\ (2*i = j + 1 => s[i] <= 4)

LEMMA ClearedMore ==
  ASSUME NEW n \in Nat, NEW s, IsBytes(s, n), NEW j \in Nat, Cleared(s, n, j)
  PROVE  Cleared(Quotient(s), n, j + 1)
<1>. DEFINE q == Quotient(s)
            f == Rest(s)
<1>1. IsRest(f, s, n) /\ IsQuotient(q, f, s, n)
  BY RestFacts, QuotientFacts, Zenon DEF IsBytes
<1>. HIDE DEF q, f
<1>2. ASSUME NEW i \in 0..n, \A m \in 1..i : s[m] = 0 PROVE f[i] = 0
  <2>. DEFINE T == {m \in 0..i : f[m] = 0}
  <2>1. 0 \in T
    <3>1. f[0] = 0 /\ 0 \in 0..i
      BY <1>1 DEF IsRest
    <3>. QED BY <3>1
  <2>2. ASSUME NEW m \in 0..i-1, m \in T PROVE m + 1 \in T
    <3>1. m + 1 \in 1..n /\ (m + 1) - 1 = m /\ m + 1 \in 1..i /\ m + 1 \in 0..i
      OBVIOUS
    <3>2. f[m+1] = RestOf(s[m+1], f[m]) /\ s[m+1] \in ByteRange /\ s[m+1] = 0 /\ f[m] = 0
      BY <1>1, <1>2, <2>2, <3>1, Zenon DEF IsRest, IsBytes
    <3>3. f[m+1] = 0
      <4>1. 0 \in 0..57
        OBVIOUS
      <4>. QED BY <3>2, <4>1, DivisionBounds, ZenonT(60)
    <3>. QED BY <3>1, <3>3
  <2>3. i \in 0..i
    OBVIOUS
  <2>4. i \in T
    <3>. HIDE DEF T
    <3>. QED BY <2>1, <2>2, <2>3, UpTo
  <2>. QED BY <2>4
<1>3. ASSUME NEW i \in 1..n, 2*i <= j + 2
      PROVE  f[i-1] = 0 /\ s[i] \in ByteRange /\ q[i] = QuotientOf(s[i], 0)
  <2>1. i - 1 \in 0..n /\ \A m \in 1..i-1 : m \in 1..n /\ 2*m <= j
    BY <1>3
  <2>2. \A m \in 1..i-1 : s[m] = 0
    BY <2>1 DEF Cleared
  <2>3. f[i-1] = 0
    BY <1>2, <2>1, <2>2
  <2>. QED BY <1>1, <2>3, Zenon DEF IsQuotient, IsBytes
<1>4. 0 \in 0..57
  OBVIOUS
<1>5. ASSUME NEW i \in 1..n, 2*i <= j + 1 PROVE q[i] = 0
  <2>1. s[i] <= 4
    BY <1>5 DEF Cleared
  <2>2. s[i] \in ByteRange /\ q[i] = QuotientOf(s[i], 0)
    BY <1>3, <1>5
  <2>. QED BY <1>4, <2>1, <2>2, DivisionBounds, Zenon
<1>6. ASSUME NEW i \in 1..n, 2*i = j + 2 PROVE q[i] <= 4
  <2>1. s[i] \in ByteRange /\ q[i] = QuotientOf(s[i], 0)
    BY <1>3, <1>6
  <2>. QED BY <1>4, <2>1, DivisionBounds, ZenonT(60)
<1>7. Cleared(q, n, j + 1)
  BY <1>5, <1>6 DEF Cleared
<1>. QED BY <1>7 DEF q

-------------------------------------------------------------------------------
(* The digits taken off                                                    *)

LEMMA BytesAreNumbers ==
  ASSUME NEW n \in Nat, NEW s, IsBytes(s, n)
  PROVE  s \in [1..n -> Nat] /\ s \in [1..n -> Int] /\ s \in [1..n -> 0..256-1]
<1>1. ByteRange \subseteq Nat /\ ByteRange \subseteq Int /\ ByteRange = 0..256-1
  BY DEF ByteRange
<1>2. s \in [1..n -> ByteRange]
  BY DEF IsBytes
<1>. QED BY <1>1, <1>2, ZenonT(60)

LEMMA ByteStringFacts ==
  ASSUME NEW n \in Nat, NEW s, IsBytes(s, n)
  PROVE  /\ Len(s) = n /\ s \in Seq(ByteRange)
         /\ IsZero(s) <=> \A i \in 1..n : s[i] = 0
<1>1. s \in [1..n -> ByteRange]
  BY DEF IsBytes
<1>2. Len(s) = n /\ s \in Seq(ByteRange)
  BY <1>1, FunctionIsSequence
<1>3. DOMAIN s = 1..n
  BY <1>1
<1>4. IsZero(s) <=> \A i \in 1..n : s[i] = 0
  BY <1>3, Zenon DEF IsZero
<1>. QED BY <1>2, <1>4

LEMMA ValueFacts ==
  ASSUME NEW n \in Nat, NEW s, IsBytes(s, n)
  PROVE  Value256(s, n) \in Nat /\ (Value256(s, n) = 0 <=> IsZero(s))
<1>1. PICK z : Leads(s, n, z)
  BY LeadsExists
<1>2. s \in [1..n -> Nat] /\ (IsZero(s) <=> \A i \in 1..n : s[i] = 0)
  BY ByteStringFacts, BytesAreNumbers
<1>3. 256 \in Nat /\ 256 > 1 /\ n \in 0..n
  OBVIOUS
<1>4. ZeroUpTo(Horner(256, 0, s, n), n, z)
  BY <1>1, <1>2, <1>3, HornerZero
<1>5. Value256(s, n) \in Nat /\ (Value256(s, n) = 0 <=> n <= z)
  BY <1>3, <1>4 DEF Value256, ZeroUpTo
<1>6. n <= z <=> \A i \in 1..n : s[i] = 0
  BY <1>1 DEF Leads
<1>. QED BY <1>2, <1>5, <1>6

Digits == 0..57

Value58(c, D) == Horner(58, c, D, Len(D))[Len(D)]

\* A digit put in front is the next one after what was there before.
LEMMA DigitInFront ==
  ASSUME NEW c \in Int, NEW r \in Digits, NEW D \in Seq(Digits)
  PROVE  /\ <<r>> \o D \in Seq(Digits) /\ <<r>> \o D # <<>> /\ (<<r>> \o D)[1] = r
         /\ Value58(c, <<r>> \o D) = Value58(58 * c + r, D)
<1>. DEFINE n == Len(D)
            e == <<r>>
            s == e \o D
            h == Horner(58, c, s, 1 + n)
<1>1. n \in Nat /\ D \in [1..n -> Digits]
  BY LenProperties
<1>2. e \in [1..1 -> Digits] /\ e[1] = r /\ e \in Seq(Digits) /\ 1 \in Nat
  OBVIOUS
<1>. HIDE DEF n, e
<1>3. Joined(s, Digits, e, 1, D, n)
  BY <1>1, <1>2, Concatenation, Zenon
<1>. HIDE DEF s
<1>4. /\ s \in [1..1+n -> Digits] /\ s[1] = r
      /\ \A k \in 1..n : s[1+k] = D[k]
  <2>1. s \in [1..1+n -> Digits]
    BY <1>3, Zenon DEF Joined
  <2>2. s[1] = r
    <3>1. 1 \in 1..1
      OBVIOUS
    <3>. QED BY <1>2, <1>3, <3>1, Zenon DEF Joined
  <2>3. ASSUME NEW k \in 1..n PROVE s[1+k] = D[k]
    <3>1. 1 + k \in 1+1..1+n /\ (1 + k) - 1 = k
      BY <1>1
    <3>2. s[1+k] = D[(1+k)-1]
      BY <1>3, <3>1, Zenon DEF Joined
    <3>. QED BY <3>1, <3>2, Zenon
  <2>. QED BY <2>1, <2>2, <2>3
<1>5. 1 + n \in Nat /\ s \in Seq(Digits) /\ Len(s) = 1 + n
  <2>1. 1 + n \in Nat
    BY <1>1
  <2>. QED BY <1>4, <2>1, FunctionIsSequence, Zenon
<1>6. s \in [1..1+n -> Int] /\ D \in [1..n -> Int] /\ 58 \in Int
  <2>1. Digits \subseteq Int /\ 58 \in Int
    BY DEF Digits
  <2>2. s \in [1..1+n -> Digits] /\ D \in [1..n -> Digits]
    BY <1>1, <1>4, Zenon
  <2>. QED BY <2>1, <2>2
<1>7. IsHorner(h, 58, c, s, 1 + n)
  BY <1>5, <1>6, HornerFacts
<1>8. \A k \in 0..n : h[1+k] = Horner(58, h[1], D, n)[k]
  <2>1. n \in Nat /\ c \in Int
    BY <1>1
  <2>2. Continued(58, c, 1, s, n, D)
    BY <1>2, <1>4, <1>6, <2>1, Zenon DEF Continued
  <2>3. GoesOn(h, 58, 1, n, D)
    BY <2>2, HornerContinues, Zenon
  <2>. QED BY <2>3, Zenon DEF GoesOn
<1>. HIDE DEF h
<1>9. h[1] = 58 * c + r
  <2>1. 1 \in 1..1+n /\ 1 - 1 = 0
    BY <1>1
  <2>2. h[1] = 58 * h[1-1] + s[1] /\ h[0] = c
    BY <1>7, <2>1 DEF IsHorner
  <2>. QED BY <1>4, <2>1, <2>2
<1>10. h[1+n] = Horner(58, 58 * c + r, D, n)[n]
  <2>1. n \in 0..n
    BY <1>1
  <2>. QED BY <1>8, <1>9, <2>1
<1>11. Value58(c, s) = h[1+n]
  BY <1>5 DEF Value58, h
<1>12. Value58(58 * c + r, D) = Horner(58, 58 * c + r, D, n)[n]
  BY DEF Value58, n
<1>13. s # <<>>
  BY <1>1, <1>5, EmptySeq
<1>. QED BY <1>4, <1>5, <1>10, <1>11, <1>12, <1>13 DEF s, e

\* One digit is taken off at the low end, if anything is left.
Taken(st) ==
  IF IsZero(st.left) THEN st
  ELSE [left   |-> Quotient(st.left),
        digits |-> <<Rest(st.left)[Len(st.left)]>> \o st.digits]

\* After j steps: what is left and the digits have the value there was.
TakenInv(st, v, n, j) ==
  /\ IsBytes(st.left, n) /\ st.digits \in Seq(Digits)
  /\ Cleared(st.left, n, j)
  /\ Value58(Value256(st.left, n), st.digits) = v
  /\ IsZero(st.left) /\ st.digits # <<>> => st.digits[1] # 0

LEMMA TakenStep ==
  ASSUME NEW n \in Nat, NEW st, NEW v, NEW j \in Nat, TakenInv(st, v, n, j)
  PROVE  TakenInv(Taken(st), v, n, j + 1)
<1>1. CASE IsZero(st.left)
  <2>1. Taken(st) = st
    BY <1>1 DEF Taken
  <2>2. \A i \in 1..n : st.left[i] = 0
    <3>1. IsBytes(st.left, n)
      BY DEF TakenInv
    <3>. QED BY <1>1, <3>1, ByteStringFacts, Zenon
  <2>3. Cleared(st.left, n, j + 1)
    BY <2>2 DEF Cleared
  <2>. QED BY <2>1, <2>3, Zenon DEF TakenInv
<1>2. CASE ~IsZero(st.left)
  <2>. DEFINE s == st.left
              D == st.digits
              q == Quotient(s)
              r == Rest(s)[n]
              E == <<r>> \o D
  <2>1. IsBytes(s, n) /\ D \in Seq(Digits) /\ Cleared(s, n, j) /\ Value58(Value256(s, n), D) = v
    BY DEF TakenInv
  <2>2. Len(s) = n
    BY <2>1, ByteStringFacts, Zenon
  <2>3. Taken(st) = [left |-> q, digits |-> E]
    BY <1>2, <2>2, Zenon DEF Taken
  <2>4. /\ IsBytes(q, n) /\ r \in 0..57
        /\ Value256(s, n) = 58 * Value256(q, n) + r
    BY <2>1, DivisionValue
  <2>5. Cleared(q, n, j + 1)
    BY <2>1, ClearedMore, Zenon
  <2>6. ~IsZero(s)
    BY <1>2
  <2>. HIDE DEF s, D, q, r
  <2>7. r \in Digits /\ Value256(q, n) \in Int /\ Value256(s, n) # 0 /\ (Value256(q, n) = 0 <=> IsZero(q))
    <3>1. /\ Value256(q, n) \in Nat /\ (Value256(q, n) = 0 <=> IsZero(q))
          /\ (Value256(s, n) = 0 <=> IsZero(s))
      BY <2>1, <2>4, ValueFacts, Zenon
    <3>. QED BY <2>4, <2>6, <3>1 DEF Digits
  <2>8. /\ E \in Seq(Digits) /\ E # <<>> /\ E[1] = r
        /\ Value58(Value256(q, n), E) = Value58(58 * Value256(q, n) + r, D)
    BY <2>1, <2>7, DigitInFront
  <2>. HIDE DEF E
  <2>9. Value58(Value256(q, n), E) = v
    BY <2>1, <2>4, <2>8
  <2>10. IsZero(q) => E[1] # 0
    BY <2>4, <2>7, <2>8
  <2>11. Taken(st).left = q /\ Taken(st).digits = E
    BY <2>3
  <2>. QED BY <2>4, <2>5, <2>8, <2>9, <2>10, <2>11, Zenon DEF TakenInv
<1>. QED BY <1>1, <1>2

TakenState(n) == [left : [1..n -> ByteRange], digits : Seq(Digits)]

LEMMA TakenTyped ==
  ASSUME NEW n \in Nat, NEW st \in TakenState(n)
  PROVE  Taken(st) \in TakenState(n)
<1>1. CASE IsZero(st.left)
  BY <1>1 DEF Taken
<1>2. CASE ~IsZero(st.left)
  <2>1. IsBytes(st.left, n) /\ st.digits \in Seq(Digits)
    BY DEF TakenState, IsBytes
  <2>2. Len(st.left) = n
    BY <2>1, ByteStringFacts, Zenon
  <2>3. Quotient(st.left) \in [1..n -> ByteRange] /\ Rest(st.left)[n] \in Digits
    BY <2>1, DivisionValue DEF IsBytes, Digits
  <2>4. <<Rest(st.left)[n]>> \o st.digits \in Seq(Digits)
    <3>1. 0 \in Int
      OBVIOUS
    <3>. QED BY <2>1, <2>3, <3>1, DigitInFront, Zenon
  <2>5. Taken(st) = [left |-> Quotient(st.left), digits |-> <<Rest(st.left)[n]>> \o st.digits]
    BY <1>2, <2>2, Zenon DEF Taken
  <2>. DEFINE q == Quotient(st.left)
              E == <<Rest(st.left)[n]>> \o st.digits
  <2>. HIDE DEF q, E
  <2>6. [left |-> q, digits |-> E] \in TakenState(n)
    BY <2>3, <2>4 DEF q, E, TakenState
  <2>. QED BY <2>5, <2>6 DEF q, E
<1>. QED BY <1>1, <1>2

LEMMA TakenStarts ==
  ASSUME NEW n \in Nat, NEW s, IsBytes(s, n)
  PROVE  LET st == [left |-> s, digits |-> <<>>]
         IN  st \in TakenState(n) /\ TakenInv(st, Value256(s, n), n, 0)
<1>. DEFINE st == [left |-> s, digits |-> <<>>]
            c == Value256(s, n)
<1>1. st.left = s /\ st.digits = <<>> /\ <<>> \in Seq(Digits) /\ Len(<<>>) = 0
  OBVIOUS
<1>2. st \in TakenState(n)
  BY <1>1 DEF TakenState, IsBytes
<1>3. Cleared(s, n, 0)
  BY DEF Cleared
<1>4. c \in Int
  BY ValueFacts
<1>. HIDE DEF c
<1>5. Value58(c, <<>>) = c
  <2>1. <<>> \in [1..0 -> Int] /\ 0 \in Nat /\ 58 \in Int
    OBVIOUS
  <2>2. IsHorner(Horner(58, c, <<>>, 0), 58, c, <<>>, 0)
    BY <1>4, <2>1, HornerFacts
  <2>3. Horner(58, c, <<>>, 0)[0] = c
    BY <2>2 DEF IsHorner
  <2>. QED BY <1>1, <2>3 DEF Value58
<1>. HIDE DEF st
<1>6. TakenInv(st, c, n, 0)
  BY <1>1, <1>3, <1>5, Zenon DEF TakenInv, c
<1>. QED BY <1>2, <1>6 DEF st, c

\* The digits have the value of the bytes, and no zero in front.
LEMMA Base58Facts ==
  ASSUME NEW n \in Nat, NEW s, IsBytes(s, n)
  PROVE  LET D == Base58Digits(s)
         IN  /\ D \in Seq(Digits)
             /\ Value58(0, D) = Value256(s, n)
             /\ D # <<>> => D[1] # 0
<1>. DEFINE N == 2 * n
            S == TakenState(n)
            first == [left |-> s, digits |-> <<>>]
            at(v, m) == IF m = 0 THEN first ELSE Taken(v[m-1])
            Body(v) == [m \in 0..N |-> at(v, m)]
            taken == CHOOSE v : v = Body(v)
            next == [m \in 1..N |-> [st \in S |-> Taken(st)]]
<1>0. Len(s) = n
  BY ByteStringFacts, Zenon
<1>1. Base58Digits(s) = taken[N].digits
  BY <1>0, Zenon DEF Base58Digits, Taken
<1>2. next \in [1..N -> [S -> S]] /\ \A m \in 1..N, st \in S : next[m][st] = Taken(st)
  <2>1. \A st \in S : Taken(st) \in S
    BY TakenTyped
  <2>. HIDE DEF S
  <2>. QED BY <2>1
<1>3. first \in S /\ TakenInv(first, Value256(s, n), n, 0) /\ N \in Nat
  <2>1. first \in S /\ TakenInv(first, Value256(s, n), n, 0)
    BY TakenStarts, Zenon
  <2>. QED BY <2>1
<1>. HIDE DEF next, S, first
<1>4. PICK g : Follows(g, N, S, first, next)
  <2>. HIDE DEF N
  <2>. QED BY <1>2, <1>3, UpwardFunction, Zenon
<1>5. g \in [0..N -> S] /\ g[0] = first /\ \A m \in 1..N : g[m] = Taken(g[m-1])
  <2>1. g \in [0..N -> S] /\ g[0] = first
    BY <1>4, Zenon DEF Follows
  <2>2. ASSUME NEW m \in 1..N PROVE g[m] = Taken(g[m-1])
    <3>1. m - 1 \in 0..N
      OBVIOUS
    <3>2. g[m-1] \in S /\ g[m] = next[m][g[m-1]]
      BY <1>4, <2>1, <3>1, Zenon DEF Follows
    <3>. QED BY <1>2, <3>2, Zenon
  <2>. QED BY <2>1, <2>2
<1>6. g = Body(g)
  <2>1. ASSUME NEW m \in 0..N PROVE g[m] = at(g, m)
    <3>1. CASE m = 0
      BY <1>5, <3>1, Zenon
    <3>2. CASE m \in 1..N
      <4>1. m # 0
        BY <3>2
      <4>. QED BY <1>5, <3>2, <4>1, Zenon
    <3>. QED BY <3>1, <3>2
  <2>2. g = [m \in 0..N |-> g[m]]
    BY <1>5, Zenon
  <2>. HIDE DEF at, N
  <2>. QED BY <2>1, <2>2, Zenon
<1>7. taken = Body(taken)
  <2>. HIDE DEF Body
  <2>. QED BY <1>6
<1>. HIDE DEF taken
<1>8. /\ taken[0] = first
      /\ \A m \in 1..N : taken[m] = Taken(taken[m-1])
  <2>1. \A m \in 0..N : taken[m] = at(taken, m)
    <3>. HIDE DEF at, N
    <3>. QED BY <1>7, Zenon
  <2>2. 0 \in 0..N /\ \A m \in 1..N : m \in 0..N /\ m # 0
    BY <1>3
  <2>. QED BY <2>1, <2>2, Zenon
<1>9. TakenInv(taken[N], Value256(s, n), n, N)
  <2>. DEFINE v == Value256(s, n)
              T == {m \in 0..N : TakenInv(taken[m], v, n, m)}
  <2>. HIDE DEF v
  <2>1. 0 \in T
    BY <1>3, <1>8 DEF v
  <2>2. ASSUME NEW m \in 0..N-1, m \in T PROVE m + 1 \in T
    <3>1. m + 1 \in 1..N /\ (m + 1) - 1 = m /\ m + 1 \in 0..N /\ m \in Nat
      OBVIOUS
    <3>2. taken[m+1] = Taken(taken[m])
      BY <1>8, <3>1, Zenon
    <3>3. TakenInv(taken[m+1], v, n, m + 1)
      BY <2>2, <3>1, <3>2, TakenStep
    <3>. QED BY <3>1, <3>3
  <2>3. N \in 0..N
    BY <1>3
  <2>4. N \in T
    <3>. HIDE DEF T, N
    <3>. QED BY <1>3, <2>1, <2>2, <2>3, UpTo
  <2>. QED BY <2>4 DEF v
<1>. DEFINE left == taken[N].left
            D == taken[N].digits
<1>10. IsBytes(left, n) /\ Cleared(left, n, N) /\ D \in Seq(Digits)
       /\ Value58(Value256(left, n), D) = Value256(s, n) /\ (IsZero(left) /\ D # <<>> => D[1] # 0)
  <2>. HIDE DEF N
  <2>. QED BY <1>9, Zenon DEF TakenInv
<1>. HIDE DEF left, D
<1>11. IsZero(left)
  <2>1. \A i \in 1..n : left[i] = 0
    BY <1>10 DEF Cleared
  <2>. QED BY <1>10, <2>1, ByteStringFacts, Zenon
<1>12. Value256(left, n) = 0
  BY <1>10, <1>11, ValueFacts
<1>. QED BY <1>1, <1>10, <1>11, <1>12 DEF D

-------------------------------------------------------------------------------
(* The address of a hash                                                   *)

LEMMA ByteOfAny ==
  ASSUME NEW x, NEW k
  PROVE  Byte(x, k) \in ByteRange
<1>. DEFINE bit(i) == IF 24 - 8*k + i \in x THEN 1 ELSE 0
<1>1. bit(0) \in 0..1 /\ bit(1) \in 0..1 /\ bit(2) \in 0..1 /\ bit(3) \in 0..1
      /\ bit(4) \in 0..1 /\ bit(5) \in 0..1 /\ bit(6) \in 0..1 /\ bit(7) \in 0..1
  OBVIOUS
<1>2. Byte(x, k) = bit(0) + 2 * bit(1) + 4 * bit(2) + 8 * bit(3) + 16 * bit(4) + 32 * bit(5) + 64 * bit(6)
            + 128 * bit(7)
  BY DEF Byte
<1>. HIDE DEF bit
<1>. QED BY <1>1, <1>2 DEF ByteRange

LEMMA DigestBytes ==
  ASSUME NEW data
  PROVE  Digest(data) \in Seq(ByteRange) /\ Len(Digest(data)) = 32
<1>. DEFINE h == Sha256Words(data)
<1>1. ASSUME NEW x PROVE Bytes(x) \in Seq(ByteRange) /\ Len(Bytes(x)) = 4
  <2>1. Byte(x, 0) \in ByteRange /\ Byte(x, 1) \in ByteRange /\ Byte(x, 2) \in ByteRange /\ Byte(x, 3) \in ByteRange
    BY ByteOfAny
  <2>. QED BY <2>1 DEF Bytes
<1>2. ASSUME NEW s \in Seq(ByteRange), NEW x PROVE s \o Bytes(x) \in Seq(ByteRange) /\ Len(s \o Bytes(x)) = Len(s) + 4
  <2>1. s \o Bytes(x) \in Seq(ByteRange) /\ Len(s \o Bytes(x)) = Len(s) + Len(Bytes(x))
    BY <1>1, ConcatProperties, Zenon
  <2>. QED BY <1>1, <2>1
<1>. DEFINE d1 == Bytes(h[0])
            d2 == d1 \o Bytes(h[1])
            d3 == d2 \o Bytes(h[2])
            d4 == d3 \o Bytes(h[3])
            d5 == d4 \o Bytes(h[4])
            d6 == d5 \o Bytes(h[5])
            d7 == d6 \o Bytes(h[6])
            d8 == d7 \o Bytes(h[7])
<1>3. Digest(data) = d8
  BY DEF Digest
<1>4. d1 \in Seq(ByteRange) /\ Len(d1) = 4
  BY <1>1
<1>. HIDE DEF d1, h
<1>5. d2 \in Seq(ByteRange) /\ Len(d2) = Len(d1) + 4
  BY <1>2, <1>4
<1>. HIDE DEF d2
<1>6. d3 \in Seq(ByteRange) /\ Len(d3) = Len(d2) + 4
  BY <1>2, <1>5
<1>. HIDE DEF d3
<1>7. d4 \in Seq(ByteRange) /\ Len(d4) = Len(d3) + 4
  BY <1>2, <1>6
<1>. HIDE DEF d4
<1>8. d5 \in Seq(ByteRange) /\ Len(d5) = Len(d4) + 4
  BY <1>2, <1>7
<1>. HIDE DEF d5
<1>9. d6 \in Seq(ByteRange) /\ Len(d6) = Len(d5) + 4
  BY <1>2, <1>8
<1>. HIDE DEF d6
<1>10. d7 \in Seq(ByteRange) /\ Len(d7) = Len(d6) + 4
  BY <1>2, <1>9
<1>. HIDE DEF d7
<1>11. d8 \in Seq(ByteRange) /\ Len(d8) = Len(d7) + 4
  BY <1>2, <1>10
<1>. HIDE DEF d8
<1>. QED BY <1>3, <1>4, <1>5, <1>6, <1>7, <1>8, <1>9, <1>10, <1>11

\* p is the n places of s after the first m.
IsPart(p, S, s, m, n) == p \in [1..n -> S] /\ \A i \in 1..n : p[i] = s[m+i]

LEMMA Part ==
  ASSUME NEW S, NEW m \in Nat, NEW n \in Nat, NEW N \in Nat, m + n <= N,
         NEW s, s \in [1..N -> S], NEW j, NEW k, j = m + 1, k = m + n
  PROVE  IsPart(SubSeq(s, j, k), S, s, m, n)
<1>. DEFINE p == SubSeq(s, j, k)
<1>1. j \in Int /\ k \in Int /\ \A i \in j..k : i \in 1..N
  OBVIOUS
<1>2. \A i \in j..k : s[i] \in S
  BY <1>1, Zenon
<1>3. p \in Seq(S) /\ Len(p) = (IF j <= k THEN k-j+1 ELSE 0) /\ \A i \in 1..k-j+1 : p[i] = s[j+i-1]
  <2>1. ASSUME NEW u \in Int, NEW l \in Int, \A i \in u..l : s[i] \in S
        PROVE  SubSeq(s, u, l) \in Seq(S) /\ Len(SubSeq(s, u, l)) = (IF u <= l THEN l-u+1 ELSE 0)
               /\ \A i \in 1..l-u+1 : SubSeq(s, u, l)[i] = s[u+i-1]
    BY <2>1, SubSeqProperties
  <2>. QED BY <1>1, <1>2, <2>1
<1>. HIDE DEF p
<1>4. (IF j <= k THEN k-j+1 ELSE 0) = n
  OBVIOUS
<1>5. p \in [1..n -> S]
  BY <1>3, <1>4, LenProperties, Zenon
<1>6. ASSUME NEW i \in 1..n PROVE p[i] = s[m+i]
  <2>1. i \in 1..k-j+1 /\ j+i-1 = m+i
    OBVIOUS
  <2>. QED BY <1>3, <2>1, Zenon
<1>7. IsPart(p, S, s, m, n)
  BY <1>5, <1>6, Zenon DEF IsPart
<1>. QED BY <1>7 DEF p

\* Two parts that are next to each other, and all there is.
Halves(p, q, S, s, m, n) ==
  /\ m \in Nat /\ n \in Nat /\ s \in [1..m+n -> S]
  /\ IsPart(p, S, s, 0, m) /\ IsPart(q, S, s, m, n)

LEMMA PartsJoined ==
  ASSUME NEW S, NEW m, NEW n, NEW s, NEW p, NEW q, Halves(p, q, S, s, m, n)
  PROVE  p \o q = s
<1>0. /\ m \in Nat /\ n \in Nat /\ s \in [1..m+n -> S]
      /\ IsPart(p, S, s, 0, m) /\ IsPart(q, S, s, m, n)
  BY Zenon DEF Halves
<1>1. p \in [1..m -> S] /\ q \in [1..n -> S] /\ (\A i \in 1..n : q[i] = s[m+i])
  BY <1>0, Zenon DEF IsPart
<1>. DEFINE v == p \o q
<1>2. Joined(v, S, p, m, q, n)
  BY <1>0, <1>1, Concatenation, Zenon
<1>. HIDE DEF v
<1>3. ASSUME NEW i \in 1..m+n PROVE v[i] = s[i]
  <2>1. CASE i \in 1..m
    <3>1. p[i] = s[0+i] /\ 0 + i = i
      BY <1>0, <2>1 DEF IsPart
    <3>2. v[i] = p[i]
      BY <1>2, <2>1, Zenon DEF Joined
    <3>. QED BY <3>1, <3>2, Zenon
  <2>2. CASE i \in m+1..m+n
    <3>1. i - m \in 1..n /\ m + (i - m) = i
      BY <1>0, <2>2
    <3>2. v[i] = q[i-m]
      BY <1>2, <2>2, Zenon DEF Joined
    <3>. QED BY <1>1, <3>1, <3>2, Zenon
  <2>. QED BY <1>0, <2>1, <2>2
<1>4. v = [i \in 1..m+n |-> v[i]] /\ s = [i \in 1..m+n |-> s[i]]
  BY <1>0, <1>2, Zenon DEF Joined
<1>5. v = s
  BY <1>3, <1>4, Zenon
<1>. QED BY <1>5 DEF v

Parted(v, S, m, n, p, q) ==
  v \in [1..m+n -> S] /\ SubSeq(v, 1, m) = p /\ SubSeq(v, m+1, m+n) = q

LEMMA JoinedParts ==
  ASSUME NEW S, NEW m \in Nat, NEW n \in Nat,
         NEW p \in [1..m -> S], NEW q \in [1..n -> S]
  PROVE  Parted(p \o q, S, m, n, p, q)
<1>. DEFINE v == p \o q
            j == m + 1
            k == m + n
<1>1. Joined(v, S, p, m, q, n)
  BY Concatenation, Zenon
<1>. HIDE DEF v
<1>2. v \in [1..k -> S] /\ k \in Nat
  <2>1. k \in Nat /\ k = m + n
    OBVIOUS
  <2>. QED BY <1>1, <2>1, Zenon DEF Joined
<1>3. IsPart(SubSeq(v, 1, m), S, v, 0, m)
  <2>1. 0 + m <= k /\ 1 = 0 + 1 /\ m = 0 + m /\ 0 \in Nat
    OBVIOUS
  <2>. QED BY <1>2, <2>1, Part, Zenon
<1>4. IsPart(SubSeq(v, j, k), S, v, m, n)
  <2>1. m + n <= k
    OBVIOUS
  <2>. QED BY <1>2, <2>1, Part, Zenon
<1>. DEFINE a == SubSeq(v, 1, m)
            b == SubSeq(v, j, k)
<1>. HIDE DEF a, b
<1>5. a = p
  <2>1. ASSUME NEW i \in 1..m PROVE a[i] = p[i]
    <3>1. 0 + i = i
      OBVIOUS
    <3>. QED BY <1>1, <1>3, <3>1, Zenon DEF Joined, IsPart, a
  <2>2. a = [i \in 1..m |-> a[i]] /\ p = [i \in 1..m |-> p[i]]
    BY <1>3, Zenon DEF IsPart, a
  <2>. QED BY <2>1, <2>2, Zenon
<1>6. b = q
  <2>1. ASSUME NEW i \in 1..n PROVE b[i] = q[i]
    <3>1. m + i \in m+1..m+n /\ (m + i) - m = i
      OBVIOUS
    <3>2. b[i] = v[m+i]
      BY <1>4, Zenon DEF IsPart, b
    <3>3. v[m+i] = q[(m+i)-m]
      BY <1>1, <3>1, Zenon DEF Joined
    <3>. QED BY <3>1, <3>2, <3>3, Zenon
  <2>2. b = [i \in 1..n |-> b[i]] /\ q = [i \in 1..n |-> q[i]]
    BY <1>4, Zenon DEF IsPart, b
  <2>. QED BY <2>1, <2>2, Zenon
<1>. QED BY <1>2, <1>5, <1>6, Zenon DEF v, a, b, Parted

\* The four bytes of the checksum.
ChecksumOf(data) == SubSeq(sha256d(data), 1, 4)

LEMMA ChecksumBytes ==
  ASSUME NEW data
  PROVE  ChecksumOf(data) \in [1..4 -> ByteRange]
<1>. DEFINE s == sha256d(data)
<1>1. s \in Seq(ByteRange) /\ Len(s) = 32
  BY DigestBytes DEF sha256d
<1>. HIDE DEF s
<1>2. s \in [1..32 -> ByteRange]
  BY <1>1, LenProperties, Zenon
<1>3. 0 \in Nat /\ 4 \in Nat /\ 32 \in Nat /\ 0 + 4 <= 32 /\ 1 = 0 + 1 /\ 4 = 0 + 4
  OBVIOUS
<1>4. IsPart(SubSeq(s, 1, 4), ByteRange, s, 0, 4)
  BY <1>2, <1>3, Part
<1>. QED BY <1>4 DEF ChecksumOf, s, IsPart

\* Version, hash and checksum.
BytesOf(h) == <<0>> \o h \o ChecksumOf(<<0>> \o h)

LEMMA BytesOfFacts ==
  ASSUME NEW h \in [1..20 -> ByteRange]
  PROVE  /\ IsBytes(BytesOf(h), 25) /\ BytesOf(h)[1] = 0
         /\ SubSeq(BytesOf(h), 1, 21) = <<0>> \o h
         /\ SubSeq(BytesOf(h), 22, 25) = ChecksumOf(<<0>> \o h)
<1>. DEFINE v == <<0>>
            a == v \o h
            c == ChecksumOf(a)
            b == a \o c
<1>1. v \in [1..1 -> ByteRange] /\ v[1] = 0
  BY DEF ByteRange
<1>2. 1 \in Nat /\ 20 \in Nat /\ 21 \in Nat /\ 4 \in Nat /\ 2 = 1 + 1 /\ 21 = 1 + 20 /\ 22 = 21 + 1 /\ 25 = 21 + 4
      /\ 1 \in 1..1 /\ 1 \in 1..21
  OBVIOUS
<1>3. BytesOf(h) = b
  BY DEF BytesOf
<1>. HIDE DEF v
<1>4. a \in [1..21 -> ByteRange] /\ a[1] = 0
  <2>1. Joined(a, ByteRange, v, 1, h, 20)
    BY <1>1, <1>2, Concatenation
  <2>. HIDE DEF a
  <2>2. a \in [1..1+20 -> ByteRange] /\ a[1] = v[1]
    BY <1>2, <2>1 DEF Joined
  <2>. QED BY <1>1, <2>2
<1>. HIDE DEF a
<1>5. c \in [1..4 -> ByteRange]
  BY ChecksumBytes
<1>. HIDE DEF c
<1>6. b \in [1..25 -> ByteRange] /\ SubSeq(b, 1, 21) = a /\ SubSeq(b, 22, 25) = c
  <2>1. Parted(b, ByteRange, 21, 4, a, c)
    BY <1>2, <1>4, <1>5, JoinedParts
  <2>. HIDE DEF b
  <2>. QED BY <2>1 DEF Parted
<1>7. b[1] = 0
  <2>1. Joined(b, ByteRange, a, 21, c, 4)
    BY <1>2, <1>4, <1>5, Concatenation
  <2>. HIDE DEF b
  <2>2. b[1] = a[1]
    BY <1>2, <2>1 DEF Joined
  <2>. QED BY <1>4, <2>2
<1>. HIDE DEF b
<1>8. IsBytes(b, 25)
  BY <1>6 DEF IsBytes
<1>. QED BY <1>3, <1>6, <1>7, <1>8 DEF a, c, v

\* Bytes of the length of an address that carry their checksum are those of the hash in them.
LEMMA CheckedBytes ==
  ASSUME NEW s, IsBytes(s, 25), s[1] = 0, ChecksumOf(SubSeq(s, 1, 21)) = SubSeq(s, 22, 25)
  PROVE  LET h == SubSeq(s, 2, 21) IN h \in [1..20 -> ByteRange] /\ BytesOf(h) = s
<1>. DEFINE h == SubSeq(s, 2, 21)
            a == SubSeq(s, 1, 21)
            c == SubSeq(s, 22, 25)
            v == <<0>>
<1>1. s \in [1..25 -> ByteRange]
  BY DEF IsBytes
<1>2. /\ 0 \in Nat /\ 1 \in Nat /\ 20 \in Nat /\ 21 \in Nat /\ 4 \in Nat /\ 25 \in Nat
      /\ 2 = 1 + 1 /\ 21 = 1 + 20 /\ 22 = 21 + 1 /\ 25 = 21 + 4 /\ 21 = 0 + 21 /\ 1 = 0 + 1
      /\ 1 + 20 <= 25 /\ 21 + 4 <= 25 /\ 0 + 21 <= 25
  OBVIOUS
<1>3. IsPart(h, ByteRange, s, 1, 20)
  BY <1>1, <1>2, Part
<1>4. IsPart(c, ByteRange, s, 21, 4)
  BY <1>1, <1>2, Part
<1>5. IsPart(a, ByteRange, s, 0, 21)
  BY <1>1, <1>2, Part
<1>6. v \in [1..1 -> ByteRange] /\ v[1] = 0
  BY DEF ByteRange
<1>7. ChecksumOf(a) = c
  OBVIOUS
<1>. HIDE DEF h, a, c, v
<1>8. a \in [1..21 -> ByteRange]
  BY <1>5 DEF IsPart
<1>9. IsPart(v, ByteRange, a, 0, 1)
  <2>1. ASSUME NEW i \in 1..1 PROVE v[i] = a[0+i]
    <3>1. i = 1 /\ 1 \in 1..21
      OBVIOUS
    <3>2. a[1] = s[0+1]
      BY <1>5, <3>1 DEF IsPart
    <3>. QED BY <1>6, <3>1, <3>2
  <2>. QED BY <1>6, <2>1, Zenon DEF IsPart
<1>10. IsPart(h, ByteRange, a, 1, 20)
  <2>1. h \in [1..20 -> ByteRange]
    BY <1>3, Zenon DEF IsPart
  <2>2. ASSUME NEW i \in 1..20 PROVE h[i] = a[1+i]
    <3>1. 1 + i \in 1..21 /\ 0 + (1 + i) = 1 + i
      OBVIOUS
    <3>2. a[1+i] = s[0 + (1+i)]
      BY <1>5, <3>1, Zenon DEF IsPart
    <3>3. h[i] = s[1+i]
      BY <1>3, Zenon DEF IsPart
    <3>. QED BY <3>1, <3>2, <3>3
  <2>. QED BY <2>1, <2>2, Zenon DEF IsPart
<1>11. v \o h = a
  <2>1. Halves(v, h, ByteRange, a, 1, 20)
    BY <1>8, <1>9, <1>10 DEF Halves
  <2>. QED BY <2>1, PartsJoined
<1>12. a \o c = s
  <2>1. Halves(a, c, ByteRange, s, 21, 4)
    BY <1>1, <1>4, <1>5 DEF Halves
  <2>. QED BY <2>1, PartsJoined
<1>13. BytesOf(h) = s
  <2>1. BytesOf(h) = (v \o h) \o ChecksumOf(v \o h)
    BY Zenon DEF BytesOf, v
  <2>. QED BY <1>7, <1>11, <1>12, <2>1, Zenon
<1>14. h \in [1..20 -> ByteRange]
  BY <1>3 DEF IsPart
<1>. QED BY <1>13, <1>14 DEF h

LEMMA LeadingZerosFacts ==
  ASSUME NEW n \in Nat, NEW s, IsBytes(s, n)
  PROVE  \E z \in 0..n : Leads(s, n, z) /\ LeadingZeros(s) = [m \in 1..z |-> 0]
<1>. DEFINE z == CHOOSE k \in 0..n : (\A m \in 1..k : s[m] = 0) /\ (k < n => s[k+1] # 0)
<1>1. Len(s) = n
  BY ByteStringFacts, Zenon
<1>2. LeadingZeros(s) = [m \in 1..z |-> 0]
  BY <1>1, Zenon DEF LeadingZeros
<1>3. \E k \in 0..n : (\A m \in 1..k : s[m] = 0) /\ (k < n => s[k+1] # 0)
  BY LeadsExists, Zenon DEF Leads
<1>4. z \in 0..n /\ (\A m \in 1..z : s[m] = 0) /\ (z < n => s[z+1] # 0)
  BY <1>3
<1>. HIDE DEF z
<1>5. Leads(s, n, z)
  BY <1>4, Zenon DEF Leads
<1>. QED BY <1>2, <1>4, <1>5

\* What an address in base 58 and its bytes have in common.
SameNumber(a, s, n) ==
  /\ a \in Seq(Digits) /\ IsBytes(s, n)
  /\ Value58(0, a) = Value256(s, n)
  /\ \E z : Leads(a, Len(a), z) /\ Leads(s, n, z)

LEMMA AddressFacts ==
  ASSUME NEW h \in [1..20 -> ByteRange]
  PROVE  SameNumber(AddressOf(h), BytesOf(h), 25) /\ AddressOf(h) # <<>> /\ AddressOf(h)[1] = 0
<1>. DEFINE s == BytesOf(h)
            A == AddressOf(h)
            D == Base58Digits(s)
            d == Len(D)
            Z == LeadingZeros(s)
<1>1. IsBytes(s, 25) /\ s[1] = 0 /\ 25 \in Nat
  BY BytesOfFacts
<1>2. A = Z \o D
  BY DEF AddressOf, BytesOf, ChecksumOf
<1>3. PICK z \in 0..25 : Leads(s, 25, z) /\ Z = [m \in 1..z |-> 0]
  BY <1>1, LeadingZerosFacts
<1>4. D \in Seq(Digits) /\ Value58(0, D) = Value256(s, 25) /\ (D # <<>> => D[1] # 0)
  BY <1>1, Base58Facts, Zenon
<1>. HIDE DEF s, A, D, Z
<1>5. d \in Nat /\ D \in [1..d -> Digits] /\ (d = 0 => D = <<>>)
  BY <1>4, LenProperties, EmptySeq
<1>6. z \in Nat /\ Z \in [1..z -> Digits] /\ \A m \in 1..z : Z[m] = 0
  BY <1>3 DEF Digits
<1>7. Value58(0, D) = Horner(58, 0, D, d)[d]
  BY DEF Value58
<1>8. (d = 0 \/ D[1] # 0)
  <2>1. CASE D = <<>>
    BY <2>1, EmptySeq
  <2>. QED BY <1>4, <2>1
<1>. HIDE DEF d
<1>9. Joined(A, Digits, Z, z, D, d)
  <2>1. Joined(Z \o D, Digits, Z, z, D, d)
    BY <1>5, <1>6, Concatenation, Zenon
  <2>. QED BY <1>2, <2>1, Zenon
<1>10. A \in [1..z+d -> Digits] /\ (\A m \in 1..z : A[m] = Z[m])
  BY <1>9, Zenon DEF Joined
<1>11. \A m \in 1..d : A[z+m] = D[m]
  <2>1. ASSUME NEW m \in 1..d PROVE A[z+m] = D[m]
    <3>0. z \in Nat /\ d \in Nat
      BY <1>5, <1>6
    <3>1. z + m \in z+1..z+d /\ (z + m) - z = m
      BY <3>0
    <3>2. A[z+m] = D[(z+m)-z]
      BY <1>9, <3>1, Zenon DEF Joined
    <3>. QED BY <3>1, <3>2, Zenon
  <2>. QED BY <2>1
<1>12. z + d \in Nat
  BY <1>5, <1>6
<1>13. A \in Seq(Digits) /\ Len(A) = z + d
  BY <1>10, <1>12, FunctionIsSequence, Zenon
<1>14. Padded(A, z, D, d)
  <2>1. Digits \subseteq Nat
    BY DEF Digits
  <2>2. A \in [1..z+d -> Nat] /\ D \in [1..d -> Nat]
    BY <1>5, <1>10, <2>1
  <2>. QED BY <1>5, <1>6, <1>10, <1>11, <2>2, Zenon DEF Padded
<1>15. Leads(A, z + d, z)
  BY <1>8, <1>14, PaddedLeads, Zenon
<1>16. Value58(0, A) = Value58(0, D)
  <2>1. ASSUME NEW B \in Nat, B > 1
        PROVE  Horner(B, 0, A, z + d)[z + d] = Horner(B, 0, D, d)[d]
    BY <1>14, <2>1, PaddedValue
  <2>2. Horner(58, 0, A, z + d)[z + d] = Horner(58, 0, D, d)[d]
    BY <2>1
  <2>. QED BY <1>7, <1>13, <2>2 DEF Value58
<1>17. SameNumber(A, s, 25)
  <2>1. \E y : Leads(A, Len(A), y) /\ Leads(s, 25, y)
    BY <1>3, <1>13, <1>15, Zenon
  <2>2. Value58(0, A) = Value256(s, 25)
    BY <1>4, <1>16
  <2>. QED BY <1>1, <1>13, <2>1, <2>2 DEF SameNumber
<1>18. A # <<>> /\ A[1] = 0
  <2>1. z # 0
    <3>1. z < 25 => s[z+1] # 0
      BY <1>3 DEF Leads
    <3>. SUFFICES ASSUME z = 0 PROVE FALSE
      OBVIOUS
    <3>2. z < 25 /\ z + 1 = 1
      OBVIOUS
    <3>. QED BY <1>1, <3>1, <3>2
  <2>2. 1 \in 1..z /\ Len(A) # 0
    BY <1>5, <1>6, <1>13, <2>1, SMTT(30)
  <2>. QED BY <1>6, <1>10, <2>2, EmptySeq
<1>. QED BY <1>17, <1>18 DEF A, s

LEMMA SameNumberFacts ==
  ASSUME NEW n \in Nat, NEW a, NEW s, SameNumber(a, s, n)
  PROVE  /\ Len(a) \in Nat /\ a \in [1..Len(a) -> 0..58-1] /\ s \in [1..n -> 0..256-1]
         /\ Horner(58, 0, a, Len(a))[Len(a)] = Horner(256, 0, s, n)[n]
         /\ \E z : Leads(a, Len(a), z) /\ Leads(s, n, z)
<1>1. a \in Seq(Digits) /\ IsBytes(s, n) /\ Value58(0, a) = Value256(s, n)
  BY DEF SameNumber
<1>2. Len(a) \in Nat /\ a \in [1..Len(a) -> Digits]
  BY <1>1, LenProperties
<1>3. Digits = 0..58-1
  BY DEF Digits
<1>4. a \in [1..Len(a) -> 0..58-1]
  BY <1>2, <1>3
<1>5. s \in [1..n -> 0..256-1]
  BY <1>1, BytesAreNumbers, SMTT(30)
<1>6. Horner(58, 0, a, Len(a))[Len(a)] = Horner(256, 0, s, n)[n]
  BY <1>1 DEF Value58, Value256
<1>7. \E z : Leads(a, Len(a), z) /\ Leads(s, n, z)
  BY DEF SameNumber
<1>. QED BY <1>2, <1>4, <1>5, <1>6, <1>7

\* One address for the same bytes.
LEMMA AddressUnique ==
  ASSUME NEW n \in Nat, NEW a, NEW b, NEW s, SameNumber(a, s, n), SameNumber(b, s, n)
  PROVE  a = b
<1>1. PICK z : Leads(a, Len(a), z) /\ Leads(s, n, z)
  BY DEF SameNumber
<1>2. PICK y : Leads(b, Len(b), y) /\ Leads(s, n, y)
  BY DEF SameNumber
<1>3. y = z
  BY <1>1, <1>2, LeadsUnique, Zenon
<1>. DEFINE k == Len(a)
            l == Len(b)
<1>4. /\ k \in Nat /\ a \in [1..k -> 0..58-1] /\ l \in Nat /\ b \in [1..l -> 0..58-1]
      /\ Horner(58, 0, a, k)[k] = Horner(256, 0, s, n)[n]
      /\ Horner(58, 0, b, l)[l] = Horner(256, 0, s, n)[n]
  BY SameNumberFacts
<1>5. Leads(a, k, z) /\ Leads(b, l, z)
  BY <1>1, <1>2, <1>3
<1>. HIDE DEF k, l
<1>6. 58 \in Nat /\ 58 > 1
  OBVIOUS
<1>7. Horner(58, 0, a, k)[k] = Horner(58, 0, b, l)[l]
  BY <1>4
<1>8. SameDigits(58, a, k, b, l, z)
  BY <1>4, <1>5, <1>6, <1>7 DEF SameDigits
<1>. QED BY <1>8, DigitsUnique

\* And the same bytes for one address.
LEMMA BytesUnique ==
  ASSUME NEW m \in Nat, NEW n \in Nat, NEW a, NEW r, NEW s, SameNumber(a, r, m), SameNumber(a, s, n)
  PROVE  m = n /\ r = s
<1>1. PICK z : Leads(a, Len(a), z) /\ Leads(r, m, z)
  BY DEF SameNumber
<1>2. PICK y : Leads(a, Len(a), y) /\ Leads(s, n, y)
  BY DEF SameNumber
<1>3. Len(a) \in Nat
  BY SameNumberFacts
<1>4. y = z
  BY <1>1, <1>2, <1>3, LeadsUnique, Zenon
<1>5. /\ r \in [1..m -> 0..256-1] /\ s \in [1..n -> 0..256-1]
      /\ Horner(58, 0, a, Len(a))[Len(a)] = Horner(256, 0, r, m)[m]
      /\ Horner(58, 0, a, Len(a))[Len(a)] = Horner(256, 0, s, n)[n]
  BY SameNumberFacts, SMTT(30)
<1>6. 256 \in Nat /\ 256 > 1
  OBVIOUS
<1>7. Horner(256, 0, r, m)[m] = Horner(256, 0, s, n)[n]
  BY <1>5
<1>8. Leads(r, m, z) /\ Leads(s, n, z)
  BY <1>1, <1>2, <1>4
<1>9. SameDigits(256, r, m, s, n, z)
  BY <1>5, <1>6, <1>7, <1>8 DEF SameDigits
<1>. QED BY <1>9, DigitsUnique

-------------------------------------------------------------------------------
(* Reading an address                                                      *)

\* What is decoded from an address all of whose characters were read.
Decoded ==
  /\ request.address \in Seq(Digits)
  /\ b256 \in Seq(ByteRange) /\ Normal(b256, Len(b256))
  /\ LowValue(b256, Len(b256)) = Value58(0, request.address)

LEMMA BackwardsFacts ==
  ASSUME NEW n \in Nat, NEW b, IsBytes(b, n), Normal(b, n)
  PROVE  IsBytes(Backwards(b, n), n) /\ (n = 0 \/ Backwards(b, n)[1] # 0)
<1>1. \A j \in 1..n : n + 1 - j \in 1..n
  OBVIOUS
<1>2. \A j \in 1..n : b[n + 1 - j] \in ByteRange
  BY <1>1, Zenon DEF IsBytes
<1>3. IsBytes(Backwards(b, n), n)
  BY <1>2, Zenon DEF IsBytes, Backwards
<1>4. ASSUME n # 0 PROVE Backwards(b, n)[1] # 0
  <2>1. 1 \in 1..n /\ n + 1 - 1 = n
    BY <1>4
  <2>2. Backwards(b, n)[1] = b[n]
    BY <2>1 DEF Backwards
  <2>. QED BY <1>4, <2>2 DEF Normal
<1>. QED BY <1>3, <1>4

LEMMA RawFacts ==
  ASSUME Decoded
  PROVE  Len(Raw) \in Nat /\ SameNumber(request.address, Raw, Len(Raw))
<1>. DEFINE a == request.address
            k == Len(a)
            n == Len(b256)
            z == Ones
            u == Backwards(b256, n)
<1>1. a \in Seq(Digits) /\ b256 \in Seq(ByteRange) /\ Normal(b256, n) /\ LowValue(b256, n) = Value58(0, a)
  BY DEF Decoded
<1>2. k \in Nat /\ n \in Nat /\ IsBytes(b256, n)
  BY <1>1, LenProperties DEF IsBytes
<1>3. z \in 0..k /\ Leads(a, k, z)
  <2>. DEFINE one == CHOOSE y \in 0..k : (\A m \in 1..y : a[m] = 0) /\ (y < k => a[y+1] # 0)
  <2>1. z = one
    BY Zenon DEF Ones
  <2>2. \E y \in 0..k : (\A m \in 1..y : a[m] = 0) /\ (y < k => a[y+1] # 0)
    BY <1>2, LeadsExists, Zenon DEF Leads
  <2>3. one \in 0..k /\ (\A m \in 1..one : a[m] = 0) /\ (one < k => a[one+1] # 0)
    BY <2>2
  <2>. HIDE DEF one
  <2>. QED BY <2>1, <2>3, Zenon DEF Leads
<1>4. IsBytes(u, n) /\ (n = 0 \/ u[1] # 0)
  BY <1>1, <1>2, BackwardsFacts, Zenon
<1>5. Raw = [j \in 1..z+n |-> IF j <= z THEN 0 ELSE b256[z + n + 1 - j]]
  BY Zenon DEF Raw
<1>6. LowValue(b256, n) = Horner(256, 0, u, n)[n]
  BY DEF LowValue
<1>7. u = [j \in 1..n |-> b256[n + 1 - j]]
  BY DEF Backwards
<1>. HIDE DEF a, k, n, z, u
<1>8. z \in Nat /\ z + n \in Nat
  BY <1>2, <1>3
<1>9. \A m \in 1..n : Raw[z+m] = u[m]
  <2>1. ASSUME NEW m \in 1..n PROVE Raw[z+m] = u[m]
    <3>1. z + m \in 1..z+n /\ ~(z + m <= z) /\ z + n + 1 - (z + m) = n + 1 - m
      BY <1>2, <1>8
    <3>. QED BY <1>5, <1>7, <3>1
  <2>. QED BY <2>1
<1>10. \A m \in 1..z : Raw[m] = 0
  BY <1>2, <1>5, <1>8
<1>11. \A m \in 1..z+n : Raw[m] \in ByteRange
  <2>1. ASSUME NEW m \in 1..z+n PROVE Raw[m] \in ByteRange
    <3>1. CASE m <= z
      BY <1>2, <1>8, <1>10, <3>1 DEF ByteRange
    <3>2. CASE ~(m <= z)
      <4>1. m - z \in 1..n /\ z + (m - z) = m
        BY <1>2, <1>8, <3>2
      <4>2. Raw[m] = u[m - z]
        BY <1>9, <4>1
      <4>. QED BY <1>4, <4>1, <4>2, Zenon DEF IsBytes
    <3>. QED BY <3>1, <3>2
  <2>. QED BY <2>1
<1>12. IsBytes(Raw, z + n)
  <2>1. Raw = [j \in 1..z+n |-> Raw[j]]
    BY <1>5, Zenon
  <2>. QED BY <1>11, <2>1, Zenon DEF IsBytes
<1>13. Len(Raw) = z + n
  BY <1>8, <1>12, ByteStringFacts, Zenon
<1>14. Padded(Raw, z, u, n)
  <2>1. Raw \in [1..z+n -> Nat] /\ u \in [1..n -> Nat]
    BY <1>2, <1>4, <1>8, <1>12, BytesAreNumbers, Zenon
  <2>. QED BY <1>2, <1>8, <1>9, <1>10, <2>1, Zenon DEF Padded
<1>15. Leads(Raw, z + n, z)
  BY <1>4, <1>14, PaddedLeads, Zenon
<1>16. Value256(Raw, z + n) = Value58(0, a)
  <2>1. ASSUME NEW B \in Nat, B > 1
        PROVE  Horner(B, 0, Raw, z + n)[z + n] = Horner(B, 0, u, n)[n]
    BY <1>14, <2>1, PaddedValue
  <2>2. Horner(256, 0, Raw, z + n)[z + n] = Horner(256, 0, u, n)[n]
    BY <2>1
  <2>. QED BY <1>1, <1>6, <2>2 DEF Value256
<1>17. k = Len(a)
  BY DEF k
<1>18. \E y : Leads(a, Len(a), y) /\ Leads(Raw, z + n, y)
  BY <1>3, <1>15, <1>17, Zenon
<1>19. SameNumber(a, Raw, z + n)
  BY <1>1, <1>12, <1>16, <1>18 DEF SameNumber
<1>. QED BY <1>8, <1>13, <1>19 DEF a

AddressGiven == request.address # <<>> /\ request.hash = <<>>

\* The characters read so far are digits, and their value is in b256.
DigitsRead ==
  LET a == request.address
      n == Len(b256)
  IN  /\ read \in 0..Len(a)
      /\ \A m \in 1..read : a[m] # Foreign
      /\ b256 \in Seq(ByteRange) /\ Normal(b256, n)
      /\ LowValue(b256, n) = Horner(58, 0, a, Len(a))[read]

\* What an address is accepted as has that address, and a rejected one is the address of no hash.
AddressInv ==
  /\ request \in Requests
  /\ AddressGiven =>
       /\ input \in {"given", "base58", "accepted", "rejected"}
       /\ input = "given" => read = 0 /\ b256 = <<>>
       /\ input = "base58" => DigitsRead
       /\ input = "accepted" => AddressOf(hash160) = request.address
       /\ input = "rejected" => \A h \in [1..20 -> ByteRange] : AddressOf(h) # request.address

LEMMA AddressTyped ==
  ASSUME request \in Requests
  PROVE  LET a == request.address
         IN  /\ Len(a) \in Nat /\ a \in [1..Len(a) -> Foreign..57]
             /\ IsHorner(Horner(58, 0, a, Len(a)), 58, 0, a, Len(a))
<1>. DEFINE a == request.address
<1>1. a \in Seq(Foreign..57)
  BY RequestAssumption
<1>2. Len(a) \in Nat /\ a \in [1..Len(a) -> Foreign..57]
  BY <1>1, LenProperties
<1>. HIDE DEF a
<1>3. a \in [1..Len(a) -> Int] /\ 58 \in Int /\ 0 \in Int
  <2>1. Foreign..57 \subseteq Int
    BY DEF Foreign
  <2>2. a \in [1..Len(a) -> Int]
    BY <1>2, <2>1, Zenon
  <2>. QED BY <2>2
<1>4. IsHorner(Horner(58, 0, a, Len(a)), 58, 0, a, Len(a))
  BY <1>2, <1>3, HornerFacts
<1>. QED BY <1>2, <1>4 DEF a

\* The address of a hash has digits only, the first of them 0.
LEMMA AddressDigits ==
  ASSUME NEW h \in [1..20 -> ByteRange]
  PROVE  LET A == AddressOf(h)
         IN  Len(A) \in Nat /\ A[1] = 0 /\ \A m \in 1..Len(A) : A[m] # Foreign
<1>. DEFINE A == AddressOf(h)
<1>1. A \in Seq(Digits) /\ A[1] = 0
  BY AddressFacts DEF SameNumber
<1>. HIDE DEF A
<1>2. Len(A) \in Nat /\ A \in [1..Len(A) -> Digits]
  BY <1>1, LenProperties
<1>3. \A m \in 1..Len(A) : A[m] # Foreign
  <2>1. \A m \in 1..Len(A) : A[m] \in Digits
    BY <1>2, Zenon
  <2>2. Foreign \notin Digits
    BY DEF Digits, Foreign
  <2>. QED BY <2>1, <2>2, Zenon
<1>. QED BY <1>1, <1>2, <1>3 DEF A

\* Nothing is read yet, and b256 is empty.
LEMMA ReadingStarts ==
  ASSUME request \in Requests, read = 0, b256 = <<>>
  PROVE  DigitsRead
<1>. DEFINE a == request.address
            h == Horner(58, 0, a, Len(a))
<1>1. Len(a) \in Nat /\ h[0] = 0
  BY AddressTyped DEF IsHorner
<1>2. b256 \in Seq(ByteRange) /\ Len(b256) = 0
  OBVIOUS
<1>3. LowValue(b256, 0) = 0
  <2>1. 256 \in Int /\ 0 \in Int /\ 0 \in Nat /\ Backwards(b256, 0) \in [1..0 -> Int]
    BY DEF Backwards
  <2>2. IsHorner(Horner(256, 0, Backwards(b256, 0), 0), 256, 0, Backwards(b256, 0), 0)
    BY <2>1, HornerFacts, ZenonT(60)
  <2>. QED BY <2>2 DEF LowValue, IsHorner
<1>4. Normal(b256, 0)
  BY DEF Normal
<1>. HIDE DEF h
<1>5. read \in 0..Len(a) /\ \A m \in 1..read : a[m] # Foreign
  BY <1>1
<1>. QED BY <1>1, <1>2, <1>3, <1>4, <1>5 DEF DigitsRead, h

LEMMA DigitReads ==
  ASSUME request \in Requests, DigitsRead, read < Len(request.address),
         request.address[read+1] # Foreign,
         b256' = TimesFiftyEight(b256, request.address[read+1]),
         read' = read + 1, UNCHANGED request
  PROVE  DigitsRead'
<1>. DEFINE a == request.address
            k == Len(a)
            n == Len(b256)
            h == Horner(58, 0, a, k)
            d == a[read+1]
            c == TimesFiftyEight(b256, d)
<1>1. k \in Nat /\ a \in [1..k -> Foreign..57] /\ IsHorner(h, 58, 0, a, k)
  BY AddressTyped
<1>2. /\ read \in 0..k /\ (\A m \in 1..read : a[m] # Foreign)
      /\ b256 \in Seq(ByteRange) /\ Normal(b256, n) /\ LowValue(b256, n) = h[read]
  BY DEF DigitsRead
<1>3. n \in Nat /\ IsBytes(b256, n)
  BY <1>2, LenProperties DEF IsBytes
<1>4. read < k /\ d # Foreign /\ b256' = c /\ read' = read + 1 /\ a' = a
  OBVIOUS
<1>. HIDE DEF a, k, n, h
<1>5. d \in 0..57
  BY <1>1, <1>2, <1>4 DEF Foreign
<1>6. c \in Seq(ByteRange) /\ Normal(c, Len(c)) /\ LowValue(c, Len(c)) = 58 * LowValue(b256, n) + d
  BY <1>2, <1>3, <1>5, TimesValue, Zenon
<1>7. h[read+1] = 58 * h[read] + d
  <2>1. read + 1 \in 1..k /\ (read + 1) - 1 = read
    BY <1>1, <1>2, <1>4
  <2>. QED BY <1>1, <2>1 DEF IsHorner
<1>. HIDE DEF c
<1>8. LowValue(c, Len(c)) = h[read+1]
  BY <1>2, <1>6, <1>7
<1>9. read + 1 \in 0..k /\ \A m \in 1..read+1 : a[m] # Foreign
  BY <1>1, <1>2, <1>4
<1>10. request' = request
  OBVIOUS
<1>. QED
  BY <1>4, <1>6, <1>8, <1>9, <1>10 DEF DigitsRead, a, k, h

LEMMA AllRead ==
  ASSUME request \in Requests, DigitsRead, read = Len(request.address)
  PROVE  Decoded
<1>. DEFINE a == request.address
            k == Len(a)
            n == Len(b256)
<1>1. k \in Nat /\ a \in [1..k -> Foreign..57]
  BY AddressTyped
<1>2. /\ read = k /\ (\A m \in 1..read : a[m] # Foreign)
      /\ b256 \in Seq(ByteRange) /\ Normal(b256, n) /\ LowValue(b256, n) = Horner(58, 0, a, k)[read]
  BY DEF DigitsRead
<1>. HIDE DEF a, k, n
<1>3. \A m \in 1..k : a[m] \in Digits
  BY <1>1, <1>2 DEF Foreign, Digits
<1>4. a \in [1..k -> Digits]
  BY <1>1, <1>3, Zenon
<1>5. a \in Seq(Digits)
  BY <1>1, <1>4, FunctionIsSequence, Zenon
<1>6. LowValue(b256, n) = Value58(0, a)
  BY <1>2 DEF Value58, k
<1>. QED BY <1>2, <1>5, <1>6 DEF Decoded, a, n

LEMMA CheckedAccepts ==
  ASSUME Decoded, Checked
  PROVE  AddressOf(SubSeq(Raw, 2, 21)) = request.address
<1>. DEFINE h == SubSeq(Raw, 2, 21)
<1>1. Len(Raw) = 25 /\ Raw[1] = 0 /\ ChecksumOf(SubSeq(Raw, 1, 21)) = SubSeq(Raw, 22, 25)
  BY DEF Checked, ChecksumOf
<1>2. SameNumber(request.address, Raw, 25)
  BY <1>1, RawFacts
<1>3. IsBytes(Raw, 25)
  BY <1>2 DEF SameNumber
<1>4. h \in [1..20 -> ByteRange] /\ BytesOf(h) = Raw
  BY <1>1, <1>3, CheckedBytes
<1>. HIDE DEF h
<1>5. SameNumber(AddressOf(h), Raw, 25)
  BY <1>4, AddressFacts
<1>6. 25 \in Nat
  OBVIOUS
<1>7. AddressOf(h) = request.address
  BY <1>2, <1>5, <1>6, AddressUnique
<1>. QED BY <1>7 DEF h

LEMMA HashIsChecked ==
  ASSUME Decoded, NEW h \in [1..20 -> ByteRange], AddressOf(h) = request.address
  PROVE  Checked
<1>1. SameNumber(request.address, BytesOf(h), 25)
  BY AddressFacts
<1>2. Len(Raw) \in Nat /\ SameNumber(request.address, Raw, Len(Raw))
  BY RawFacts
<1>3. 25 \in Nat
  OBVIOUS
<1>4. Len(Raw) = 25 /\ Raw = BytesOf(h)
  BY <1>1, <1>2, <1>3, BytesUnique
<1>5. /\ Raw[1] = 0 /\ SubSeq(Raw, 1, 21) = <<0>> \o h
      /\ SubSeq(Raw, 22, 25) = ChecksumOf(<<0>> \o h)
  BY <1>4, BytesOfFacts
<1>. QED BY <1>4, <1>5 DEF Checked, ChecksumOf

LEMMA AddressInit ==
  ASSUME UnitInit
  PROVE  AddressInv
BY DEF UnitInit, TargetInit, AddressInv

LEMMA AddressStart ==
  ASSUME AddressInv, StartAddress
  PROVE  AddressInv'
<1>1. request' = request /\ read' = read /\ b256' = b256
  BY DEF StartAddress, Reject
<1>2. request \in Requests
  BY DEF AddressInv
<1>. SUFFICES ASSUME AddressGiven
              PROVE  /\ input' \in {"base58", "rejected"}
                     /\ input' = "base58" => DigitsRead'
                     /\ input' = "rejected" =>
                          \A h \in [1..20 -> ByteRange] : AddressOf(h) # request.address
  BY <1>1, <1>2 DEF AddressInv, AddressGiven
<1>3. read = 0 /\ b256 = <<>> /\ DigitsRead
  <2>1. read = 0 /\ b256 = <<>>
    BY DEF AddressInv, StartAddress
  <2>. QED BY <1>2, <2>1, ReadingStarts
<1>4. DigitsRead'
  BY <1>1, <1>3 DEF DigitsRead
<1>5. CASE request.address[1] = 0
  <2>1. input' = "base58"
    BY <1>5 DEF StartAddress
  <2>. QED BY <1>4, <2>1
<1>6. CASE request.address[1] # 0
  <2>1. input' = "rejected"
    BY <1>6 DEF StartAddress, Reject
  <2>2. \A h \in [1..20 -> ByteRange] : AddressOf(h) # request.address
    BY <1>6, AddressDigits
  <2>. QED BY <2>1, <2>2
<1>. QED BY <1>5, <1>6

LEMMA NextPlace ==
  ASSUME NEW n \in Nat, NEW k \in 0..n, k < n
  PROVE  k + 1 \in 1..n
  OBVIOUS

LEMMA AddressDigit ==
  ASSUME AddressInv, Digit
  PROVE  AddressInv'
<1>1. request' = request
  BY DEF Digit, Reject
<1>2. request \in Requests
  BY DEF AddressInv
<1>. SUFFICES ASSUME AddressGiven
              PROVE  /\ input' \in {"base58", "rejected"}
                     /\ input' = "base58" => DigitsRead'
                     /\ input' = "rejected" =>
                          \A h \in [1..20 -> ByteRange] : AddressOf(h) # request.address
  BY <1>1, <1>2 DEF AddressInv, AddressGiven
<1>3. DigitsRead /\ read < Len(request.address) /\ input = "base58"
  BY DEF AddressInv, Digit
<1>4. CASE request.address[read+1] = Foreign
  <2>1. input' = "rejected"
    BY <1>4 DEF Digit, Reject
  <2>2. ASSUME NEW h \in [1..20 -> ByteRange], AddressOf(h) = request.address PROVE FALSE
    <3>1. Len(request.address) \in Nat /\ \A m \in 1..Len(request.address) : request.address[m] # Foreign
      BY <2>2, AddressDigits
    <3>2. read \in 0..Len(request.address)
      BY <1>3 DEF DigitsRead
    <3>3. read + 1 \in 1..Len(request.address)
      BY <1>3, <3>1, <3>2, NextPlace, Zenon
    <3>. QED BY <1>4, <3>1, <3>3, Zenon
  <2>. QED BY <2>1, <2>2
<1>5. CASE request.address[read+1] # Foreign
  <2>1. /\ b256' = TimesFiftyEight(b256, request.address[read+1]) /\ read' = read + 1 /\ input' = input
    BY <1>5 DEF Digit
  <2>2. DigitsRead'
    BY <1>1, <1>2, <1>3, <1>5, <2>1, DigitReads
  <2>. QED BY <1>3, <2>1, <2>2
<1>. QED BY <1>4, <1>5

LEMMA AddressEnd ==
  ASSUME AddressInv, EndAddress
  PROVE  AddressInv'
<1>1. request' = request
  BY DEF EndAddress, Reject, Accept
<1>2. request \in Requests
  BY DEF AddressInv
<1>. SUFFICES ASSUME AddressGiven
              PROVE  /\ input' \in {"accepted", "rejected"}
                     /\ input' = "accepted" => AddressOf(hash160') = request.address
                     /\ input' = "rejected" =>
                          \A h \in [1..20 -> ByteRange] : AddressOf(h) # request.address
  BY <1>1, <1>2 DEF AddressInv, AddressGiven
<1>3. DigitsRead /\ read = Len(request.address)
  BY DEF AddressInv, EndAddress
<1>4. Decoded
  BY <1>2, <1>3, AllRead
<1>5. CASE Checked
  <2>1. input' = "accepted" /\ hash160' = SubSeq(Raw, 2, 21)
    BY <1>5 DEF EndAddress, Accept
  <2>2. AddressOf(SubSeq(Raw, 2, 21)) = request.address
    BY <1>4, <1>5, CheckedAccepts
  <2>. QED BY <2>1, <2>2
<1>6. CASE ~Checked
  <2>1. input' = "rejected"
    BY <1>6 DEF EndAddress, Reject
  <2>2. \A h \in [1..20 -> ByteRange] : AddressOf(h) # request.address
    BY <1>4, <1>6, HashIsChecked
  <2>. QED BY <2>1, <2>2
<1>. QED BY <1>5, <1>6

LEMMA AddressNext ==
  ASSUME AddressInv, [UnitNext]_uvars
  PROVE  AddressInv'
<1>1. ASSUME UNCHANGED tvars PROVE AddressInv'
  <2>1. /\ request' = request /\ input' = input /\ read' = read /\ b256' = b256
        /\ hash160' = hash160
    BY <1>1 DEF tvars
  <2>. QED BY <2>1 DEF AddressInv, AddressGiven, DigitsRead
<1>2. CASE Read
  <2>1. CASE RefuseUsage
    <3>1. ~AddressGiven /\ request' = request
      BY <2>1 DEF RefuseUsage, AddressGiven, GivenBoth, GivenNone, Reject
    <3>. QED BY <3>1 DEF AddressInv, AddressGiven
  <2>2. CASE HexToHash160
    <3>1. ~AddressGiven /\ request' = request
      BY <2>2 DEF HexToHash160, AddressGiven, Accept, Reject
    <3>. QED BY <3>1 DEF AddressInv, AddressGiven
  <2>. QED
    BY <1>2, <2>1, <2>2, AddressStart, AddressDigit, AddressEnd DEF Read, ReadingTarget
<1>3. CASE HashPoint
  BY <1>1, <1>3 DEF HashPoint
<1>4. CASE Hash
  BY <1>1, <1>4 DEF Hash
<1>5. CASE Miss
  BY <1>1, <1>5 DEF Miss
<1>6. CASE Confirm
  BY <1>1, <1>6 DEF Confirm
<1>7. CASE Decide
  BY <1>1, <1>7 DEF Decide
<1>8. CASE Over
  BY <1>1, <1>8 DEF Over, uvars
<1>9. CASE UNCHANGED uvars
  BY <1>1, <1>9 DEF uvars
<1>. QED
  BY <1>2, <1>3, <1>4, <1>5, <1>6, <1>7, <1>8, <1>9 DEF UnitNext

\* While base58_decode (Utils.h) reads an address, the characters it has read are digits whose value
\* is in b256; what gets through is the hash the address encodes, and what is rejected encodes none.
THEOREM AddressInvariant == UnitSpec => []AddressInv
BY AddressInit, AddressNext, PTL DEF UnitSpec

\* An address gets through (decode_p2pkh_address, Utils.h) exactly if it encodes a hash, for every address of any
\* length: what was accepted gives that address again, and no point has an address that is rejected.
THEOREM AddressCorrect == UnitSpec => []AddressRoundTrips
<1>1. \A words : HashBytes(words) \in [1..20 -> ByteRange]
  BY ByteOfAny, Zenon DEF HashBytes
<1>2. AddressInv => AddressRoundTrips
  BY <1>1, Zenon DEF AddressInv, AddressRoundTrips, AddressGiven
<1>. QED BY <1>2, AddressInvariant, PTL
===================================================================================
