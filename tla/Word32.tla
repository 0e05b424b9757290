-------------------------------- MODULE Word32 --------------------------------
(***************************************************************************)
(* Words of 32 bits, as the sets of their bits that are 1: uint32_t of the *)
(* hash code of host and device.  & is \cap and | is \union.               *)
(***************************************************************************)
EXTENDS Integers, Sequences

Bit  == 0..31
Word == SUBSET Bit

\* The places of the bits of half a word.
Places == <<1, 2, 4, 8, 16, 32, 64, 128, 256, 512, 1024, 2048, 4096, 8192, 16384, 32768>>

Bits(n) == {i \in 0..15 : (n \div Places[i+1]) % 2 = 1}

\* The literal 0xhhhhllll, given by its halves.
Hex(hi, lo) == Bits(lo) \union {i + 16 : i \in Bits(hi)}

Small(n) == Hex(0, n)

Not(x) == Bit \ x

Xor(x, y) == (x \ y) \union (y \ x)

Xor3(x, y, z) == Xor(Xor(x, y), z)

\* x >> n, and x rotated by n to the right.
Shr(x, n) == {i - n : i \in {j \in x : j >= n}}
Ror(x, n) == {(i + 32 - n) % 32 : i \in x}
Rol(x, n) == Ror(x, 32 - n)

\* The bits a carry arrives at: bits below added up to one, and all between hand it on.
Carries(x, y) ==
  LET made == x \intersect y
      kept == x \union y
  IN  {i \in Bit : \E j \in made : j < i /\ \A k \in j+1..i-1 : k \in kept}

\* x + y; the carry out of bit 31 is lost.
Plus(x, y) == Xor3(x, y, Carries(x, y))

Total(words) ==
  LET total[n \in 1..Len(words)] ==
        IF n = Len(words) THEN words[n] ELSE Plus(words[n], total[n+1])
  IN  total[1]

Ch(x, y, z) == Xor(x \intersect y, Not(x) \intersect z)

\* A word and its four bytes, the first in its top bits.
FromBytes(b) == Hex(256 * b[1] + b[2], 256 * b[3] + b[4])
Byte(x, k)   ==
  LET bit(i) == IF 24 - 8*k + i \in x THEN 1 ELSE 0
  IN  bit(0) + 2 * bit(1) + 4 * bit(2) + 8 * bit(3) + 16 * bit(4) + 32 * bit(5) + 64 * bit(6)
        + 128 * bit(7)
Bytes(x)     == <<Byte(x, 0), Byte(x, 1), Byte(x, 2), Byte(x, 3)>>
===============================================================================
