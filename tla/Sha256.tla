-------------------------------- MODULE Sha256 --------------------------------
(***************************************************************************)
(* The host's SHA-256 (host_sha256 in Utils.h), which checks addresses: 64 *)
(* words of schedule first, then 64 rounds that shift the registers.  One  *)
(* block, for messages of at most 55 bytes.                                *)
(*                                                                         *)
(* The device's version in GpuHash.cu (Hash160) has tables of constants of *)
(* its own, number for number those of the host.                           *)
(***************************************************************************)
EXTENDS Word32

Table ==
  << <<\h428A,\h2F98>>, <<\h7137,\h4491>>, <<\hB5C0,\hFBCF>>, <<\hE9B5,\hDBA5>>,
     <<\h3956,\hC25B>>, <<\h59F1,\h11F1>>, <<\h923F,\h82A4>>, <<\hAB1C,\h5ED5>>,
     <<\hD807,\hAA98>>, <<\h1283,\h5B01>>, <<\h2431,\h85BE>>, <<\h550C,\h7DC3>>,
     <<\h72BE,\h5D74>>, <<\h80DE,\hB1FE>>, <<\h9BDC,\h06A7>>, <<\hC19B,\hF174>>,
     <<\hE49B,\h69C1>>, <<\hEFBE,\h4786>>, <<\h0FC1,\h9DC6>>, <<\h240C,\hA1CC>>,
     <<\h2DE9,\h2C6F>>, <<\h4A74,\h84AA>>, <<\h5CB0,\hA9DC>>, <<\h76F9,\h88DA>>,
     <<\h983E,\h5152>>, <<\hA831,\hC66D>>, <<\hB003,\h27C8>>, <<\hBF59,\h7FC7>>,
     <<\hC6E0,\h0BF3>>, <<\hD5A7,\h9147>>, <<\h06CA,\h6351>>, <<\h1429,\h2967>>,
     <<\h27B7,\h0A85>>, <<\h2E1B,\h2138>>, <<\h4D2C,\h6DFC>>, <<\h5338,\h0D13>>,
     <<\h650A,\h7354>>, <<\h766A,\h0ABB>>, <<\h81C2,\hC92E>>, <<\h9272,\h2C85>>,
     <<\hA2BF,\hE8A1>>, <<\hA81A,\h664B>>, <<\hC24B,\h8B70>>, <<\hC76C,\h51A3>>,
     <<\hD192,\hE819>>, <<\hD699,\h0624>>, <<\hF40E,\h3585>>, <<\h106A,\hA070>>,
     <<\h19A4,\hC116>>, <<\h1E37,\h6C08>>, <<\h2748,\h774C>>, <<\h34B0,\hBCB5>>,
     <<\h391C,\h0CB3>>, <<\h4ED8,\hAA4A>>, <<\h5B9C,\hCA4F>>, <<\h682E,\h6FF3>>,
     <<\h748F,\h82EE>>, <<\h78A5,\h636F>>, <<\h84C8,\h7814>>, <<\h8CC7,\h0208>>,
     <<\h90BE,\hFFFA>>, <<\hA450,\h6CEB>>, <<\hBEF9,\hA3F7>>, <<\hC671,\h78F2>> >>

\* The round constants and the initial state, counted from 0 as in the code.
K == [t \in 0..63 |-> Hex(Table[t+1][1], Table[t+1][2])]

ShaIV ==
  LET h == << <<\h6A09,\hE667>>, <<\hBB67,\hAE85>>, <<\h3C6E,\hF372>>, <<\hA54F,\hF53A>>,
              <<\h510E,\h527F>>, <<\h9B05,\h688C>>, <<\h1F83,\hD9AB>>, <<\h5BE0,\hCD19>> >>
  IN  [i \in 0..7 |-> Hex(h[i+1][1], h[i+1][2])]

Maj(x, y, z) == Xor3(x \intersect y, x \intersect z, y \intersect z)

BSIG0(x) == Xor3(Ror(x, 2), Ror(x, 13), Ror(x, 22))
BSIG1(x) == Xor3(Ror(x, 6), Ror(x, 11), Ror(x, 25))
SSIG0(x) == Xor3(Ror(x, 7), Ror(x, 18), Shr(x, 3))
SSIG1(x) == Xor3(Ror(x, 17), Ror(x, 19), Shr(x, 10))

\* The message, 0x80, zeros, and the length in bits in the last bytes.
Block(data) ==
  data \o <<128>> \o [i \in 1..61-Len(data) |-> 0]
       \o <<(8 * Len(data)) \div 256, (8 * Len(data)) % 256>>

\* WLD: the first 16 words of the schedule.
Loaded(b) == [i \in 1..16 |-> FromBytes(SubSeq(b, 4*i - 3, 4*i))]

\* SCH(16) .. SCH(63)
Scheduled(first) ==
  LET schedule[n \in Len(first)..64] ==
        IF n = Len(first) THEN first
        ELSE LET W == schedule[n-1]
             IN  Append(W, Total(<<SSIG1(W[n-2]), W[n-7], SSIG0(W[n-15]), W[n-16]>>))
  IN  schedule[64]

\* RND(t) on the registers a .. h, which move on by one.
HostRound(s, k, w) ==
  LET T1 == Total(<<s[8], BSIG1(s[5]), Ch(s[5], s[6], s[7]), k, w>>)
      T2 == Plus(BSIG0(s[1]), Maj(s[1], s[2], s[3]))
  IN  <<Plus(T1, T2), s[1], s[2], s[3], Plus(s[4], T1), s[5], s[6], s[7]>>

\* The registers before each round and after the last.
Rounds(W) ==
  LET history[t \in 0..Len(W)] ==
        IF t = 0 THEN <<[i \in 1..8 |-> ShaIV[i-1]]>>
        ELSE LET h == history[t-1] IN Append(h, HostRound(h[t], K[t-1], W[t]))
  IN  history[Len(W)]

\* The digest, as eight words; their bytes are written out high byte first.
Sha256Words(data) ==
  LET last == Rounds(Scheduled(Loaded(Block(data))))[65]
  IN  [i \in 0..7 |-> Plus(ShaIV[i], last[i+1])]

Digest(data) ==
  LET h == Sha256Words(data)
  IN  Bytes(h[0]) \o Bytes(h[1]) \o Bytes(h[2]) \o Bytes(h[3])
        \o Bytes(h[4]) \o Bytes(h[5]) \o Bytes(h[6]) \o Bytes(h[7])

sha256d(data) == Digest(Digest(data))
===============================================================================
