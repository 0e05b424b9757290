--------------------------- MODULE Hash160Reference ---------------------------
(***************************************************************************)
(* RIPEMD-160 and base58check by the book: the orders of the message words *)
(* generated from two permutations, the rotations by message word,         *)
(* registers that move, division instead of multiplication.  The reference *)
(* for HashUnit.                                                           *)
(***************************************************************************)
EXTENDS Sha256

Rho  == <<7, 4, 13, 1, 10, 6, 15, 3, 12, 0, 9, 5, 2, 14, 11, 8>>
Pi(i) == (9 * i + 5) % 16

\* Rho applied g times.
Permuted(g, i) ==
  LET turn[n \in 0..4] == IF n = 0 THEN i ELSE Rho[1 + turn[n-1]]
  IN  turn[g]

\* How far a message word turns the register, in each of the five rounds of sixteen.
Turns ==
  <<<<11, 14, 15, 12, 5, 8, 7, 9, 11, 13, 14, 15, 6, 7, 9, 8>>,
    <<12, 13, 11, 15, 6, 9, 9, 7, 12, 15, 11, 13, 7, 8, 7, 7>>,
    <<13, 15, 14, 11, 7, 7, 6, 8, 13, 14, 13, 12, 5, 5, 6, 9>>,
    <<14, 11, 12, 14, 8, 6, 5, 5, 15, 12, 15, 14, 9, 9, 8, 6>>,
    <<15, 12, 13, 13, 9, 5, 8, 6, 14, 11, 12, 11, 8, 6, 5, 5>>>>

BookFunction(n, x, y, z) ==
  CASE n = 0 -> Xor3(x, y, z)
    [] n = 1 -> (x \intersect y) \union (Not(x) \intersect z)
    [] n = 2 -> Xor(x \union Not(y), z)
    [] n = 3 -> (x \intersect z) \union (y \intersect Not(z))
    [] n = 4 -> Xor(x, y \union Not(z))

Added ==
  <<<<{}, Hex(\h5A82, \h7999), Hex(\h6ED9, \hEBA1), Hex(\h8F1B, \hBCDC), Hex(\hA953, \hFD4E)>>,
    <<Hex(\h50A2, \h8BE6), Hex(\h5C4D, \hD124), Hex(\h6D70, \h3EF3), Hex(\h7A6D, \h76E9), {}>>>>

BookIV ==
  <<Hex(\h6745, \h2301), Hex(\hEFCD, \hAB89), Hex(\h98BA, \hDCFE), Hex(\h1032, \h5476),
    Hex(\hC3D2, \hE1F0)>>

\* One round of the left (1) or right (2) line on A, B, C, D, E.
BookRound(line, v, X, j) ==
  LET g == j \div 16
      r == Permuted(g, IF line = 1 THEN j % 16 ELSE Pi(j % 16))
      f == BookFunction(IF line = 1 THEN g ELSE 4 - g, v[2], v[3], v[4])
      T == Plus(Rol(Total(<<v[1], f, X[r+1], Added[line][g+1]>>), Turns[g+1][r+1]), v[5])
  IN  <<v[5], T, v[2], Rol(v[3], 10), v[4]>>

\* The registers of a line before each round and after the last.
Line(line, X) ==
  LET history[t \in 0..5 * Len(X)] ==
        IF t = 0 THEN <<BookIV>>
        ELSE LET h == history[t-1] IN Append(h, BookRound(line, h[t], X, t - 1))
  IN  history[5 * Len(X)]

\* The digest of one block of sixteen words.
Ripemd160(X) ==
  LET l == Line(1, X)[81]
      r == Line(2, X)[81]
  IN  [i \in 1..5 |-> Total(<<BookIV[1 + (i % 5)], l[1 + ((i + 1) % 5)], r[1 + ((i + 2) % 5)]>>)]

Reversed(x) == FromBytes(<<Byte(x, 3), Byte(x, 2), Byte(x, 1), Byte(x, 0)>>)

\* hash160 of the 33 bytes of a public key.
PublicKeyHash(bytes) ==
  LET words == Sha256Words(bytes)
  IN  Ripemd160([i \in 1..16 |-> CASE i <= 8 -> Reversed(words[i-1])
                                   [] i = 9  -> Small(\h80)
                                   [] i = 15 -> Small(256)
                                   [] OTHER  -> {}])

\* Division by 58, high byte first: what is left after each byte, and the quotient.
Rest(bytes) ==
  LET rest[i \in 0..Len(bytes)] ==
        IF i = 0 THEN 0 ELSE (256 * rest[i-1] + bytes[i]) % 58
  IN  rest

Quotient(bytes) == [i \in 1..Len(bytes) |-> (256 * Rest(bytes)[i-1] + bytes[i]) \div 58]

IsZero(bytes) == \A n \in DOMAIN bytes : bytes[n] = 0

\* Digits are taken off at the low end until nothing is left; a byte is worth less than two digits.
Base58Digits(bytes) ==
  LET taken[n \in 0..2 * Len(bytes)] ==
        IF n = 0 THEN [left |-> bytes, digits |-> <<>>]
        ELSE LET s == taken[n-1]
             IN  IF IsZero(s.left) THEN s
                 ELSE [left   |-> Quotient(s.left),
                       digits |-> <<Rest(s.left)[Len(s.left)]>> \o s.digits]
  IN  taken[2 * Len(bytes)].digits

LeadingZeros(bytes) ==
  LET n == CHOOSE k \in 0..Len(bytes) :
             /\ \A m \in 1..k : bytes[m] = 0
             /\ k < Len(bytes) => bytes[k+1] # 0
  IN  [m \in 1..n |-> 0]

\* The address of a hash: version 0, the hash and four bytes of checksum, in base58.
AddressOf(hash) ==
  LET bytes == <<0>> \o hash \o SubSeq(sha256d(<<0>> \o hash), 1, 4)
  IN  LeadingZeros(bytes) \o Base58Digits(bytes)
===============================================================================
