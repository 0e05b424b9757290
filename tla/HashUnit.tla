------------------------------- MODULE HashUnit -------------------------------
(***************************************************************************)
(* The target and the hash together: the target is read from the command   *)
(* line, a lane hashes one point, filters it by word 2 and confirms what   *)
(* the filter lets through with the full digest.  TestKernel has the lanes *)
(* and what they publish, with the hash as a table.                        *)
(***************************************************************************)
EXTENDS TargetInput, Hash160, Hash160Reference

CONSTANTS
  Points   \* points a lane may come to: the words of x, high first, and whether y is odd

VARIABLES
  point,
  verdict   \* "none", "missed" or "found"

uvars == <<tvars, hvars, point, verdict>>

ASSUME PointAssumption ==
  \A p \in Points : p.x \in Seq(Word) /\ Len(p.x) = 8 /\ p.odd \in BOOLEAN

UnitInit ==
  /\ TargetInit /\ HashInit
  /\ point \in Points
  /\ verdict = "none"

Read == ReadingTarget /\ UNCHANGED <<hvars, point, verdict>>

Prefix == IF point.odd THEN 3 ELSE 2

\* The filter's hash of the lane's point.
HashPoint ==
  /\ input = "accepted" /\ phase = "idle"
  /\ Call([prefix |-> Prefix, e |-> point.x], FALSE)
  /\ UNCHANGED <<tvars, point, verdict>>

Hash == Hashing /\ UNCHANGED <<tvars, point, verdict>>

\* pref
FilterHit == digest[1] = target_words[3]

Miss ==
  /\ phase = "returned" /\ ~full /\ verdict = "none" /\ ~FilterHit
  /\ verdict' = "missed"
  /\ UNCHANGED <<tvars, hvars, point>>

\* hash160_full_match, up to the hash it asks for.
Confirm ==
  /\ phase = "returned" /\ ~full /\ verdict = "none" /\ FilterHit
  /\ Call(key, TRUE)
  /\ UNCHANGED <<tvars, point, verdict>>

\* Defect of the next definition: the last word is not compared.
MatchesFour == \A i \in 1..4 : digest[i] = target_words[i]

\* hash160_matches_full
MatchesFull == \A i \in 1..5 : digest[i] = target_words[i]

Decide ==
  /\ phase = "returned" /\ full /\ verdict = "none"
  /\ verdict' = IF MatchesFull THEN "found" ELSE "missed"
  /\ UNCHANGED <<tvars, hvars, point>>

Over == (verdict # "none" \/ input = "rejected") /\ UNCHANGED uvars

UnitNext == Read \/ HashPoint \/ Hash \/ Miss \/ Confirm \/ Decide \/ Over

UnitSpec == UnitInit /\ [][UnitNext]_uvars

\* The public key the host prints for a point: 33 bytes, as two hexadecimal digits each.
formatCompressedPubHex(p) ==
  LET out == [n \in 1..33 |-> IF n = 1 THEN IF p.odd THEN 3 ELSE 2
                              ELSE Byte(p.x[(n + 2) \div 4], (n + 2) % 4)]
  IN  [n \in 1..66 |-> LET b == out[(n + 1) \div 2] IN IF n % 2 = 1 THEN b \div 16 ELSE b % 16]

-------------------------------------------------------------------------------
(* Properties                                                              *)

\* The bytes of the public key a reader of the printed digits has.
PrintedKey(p) ==
  LET d == formatCompressedPubHex(p) IN [n \in 1..33 |-> 16 * d[2*n - 1] + d[2*n]]

\* The filter's value is word 2 of the digest although seven rounds are left out (the comment at
\* the trim asks for this check whenever a round or a rotation is touched): so the words built
\* from the limbs, padding and length included, are the bytes of the key the host prints, and the
\* sliding window, the registers named anew each round and the two interleaved lines of the
\* device give what the standard's definition gives.
FilterWordIsWord2 ==
  phase = "returned" /\ ~full => digest[1] = PublicKeyHash(PrintedKey(point))[3]

\* A point is found exactly if its hash is the one that was asked for: no key is missed by the
\* filter or the confirmation, and a key that agrees with the target in word 2 alone is not found.
FoundIffTarget ==
  verdict # "none" =>
    (verdict = "found" <=> PublicKeyHash(PrintedKey(point)) = target_words)

\* The digest's bytes, of each word the low one first.
HashBytes(words) == [n \in 1..20 |-> Byte(words[(n + 3) \div 4], 3 - ((n + 3) % 4))]

\* An address gets through exactly if it encodes a hash: what was accepted gives that address
\* again, and the address of a point is not rejected.
AddressRoundTrips ==
  request.address # <<>> /\ request.hash = <<>> /\ phase = "idle" =>
    /\ input = "accepted" => AddressOf(hash160) = request.address
    /\ input = "rejected" =>
         request.address # AddressOf(HashBytes(PublicKeyHash(PrintedKey(point))))
===============================================================================
