------------------------------ MODULE TargetInput ------------------------------
(***************************************************************************)
(* The target of a scan, from the command line to the words the device     *)
(* compares with: --address through base58 and its checksum, or            *)
(* --target-hash160.  A character stands for its value in the alphabet of  *)
(* base58 or of hexadecimal numbers, or is Foreign to it.                  *)
(***************************************************************************)
EXTENDS Sha256

CONSTANTS
  Requests   \* what the command line may say

Foreign == -1

\* At most one of the two is given in a request that gets through.
ASSUME RequestAssumption ==
  \A r \in Requests : r.address \in Seq(Foreign..57) /\ r.hash \in Seq(Foreign..15)

VARIABLES
  request,
  input,    \* where validate_params is
  read,     \* characters of the address read so far
  b256,     \* their value, low byte first
  hash160   \* the target, as bytes

tvars == <<request, input, read, b256, hash160>>

TargetInit ==
  /\ request \in Requests
  /\ input = "given"
  /\ read = 0
  /\ b256 = <<>>
  /\ hash160 = <<>>

Reject == input' = "rejected" /\ UNCHANGED <<request, read, b256, hash160>>

Accept(bytes) == input' = "accepted" /\ hash160' = bytes /\ UNCHANGED <<request, read, b256>>

GivenBoth == request.address # <<>> /\ request.hash # <<>>
GivenNone == request.address = <<>> /\ request.hash = <<>>

RefuseUsage == input = "given" /\ (GivenBoth \/ GivenNone) /\ Reject

\* hexToHash160
HexWellFormed == Len(request.hash) = 40 /\ \A n \in 1..40 : request.hash[n] # Foreign

HexToHash160 ==
  /\ input = "given" /\ ~GivenBoth /\ request.hash # <<>>
  /\ IF HexWellFormed
     THEN Accept([i \in 1..20 |-> 16 * request.hash[2*i - 1] + request.hash[2*i]])
     ELSE Reject

\* decode_p2pkh_address, up to the decoding: the first character must be the alphabet's first.
StartAddress ==
  /\ input = "given" /\ ~GivenBoth /\ request.address # <<>>
  /\ IF request.address[1] = 0
     THEN input' = "base58" /\ UNCHANGED <<request, read, b256, hash160>>
     ELSE Reject

\* bytes * 58 + d, low byte first: the carry that comes into each byte and the one that is left.
Carry(bytes, d) ==
  LET carry[j \in 1..Len(bytes)+1] ==
        IF j = 1 THEN d ELSE (58 * bytes[j-1] + carry[j-1]) \div 256
  IN  carry

\* The last carry is below 58, so that it becomes one more byte at most.
TimesFiftyEight(bytes, d) ==
  LET carry == Carry(bytes, d)
      last  == carry[Len(bytes) + 1]
  IN  [j \in 1..Len(bytes) |-> (58 * bytes[j] + carry[j]) % 256]
        \o (IF last = 0 THEN <<>> ELSE <<last>>)

\* One character of base58_decode.
Digit ==
  /\ input = "base58" /\ read < Len(request.address)
  /\ LET d == request.address[read + 1]
     IN  IF d = Foreign THEN Reject
         ELSE /\ b256' = TimesFiftyEight(b256, d)
              /\ read' = read + 1
              /\ UNCHANGED <<request, input, hash160>>

\* The leading characters of value 0.
Ones ==
  CHOOSE k \in 0..Len(request.address) :
    /\ \A m \in 1..k : request.address[m] = 0
    /\ k < Len(request.address) => request.address[k+1] # 0

\* Defect of the next definition: leading zero bytes are not restored.
RawUnpadded == [j \in 1..Len(b256) |-> b256[Len(b256) + 1 - j]]

\* Zero bytes for the leading ones, then the number, high byte first.
Raw ==
  [j \in 1..Ones + Len(b256) |-> IF j <= Ones THEN 0 ELSE b256[Ones + Len(b256) + 1 - j]]

\* Version, hash and the checksum over both.
Checked ==
  /\ Len(Raw) = 25 /\ Raw[1] = 0
  /\ SubSeq(sha256d(SubSeq(Raw, 1, 21)), 1, 4) = SubSeq(Raw, 22, 25)

EndAddress ==
  /\ input = "base58" /\ read = Len(request.address)
  /\ IF Checked THEN Accept(SubSeq(Raw, 2, 21)) ELSE Reject

ReadingTarget == RefuseUsage \/ HexToHash160 \/ StartAddress \/ Digit \/ EndAddress

\* PrepareCuda: the five words of c_target_words, little endian.
target_words ==
  [i \in 1..5 |-> FromBytes(<<hash160[4*i], hash160[4*i - 1], hash160[4*i - 2], hash160[4*i - 3]>>)]
===============================================================================
