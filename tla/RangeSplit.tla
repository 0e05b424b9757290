------------------------------ MODULE RangeSplit -------------------------------
(***************************************************************************)
(* From the --range argument to the parts of the GPUs: validate_params     *)
(* turns start and end, both inclusive, into a start and a length, and     *)
(* find_key deals the keys out, chunk by chunk, one more to each of the    *)
(* first GPUs while the remainder lasts.                                   *)
(*                                                                         *)
(* parse_params has taken the arguments apart; that the target is given    *)
(* and well formed is part of FindKey's setup, not of this module.         *)
(***************************************************************************)
EXTENDS Math256, Sequences, FiniteSets

CONSTANTS
  MAX_BATCH_SIZE,
  Requests   \* records [first, last, batch, blocks, slices, gpus]: --range, --grid A,B, --slices

ASSUME RequestAssumption ==
  /\ MAX_BATCH_SIZE \in Nat
  /\ \A q \in Requests :
       /\ q.first \in 0 .. Keys-1 /\ q.last \in 0 .. Keys-1
       /\ {q.batch, q.blocks, q.slices, q.gpus} \subseteq 1 .. Word-1   \* what parse_params lets through

VARIABLES
  phase,
  request,
  length,        \* pOutParams.range
  chunk, extra,  \* quotient and remainder of the split
  current,       \* the start of the next part
  parts          \* the parts dealt out so far, <<start, length>> in limbs

rvars == <<request, length, chunk, extra, current, parts>>

SplitInit ==
  /\ phase = "validate"
  /\ request \in Requests
  /\ length = LimbsOf(0) /\ chunk = LimbsOf(0) /\ extra = 0
  /\ current = LimbsOf(0)
  /\ parts = <<>>

\* A reversed range borrows; the whole keyspace has a length that does not fit.
BadRange(diff, len) == diff.borrow \/ len.overflow

IsPow2(v) == \E e \in 0..v : v = 2^e

BadBatch(b) == ~IsPow2(b) \/ b % 2 = 1 \/ b > MAX_BATCH_SIZE

Validate ==
  /\ phase = "validate"
  /\ LET diff == sub_256(LimbsOf(request.last), LimbsOf(request.first))
         len  == add_256(diff.r, num_256_1)
     IN  IF BadRange(diff, len) \/ BadBatch(request.batch)
         THEN phase' = "usage" /\ UNCHANGED length
         ELSE phase' = "divide" /\ length' = len.r
  /\ UNCHANGED <<request, chunk, extra, current, parts>>

Divide ==
  /\ phase = "divide"
  /\ LET q == div_256_u64(length, request.gpus)
     IN  chunk' = q.quotient /\ extra' = q.remainder
  /\ current' = LimbsOf(request.first)
  /\ phase' = "deal"
  /\ UNCHANGED <<request, length, parts>>

\* Defect of the next definition: the remainder goes nowhere.
ChunkAlone == chunk

\* chunk_effective of the next GPU.
ChunkEffective ==
  IF Len(parts) < extra THEN add_256(chunk, num_256_1).r ELSE chunk

\* The next GPU gets its part; its Prepare is ScanPlan's.
Deal ==
  /\ phase = "deal" /\ Len(parts) < request.gpus
  /\ parts' = Append(parts, <<current, ChunkEffective>>)
  /\ current' = add_256(current, ChunkEffective).r
  /\ UNCHANGED <<phase, request, length, chunk, extra>>

-------------------------------------------------------------------------------
(* Properties                                                              *)

First(g) == ValueOf(parts[g][1])
Size(g)  == ValueOf(parts[g][2])

\* The limbs of the length stand for the number of keys from first to last, and a request is refused
\* only if it is reversed, covers every key there is, or has a bad batch size.
LengthIsExact ==
  LET keys == request.last - request.first + 1
  IN  /\ phase \notin {"validate", "usage"} => ValueOf(length) = keys
      /\ phase = "usage" => keys \notin 1 .. Keys-1 \/ BadBatch(request.batch)

\* The keys of the first g parts.
Dealt == LET sum[g \in 0..Len(parts)] == IF g = 0 THEN 0 ELSE sum[g-1] + Size(g) IN sum

\* The parts tile the range in order, without gap or overlap, the last GPU's part ends at its last
\* key, and no GPU gets two keys more than another, whatever the carries between the limbs.
PartsTile ==
  /\ \A g \in 1..Len(parts) : First(g) = (request.first + Dealt[g-1]) % Keys
  /\ \A g, h \in 1..Len(parts) : Size(g) - Size(h) \in -1 .. 1
  /\ Len(parts) = request.gpus => Dealt[request.gpus] = request.last - request.first + 1
===============================================================================
