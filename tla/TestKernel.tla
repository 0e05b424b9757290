------------------------------ MODULE TestKernel -------------------------------
(***************************************************************************)
(* The search kernel TestKernel with publish_found_2, and the part of      *)
(* GpuPuzzle::Execute that launches it, waits for it and reads the result. *)
(*                                                                         *)
(* A point is represented by its private key, so that adding i*G is adding *)
(* i.  A lane walks its share of the range in batches of B keys around a   *)
(* centre; the lanes of a warp meet at every warp intrinsic.  The lane     *)
(* that finds a match publishes its scalar in the page shared with the     *)
(* host, limb by limb; until the fence the host may see any of the limbs.  *)
(*                                                                         *)
(* One batch shares one modular inverse.  If a factor of its product is    *)
(* zero, every point of the batch but the centre is garbage, and so is the *)
(* next centre.  Keys stay far below the group order.                      *)
(***************************************************************************)
EXTENDS Integers

CONSTANTS
  Warps, WarpSize,      \* the launch: Warps * WarpSize threads
  B,                    \* batch_size
  BatchesPerThread,
  Slices,               \* batches_per_launch of a full launch
  Starts,               \* the first key of the range
  MatchOffsets,         \* which keys match the target, as offsets from the first key
  NearOffsets,          \* which keys match in hash word 2 only
  Limbs                 \* the stores Copy_u64_x4 makes

ASSUME LaunchAssumption ==
  /\ Warps \in Nat \ {0} /\ WarpSize \in Nat \ {0} /\ Limbs \in Nat \ {0}
  /\ B \in Nat \ {0} /\ B % 2 = 0
  /\ BatchesPerThread \in Nat \ {0} /\ Slices \in Nat \ {0}
ASSUME RangeAssumption == Starts \subseteq Nat

Warp == 0 .. Warps-1
Lane == 0 .. Warps*WarpSize-1
LanesOf(w) == {l \in Lane : l \div WarpSize = w}
half == B \div 2

VARIABLES
  start, full, pref,  \* inputs: first key, keys matching the target, keys matching word 2
  hostpc, left,       \* Execute: batches_left
  reported,           \* what DumpFound printed
  Px, start_scalars,  \* device memory, kept between launches
  pc,                 \* where each lane is
  mask,               \* the lanes each warp's intrinsics name
  batches_done, step, \* a warp's position: batch, and place in the batch
  x1,                 \* each lane's centre
  claimed, found,     \* the flags of the result page
  scalar,             \* the limbs of the result page as the host sees them
  sent,               \* limbs each lane has stored that are not visible yet
  hashed              \* every key the kernel has hashed (history)

inputs == <<start, full, pref>>
host   == <<hostpc, left, reported>>
memory == <<Px, start_scalars>>
walk   == <<mask, batches_done, step, x1>>
page   == <<claimed, found, scalar, sent>>
vars   == <<inputs, host, memory, pc, walk, page, hashed>>

Garbage == -1      \* a point nobody knows the key of
Nothing == -2      \* a limb never written

Empty    == [j \in 1..Limbs |-> Nothing]
Whole(k) == [j \in 1..Limbs |-> k]

Least(a, b) == IF a <= b THEN a ELSE b

Keys == start .. start + Warps*WarpSize*BatchesPerThread*B - 1

Init ==
  /\ start \in Starts
  /\ \E m \in MatchOffsets, n \in NearOffsets :
       /\ full = {start + o : o \in m} \intersect Keys
       /\ pref = full \union ({start + o : o \in n} \intersect Keys)
  /\ hostpc = "launch"
  /\ left = BatchesPerThread
  /\ reported = Empty
  /\ Px = [l \in Lane |-> start + l*BatchesPerThread*B + half]
  /\ start_scalars = Px
  /\ pc = [l \in Lane |-> "idle"]
  /\ mask = [w \in Warp |-> {}]
  /\ batches_done = [w \in Warp |-> 0]
  /\ step = [w \in Warp |-> 0]
  /\ x1 = Px
  /\ claimed = FALSE /\ found = FALSE
  /\ scalar = Empty
  /\ sent = [l \in Lane |-> {}]
  /\ hashed = {}

-------------------------------------------------------------------------------
(* Execute                                                                 *)

\* Defect of the next definition: every launch is taken for the short last one.
RemainderOnly == left % Slices

batches_per_launch == Least(left, Slices)

\* CallGpuKernel; every lane loads its point, and the first mask names the whole warp.
LaunchKernel ==
  /\ hostpc = "launch" /\ left > 0
  /\ hostpc' = "kernel"
  /\ pc' = [l \in Lane |-> "ballot"]
  /\ mask' = [w \in Warp |-> LanesOf(w)]
  /\ batches_done' = [w \in Warp |-> 0]
  /\ x1' = Px
  /\ UNCHANGED <<inputs, left, reported, memory, step, page, hashed>>

\* cudaStreamSynchronize, then found is read, and DumpFound reads the scalar.
Synchronize ==
  /\ hostpc = "kernel"
  /\ \A l \in Lane : pc[l] = "exit"
  /\ left' = left - batches_per_launch
  /\ IF found
     THEN hostpc' = "found" /\ reported' = scalar
     ELSE hostpc' = "launch" /\ reported' = reported
  /\ UNCHANGED <<inputs, memory, pc, walk, page, hashed>>

GiveUp ==
  /\ hostpc = "launch" /\ left = 0
  /\ hostpc' = "exhausted"
  /\ UNCHANGED <<inputs, left, reported, memory, pc, walk, page, hashed>>

-------------------------------------------------------------------------------
(* TestKernel: the walk                                                    *)

\* Defect of the next definition: the tail block repeats the last positive offset.
OffsetNoTail(s) ==
  CASE s = 0               -> 0
    [] s > 0 /\ s % 2 = 1  -> (s + 1) \div 2
    [] s > 0 /\ s % 2 = 0  -> -(s \div 2)

\* The centre, then i + 1 above and below it, at last half below it.
Offset(s) ==
  CASE s = 0                            -> 0
    [] s = B - 1                        -> -half
    [] 0 < s /\ s < B-1 /\ s % 2 = 1    -> (s + 1) \div 2
    [] 0 < s /\ s < B-1 /\ s % 2 = 0    -> -(s \div 2)

\* Some factor c_Gx[i] - x1 or c_Jx - x1 of the batch's product is zero, and so is the inverse.
Degenerate(centre) == centre = Garbage \/ centre \in 1..half \union {B}

\* The key a lane hashes at a place of its batch.
KeyAt(l, s) ==
  IF x1[l] = Garbage \/ (s > 0 /\ Degenerate(x1[l])) THEN Garbage ELSE x1[l] + Offset(s)

At(w, place) == \A l \in mask[w] : pc[l] = place

Hits(w, keys) == {l \in mask[w] : KeyAt(l, step[w]) \in keys}

Goto(lanes, place) == [l \in Lane |-> IF l \in lanes THEN place ELSE pc[l]]

Live(w) == batches_done[w] < batches_per_launch

\* The loop head: __ballot_sync of "live".
Ballot(w) ==
  /\ mask[w] # {} /\ At(w, "ballot")
  /\ IF Live(w)
     THEN pc' = Goto(mask[w], "test")
     ELSE pc' = Goto(mask[w], "writeback")
  /\ step' = [step EXCEPT ![w] = 0]
  /\ UNCHANGED <<inputs, host, memory, mask, batches_done, x1, page, hashed>>

\* The point jump adds B*G.
Jump(centre) == IF Degenerate(centre) THEN Garbage ELSE centre + B

\* The next key of the batch, or the point jump and the next batch.
Advance(w) ==
  IF step[w] < B - 1
  THEN /\ step' = [step EXCEPT ![w] = @ + 1]
       /\ pc' = Goto(mask[w], "test")
       /\ UNCHANGED <<batches_done, x1>>
  ELSE /\ batches_done' = [batches_done EXCEPT ![w] = @ + 1]
       /\ x1' = [l \in Lane |-> IF l \in mask[w] THEN Jump(x1[l]) ELSE x1[l]]
       /\ pc' = Goto(mask[w], "ballot")
       /\ UNCHANGED step

\* A key is hashed and compared in word 2; __any_sync tells the warp whether to look closer.
Test(w) ==
  /\ mask[w] # {} /\ At(w, "test")
  /\ hashed' = hashed \union ({KeyAt(l, step[w]) : l \in mask[w]} \ {Garbage})
  /\ IF Hits(w, pref) # {}
     THEN /\ pc' = [l \in Lane |-> IF l \in Hits(w, full) THEN "claim"
                                   ELSE IF l \in mask[w] THEN "vote" ELSE pc[l]]
          /\ UNCHANGED <<batches_done, step, x1>>
     ELSE Advance(w)
  /\ UNCHANGED <<inputs, host, memory, mask, page>>

\* Who returns when __any_sync sees a full match: the whole warp.
Leaving(w) == mask[w]

Vote(w) ==
  /\ mask[w] # {} /\ At(w, "vote")
  /\ IF Hits(w, full) # {}
     THEN /\ pc' = [l \in Lane |-> IF l \in Leaving(w) THEN "exit"
                                   ELSE IF l \in mask[w] THEN "test" ELSE pc[l]]
          /\ UNCHANGED <<batches_done, step, x1>>
     ELSE Advance(w)
  /\ UNCHANGED <<inputs, host, memory, mask, page, hashed>>

\* Defect of the next definition: the scalar is left where the launch found it.
ScalarKept(l) == start_scalars

ScalarAfter(l) ==
  [start_scalars EXCEPT ![l] = @ + B * batches_done[l \div WarpSize]]

WriteBack(l) ==
  /\ pc[l] = "writeback"
  /\ Px' = [Px EXCEPT ![l] = x1[l]]
  /\ start_scalars' = ScalarAfter(l)
  /\ pc' = [pc EXCEPT ![l] = "exit"]
  /\ UNCHANGED <<inputs, host, walk, page, hashed>>

-------------------------------------------------------------------------------
(* publish_found_2                                                         *)

\* Defect of the next definition: "claimed" is tested without being set.
ClaimWithoutSwap(l) ==
  /\ pc[l] = "claim"
  /\ pc' = [pc EXCEPT ![l] = IF claimed THEN "vote" ELSE "store"]
  /\ UNCHANGED <<inputs, host, memory, walk, claimed, found, scalar, sent, hashed>>

\* atomicCAS_system(claimed, 0, 1)
Claim(l) ==
  /\ pc[l] = "claim"
  /\ pc' = [pc EXCEPT ![l] = IF claimed THEN "vote" ELSE "store"]
  /\ claimed' = TRUE
  /\ UNCHANGED <<inputs, host, memory, walk, found, scalar, sent, hashed>>

\* Defect of the next definition: the offset is added although it is negative.
ScalarAdded(l) ==
  LET delta == batches_done[l \div WarpSize] * B + Offset(step[l \div WarpSize])
  IN  start_scalars[l] + (IF delta >= 0 THEN delta ELSE -delta)

\* The scalar of the match, from the launch's start scalar and the lane's position.
ScalarOf(l) ==
  start_scalars[l] + batches_done[l \div WarpSize] * B + Offset(step[l \div WarpSize])

Store(l) ==
  /\ pc[l] = "store"
  /\ sent' = [sent EXCEPT ![l] = 1..Limbs]
  /\ pc' = [pc EXCEPT ![l] = "fence"]
  /\ UNCHANGED <<inputs, host, memory, walk, claimed, found, scalar, hashed>>

\* A stored limb reaches host memory, in whatever order.
Land(l) ==
  /\ \E j \in sent[l] :
       /\ sent' = [sent EXCEPT ![l] = @ \ {j}]
       /\ scalar' = [scalar EXCEPT ![j] = ScalarOf(l)]
  /\ UNCHANGED <<inputs, host, memory, pc, walk, claimed, found, hashed>>

\* Defect of the next definition: the fence does not wait.
FenceOfNothing(l) == TRUE

Fenced(l) == sent[l] = {}

\* __threadfence_system
Fence(l) ==
  /\ pc[l] = "fence"
  /\ Fenced(l)
  /\ pc' = [pc EXCEPT ![l] = "flag"]
  /\ UNCHANGED <<inputs, host, memory, walk, page, hashed>>

\* atomicExch_system(found, 1)
Flag(l) ==
  /\ pc[l] = "flag"
  /\ found' = TRUE
  /\ pc' = [pc EXCEPT ![l] = "vote"]
  /\ UNCHANGED <<inputs, host, memory, walk, claimed, scalar, sent, hashed>>

-------------------------------------------------------------------------------

Host     == LaunchKernel \/ Synchronize \/ GiveUp
OfWarp(w) == Ballot(w) \/ Test(w) \/ Vote(w)
OfLane(l) == WriteBack(l) \/ Claim(l) \/ Store(l) \/ Land(l) \/ Fence(l) \/ Flag(l)
Over     == hostpc \in {"found", "exhausted"} /\ UNCHANGED vars

Next ==
  \/ Host
  \/ \E w \in Warp : OfWarp(w)
  \/ \E l \in Lane : OfLane(l)
  \/ Over

\* The GPU schedules every warp and every lane of it, a store lands, and the worker thread runs.
Fairness ==
  /\ WF_vars(Host)
  /\ \A w \in Warp : WF_vars(OfWarp(w))
  /\ \A l \in Lane : WF_vars(OfLane(l))

Spec == Init /\ [][Next]_vars /\ Fairness

-------------------------------------------------------------------------------
(* Properties                                                              *)

\* Whoever sees found set, host poll or not, finds all limbs of one scalar in the page: the stores
\* of the limbs cannot be overtaken by the flag, nor mixed with another finder's.
NeverTorn == found => \A j \in 1..Limbs : scalar[j] # Nothing /\ scalar[j] = scalar[1]

\* The key the host prints hashes to the target: the scalar put together from the launch's start
\* scalar, the batch count and a signed offset is the key whose point was hashed.
ReportedKeyMatches == hostpc = "found" => \E k \in full : reported = Whole(k)

\* Reporting "exhausted" means every key of the range was hashed, across the point jumps and the
\* write-backs between launches, and none of them matched.
ExhaustedMeansHashed == hostpc = "exhausted" => Keys \subseteq hashed /\ full = {}

\* Outside a search that ended, the stored point is the point of the stored scalar, so that a later
\* launch reports the key it hashed.
PointMatchesScalar == (\A l \in Lane : pc[l] = "exit") /\ ~found => Px = start_scalars

\* The kernel returns and the host reaches a verdict: no warp waits for ever at an intrinsic and
\* no finder is left unpublished.
SearchEnds == <>(hostpc \in {"found", "exhausted"})

\* What the coverage notes and the comment on the stride in PrepareHost say of every range: no key
\* of it is skipped.
NoKeySkipped == hostpc = "exhausted" => Keys \subseteq hashed

\* The content of the page for whoever believes "found".
PageContent == IF found THEN scalar ELSE Empty

Page == INSTANCE FindResult
  WITH Nothing <- Empty,
       matches <- {Whole(k) : k \in full},
       result  <- PageContent

\* The result page keeps the promise of FindResult: one match appears whole, once, and stays.
ImplementsFindResult == Page!Spec
===============================================================================
