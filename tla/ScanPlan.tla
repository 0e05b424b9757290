------------------------------- MODULE ScanPlan -------------------------------
(***************************************************************************)
(* How one GPU scans its part of the range: GpuPuzzle::Prepare sizes the   *)
(* launch, shrinks slices and batch to the range, gives every thread the   *)
(* same number of batches; GpuPuzzle::Execute spends that budget launch by *)
(* launch.  Keys are integers; the kernel is reduced to the keys it tests, *)
(* batch_size of them around each thread's scalar in every batch.          *)
(*                                                                         *)
(* The part is one RangeSplit deals out.  A u64 has Word values.           *)
(* PrepareHost divides, multiplies and adds in limbs; the centres are      *)
(* integers, which count on past the last key where the limbs start over:  *)
(* no part reaches that far.  A part may be empty: there can be more GPUs  *)
(* than keys.  Failures and Stop() are FindKey's, and a centre next to the *)
(* point at infinity is TestKernel's subject.                              *)
(***************************************************************************)
EXTENDS RangeSplit

CONSTANTS
  THREADS_PER_BLOCK,
  MIN_THREADS_PER_BLOCK,
  BLOCKS_PER_SM,
  Devices   \* records [sms, maxThreadsPerBlock, memThreads]

ASSUME BuildAssumption  ==
  /\ THREADS_PER_BLOCK \in Nat \ {0}
  /\ MIN_THREADS_PER_BLOCK \in Nat \ {0}
  /\ BLOCKS_PER_SM \in Nat \ {0}
ASSUME DeviceAssumption ==
  Devices \subseteq [sms : Nat \ {0}, maxThreadsPerBlock : Nat \ {0}, memThreads : Nat]

VARIABLES
  device,         \* the GPU this plan is for
  start, range,   \* its part
  tpb,            \* threadsPerBlock
  threads,        \* threadsTotal
  batch,          \* effectiveBatchSize
  slices,         \* effectiveSlises
  budget,         \* batches_per_thread
  runs_total, runs_done, batches_left,
  scalar,         \* the centre of each thread's next batch
  tested          \* every key the kernel has tested

inputs == <<rvars, device, start, range>>
grid   == <<tpb, threads>>
spend  == <<runs_done, batches_left, scalar, tested>>
plan   == <<device, start, range, grid, batch, slices, budget, runs_total, spend>>
vars   == <<phase, rvars, plan>>

Init ==
  /\ SplitInit
  /\ device = CHOOSE d \in Devices : TRUE
  /\ start = 0 /\ range = 0
  /\ batch = 2 /\ slices = 1
  /\ tpb = 0 /\ threads = 0
  /\ budget = 0 /\ runs_total = 0
  /\ runs_done = 0 /\ batches_left = 0
  /\ scalar = <<>>
  /\ tested = {}

Split == (Validate \/ Divide \/ Deal) /\ UNCHANGED plan

\* Prepare is called for the part just dealt, on its device; the GPUs before it have had theirs.
Prepare ==
  /\ phase = "deal" /\ parts # <<>>
  /\ device' \in Devices
  /\ start' = First(Len(parts)) /\ range' = Size(Len(parts))
  /\ batch' = request.batch /\ slices' = request.slices
  /\ phase' = "size"
  /\ UNCHANGED <<rvars, grid, budget, runs_total, spend>>

Least(a, b)    == IF a <= b THEN a ELSE b
Greatest(a, b) == IF a <= b THEN b ELSE a
RoundDown(a, b) == a - (a % b)

\* div_256_u64, then add_256_u64 of one if there is a remainder.
CeilDiv(a, b) == a \div b + (IF a % b = 0 THEN 0 ELSE 1)

-------------------------------------------------------------------------------
(* GetThreadsPerBlock, GetThreadsCount                                     *)

ThreadsPerBlock ==
  LET fit == Least(THREADS_PER_BLOCK, device.maxThreadsPerBlock)
  IN  IF fit < MIN_THREADS_PER_BLOCK THEN MIN_THREADS_PER_BLOCK ELSE fit

MaxThreadsByMem   == RoundDown(device.memThreads, device.sms)
UserMaxThreads(b) == device.sms * request.blocks * b
MinThreads(b)     == device.sms * b * BLOCKS_PER_SM

\* The range asks for so many threads; more than a u64 of them is no limit.
WantedThreads(b) ==
  LET byRange == CeilDiv(range, batch * slices)
      byCaps  == Least(MaxThreadsByMem, UserMaxThreads(b))
  IN  Greatest(IF byRange < Word THEN Least(byRange, byCaps) ELSE byCaps, MinThreads(b))

\* Defect of the next definition: a last, partial block is kept.
ThreadsUnrounded(b) == WantedThreads(b)

\* Whole resident waves, or at least whole blocks.
ThreadsCount(b) ==
  LET wanted == WantedThreads(b)
      wave   == device.sms * BLOCKS_PER_SM * b
  IN  RoundDown(wanted, IF wanted >= wave THEN wave ELSE b)

SizeThreads ==
  /\ phase = "size"
  /\ tpb' = ThreadsPerBlock
  /\ threads' = ThreadsCount(ThreadsPerBlock)
  /\ phase' = "shrink"
  /\ UNCHANGED <<inputs, batch, slices, budget, runs_total, spend>>

-------------------------------------------------------------------------------
(* CalcEffectiveBatchSize                                                  *)

Shrinkable == slices > 1 \/ batch > 3

\* One launch of a thread would overrun its share of the range.
ShrinkAgain == CeilDiv(range, threads) < batch * slices /\ Shrinkable

\* Defect of the next definition: the batch is left as it is.
BatchKept == batch

NextBatch == batch - 2

Shrink ==
  /\ phase = "shrink"
  /\ ShrinkAgain
  /\ IF slices > 1
     THEN slices' = slices - 1 /\ batch' = batch
     ELSE slices' = slices /\ batch' = NextBatch
  /\ UNCHANGED <<phase, inputs, grid, budget, runs_total, spend>>

ShrinkDone ==
  /\ phase = "shrink"
  /\ ~ShrinkAgain
  /\ phase' = "host"
  /\ UNCHANGED <<inputs, grid, batch, slices, budget, runs_total, spend>>

-------------------------------------------------------------------------------
(* PrepareHost, and the budget fields Prepare fills in                     *)

half == batch \div 2

\* A last, short part counts as a whole one.
CeilLimbs(a, b) ==
  LET q == div_256_u64(a, b)
  IN  IF q.remainder = 0 THEN q.quotient ELSE add_256_u64(q.quotient, 1).r

\* The same number of whole batches for every thread.
per_thread_batches == CeilLimbs(CeilLimbs(LimbsOf(range), batch), threads)

\* A budget that takes more than one limb is refused.
TooMany == \E i \in LimbIndex \ {0} : per_thread_batches[i] # 0

\* Where the batches of each thread begin: the loop adds the same stride again and again.
Begins(per_thread_cnt) ==
  LET cur[t \in 0..threads-1] == IF t = 0 THEN LimbsOf(start) ELSE add_256(cur[t-1], per_thread_cnt).r
  IN  cur

\* The first centre is half a batch on from there.
h_start_scalars ==
  LET begins == Begins(mul_256_u64(per_thread_batches, batch).r)
  IN  [t \in 0..threads-1 |-> add_256_u64(begins[t], half).r]

\* The numbers those limbs stand for, were there no last one.
StartScalars(b) == [t \in 0..threads-1 |-> start + t * b * batch + half]

\* u64 arithmetic: the sum wraps.
RunsTotal(b) == ((b + slices - 1) % Word) \div slices

Refuse ==
  /\ phase = "host"
  /\ TooMany
  /\ phase' = "refused"
  /\ UNCHANGED <<inputs, grid, batch, slices, budget, runs_total, spend>>

PrepareHost ==
  /\ phase = "host"
  /\ ~TooMany
  /\ budget' = per_thread_batches[0]
  /\ batches_left' = budget'
  /\ runs_total' = RunsTotal(budget')
  /\ scalar' = StartScalars(budget')
  /\ phase' = "run"
  /\ UNCHANGED <<inputs, grid, batch, slices, runs_done, tested>>

-------------------------------------------------------------------------------
(* Execute                                                                 *)

\* Defect of the next definition: the last launch runs its full slice.
FullSlice == slices

BatchesPerLaunch == Least(batches_left, slices)

\* Prepare launches threads / threadsPerBlock blocks; an incomplete block is not among them.
Launched == 0 .. (threads \div tpb) * tpb - 1

\* A batch tests its centre, half - 1 keys on either side and the key half below.
BatchOf(centre) == centre - half .. centre + half - 1

KeysOfLaunch(bpl) ==
  UNION {BatchOf(scalar[t] + k * batch) : t \in Launched, k \in 0..bpl-1}

\* Defect of the next definition: the kernel keeps the scalars it started from.
ScalarsKept(bpl) == scalar

\* The kernel writes each thread's next centre back.
NextScalars(bpl) ==
  [t \in DOMAIN scalar |-> scalar[t] + (IF t \in Launched THEN bpl * batch ELSE 0)]

MoreLaunches == runs_done < runs_total /\ batches_left # 0

Launch ==
  /\ phase = "run"
  /\ MoreLaunches
  /\ tested' = tested \union KeysOfLaunch(BatchesPerLaunch)
  /\ scalar' = NextScalars(BatchesPerLaunch)
  /\ runs_done' = runs_done + 1
  /\ batches_left' = batches_left - BatchesPerLaunch
  /\ UNCHANGED <<phase, inputs, grid, batch, slices, budget, runs_total>>

ScanDone ==
  /\ phase = "run"
  /\ ~MoreLaunches
  /\ phase' = "done"
  /\ UNCHANGED <<inputs, grid, batch, slices, budget, runs_total, spend>>

Over == phase \in {"usage", "done", "refused"} /\ UNCHANGED vars

Step == Split \/ Prepare \/ SizeThreads \/ Shrink \/ ShrinkDone \/ Refuse \/ PrepareHost \/ Launch \/ ScanDone

Next == Step \/ Over

\* A single thread of the program runs this code to its end.
Spec == Init /\ [][Next]_vars /\ WF_vars(Step)

-------------------------------------------------------------------------------
(* Properties                                                              *)

Part == start .. start + range - 1

\* When Execute reports the part exhausted, every key of it has been tested: rounding the thread
\* count down, the shrunk batch, the uniform budget and the short last launch leave no hole.
NoKeyMissed == phase = "done" => Part \subseteq tested

\* No key is tested twice: what has been tested is as much as the launches so far account for,
\* the figure the speed display is computed from.
NoKeyTwice ==
  phase \in {"run", "done"} =>
    Cardinality(tested) = threads * batch * (budget - batches_left)

\* Rounding up costs less than one batch per thread past the end of the part.
OverscanBounded ==
  \A k \in tested : start <= k /\ k < start + range + threads * batch - 1

\* Sizing, shrinking and scanning come to an end.
ScanEnds == <>(phase \in {"usage", "done", "refused"})

\* The comment in PrepareHost: a budget that a u64 cannot hold is refused rather than the scan
\* silently truncated, so a scan that ends has spent its budget.
NeverTruncated == phase = "done" => batches_left = 0
===============================================================================
