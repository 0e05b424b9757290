---------------------------- MODULE FindKeyProofs -----------------------------
(***************************************************************************)
(* Safety of FindKey for every number of GPUs and every split of the range.*)
(*                                                                         *)
(* The argument: main never leaves its drain loop under a live worker,     *)
(* because g_threadcnt is the number of live workers (Counting); a worker  *)
(* past its loop either spent its whole budget or has a reason that main   *)
(* will see before it picks the exit code (WorkerInv); and what main sees  *)
(* after the drain cannot change any more (PhaseInv, OutcomeInv).          *)
(***************************************************************************)
EXTENDS FindKey, FiniteSetTheorems, TLAPS

PastLoop  == {"release", "report", "retire", "done"}
Starting  == {"init", "prepare"}
Creating  == {"create", "spawn"}
Stopping  == {"stop", "drain", "join", "collect", "return"}
Quiet     == {"join", "collect", "return", "teardown"}
Busy(g)   == wpc[g] \in {"launch", "running", "wedged"}

\* Each worker on its own.
WorkerOK(g) ==
  /\ g \in thr_started <=> wpc[g] # "none"
  /\ runs_done[g] <= runs_total[g]
  /\ hit[g] <= runs_total[g]
  /\ Busy(g) => runs_done[g] < runs_total[g]
  /\ wpc[g] \in Scanning \union {"release"} => held[g]
  /\ wpc[g] \in Scanning => ~Failed[g]
  /\ Found[g] => ~Failed[g] /\ wpc[g] \in PastLoop
  /\ Found[g] <=> (hit[g] # 0 /\ runs_done[g] = hit[g])
  /\ hit[g] # 0 => runs_done[g] <= hit[g]
  /\ g_found \/ ~Found[g] \/ wpc[g] \notin {"retire", "done"}
  /\ ~m_stopFlag[g] => late[g] = 0
  /\ late[g] <= 1
  /\ Busy(g) => late[g] = 0
  /\ (wpc[g] \in PastLoop /\ ~Failed[g] /\ ~Found[g]) =>
       (runs_done[g] = runs_total[g] \/ g_sigint \/ g_found)

WorkerInv == \A g \in GPU : WorkerOK(g)

\* A key announced is a key printed.
FoundInv == g_found => \E g \in GPU : Found[g]

\* The two facts about the counter: what it counts, and who is yet to be created.
Counting ==
  /\ CounterCountsWorkers
  /\ pc \in Starting => thr_started = {}
  /\ pc \in Creating => \A g \in GPU : g >= i => g \notin thr_started
  /\ pc = "spawn" => i <= N

\* Who is prepared, while Prepare runs and after.
PreparedInv ==
  /\ pc = "init" => i = 1
  /\ pc \in Starting => \A g \in GPU : /\ g < i <=> (g \in prepared \/ Failed[g])
                                       /\ g \in prepared => ~Failed[g]
  /\ pc \in Creating \union {"watch", "sleep"} \union Stopping =>
       \A g \in GPU : g \in prepared \/ Failed[g]
  /\ pc \in Starting \union Creating =>
       \A g \in GPU : g \in prepared /\ g \notin thr_started => held[g]

\* Who has a worker, while the create loop runs and after.
StartedInv ==
  /\ \A g \in GPU : g \in thr_started => g \in prepared
  /\ pc = "spawn" => ~Failed[i]
  /\ pc \in Creating => \A g \in GPU : g < i => (g \in thr_started \/ Failed[g])
  /\ pc \in {"watch", "sleep"} \union Stopping => \A g \in GPU : g \in thr_started \/ Failed[g]

\* Past the drain loop no worker is left.
QuietInv ==
  /\ aborted => pc = "exit"
  /\ (Alive /\ setup # "ok") => pc = "teardown"
  /\ pc \in Quiet => \A g \in GPU : wpc[g] \in {"none", "done"}
  /\ InProcess => \A g \in GPU : wpc[g] \in {"none", "done"} /\ ~held[g]

PhaseInv == PreparedInv /\ StartedInv /\ QuietInv

\* Stop() calls cut a scan short only for a reason the exit code will show.
StopInv ==
  /\ pc \notin Stopping \union {"teardown", "exit"} => \A g \in GPU : ~m_stopFlag[g]
  /\ (pc \in Stopping \/ \E g \in GPU : m_stopFlag[g]) =>
       g_sigint \/ g_found \/ \A g \in GPU : wpc[g] \in {"none", "done"}
  /\ pc = "stop" =>
       \A g \in GPU : g < i /\ wpc[g] \in {"start", "test", "launch", "running"} => m_stopFlag[g]
  /\ DrainingMeansStopped

\* The exit code, once it is chosen.
OutcomeInv ==
  /\ (pc = "return" /\ ~any_failed) => \A g \in GPU : ~Failed[g]
  /\ exit_code = EXIT_NOT_FOUND => pc \in {"teardown", "exit"}
  /\ (pc \in {"teardown", "exit"} /\ exit_code = EXIT_NOT_FOUND) =>
       /\ ~g_found
       /\ \A g \in GPU : /\ g \in prepared /\ g \in thr_started /\ ~Failed[g] /\ ~Found[g]
                         /\ runs_done[g] = runs_total[g] /\ hit[g] = 0
  /\ (pc \in {"teardown", "exit"} /\ ~aborted /\ Searched) =>
       (exit_code = EXIT_FOUND <=> \E g \in GPU : Found[g])

\* The inductive invariant.
IInv ==
  /\ TypeOK
  /\ WorkerInv
  /\ FoundInv
  /\ Counting
  /\ PhaseInv
  /\ StopInv
  /\ OutcomeInv

-------------------------------------------------------------------------------
(* The counter                                                             *)

LEMMA LiveFinite ==
  ASSUME TypeOK
  PROVE  /\ IsFiniteSet(Live)
         /\ Cardinality(Live) \in Nat
         /\ Cardinality(Live) <= N
         /\ Cardinality(Live) = 0 <=> \A g \in GPU : wpc[g] \in {"none", "done"}
<1>1. IsFiniteSet(GPU) /\ Cardinality(GPU) = N
  BY NAssumption, FS_Interval DEF GPU
<1>2. Live \in SUBSET GPU
  BY DEF Live
<1>3. IsFiniteSet(Live) /\ Cardinality(Live) <= N
  BY <1>1, <1>2, FS_Subset
<1>4. Cardinality(Live) \in Nat
  BY <1>3, FS_CardinalityType
<1>5. Cardinality(Live) = 0 <=> Live = {}
  BY <1>3, FS_EmptySet
<1>6. Live = {} <=> \A g \in GPU : wpc[g] \in {"none", "done"}
  BY DEF Live
<1> QED
  BY <1>3, <1>4, <1>5, <1>6

\* The counter has room for the worker about to be created, and is positive while one lives.
LEMMA CounterRange ==
  ASSUME TypeOK, Counting, WorkerInv, Alive
  PROVE  /\ pc \in Creating /\ i <= N => Cardinality(Live) < N
         /\ \A g \in GPU : g \in Live => Cardinality(Live) > 0
<1>1. IsFiniteSet(GPU) /\ Cardinality(GPU) = N
  BY NAssumption, FS_Interval DEF GPU
<1>2. ASSUME pc \in Creating, i <= N
      PROVE  Cardinality(Live) < N
  <2>1. i \in GPU /\ i \notin Live
    BY <1>2, NAssumption DEF TypeOK, Counting, WorkerInv, WorkerOK, GPU, Live
  <2>2. Live \in SUBSET GPU /\ Live # GPU
    BY <2>1 DEF Live
  <2> QED
    BY <1>1, <2>2, FS_Subset, LiveFinite, NAssumption
<1>3. ASSUME NEW g \in GPU, g \in Live
      PROVE  Cardinality(Live) > 0
  BY <1>3, LiveFinite, FS_EmptySet
<1> QED
  BY <1>2, <1>3

-------------------------------------------------------------------------------
(* Every step preserves the invariant                                      *)

\* The index of a for loop that is not over is a GPU.
LEMMA IndexIsGPU ==
  ASSUME TypeOK, i <= N
  PROVE  i \in GPU /\ i + 1 \in 1..N+1
BY NAssumption DEF TypeOK, GPU

\* The GPUs a loop has passed: none at 1, one more after each turn, all at the end.
LEMMA NoneBelow == \A g \in GPU : ~(g < 1)
BY DEF GPU

LEMMA BelowNext ==
  ASSUME TypeOK, i <= N
  PROVE  \A g \in GPU : g < i + 1 <=> g < i \/ g = i
BY DEF TypeOK, GPU

LEMMA AllBelow ==
  ASSUME i = N + 1
  PROVE  \A g \in GPU : g < i
BY NAssumption DEF GPU

LEMMA TypeOKMain ==
  ASSUME TypeOK, WorkerInv, Counting, Main
  PROVE  TypeOK'
<1> USE DEF TypeOK, locals, mainVars, workerVars, planVars, restVars
<1>1. CASE Setup
  BY <1>1 DEF Setup, SetupCode, EXIT_FAILURE, EXIT_GPU_ERROR, MainPc
<1>2. CASE PrepareOk
  BY <1>2, IndexIsGPU DEF PrepareOk
<1>3. CASE PrepareFails
  BY <1>3, IndexIsGPU DEF PrepareFails
<1>4. CASE PrepareDone
  BY <1>4, NAssumption DEF PrepareDone, EXIT_GPU_ERROR, MainPc
<1>5. CASE SkipFailed
  BY <1>5, IndexIsGPU DEF SkipFailed
<1>6. CASE Charge
  <2>1. Charged \in 0..N
    BY <1>6, CounterRange, LiveFinite, NAssumption
       DEF Charge, Charged, Counting, CounterCountsWorkers, Alive, Creating
  <2> QED
    BY <1>6, <2>1 DEF Charge, MainPc
<1>7. CASE Spawn
  BY <1>7, IndexIsGPU DEF Spawn, Counting, MainPc, WorkerPc
<1>8. CASE SpawnFails
  <2>1. Refunded \in 0..N
    BY <1>8, LiveFinite, NAssumption
       DEF SpawnFails, Refunded, Counting, CounterCountsWorkers, Alive
  <2> QED
    BY <1>8, <2>1, IndexIsGPU DEF SpawnFails, Counting, MainPc
<1>9. CASE CreateDone
  BY <1>9 DEF CreateDone, EXIT_GPU_ERROR, MainPc
<1>10. CASE Watch \/ Wake
  BY <1>10, NAssumption DEF Watch, Wake, MainPc
<1>11. CASE StopGpu
  BY <1>11, IndexIsGPU DEF StopGpu, FailedSeen
<1>12. CASE StopDone \/ Drain \/ Join
  BY <1>12 DEF StopDone, Drain, Join, MainPc
<1>13. CASE Collect
  BY <1>13 DEF Collect, SomeFailed, MainPc
<1>14. CASE Return
  BY <1>14 DEF Return, ReturnCode, MainPc, EXIT_FOUND, EXIT_INTERRUPTED, EXIT_GPU_ERROR,
               EXIT_NOT_FOUND
<1>15. CASE Teardown
  BY <1>15 DEF Teardown, MainPc
<1> QED
  BY <1>1, <1>2, <1>3, <1>4, <1>5, <1>6, <1>7, <1>8, <1>9, <1>10, <1>11, <1>12, <1>13, <1>14,
     <1>15 DEF Main

LEMMA TypeOKWorker ==
  ASSUME TypeOK, WorkerInv, Counting, NEW g \in GPU, Worker(g) \/ Wedge(g)
  PROVE  TypeOK'
<1> USE DEF TypeOK, WorkerPc, workerKeeps, locals, mainVars, planVars
<1>1. CASE Enter(g)
  BY <1>1 DEF Enter
<1>2. CASE Test(g)
  BY <1>2 DEF Test
<1>3. CASE Launch(g)
  BY <1>3 DEF Launch
<1>4. CASE Finish(g)
  <2>1. runs_done[g] + 1 \in 0..MaxRuns
    BY <1>4, MaxRunsAssumption DEF Finish, WorkerInv, WorkerOK, Busy
  <2>2. late' \in [GPU -> Nat]
    BY <1>4 DEF Finish
  <2>3. runs_done' \in [GPU -> 0..MaxRuns]
    BY <1>4, <2>1 DEF Finish
  <2> QED
    BY <1>4, <2>2, <2>3 DEF Finish
<1>5. CASE Die(g) \/ Wedge(g)
  BY <1>5 DEF Die, Wedge
<1>6. CASE Release(g) \/ Report(g)
  BY <1>6 DEF Release, Report
<1>7. CASE Retire(g)
  <2>1. g \in Live /\ Alive
    BY <1>7 DEF Retire, Live
  <2>2. Cardinality(Live) > 0
    BY <2>1, CounterRange
  <2>3. g_threadcnt >= Cardinality(Live)
    BY <2>1, LiveFinite DEF Counting, CounterCountsWorkers
  <2>4. g_threadcnt - 1 \in 0..N
    BY <2>2, <2>3, LiveFinite, NAssumption
  <2> QED
    BY <1>7, <2>4 DEF Retire
<1> QED
  BY <1>1, <1>2, <1>3, <1>4, <1>5, <1>6, <1>7 DEF Worker

LEMMA WorkerInvMain ==
  ASSUME TypeOK, WorkerInv, Counting, PhaseInv, Main
  PROVE  WorkerInv'
<1> SUFFICES ASSUME NEW h \in GPU
             PROVE  WorkerOK(h)'
  BY DEF WorkerInv
<1>0. WorkerOK(h)
  BY DEF WorkerInv
<1> USE <1>0 DEF TypeOK, WorkerOK, Busy, Scanning, PastLoop, locals, mainVars, workerVars,
                 planVars, restVars
<1>1. CASE PrepareOk
  BY <1>1 DEF PrepareOk
<1>2. CASE PrepareFails
  BY <1>2 DEF PrepareFails, Counting, Starting
<1>3. CASE Spawn
  BY <1>3 DEF Spawn, Counting, PhaseInv, PreparedInv, StartedInv, Creating, Starting
<1>4. CASE SpawnFails
  BY <1>4 DEF SpawnFails, Counting, Creating
<1>5. CASE StopGpu
  BY <1>5 DEF StopGpu
<1>6. CASE Teardown
  BY <1>6 DEF Teardown, PhaseInv, QuietInv, Quiet
<1>7. CASE Setup \/ PrepareDone \/ SkipFailed \/ Charge \/ CreateDone \/ Watch \/ Wake
  BY <1>7 DEF Setup, PrepareDone, SkipFailed, Charge, CreateDone, Watch, Wake
<1>8. CASE StopDone \/ Drain \/ Join \/ Collect \/ Return
  BY <1>8 DEF StopDone, Drain, Join, Collect, Return
<1> QED
  BY <1>1, <1>2, <1>3, <1>4, <1>5, <1>6, <1>7, <1>8 DEF Main

LEMMA WorkerInvWorker ==
  ASSUME TypeOK, WorkerInv, StopInv, NEW g \in GPU, Worker(g) \/ Wedge(g)
  PROVE  WorkerInv'
<1> SUFFICES ASSUME NEW h \in GPU
             PROVE  WorkerOK(h)'
  BY DEF WorkerInv
<1>0. WorkerOK(h)
  BY DEF WorkerInv
<1> USE <1>0 DEF TypeOK, WorkerOK, Busy, Scanning, PastLoop, locals, mainVars, workerKeeps,
                 planVars
<1>1. CASE Enter(g)
  BY <1>1 DEF Enter
<1>2. CASE Test(g)
  BY <1>2 DEF Test, AnotherRun, StopInv
<1>3. CASE Launch(g)
  BY <1>3 DEF Launch
<1>4. CASE Finish(g)
  BY <1>4 DEF Finish
<1>5. CASE Die(g)
  BY <1>5 DEF Die
<1>6. CASE Wedge(g)
  BY <1>6 DEF Wedge
<1>7. CASE Release(g)
  BY <1>7 DEF Release
<1>8. CASE Report(g)
  BY <1>8 DEF Report
<1>9. CASE Retire(g)
  BY <1>9 DEF Retire
<1> QED
  BY <1>1, <1>2, <1>3, <1>4, <1>5, <1>6, <1>7, <1>8, <1>9 DEF Worker

\* g_found is raised by a worker that printed a key, and a printed key stays printed.
LEMMA FoundInvStep ==
  ASSUME TypeOK, WorkerInv, FoundInv, Next
  PROVE  FoundInv'
<1> USE DEF FoundInv, TypeOK
<1>1. CASE Main
  BY <1>1 DEF Main, Setup, PrepareOk, PrepareFails, PrepareDone, SkipFailed, Charge, Spawn,
              SpawnFails, CreateDone, Watch, Wake, StopGpu, StopDone, Drain, Join, Collect, Return,
              Teardown, restVars, workerVars
<1>2. ASSUME NEW g \in GPU, Worker(g)
      PROVE  FoundInv'
  <2>1. CASE Report(g)
    BY <2>1 DEF Report
  <2>2. CASE Finish(g)
    BY <2>2 DEF Finish
  <2> QED
    BY <1>2, <2>1, <2>2 DEF Worker, Enter, Test, Launch, Die, Release, Retire
<1>3. CASE Interrupt \/ InterruptAgain \/ Gone \/ \E g \in GPU : Wedge(g)
  BY <1>3 DEF Interrupt, InterruptAgain, Gone, Wedge, vars, restVars, workerVars
<1> QED
  BY <1>1, <1>2, <1>3 DEF Next

LEMMA CountingMain ==
  ASSUME TypeOK, WorkerInv, Counting, PhaseInv, Main
  PROVE  Counting'
<1> USE DEF TypeOK, Starting, Creating, locals, mainVars, workerVars, restVars, planVars
<1>1. ASSUME wpc' = wpc, pc # "exit"
      PROVE  Live' = Live /\ Cardinality(Live') = Cardinality(Live)
  BY <1>1 DEF Live
<1>2. Cardinality(Live) \in Nat
  BY LiveFinite
<1>3. CASE Charge
  BY <1>1, <1>2, <1>3 DEF Charge, Charged, Counting, CounterCountsWorkers, Alive
<1>4. CASE SpawnFails
  BY <1>1, <1>2, <1>4 DEF SpawnFails, Refunded, Counting, CounterCountsWorkers, Alive, GPU
<1>5. CASE Spawn
  <2>1. i \in GPU /\ wpc[i] = "none"
    BY <1>5, NAssumption DEF Spawn, Counting, WorkerInv, WorkerOK, GPU
  <2>2. Live' = Live \union {i} /\ i \notin Live
    BY <1>5, <2>1 DEF Spawn, Live
  <2>3. Cardinality(Live') = Cardinality(Live) + 1
    BY <2>2, LiveFinite, FS_AddElement
  <2>4. g_threadcnt' = Cardinality(Live')
    BY <1>2, <1>5, <2>3 DEF Spawn, Counting, CounterCountsWorkers, Alive
  <2>5. \A g \in GPU : g >= i' => g \notin thr_started'
    BY <1>5 DEF Spawn, Counting, GPU
  <2> QED
    BY <1>5, <2>4, <2>5 DEF Spawn, Counting, CounterCountsWorkers
<1>6. CASE Setup \/ PrepareOk \/ PrepareFails \/ PrepareDone
  BY <1>1, <1>2, <1>6 DEF Setup, PrepareOk, PrepareFails, PrepareDone, Counting,
                          CounterCountsWorkers, Alive
<1>7. CASE SkipFailed \/ CreateDone
  BY <1>1, <1>2, <1>7 DEF SkipFailed, CreateDone, Counting, CounterCountsWorkers, Alive, GPU
<1>8. CASE Watch \/ Wake \/ StopGpu \/ StopDone
  BY <1>1, <1>2, <1>8 DEF Watch, Wake, StopGpu, StopDone, Counting, CounterCountsWorkers, Alive
<1>9. CASE Drain \/ Join \/ Collect \/ Return \/ Teardown
  BY <1>1, <1>2, <1>9 DEF Drain, Join, Collect, Return, Teardown, Counting,
                          CounterCountsWorkers, Alive
<1> QED
  BY <1>3, <1>4, <1>5, <1>6, <1>7, <1>8, <1>9 DEF Main

LEMMA CountingWorker ==
  ASSUME TypeOK, WorkerInv, Counting, NEW g \in GPU, Worker(g) \/ Wedge(g)
  PROVE  Counting'
<1> USE DEF TypeOK, Starting, Creating, locals, mainVars, workerKeeps, Counting,
            CounterCountsWorkers
<1>0. Cardinality(Live) \in Nat /\ IsFiniteSet(Live)
  BY LiveFinite
<1>1. CASE Retire(g)
  <2>1. Live' = Live \ {g} /\ g \in Live
    BY <1>1 DEF Retire, Live
  <2>2. Cardinality(Live') = Cardinality(Live) - 1
    BY <1>0, <2>1, FS_RemoveElement
  <2> QED
    BY <1>0, <1>1, <2>2 DEF Retire, Alive
<1>2. CASE ~Retire(g)
  <2>1. Live' = Live
    BY <1>2 DEF Worker, Enter, Test, Launch, Finish, Die, Wedge, Release, Report, Live
  <2>2. g_threadcnt' = g_threadcnt /\ UNCHANGED <<pc, i, thr_started>> /\ Alive
    BY <1>2 DEF Worker, Enter, Test, Launch, Finish, Die, Wedge, Release, Report
  <2> QED
    BY <2>1, <2>2 DEF Alive
<1> QED
  BY <1>1, <1>2

LEMMA PreparedInvMain ==
  ASSUME TypeOK, WorkerInv, Counting, PhaseInv, Main
  PROVE  PreparedInv'
<1>0. PreparedInv /\ StartedInv /\ QuietInv
  BY DEF PhaseInv
<1>1. /\ Failed \in [GPU -> BOOLEAN] /\ held \in [GPU -> BOOLEAN]
      /\ prepared \in SUBSET GPU /\ i \in Int
  BY NAssumption DEF TypeOK
<1> USE <1>0, <1>1 DEF PreparedInv, StartedInv, Starting, Creating, Stopping, locals, mainVars,
                       workerVars, restVars, planVars
<1>2. CASE Setup
  BY <1>2, NoneBelow DEF Setup
<1>3. CASE PrepareOk
  <2>1. i \in GPU /\ ~(i < i) /\ \A g \in GPU : g < i' <=> g < i \/ g = i
    BY <1>3, IndexIsGPU, BelowNext DEF PrepareOk
  <2>2. \A g \in GPU : g \in prepared' <=> g \in prepared \/ g = i
    BY <1>3 DEF PrepareOk
  <2>3. \A g \in GPU : held[g] => held'[g]
    BY <1>3 DEF PrepareOk
  <2>4. held'[i] /\ pc = "prepare" /\ UNCHANGED <<pc, thr_started, Failed>>
    BY <1>3, <2>1 DEF PrepareOk
  <2> QED
    BY <2>1, <2>2, <2>3, <2>4
<1>4. CASE PrepareFails
  <2>1. i \in GPU /\ ~(i < i) /\ \A g \in GPU : g < i' <=> g < i \/ g = i
    BY <1>4, IndexIsGPU, BelowNext DEF PrepareFails
  <2>2. \A g \in GPU : Failed'[g] <=> Failed[g] \/ g = i
    BY <1>4 DEF PrepareFails
  <2>3. pc = "prepare" /\ UNCHANGED <<pc, prepared, thr_started, held>>
    BY <1>4 DEF PrepareFails
  <2> QED
    BY <2>1, <2>2, <2>3
<1>5. CASE PrepareDone
  <2>1. \A g \in GPU : g \in prepared \/ Failed[g]
    BY <1>5, AllBelow DEF PrepareDone
  <2>2. pc = "prepare" /\ UNCHANGED <<prepared, thr_started, Failed, held>>
    BY <1>5 DEF PrepareDone
  <2>3. pc' \in {"create", "teardown"}
    BY <1>5 DEF PrepareDone
  <2> QED
    BY <2>1, <2>2, <2>3
<1>6. CASE SkipFailed \/ Charge \/ CreateDone
  BY <1>6 DEF SkipFailed, Charge, CreateDone
<1>7. CASE Spawn \/ SpawnFails
  <2>1. \A g \in GPU : Failed[g] => Failed'[g]
    BY <1>7 DEF Spawn, SpawnFails
  <2>2. thr_started \subseteq thr_started'
    BY <1>7 DEF Spawn, SpawnFails
  <2>3. pc = "spawn" /\ pc' = "create" /\ UNCHANGED <<prepared, held>>
    BY <1>7 DEF Spawn, SpawnFails
  <2> QED
    BY <2>1, <2>2, <2>3
<1>8. CASE Watch \/ Wake \/ StopGpu \/ StopDone
  BY <1>8 DEF Watch, Wake, StopGpu, StopDone
<1>9. CASE Drain \/ Join \/ Collect \/ Return \/ Teardown
  BY <1>9 DEF Drain, Join, Collect, Return, Teardown
<1> QED
  BY <1>2, <1>3, <1>4, <1>5, <1>6, <1>7, <1>8, <1>9 DEF Main

LEMMA StartedInvMain ==
  ASSUME TypeOK, Counting, PhaseInv, Main
  PROVE  StartedInv'
<1> USE DEF TypeOK, PhaseInv, StartedInv, Starting, Creating, Stopping, locals, mainVars,
            workerVars, restVars, planVars
<1>1. CASE Setup \/ PrepareOk \/ PrepareFails
  BY <1>1 DEF Setup, PrepareOk, PrepareFails, Counting
<1>2. CASE PrepareDone
  BY <1>2, NoneBelow DEF PrepareDone, Counting
<1>3. CASE SkipFailed \/ Charge
  BY <1>3, IndexIsGPU, BelowNext DEF SkipFailed, Charge
<1>4. CASE Spawn
  BY <1>4 DEF Spawn, Counting, PreparedInv, GPU
<1>5. CASE SpawnFails
  BY <1>5 DEF SpawnFails, Counting, GPU
<1>6. CASE CreateDone
  BY <1>6, AllBelow DEF CreateDone
<1>7. CASE Watch \/ Wake \/ StopGpu \/ StopDone
  BY <1>7 DEF Watch, Wake, StopGpu, StopDone
<1>8. CASE Drain \/ Join \/ Collect \/ Return \/ Teardown
  BY <1>8 DEF Drain, Join, Collect, Return, Teardown
<1> QED
  BY <1>1, <1>2, <1>3, <1>4, <1>5, <1>6, <1>7, <1>8 DEF Main

LEMMA QuietInvMain ==
  ASSUME TypeOK, WorkerInv, Counting, PhaseInv, Main
  PROVE  QuietInv'
<1> USE DEF TypeOK, PhaseInv, QuietInv, Quiet, InProcess, Alive, locals, mainVars, workerVars,
            restVars, planVars
<1>1. CASE Setup
  BY <1>1 DEF Setup, Counting, Starting, WorkerInv, WorkerOK
<1>2. CASE PrepareOk \/ PrepareFails
  BY <1>2 DEF PrepareOk, PrepareFails
<1>3. CASE PrepareDone
  BY <1>3 DEF PrepareDone, Counting, Starting, WorkerInv, WorkerOK
<1>4. CASE CreateDone
  BY <1>4 DEF CreateDone, WorkerInv, WorkerOK
<1>5. CASE SkipFailed \/ Charge \/ Spawn \/ SpawnFails
  BY <1>5 DEF SkipFailed, Charge, Spawn, SpawnFails
<1>6. CASE Watch \/ Wake \/ StopGpu \/ StopDone
  BY <1>6 DEF Watch, Wake, StopGpu, StopDone
<1>7. CASE Drain
  <2>1. \A g \in GPU : wpc[g] \in {"none", "done"}
    BY <1>7, LiveFinite DEF Drain, Drained, Counting, CounterCountsWorkers
  <2> QED
    BY <1>7, <2>1 DEF Drain
<1>8. CASE Join \/ Collect \/ Return
  BY <1>8 DEF Join, Collect, Return
<1>9. CASE Teardown
  BY <1>9 DEF Teardown
<1> QED
  BY <1>1, <1>2, <1>3, <1>4, <1>5, <1>6, <1>7, <1>8, <1>9 DEF Main

LEMMA PhaseInvWorker ==
  ASSUME TypeOK, WorkerInv, Counting, PhaseInv, NEW g \in GPU, Worker(g) \/ Wedge(g)
  PROVE  PhaseInv'
<1>1. /\ g \in thr_started /\ pc \notin Starting /\ pc \notin Quiet /\ pc # "exit"
      /\ UNCHANGED <<pc, i, setup, prepared, thr_started, aborted>>
      /\ \A h \in GPU : h # g => Failed'[h] = Failed[h] /\ held'[h] = held[h]
  BY DEF Worker, Enter, Test, Launch, Finish, Die, Wedge, Release, Report, Retire, WorkerInv,
         WorkerOK, Counting, PhaseInv, QuietInv, Alive, TypeOK, workerKeeps, mainVars, locals
<1>2. PreparedInv'
  BY <1>1 DEF PhaseInv, PreparedInv, StartedInv, Starting, Creating, Stopping
<1>3. StartedInv'
  BY <1>1 DEF PhaseInv, StartedInv, Counting, Creating, Stopping, GPU, TypeOK
<1>4. QuietInv'
  BY <1>1 DEF PhaseInv, QuietInv, InProcess, Alive
<1> QED
  BY <1>2, <1>3, <1>4 DEF PhaseInv

LEMMA StopInvMain ==
  ASSUME TypeOK, WorkerInv, Counting, PhaseInv, StopInv, Main
  PROVE  StopInv'
<1> USE DEF TypeOK, StopInv, DrainingMeansStopped, Stopping, locals, mainVars, workerVars,
            restVars, planVars
<1>1. CASE Setup \/ PrepareOk \/ PrepareFails \/ PrepareDone \/ SkipFailed \/ Charge
  BY <1>1 DEF Setup, PrepareOk, PrepareFails, PrepareDone, SkipFailed, Charge
<1>2. CASE Spawn \/ SpawnFails \/ CreateDone
  BY <1>2 DEF Spawn, SpawnFails, CreateDone
<1>3. CASE Watch
  <2>1. CASE KeepWatching
    BY <1>3, <2>1 DEF Watch
  <2>2. CASE ~KeepWatching
    <3>1. g_sigint \/ \A g \in GPU : wpc[g] \in {"none", "done"}
      BY <1>3, <2>2, LiveFinite DEF Watch, KeepWatching, Counting, CounterCountsWorkers, Alive
    <3>2. pc' = "stop" /\ i' = 1 /\ UNCHANGED <<m_stopFlag, wpc, g_sigint, g_found>>
      BY <1>3, <2>2 DEF Watch
    <3> QED
      BY <1>3, <3>1, <3>2 DEF GPU, Watch
  <2> QED
    BY <2>1, <2>2
<1>4. CASE Wake
  BY <1>4 DEF Wake, GPU
<1>5. CASE StopGpu
  <2>1. i \in GPU /\ pc' = "stop" /\ i' = i + 1
    BY <1>5, IndexIsGPU DEF StopGpu
  <2>2. wpc[i] \in {"start", "test", "launch", "running"} => m_stopFlag'[i]
    BY <1>5, <2>1 DEF StopGpu, FailedSeen, WorkerInv, WorkerOK, Scanning
  <2>3. \A g \in GPU : m_stopFlag[g] => m_stopFlag'[g]
    BY <1>5 DEF StopGpu
  <2>4. \A g \in GPU : g < i' => g < i \/ g = i
    BY <2>1 DEF GPU
  <2> QED
    BY <1>5, <2>1, <2>2, <2>3, <2>4 DEF StopGpu
<1>6. CASE StopDone
  <2>1. \A g \in GPU : g < i
    BY <1>6, NAssumption DEF StopDone, GPU
  <2> QED
    BY <1>6, <2>1 DEF StopDone
<1>7. CASE Drain \/ Join \/ Collect \/ Return \/ Teardown
  BY <1>7 DEF Drain, Join, Collect, Return, Teardown
<1> QED
  BY <1>1, <1>2, <1>3, <1>4, <1>5, <1>6, <1>7 DEF Main

LEMMA StopInvWorker ==
  ASSUME TypeOK, StopInv, NEW g \in GPU, Worker(g) \/ Wedge(g)
  PROVE  StopInv'
<1> USE DEF TypeOK, StopInv, DrainingMeansStopped, Stopping, locals, mainVars, workerKeeps,
            planVars
<1>1. CASE Enter(g) \/ Test(g) \/ Launch(g) \/ Finish(g)
  BY <1>1 DEF Enter, Test, Launch, Finish, AnotherRun
<1>2. CASE Die(g) \/ Wedge(g) \/ Release(g) \/ Report(g) \/ Retire(g)
  BY <1>2 DEF Die, Wedge, Release, Report, Retire
<1> QED
  BY <1>1, <1>2 DEF Worker

LEMMA OutcomeInvMain ==
  ASSUME TypeOK, WorkerInv, FoundInv, Counting, PhaseInv, OutcomeInv, Main
  PROVE  OutcomeInv'
<1> USE DEF TypeOK, OutcomeInv, Searched, EXIT_FOUND, EXIT_FAILURE, EXIT_NOT_FOUND,
            EXIT_GPU_ERROR, EXIT_INTERRUPTED, locals, mainVars, workerVars, restVars, planVars
<1>1. CASE Setup
  BY <1>1 DEF Setup, SetupCode, PhaseInv, QuietInv
<1>2. CASE PrepareOk \/ PrepareFails \/ PrepareDone
  BY <1>2 DEF PrepareOk, PrepareFails, PrepareDone, Counting, Starting
<1>3. CASE SkipFailed \/ Charge \/ Spawn \/ SpawnFails \/ CreateDone
  BY <1>3 DEF SkipFailed, Charge, Spawn, SpawnFails, CreateDone
<1>4. CASE Watch \/ Wake \/ StopGpu \/ StopDone \/ Drain \/ Join
  BY <1>4 DEF Watch, Wake, StopGpu, StopDone, Drain, Join
<1>5. CASE Collect
  BY <1>5 DEF Collect, SomeFailed
<1>6. CASE Return
  <2>1. \A g \in GPU : wpc[g] \in {"none", "done"}
    BY <1>6 DEF Return, PhaseInv, QuietInv, Quiet
  <2>2. \A g \in GPU : Found[g] => g_found
    BY <2>1 DEF WorkerInv, WorkerOK, PastLoop
  <2>3. g_found <=> \E g \in GPU : Found[g]
    BY <2>2 DEF FoundInv
  <2>4. exit_code' = EXIT_FOUND <=> g_found
    BY <1>6 DEF Return, ReturnCode
  <2>5. ASSUME exit_code' = EXIT_NOT_FOUND, NEW g \in GPU
        PROVE  /\ g \in prepared /\ g \in thr_started /\ ~Failed[g] /\ ~Found[g]
               /\ runs_done[g] = runs_total[g] /\ hit[g] = 0
    <3>1. ~g_found /\ ~g_sigint /\ ~any_failed
      BY <1>6, <2>5 DEF Return, ReturnCode
    <3>2. ~Failed[g] /\ ~Found[g]
      BY <1>6, <2>2, <3>1 DEF Return
    <3>3. g \in thr_started /\ g \in prepared /\ wpc[g] = "done"
      BY <1>6, <2>1, <3>2 DEF Return, PhaseInv, PreparedInv, StartedInv, Stopping, WorkerInv,
                              WorkerOK
    <3>4. runs_done[g] = runs_total[g] /\ hit[g] = 0
      BY <3>1, <3>2, <3>3 DEF WorkerInv, WorkerOK, PastLoop
    <3> QED
      BY <3>2, <3>3, <3>4
  <2>6. exit_code' = EXIT_NOT_FOUND => ~g_found
    BY <1>6 DEF Return, ReturnCode
  <2> QED
    BY <1>6, <2>3, <2>4, <2>5, <2>6 DEF Return
<1>7. CASE Teardown
  BY <1>7 DEF Teardown, PhaseInv, QuietInv, Alive
<1> QED
  BY <1>1, <1>2, <1>3, <1>4, <1>5, <1>6, <1>7 DEF Main

LEMMA OutcomeInvWorker ==
  ASSUME TypeOK, WorkerInv, PhaseInv, OutcomeInv, NEW g \in GPU, Worker(g) \/ Wedge(g)
  PROVE  OutcomeInv'
<1>1. pc \notin {"teardown", "return", "exit"}
  BY DEF Worker, Enter, Test, Launch, Finish, Die, Wedge, Release, Report, Retire, PhaseInv,
         QuietInv, Quiet, Alive
<1>2. UNCHANGED <<pc, exit_code>>
  BY DEF Worker, Enter, Test, Launch, Finish, Die, Wedge, Release, Report, Retire, workerKeeps,
         mainVars, locals
<1> QED
  BY <1>1, <1>2 DEF OutcomeInv

\* No step of the handler, and no stutter, touches what the invariant is about.
LEMMA SignalStep ==
  ASSUME IInv, Interrupt \/ InterruptAgain \/ Gone \/ UNCHANGED vars
  PROVE  IInv'
<1> USE DEF IInv, locals, mainVars, workerVars, restVars, planVars, vars
<1>1. UNCHANGED <<i, setup, g_found, g_threadcnt, prepared, thr_started, any_failed, wpc, Failed,
                  Found, m_stopFlag, held, runs_done, runs_total, hit, late>>
  BY DEF Interrupt, InterruptAgain, Gone
<1>2. g_sigint => g_sigint'
  BY DEF Interrupt, InterruptAgain, Gone
<1>3. \/ UNCHANGED <<pc, exit_code, aborted>>
      \/ pc' = "exit" /\ exit_code' = EXIT_INTERRUPTED /\ aborted' = TRUE
  BY DEF Interrupt, InterruptAgain, Gone
<1>4. TypeOK'
  <2>1. g_sigint' \in BOOLEAN
    BY DEF Interrupt, InterruptAgain, Gone, TypeOK
  <2>2. CASE UNCHANGED <<pc, exit_code, aborted>>
    BY <1>1, <2>1, <2>2 DEF TypeOK
  <2>3. CASE pc' = "exit" /\ exit_code' = EXIT_INTERRUPTED /\ aborted' = TRUE
    BY <1>1, <2>1, <2>3 DEF TypeOK, MainPc, EXIT_INTERRUPTED
  <2> QED
    BY <1>3, <2>2, <2>3
<1>5. WorkerInv'
  BY <1>1, <1>2 DEF WorkerInv, WorkerOK, Busy
<1>6. FoundInv'
  BY <1>1 DEF FoundInv
<1>7. Counting'
  BY <1>1, <1>3 DEF Counting, CounterCountsWorkers, Live, Alive, Starting, Creating
<1>8. PhaseInv'
  BY <1>1, <1>3 DEF PhaseInv, PreparedInv, StartedInv, QuietInv, InProcess, Alive, Starting,
                    Creating, Stopping, Quiet
<1>9. StopInv'
  BY <1>1, <1>2, <1>3 DEF StopInv, DrainingMeansStopped, Stopping
<1>10. OutcomeInv'
  BY <1>1, <1>3 DEF OutcomeInv, Searched, EXIT_INTERRUPTED, EXIT_NOT_FOUND
<1> QED
  BY <1>4, <1>5, <1>6, <1>7, <1>8, <1>9, <1>10

-------------------------------------------------------------------------------
(* The theorems                                                            *)

LEMMA IInvInit ==
  ASSUME Init
  PROVE  IInv
<1>1. TypeOK
  <2>1. 1 \in 1..N+1 /\ 0 \in 0..N /\ 0 \in 0..MaxRuns
    BY NAssumption, MaxRunsAssumption
  <2>2. runs_total \in [GPU -> 0..MaxRuns] /\ hit \in [GPU -> 0..MaxRuns]
    BY DEF Init
  <2>3. runs_done \in [GPU -> 0..MaxRuns] /\ late \in [GPU -> Nat] /\ wpc \in [GPU -> WorkerPc]
    BY <2>1 DEF Init, WorkerPc
  <2>4. /\ Failed \in [GPU -> BOOLEAN] /\ Found \in [GPU -> BOOLEAN]
        /\ m_stopFlag \in [GPU -> BOOLEAN] /\ held \in [GPU -> BOOLEAN]
    BY DEF Init
  <2>5. pc \in MainPc /\ exit_code \in 0..4 /\ i \in 1..N+1 /\ g_threadcnt \in 0..N
    BY <2>1 DEF Init, MainPc
  <2> QED
    BY <2>2, <2>3, <2>4, <2>5 DEF Init, TypeOK
<1>2. WorkerInv
  BY DEF Init, WorkerInv, WorkerOK, Busy, Scanning, PastLoop
<1>3. Live = {}
  BY DEF Init, Live
<1>4. Counting
  BY <1>3, FS_EmptySet DEF Init, Counting, CounterCountsWorkers, Starting, Creating
<1>5. PhaseInv
  BY NoneBelow DEF Init, PhaseInv, PreparedInv, StartedInv, QuietInv, InProcess, Alive, Starting,
                   Creating, Stopping, Quiet
<1>6. FoundInv /\ StopInv /\ OutcomeInv
  BY DEF Init, FoundInv, StopInv, DrainingMeansStopped, Stopping, OutcomeInv, EXIT_NOT_FOUND
<1> QED
  BY <1>1, <1>2, <1>4, <1>5, <1>6 DEF IInv

LEMMA IInvStep ==
  ASSUME IInv, [Next]_vars
  PROVE  IInv'
<1>1. CASE Main
  <2>1. TypeOK' /\ WorkerInv'
    BY <1>1, TypeOKMain, WorkerInvMain DEF IInv
  <2>2. FoundInv' /\ Counting'
    BY <1>1, FoundInvStep, CountingMain DEF IInv, Next
  <2>3. PhaseInv'
    BY <1>1, PreparedInvMain, StartedInvMain, QuietInvMain DEF IInv, PhaseInv
  <2>4. StopInv' /\ OutcomeInv'
    BY <1>1, StopInvMain, OutcomeInvMain DEF IInv
  <2> QED
    BY <2>1, <2>2, <2>3, <2>4 DEF IInv
<1>2. ASSUME NEW g \in GPU, Worker(g) \/ Wedge(g)
      PROVE  IInv'
  <2>1. TypeOK' /\ WorkerInv'
    BY <1>2, TypeOKWorker, WorkerInvWorker DEF IInv
  <2>2. FoundInv' /\ Counting'
    BY <1>2, FoundInvStep, CountingWorker DEF IInv, Next
  <2>3. PhaseInv' /\ StopInv' /\ OutcomeInv'
    BY <1>2, PhaseInvWorker, StopInvWorker, OutcomeInvWorker DEF IInv
  <2> QED
    BY <2>1, <2>2, <2>3 DEF IInv
<1>3. CASE Interrupt \/ InterruptAgain \/ Gone \/ UNCHANGED vars
  BY <1>3, SignalStep
<1> QED
  BY <1>1, <1>2, <1>3 DEF Next

LEMMA Invariance == Spec => []IInv
<1>1. Init => IInv
  BY IInvInit
<1>2. IInv /\ [Next]_vars => IInv'
  BY IInvStep
<1> QED
  BY <1>1, <1>2, PTL DEF Spec

\* Every variable of main, the workers and the handler keeps its type; in particular the counter
\* stays within 0..N and no worker runs past its launch budget.
THEOREM TypeCorrect == Spec => []TypeOK
<1>1. IInv => TypeOK
  BY DEF IInv
<1> QED
  BY <1>1, Invariance, PTL

\* g_threadcnt is always the number of workers that will still decrement it, whatever fails
\* between the charge in find_key and the decrement in puzzle_thr_proc.
THEOREM CounterCorrect == Spec => []CounterCountsWorkers
<1>1. IInv => CounterCountsWorkers
  BY DEF IInv, Counting
<1> QED
  BY <1>1, Invariance, PTL

\* No worker loses its buffers while it may still use them: main's delete comes after the drain
\* even where the join does not wait (the Windows build).
THEOREM BuffersSafe == Spec => []BuffersOutliveWorkers
<1>1. IInv => BuffersOutliveWorkers
  BY DEF IInv, WorkerInv, WorkerOK, BuffersOutliveWorkers
<1> QED
  BY <1>1, Invariance, PTL

\* After the Stop() loop every worker that could launch again has been told to stop, although the
\* loop may skip a GPU on a racy read of Failed.
THEOREM StopReachesAll == Spec => []DrainingMeansStopped
<1>1. IInv => DrainingMeansStopped
  BY DEF IInv, StopInv
<1> QED
  BY <1>1, Invariance, PTL

\* A worker told to stop finishes at most one more launch.
THEOREM StopIsPrompt == Spec => []OneLaunchAfterStop
<1>1. IInv => OneLaunchAfterStop
  BY DEF IInv, WorkerInv, WorkerOK, OneLaunchAfterStop
<1> QED
  BY <1>1, Invariance, PTL

\* Exit code 2 is given only when every GPU ran its whole budget, without a failure or a match.
THEOREM ExhaustedIsExhaustive == Spec => []ExhaustedMeansScanned
<1>1. IInv => ExhaustedMeansScanned
  <2> SUFFICES ASSUME IInv, pc = "exit", exit_code = EXIT_NOT_FOUND
               PROVE  ExhaustedMeansScanned
    BY DEF ExhaustedMeansScanned
  <2>1. \A g \in GPU : /\ g \in prepared /\ g \in thr_started /\ ~Failed[g] /\ ~Found[g]
                       /\ runs_done[g] = runs_total[g] /\ hit[g] = 0
    BY DEF IInv, OutcomeInv
  <2>2. prepared \subseteq GPU /\ thr_started \subseteq GPU
    BY DEF IInv, TypeOK
  <2> QED
    BY <2>1, <2>2 DEF ExhaustedMeansScanned
<1> QED
  BY <1>1, Invariance, PTL

\* Short of a second Ctrl+C, a search that started workers exits 0 exactly if one printed a key.
THEOREM FoundIsNeverHidden == Spec => []PrintedKeyMeansFound
<1>1. IInv => PrintedKeyMeansFound
  BY DEF IInv, OutcomeInv, PrintedKeyMeansFound, InProcess
<1> QED
  BY <1>1, Invariance, PTL

-------------------------------------------------------------------------------
(* FindKey implements Search                                               *)
(*                                                                         *)
(* Each step of main, of a worker or of the SIGINT handler is a step of    *)
(* Search or a stutter under the mapping PartStatus, g_sigint, VerdictOf.  *)
(* The steps that settle a part are PrepareFails, SpawnFails and the       *)
(* worker's Enter, Test, Launch, Finish and Die; Teardown is the verdict.  *)
(* What the verdict may be is fixed when main reaches teardown, which is   *)
(* what VerdictInv adds to the invariant.                                  *)

\* What the exit code stands on once main is in its teardown.
Grounds ==
  \/ /\ setup # "ok"
     /\ exit_code \in {EXIT_FAILURE, EXIT_GPU_ERROR}
  \/ /\ setup = "ok"
     /\ exit_code = EXIT_FOUND
     /\ \E g \in GPU : Found[g]
  \/ /\ setup = "ok"
     /\ exit_code = EXIT_INTERRUPTED
     /\ g_sigint
     /\ \A g \in GPU : ~Found[g]
  \/ /\ setup = "ok"
     /\ exit_code = EXIT_GPU_ERROR
     /\ \E g \in GPU : Failed[g]
     /\ \A g \in GPU : ~Found[g]
  \/ /\ setup = "ok"
     /\ exit_code = EXIT_NOT_FOUND

VerdictInv ==
  /\ any_failed => \E g \in GPU : Failed[g]
  /\ (Alive /\ setup # "ok") => \A g \in GPU : ~Failed[g] /\ wpc[g] = "none"
  /\ pc = "init" => \A g \in GPU : ~Failed[g]
  /\ pc = "teardown" => Grounds

RInv == IInv /\ VerdictInv

-------------------------------------------------------------------------------
(* The strengthened invariant                                              *)

LEMMA VerdictInvMain ==
  ASSUME IInv, VerdictInv, Main
  PROVE  VerdictInv'
<1>0. TypeOK /\ WorkerInv /\ FoundInv /\ Counting /\ PhaseInv
  BY DEF IInv
<1>1. /\ Failed \in [GPU -> BOOLEAN] /\ setup \in {"ok", "usage", "nomem", "nogpu"}
  BY <1>0 DEF TypeOK
<1> USE <1>0, <1>1 DEF VerdictInv, Alive, locals, mainVars, workerVars, restVars, planVars
<1>2. CASE Setup
  BY <1>2, NoneBelow
     DEF Setup, SetupCode, Counting, Starting, WorkerInv, WorkerOK, PhaseInv, PreparedInv, Grounds
<1>3. CASE PrepareOk
  BY <1>3 DEF PrepareOk, PhaseInv, QuietInv
<1>4. CASE PrepareFails
  BY <1>4, IndexIsGPU DEF PrepareFails, PhaseInv, QuietInv
<1>5. CASE PrepareDone
  <2>1. \A g \in GPU : g \in prepared \/ Failed[g]
    BY <1>5, AllBelow DEF PrepareDone, PhaseInv, PreparedInv, Starting
  <2>2. \A g \in GPU : ~Found[g]
    BY <1>5 DEF PrepareDone, Counting, Starting, WorkerInv, WorkerOK, PastLoop
  <2>3. 1 \in GPU
    BY NAssumption DEF GPU
  <2> QED
    BY <1>5, <2>1, <2>2, <2>3 DEF PrepareDone, PhaseInv, QuietInv, Grounds
<1>6. CASE CreateDone
  <2>1. \A g \in GPU : g \in thr_started \/ Failed[g]
    BY <1>6, AllBelow DEF CreateDone, PhaseInv, StartedInv, Creating
  <2>2. thr_started = {} => \A g \in GPU : ~Found[g]
    BY DEF WorkerInv, WorkerOK, PastLoop
  <2>3. 1 \in GPU
    BY NAssumption DEF GPU
  <2> QED
    BY <1>6, <2>1, <2>2, <2>3 DEF CreateDone, PhaseInv, QuietInv, Grounds
<1>7. CASE SkipFailed \/ Charge \/ Spawn
  BY <1>7 DEF SkipFailed, Charge, Spawn, PhaseInv, QuietInv
<1>8. CASE SpawnFails
  <2>1. i \in GPU
    BY <1>8, IndexIsGPU DEF SpawnFails, Counting
  <2> QED
    BY <1>8, <2>1 DEF SpawnFails, PhaseInv, QuietInv
<1>9. CASE Watch \/ Wake \/ StopGpu \/ StopDone \/ Drain \/ Join
  BY <1>9 DEF Watch, Wake, StopGpu, StopDone, Drain, Join
<1>10. CASE Collect
  BY <1>10 DEF Collect, SomeFailed
<1>11. CASE Return
  <2>1. \A g \in GPU : Found[g] => g_found
    BY <1>11 DEF Return, PhaseInv, QuietInv, Quiet, WorkerInv, WorkerOK, PastLoop
  <2>2. g_found => \E g \in GPU : Found[g]
    BY DEF FoundInv
  <2>3. setup = "ok"
    BY <1>11 DEF Return, PhaseInv, QuietInv
  <2>4. Grounds'
    BY <1>11, <2>1, <2>2, <2>3 DEF Return, ReturnCode, Grounds
  <2> QED
    BY <1>11, <2>3, <2>4 DEF Return
<1>12. CASE Teardown
  BY <1>12 DEF Teardown
<1> QED
  BY <1>2, <1>3, <1>4, <1>5, <1>6, <1>7, <1>8, <1>9, <1>10, <1>11, <1>12 DEF Main

LEMMA VerdictInvStep ==
  ASSUME IInv, VerdictInv, [Next]_vars
  PROVE  VerdictInv'
<1>1. CASE Main
  BY <1>1, VerdictInvMain
<1>2. ASSUME NEW g \in GPU, Worker(g) \/ Wedge(g)
      PROVE  VerdictInv'
  <2>1. UNCHANGED <<pc, setup, any_failed>> /\ Alive /\ wpc[g] # "none"
    BY <1>2 DEF Worker, Enter, Test, Launch, Finish, Die, Wedge, Release, Report, Retire,
                workerKeeps, mainVars, locals
  <2>2. pc \notin {"init", "teardown"}
    BY <1>2, <2>1 DEF IInv, PhaseInv, QuietInv, Quiet, Counting, Starting, WorkerInv, WorkerOK,
                Worker, Enter, Test, Launch, Finish, Die, Wedge, Release, Report, Retire
  <2>3. \A h \in GPU : Failed[h] => Failed'[h]
    BY <1>2 DEF IInv, TypeOK, WorkerInv, WorkerOK, Scanning, Worker, Enter, Test, Launch, Finish,
                Die, Wedge, Release, Report, Retire
  <2> QED
    BY <2>1, <2>2, <2>3 DEF VerdictInv, Alive
<1>3. CASE Interrupt \/ InterruptAgain \/ Gone \/ UNCHANGED vars
  <2>1. UNCHANGED <<setup, any_failed, wpc, Failed, Found>>
    BY <1>3 DEF Interrupt, InterruptAgain, Gone, vars, mainVars, locals, restVars, workerVars
  <2>2. \/ UNCHANGED <<pc, exit_code>> /\ (g_sigint => g_sigint')
        \/ pc' = "exit"
    BY <1>3 DEF Interrupt, InterruptAgain, Gone, vars, mainVars, locals, restVars
  <2> QED
    BY <2>1, <2>2 DEF VerdictInv, Alive, Grounds
<1> QED
  BY <1>1, <1>2, <1>3 DEF Next

LEMMA RefinementInvariance == Spec => []RInv
<1>1. Init => VerdictInv
  BY DEF Init, VerdictInv, Alive
<1>2. IInv /\ VerdictInv /\ [Next]_vars => VerdictInv'
  BY VerdictInvStep
<1> QED
  BY <1>1, <1>2, Invariance, PTL DEF Spec, RInv

-------------------------------------------------------------------------------
(* Each step maps to a step of Search or a stutter                         *)

\* A step that changes the status of no GPU but g, which was pending, settles g.
LEMMA SettleOne ==
  ASSUME NEW g \in GPU, Alive, Alive', g_sigint' = g_sigint,
         StatusOf(g) = "pending",
         StatusOf(g)' \in {"pending", "complete", "hit", "lost"},
         \A h \in GPU : h # g => StatusOf(h)' = StatusOf(h)
  PROVE  [Promise!Next]_(Promise!vars)
<1>1. PartStatus' = [PartStatus EXCEPT ![g] = StatusOf(g)']
  BY DEF PartStatus
<1>2. PartStatus[g] = "pending" /\ VerdictOf = "none" /\ VerdictOf' = "none"
  BY DEF PartStatus, VerdictOf
<1>3. Promise!Settle(g)
  BY <1>1, <1>2 DEF Promise!Settle, Promise!Status
<1> QED
  BY <1>3 DEF Promise!Next

\* A step that changes no status, no interrupt and does not end the process is invisible.
LEMMA Invisible ==
  ASSUME Alive, Alive', g_sigint' = g_sigint,
         \A g \in GPU : StatusOf(g)' = StatusOf(g)
  PROVE  [Promise!Next]_(Promise!vars)
<1>1. PartStatus' = PartStatus
  BY DEF PartStatus
<1>2. VerdictOf' = VerdictOf
  BY DEF VerdictOf
<1> QED
  BY <1>1, <1>2 DEF Promise!vars

\* main settles a part as lost when Prepare or the create of its worker fails.
LEMMA SettleLost ==
  ASSUME NEW g \in GPU, Alive, Alive', Failed \in [GPU -> BOOLEAN],
         ~Found[g], ~Failed[g], wpc[g] = "none",
         Failed' = [Failed EXCEPT ![g] = TRUE],
         UNCHANGED <<g_sigint, Found, wpc, runs_done, runs_total>>
  PROVE  [Promise!Next]_(Promise!vars)
<1>1. StatusOf(g) = "pending" /\ StatusOf(g)' = "lost"
  BY DEF StatusOf
<1>2. \A h \in GPU : h # g => StatusOf(h)' = StatusOf(h)
  BY DEF StatusOf
<1> QED
  BY <1>1, <1>2, SettleOne

LEMMA MainRefines ==
  ASSUME RInv, RInv', Main
  PROVE  [Promise!Next]_(Promise!vars)
<1>0. /\ TypeOK /\ WorkerInv /\ Counting /\ PhaseInv /\ VerdictInv
      /\ Failed \in [GPU -> BOOLEAN]
  BY DEF RInv, IInv, TypeOK
<1> USE <1>0 DEF Alive, locals, mainVars, workerVars, restVars, planVars
<1>1. CASE PrepareFails
  <2>1. PICK g \in GPU : g = i /\ ~(g < i)
    BY <1>1, IndexIsGPU DEF PrepareFails, GPU
  <2>2. ~Found[g] /\ ~Failed[g] /\ wpc[g] = "none"
    BY <1>1, <2>1 DEF PrepareFails, PhaseInv, PreparedInv, Counting, Starting, WorkerInv, WorkerOK,
                      PastLoop
  <2>3. Failed' = [Failed EXCEPT ![g] = TRUE]
    BY <1>1, <2>1 DEF PrepareFails
  <2> QED
    BY <1>1, <2>2, <2>3, SettleLost DEF PrepareFails
<1>2. CASE SpawnFails
  <2>1. PICK g \in GPU : g = i
    BY <1>2, IndexIsGPU DEF SpawnFails, Counting
  <2>2. g \notin thr_started
    BY <1>2, <2>1 DEF SpawnFails, Counting, Creating, GPU
  <2>3. ~Found[g] /\ ~Failed[g] /\ wpc[g] = "none"
    BY <1>2, <2>1, <2>2 DEF SpawnFails, PhaseInv, StartedInv, WorkerInv, WorkerOK, PastLoop
  <2>4. Failed' = [Failed EXCEPT ![g] = TRUE]
    BY <1>2, <2>1 DEF SpawnFails
  <2> QED
    BY <1>2, <2>3, <2>4, SettleLost DEF SpawnFails
<1>3. CASE Spawn
  <2>1. i \in GPU /\ wpc[i] = "none"
    BY <1>3, IndexIsGPU DEF Spawn, Counting, Creating, WorkerInv, WorkerOK, GPU
  <2>2. \A h \in GPU : StatusOf(h)' = StatusOf(h)
    BY <1>3, <2>1 DEF Spawn, StatusOf, TypeOK
  <2> QED
    BY <1>3, <2>2, Invisible DEF Spawn
<1>4. CASE Teardown
  <2>1. /\ PartStatus' = PartStatus /\ g_sigint' = g_sigint
        /\ VerdictOf = "none" /\ exit_code' = exit_code /\ ~Alive'
    BY <1>4 DEF Teardown, PartStatus, StatusOf, VerdictOf
  <2>2. Grounds
    BY <1>4 DEF Teardown, VerdictInv
  <2>3. \A g \in GPU : PartStatus[g] = StatusOf(g)
    BY DEF PartStatus
  <2>4. CASE setup # "ok"
    <3>1. \A g \in GPU : PartStatus[g] = "pending"
      BY <1>4, <2>3, <2>4 DEF Teardown, VerdictInv, StatusOf, WorkerInv, WorkerOK, PastLoop
    <3>2. VerdictOf' \in {"usage", "error"}
      BY <2>1, <2>2, <2>4
         DEF Grounds, VerdictOf, EXIT_FOUND, EXIT_FAILURE, EXIT_NOT_FOUND, EXIT_GPU_ERROR,
             EXIT_INTERRUPTED
    <3> QED
      BY <2>1, <3>1, <3>2 DEF Promise!Next, Promise!Refuse
  <2>5. CASE setup = "ok"
    <3>1. VerdictOf' \in Promise!Justified
      <4>1. CASE \E g \in GPU : Found[g]
        <5>1. exit_code = EXIT_FOUND
          BY <1>4, <2>2, <2>5, <4>1
             DEF Grounds, RInv, IInv, OutcomeInv, Teardown, EXIT_NOT_FOUND
        <5>2. \E g \in GPU : PartStatus[g] = "hit"
          BY <2>3, <4>1 DEF StatusOf
        <5> QED
          BY <2>1, <5>1, <5>2 DEF VerdictOf, Promise!Justified, EXIT_INTERRUPTED, EXIT_FOUND,
                                  EXIT_FAILURE, EXIT_NOT_FOUND, EXIT_GPU_ERROR
      <4>2. CASE \A g \in GPU : ~Found[g]
        <5>1. \A g \in GPU : PartStatus[g] # "hit"
          BY <2>3, <4>2 DEF StatusOf
        <5>2. CASE exit_code = EXIT_INTERRUPTED /\ g_sigint
          BY <2>1, <5>1, <5>2 DEF VerdictOf, Promise!Justified, EXIT_INTERRUPTED, EXIT_FOUND,
                                  EXIT_FAILURE, EXIT_NOT_FOUND, EXIT_GPU_ERROR
        <5>3. CASE exit_code = EXIT_GPU_ERROR /\ \E g \in GPU : Failed[g]
          <6>1. \E g \in GPU : PartStatus[g] = "lost"
            BY <2>3, <4>2, <5>3 DEF StatusOf
          <6> QED
            BY <2>1, <5>1, <5>3, <6>1 DEF VerdictOf, Promise!Justified, EXIT_INTERRUPTED,
                                  EXIT_FOUND, EXIT_FAILURE, EXIT_NOT_FOUND, EXIT_GPU_ERROR
        <5>4. CASE exit_code = EXIT_NOT_FOUND
          <6>1. \A g \in GPU : /\ g \in thr_started /\ ~Failed[g] /\ ~Found[g]
                                /\ runs_done[g] = runs_total[g]
            BY <1>4, <5>4 DEF RInv, IInv, OutcomeInv, Teardown
          <6>2. \A g \in GPU : wpc[g] = "done"
            BY <1>4, <6>1 DEF PhaseInv, QuietInv, Quiet, WorkerInv, WorkerOK, Teardown
          <6>3. \A g \in GPU : PartStatus[g] = "complete"
            BY <2>3, <6>1, <6>2 DEF StatusOf
          <6> QED
            BY <2>1, <5>1, <5>4, <6>3 DEF VerdictOf, Promise!Justified, EXIT_INTERRUPTED,
                                  EXIT_FOUND, EXIT_FAILURE, EXIT_NOT_FOUND, EXIT_GPU_ERROR
        <5> QED
          BY <2>2, <2>5, <4>2, <5>2, <5>3, <5>4 DEF Grounds
      <4> QED
        BY <4>1, <4>2
    <3> QED
      BY <2>1, <3>1 DEF Promise!Next, Promise!Decide
  <2> QED
    BY <2>4, <2>5
<1>5. CASE \/ Setup \/ PrepareOk \/ PrepareDone \/ SkipFailed \/ Charge \/ CreateDone
           \/ Watch \/ Wake
  <2>1. Alive /\ Alive' /\ UNCHANGED <<g_sigint, Found, Failed, wpc, runs_done, runs_total>>
    BY <1>5 DEF Setup, PrepareOk, PrepareDone, SkipFailed, Charge, CreateDone, Watch, Wake
  <2> QED
    BY <2>1, Invisible DEF StatusOf
<1>6. CASE StopGpu \/ StopDone \/ Drain \/ Join \/ Collect \/ Return
  <2>1. Alive /\ Alive' /\ UNCHANGED <<g_sigint, Found, Failed, wpc, runs_done, runs_total>>
    BY <1>6 DEF StopGpu, StopDone, Drain, Join, Collect, Return
  <2> QED
    BY <2>1, Invisible DEF StatusOf
<1> QED
  BY <1>1, <1>2, <1>3, <1>4, <1>5, <1>6 DEF Main

LEMMA WorkerRefines ==
  ASSUME RInv, RInv', NEW g \in GPU, Worker(g) \/ Wedge(g)
  PROVE  [Promise!Next]_(Promise!vars)
<1>0. TypeOK /\ WorkerOK(g)
  BY DEF RInv, IInv, WorkerInv
<1>1. /\ Alive /\ Alive' /\ g_sigint' = g_sigint
      /\ UNCHANGED <<runs_total, hit>>
  BY DEF Worker, Enter, Test, Launch, Finish, Die, Wedge, Release, Report, Retire, workerKeeps,
         mainVars, planVars, Alive
<1>2. \A h \in GPU : h # g => StatusOf(h)' = StatusOf(h)
  BY <1>0, <1>1 DEF Worker, Enter, Test, Launch, Finish, Die, Wedge, Release, Report, Retire,
                    TypeOK, StatusOf
<1>3. StatusOf(g)' \in {"pending", "complete", "hit", "lost"}
  BY DEF StatusOf
<1>4. CASE Enter(g) \/ Test(g) \/ Launch(g) \/ Finish(g) \/ Die(g) \/ Wedge(g)
  <2>1. wpc[g] \in Scanning
    BY <1>4 DEF Enter, Test, Launch, Finish, Die, Wedge, Scanning
  <2>2. StatusOf(g) = "pending"
    BY <1>0, <2>1 DEF WorkerOK, StatusOf, Scanning, PastLoop
  <2> QED
    BY <1>1, <1>2, <1>3, <2>2, SettleOne
<1>5. CASE Release(g) \/ Report(g) \/ Retire(g)
  <2>1. StatusOf(g)' = StatusOf(g)
    BY <1>0, <1>1, <1>5 DEF Release, Report, Retire, TypeOK, StatusOf
  <2> QED
    BY <1>1, <1>2, <2>1, Invisible
<1> QED
  BY <1>4, <1>5 DEF Worker

LEMMA SignalRefines ==
  ASSUME RInv, Interrupt \/ InterruptAgain \/ Gone \/ UNCHANGED vars
  PROVE  [Promise!Next]_(Promise!vars)
<1>1. PartStatus' = PartStatus
  BY DEF Interrupt, InterruptAgain, Gone, vars, mainVars, locals, restVars, workerVars, planVars,
         PartStatus, StatusOf
<1>2. CASE Interrupt
  <2>1. VerdictOf = "none" /\ VerdictOf' = "none" /\ g_sigint' = TRUE
    BY <1>2 DEF Interrupt, VerdictOf, Alive, mainVars
  <2> QED
    BY <1>1, <2>1 DEF Promise!Next, Promise!Ask
<1>3. CASE InterruptAgain
  <2>1. VerdictOf = "none" /\ VerdictOf' = "interrupted" /\ g_sigint /\ g_sigint' = g_sigint
    BY <1>3 DEF InterruptAgain, VerdictOf, Alive, EXIT_INTERRUPTED, EXIT_FOUND, EXIT_FAILURE,
                EXIT_NOT_FOUND, EXIT_GPU_ERROR
  <2> QED
    BY <1>1, <2>1 DEF Promise!Next, Promise!Abort
<1>4. CASE Gone \/ UNCHANGED vars
  <2>1. UNCHANGED <<pc, exit_code, g_sigint>>
    BY <1>4 DEF Gone, vars, mainVars, locals, restVars
  <2>2. VerdictOf' = VerdictOf
    BY <2>1 DEF VerdictOf, Alive
  <2> QED
    BY <1>1, <2>1, <2>2 DEF Promise!vars
<1> QED
  BY <1>2, <1>3, <1>4

\* The program keeps the promise of Search for every number of GPUs, every split of the range and
\* every interleaving of main, workers, failures and Ctrl+C.
THEOREM Refinement == Spec => ImplementsSearch
<1>1. Init => Promise!Init
  <2> SUFFICES ASSUME Init
               PROVE  Promise!Init
    OBVIOUS
  <2>1. \A g \in GPU : StatusOf(g) = "pending"
    BY DEF Init, StatusOf
  <2>2. VerdictOf = "none"
    BY DEF Init, VerdictOf, Alive
  <2> QED
    BY <2>1, <2>2 DEF Init, PartStatus, Promise!Init
<1>2. RInv /\ RInv' /\ [Next]_vars => [Promise!Next]_(Promise!vars)
  BY MainRefines, WorkerRefines, SignalRefines DEF Next
<1> QED
  BY <1>1, <1>2, RefinementInvariance, PTL DEF Spec, ImplementsSearch, Promise!Spec

===============================================================================
