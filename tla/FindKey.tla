------------------------------- MODULE FindKey --------------------------------
(***************************************************************************)
(* The host program of cCUDAHurricane.cpp: main, find_key, the worker      *)
(* threads puzzle_thr_proc with GpuPuzzle::Execute, and the SIGINT handler.*)
(*                                                                         *)
(* The main thread prepares every GPU, starts one worker per prepared GPU, *)
(* watches until the workers are gone, a key is found or Ctrl+C arrives,   *)
(* tells the workers to stop, waits for g_threadcnt to reach zero, and     *)
(* turns what happened into an exit code.  The data of the scan is reduced *)
(* to launches: a GPU's part of the range needs runs_total[g] of them and  *)
(* launch number hit[g] publishes a match (0: the part holds no match).    *)
(***************************************************************************)
EXTENDS Integers, FiniteSets

CONSTANTS
  N,          \* g_gpucnt, the number of usable GPUs
  MaxRuns,    \* bound on the launches one part needs
  Joins       \* TRUE: pthread_join; FALSE: the Windows build, whose CloseHandle does not wait

ASSUME NAssumption       == N \in Nat \ {0}
ASSUME MaxRunsAssumption == MaxRuns \in Nat \ {0}
ASSUME JoinsAssumption   == Joins \in BOOLEAN

GPU == 1..N

EXIT_FOUND       == 0
EXIT_FAILURE     == 1
EXIT_NOT_FOUND   == 2
EXIT_GPU_ERROR   == 3
EXIT_INTERRUPTED == 4

VARIABLES
  pc,           \* where the main thread is
  i,            \* the index of its current for loop
  setup,        \* what happened before find_key, "ok" or the reason it was not reached
  exit_code,    \* what main returns, or _Exit is given
  aborted,      \* did the second Ctrl+C end the process?
  g_sigint,
  g_found,
  g_threadcnt,
  prepared,     \* the GPUs counted by find_key's local "prepared"
  thr_started,  \* the GPUs whose worker was created
  any_failed,
  wpc,          \* where each worker is
  Failed,
  Found,
  m_stopFlag,
  held,         \* does the GpuPuzzle hold device buffers, pinned page and stream?
  runs_done,
  runs_total,
  hit,          \* the launch that publishes a match, 0 for none
  late          \* launches that ended after Stop() (history)

locals      == <<setup, exit_code, prepared, thr_started, any_failed>>
mainVars    == <<pc, i, locals>>
workerVars  == <<wpc, Found, runs_done, late>>
planVars    == <<runs_total, hit>>
restVars    == <<aborted, g_sigint, g_found, g_threadcnt, workerVars, Failed, m_stopFlag, held,
                 planVars>>
workerKeeps == <<mainVars, aborted, g_sigint, m_stopFlag, planVars>>
vars        == <<mainVars, restVars>>

MainPc ==
  {"init", "prepare", "create", "spawn", "watch", "sleep", "stop", "drain", "join",
   "collect", "return", "teardown", "exit"}

WorkerPc ==
  {"none", "start", "test", "launch", "running", "wedged", "release", "report", "retire", "done"}

\* The states of a worker that may still touch its GpuPuzzle's buffers.
Scanning == {"start", "test", "launch", "running", "wedged"}

TypeOK ==
  /\ pc \in MainPc
  /\ i \in 1..N+1
  /\ setup \in {"ok", "usage", "nomem", "nogpu"}
  /\ exit_code \in 0..4
  /\ aborted \in BOOLEAN
  /\ g_sigint \in BOOLEAN
  /\ g_found \in BOOLEAN
  /\ g_threadcnt \in 0..N
  /\ prepared \in SUBSET GPU
  /\ thr_started \in SUBSET GPU
  /\ any_failed \in BOOLEAN
  /\ wpc \in [GPU -> WorkerPc]
  /\ Failed \in [GPU -> BOOLEAN]
  /\ Found \in [GPU -> BOOLEAN]
  /\ m_stopFlag \in [GPU -> BOOLEAN]
  /\ held \in [GPU -> BOOLEAN]
  /\ runs_total \in [GPU -> 0..MaxRuns]
  /\ hit \in [GPU -> 0..MaxRuns]
  /\ runs_done \in [GPU -> 0..MaxRuns]
  /\ late \in [GPU -> Nat]

\* How find_key splits the range: the first parts get one key more, so only the last ones can be
\* empty, and then no part has more than one key.  The range itself is never empty.
Split(runs) ==
  /\ runs[1] > 0
  /\ \A g, h \in GPU : runs[g] = 0 => runs[h] <= (IF h > g THEN 0 ELSE 1)

Init ==
  /\ pc = "init"
  /\ i = 1
  /\ setup = "ok"
  /\ exit_code = 0
  /\ aborted = FALSE
  /\ g_sigint = FALSE
  /\ g_found = FALSE
  /\ g_threadcnt = 0
  /\ prepared = {}
  /\ thr_started = {}
  /\ any_failed = FALSE
  /\ wpc = [g \in GPU |-> "none"]
  /\ Failed = [g \in GPU |-> FALSE]
  /\ Found = [g \in GPU |-> FALSE]
  /\ m_stopFlag = [g \in GPU |-> FALSE]
  /\ held = [g \in GPU |-> FALSE]
  /\ runs_total \in {r \in [GPU -> 0..MaxRuns] : Split(r)}
  /\ hit \in {h \in [GPU -> 0..MaxRuns] : \A g \in GPU : h[g] <= runs_total[g]}
  /\ runs_done = [g \in GPU |-> 0]
  /\ late = [g \in GPU |-> 0]

Alive == pc # "exit"

-------------------------------------------------------------------------------
(* main, up to find_key                                                    *)

\* parse_params and validate_params reject the arguments, init_g_points runs out of memory,
\* init_gpus finds no usable device, or find_key is called.
SetupCode(s) ==
  CASE s = "usage" -> EXIT_FAILURE
    [] s = "nomem" -> EXIT_FAILURE
    [] s = "nogpu" -> EXIT_GPU_ERROR
    [] s = "ok"    -> exit_code

Setup ==
  /\ pc = "init"
  /\ \E s \in {"ok", "usage", "nomem", "nogpu"} :
       /\ setup' = s
       /\ exit_code' = SetupCode(s)
       /\ pc' = IF s = "ok" THEN "prepare" ELSE "teardown"
  /\ UNCHANGED <<i, prepared, thr_started, any_failed, restVars>>

-------------------------------------------------------------------------------
(* find_key, the main thread                                               *)

PrepareOk ==
  /\ pc = "prepare" /\ i <= N
  /\ prepared' = prepared \union {i}
  /\ held' = [held EXCEPT ![i] = TRUE]
  /\ i' = i + 1
  /\ UNCHANGED <<pc, setup, exit_code, thr_started, any_failed, aborted, g_sigint, g_found,
                 g_threadcnt, workerVars, Failed, m_stopFlag, planVars>>

\* Prepare returned false, having freed all it allocated.
PrepareFails ==
  /\ pc = "prepare" /\ i <= N
  /\ Failed' = [Failed EXCEPT ![i] = TRUE]
  /\ any_failed' = TRUE
  /\ i' = i + 1
  /\ UNCHANGED <<pc, setup, exit_code, prepared, thr_started, aborted, g_sigint, g_found,
                 g_threadcnt, workerVars, m_stopFlag, held, planVars>>

PrepareDone ==
  /\ pc = "prepare" /\ i = N + 1
  /\ IF prepared = {}
     THEN pc' = "teardown" /\ exit_code' = EXIT_GPU_ERROR /\ i' = i
     ELSE pc' = "create" /\ i' = 1 /\ exit_code' = exit_code
  /\ UNCHANGED <<setup, prepared, thr_started, any_failed, restVars>>

SkipFailed ==
  /\ pc = "create" /\ i <= N
  /\ Failed[i]
  /\ i' = i + 1
  /\ UNCHANGED <<pc, locals, restVars>>

\* Defect of the next definition: the worker is never counted.
ChargeForgotten == g_threadcnt

\* g_threadcnt is charged before the thread exists: it may finish before the create returns.
Charged == g_threadcnt + 1

Charge ==
  /\ pc = "create" /\ i <= N
  /\ ~Failed[i]
  /\ g_threadcnt' = Charged
  /\ pc' = "spawn"
  /\ UNCHANGED <<i, locals, aborted, g_sigint, g_found, workerVars, Failed, m_stopFlag, held,
                 planVars>>

Spawn ==
  /\ pc = "spawn"
  /\ wpc' = [wpc EXCEPT ![i] = "start"]
  /\ thr_started' = thr_started \union {i}
  /\ pc' = "create"
  /\ i' = i + 1
  /\ UNCHANGED <<setup, exit_code, prepared, any_failed, aborted, g_sigint, g_found,
                 g_threadcnt, Found, runs_done, late, Failed, m_stopFlag, held, planVars>>

\* Defect of the next definition: the refund is forgotten.
RefundForgotten == g_threadcnt
\* What is left of g_threadcnt after a create that failed.
Refunded == g_threadcnt - 1

SpawnFails ==
  /\ pc = "spawn"
  /\ g_threadcnt' = Refunded
  /\ Failed' = [Failed EXCEPT ![i] = TRUE]
  /\ any_failed' = TRUE
  /\ pc' = "create"
  /\ i' = i + 1
  /\ UNCHANGED <<setup, exit_code, prepared, thr_started, aborted, g_sigint, g_found,
                 workerVars, m_stopFlag, held, planVars>>

CreateDone ==
  /\ pc = "create" /\ i = N + 1
  /\ IF thr_started = {}
     THEN pc' = "teardown" /\ exit_code' = EXIT_GPU_ERROR
     ELSE pc' = "watch" /\ exit_code' = exit_code
  /\ UNCHANGED <<i, setup, prepared, thr_started, any_failed, restVars>>

KeepWatching == g_threadcnt # 0 /\ ~g_sigint

Watch ==
  /\ pc = "watch"
  /\ IF KeepWatching
     THEN pc' = "sleep" /\ i' = i
     ELSE pc' = "stop" /\ i' = 1
  /\ UNCHANGED <<locals, restVars>>

Wake ==
  /\ pc = "sleep"
  /\ IF g_found
     THEN pc' = "stop" /\ i' = 1
     ELSE pc' = "watch" /\ i' = i
  /\ UNCHANGED <<locals, restVars>>

\* Failed is a plain bool its worker may be writing, so the loop that calls Stop() may
\* still see the value before that write.
FailedSeen(g) == IF g \in thr_started THEN {FALSE, Failed[g]} ELSE {Failed[g]}

StopGpu ==
  /\ pc = "stop" /\ i <= N
  /\ \E failed \in FailedSeen(i) :
       m_stopFlag' = [m_stopFlag EXCEPT ![i] = @ \/ ~failed]
  /\ i' = i + 1
  /\ UNCHANGED <<pc, locals, aborted, g_sigint, g_found, g_threadcnt, workerVars, Failed, held,
                 planVars>>

StopDone ==
  /\ pc = "stop" /\ i = N + 1
  /\ pc' = "drain"
  /\ UNCHANGED <<i, locals, restVars>>

\* Defect of the next definition: the drain gives up.
DrainTimesOut == TRUE

\* The drain loop has no timeout and ignores g_sigint.
Drained == g_threadcnt = 0

Drain ==
  /\ pc = "drain"
  /\ Drained
  /\ pc' = "join"
  /\ UNCHANGED <<i, locals, restVars>>

Join ==
  /\ pc = "join"
  /\ Joins => \A g \in thr_started : wpc[g] = "done"
  /\ pc' = "collect"
  /\ UNCHANGED <<i, locals, restVars>>

\* Defect of the next definition: failures after the start of a worker are not collected.
OnlyEarlyFailures == any_failed

SomeFailed == any_failed \/ \E g \in GPU : Failed[g]

Collect ==
  /\ pc = "collect"
  /\ any_failed' = SomeFailed
  /\ pc' = "return"
  /\ UNCHANGED <<i, setup, exit_code, prepared, thr_started, restVars>>

\* Defect of the next definition: Ctrl+C outranks a key already printed.
InterruptFirst ==
  CASE g_sigint                               -> EXIT_INTERRUPTED
    [] ~g_sigint /\ g_found                   -> EXIT_FOUND
    [] ~g_sigint /\ ~g_found /\ any_failed    -> EXIT_GPU_ERROR
    [] ~g_sigint /\ ~g_found /\ ~any_failed   -> EXIT_NOT_FOUND

\* Found, then interrupted, then failed, then exhausted.
ReturnCode ==
  CASE g_found                                -> EXIT_FOUND
    [] ~g_found /\ g_sigint                   -> EXIT_INTERRUPTED
    [] ~g_found /\ ~g_sigint /\ any_failed    -> EXIT_GPU_ERROR
    [] ~g_found /\ ~g_sigint /\ ~any_failed   -> EXIT_NOT_FOUND

Return ==
  /\ pc = "return"
  /\ exit_code' = ReturnCode
  /\ pc' = "teardown"
  /\ UNCHANGED <<i, setup, prepared, thr_started, any_failed, restVars>>

\* main's lEnd: delete every GpuPuzzle, whose destructor calls Release(), then return exit_code.
Teardown ==
  /\ pc = "teardown"
  /\ held' = [g \in GPU |-> FALSE]
  /\ pc' = "exit"
  /\ UNCHANGED <<i, locals, aborted, g_sigint, g_found, g_threadcnt, workerVars, Failed,
                 m_stopFlag, planVars>>

Main ==
  \/ Setup
  \/ PrepareOk \/ PrepareFails \/ PrepareDone
  \/ SkipFailed \/ Charge \/ Spawn \/ SpawnFails \/ CreateDone
  \/ Watch \/ Wake
  \/ StopGpu \/ StopDone
  \/ Drain \/ Join \/ Collect \/ Return
  \/ Teardown

-------------------------------------------------------------------------------
(* puzzle_thr_proc and GpuPuzzle::Execute, one worker per GPU              *)

\* Defect of the next definition: Failed is raised up front and meant to be cleared at the end.
EnterPessimistic(g) ==
  /\ Alive /\ wpc[g] = "start"
  /\ \E next \in {"test", "report"} : wpc' = [wpc EXCEPT ![g] = next]
  /\ Failed' = [Failed EXCEPT ![g] = TRUE]
  /\ UNCHANGED <<workerKeeps, g_found, g_threadcnt, Found, runs_done, late, held>>

\* Execute's first lines.  cudaSetDevice failing returns without Release().
Enter(g) ==
  /\ Alive /\ wpc[g] = "start"
  /\ \/ /\ wpc' = [wpc EXCEPT ![g] = "test"]
        /\ Failed' = [Failed EXCEPT ![g] = FALSE]
     \/ /\ wpc' = [wpc EXCEPT ![g] = "report"]
        /\ Failed' = [Failed EXCEPT ![g] = TRUE]
  /\ UNCHANGED <<workerKeeps, g_found, g_threadcnt, Found, runs_done, late, held>>

\* Defect of the next definition: the stop flag is not consulted.
StopIgnored(g) == runs_done[g] < runs_total[g]

\* The loop condition of Execute.
AnotherRun(g) == ~m_stopFlag[g] /\ runs_done[g] < runs_total[g]

Test(g) ==
  /\ Alive /\ wpc[g] = "test"
  /\ wpc' = [wpc EXCEPT ![g] = IF AnotherRun(g) THEN "launch" ELSE "release"]
  /\ UNCHANGED <<workerKeeps, g_found, g_threadcnt, Found, runs_done, late, Failed, held>>

\* CallGpuKernel: accepted, or rejected with nothing enqueued.
Launch(g) ==
  /\ Alive /\ wpc[g] = "launch"
  /\ \/ /\ wpc' = [wpc EXCEPT ![g] = "running"]
        /\ Failed' = Failed
     \/ /\ wpc' = [wpc EXCEPT ![g] = "release"]
        /\ Failed' = [Failed EXCEPT ![g] = TRUE]
  /\ UNCHANGED <<workerKeeps, g_found, g_threadcnt, Found, runs_done, late, held>>

\* cudaStreamSynchronize returns success; the match is read only now.
Finish(g) ==
  /\ Alive /\ wpc[g] = "running"
  /\ runs_done' = [runs_done EXCEPT ![g] = @ + 1]
  /\ late' = IF m_stopFlag[g] THEN [late EXCEPT ![g] = @ + 1] ELSE late
  /\ IF hit[g] = runs_done[g] + 1
     THEN /\ Found' = [Found EXCEPT ![g] = TRUE]
          /\ wpc' = [wpc EXCEPT ![g] = "release"]
     ELSE /\ Found' = Found
          /\ wpc' = [wpc EXCEPT ![g] = "test"]
  /\ UNCHANGED <<workerKeeps, g_found, g_threadcnt, Failed, held>>

\* cudaStreamSynchronize returns an error: the kernel died.
Die(g) ==
  /\ Alive /\ wpc[g] = "running"
  /\ Failed' = [Failed EXCEPT ![g] = TRUE]
  /\ wpc' = [wpc EXCEPT ![g] = "release"]
  /\ UNCHANGED <<workerKeeps, g_found, g_threadcnt, Found, runs_done, late, held>>

\* The driver never returns from the launch.
Wedge(g) ==
  /\ Alive /\ wpc[g] = "running"
  /\ wpc' = [wpc EXCEPT ![g] = "wedged"]
  /\ UNCHANGED <<workerKeeps, g_found, g_threadcnt, Found, runs_done, late, Failed, held>>

Release(g) ==
  /\ Alive /\ wpc[g] = "release"
  /\ held' = [held EXCEPT ![g] = FALSE]
  /\ wpc' = [wpc EXCEPT ![g] = "report"]
  /\ UNCHANGED <<workerKeeps, g_found, g_threadcnt, Found, runs_done, late, Failed>>

Report(g) ==
  /\ Alive /\ wpc[g] = "report"
  /\ g_found' = (g_found \/ Found[g])
  /\ wpc' = [wpc EXCEPT ![g] = "retire"]
  /\ UNCHANGED <<workerKeeps, g_threadcnt, Found, runs_done, late, Failed, held>>

Retire(g) ==
  /\ Alive /\ wpc[g] = "retire"
  /\ g_threadcnt' = g_threadcnt - 1
  /\ wpc' = [wpc EXCEPT ![g] = "done"]
  /\ UNCHANGED <<workerKeeps, g_found, Found, runs_done, late, Failed, held>>

Worker(g) ==
  \/ Enter(g) \/ Test(g) \/ Launch(g) \/ Finish(g) \/ Die(g)
  \/ Release(g) \/ Report(g) \/ Retire(g)

-------------------------------------------------------------------------------
(* handle_sigint                                                           *)

Interrupt ==
  /\ Alive /\ ~g_sigint
  /\ g_sigint' = TRUE
  /\ UNCHANGED <<mainVars, aborted, g_found, g_threadcnt, workerVars, Failed, m_stopFlag, held,
                 planVars>>

InterruptAgain ==
  /\ Alive /\ g_sigint
  /\ aborted' = TRUE
  /\ exit_code' = EXIT_INTERRUPTED
  /\ pc' = "exit"
  /\ UNCHANGED <<i, setup, prepared, thr_started, any_failed, g_sigint, g_found, g_threadcnt,
                 workerVars, Failed, m_stopFlag, held, planVars>>

\* The process is gone.
Gone == ~Alive /\ UNCHANGED vars

Next ==
  \/ Main
  \/ \E g \in GPU : Worker(g) \/ Wedge(g)
  \/ Interrupt \/ InterruptAgain
  \/ Gone

\* The operating system keeps running the program's threads and a kernel that has not wedged
\* ends; nobody has to press Ctrl+C.
Fairness == WF_vars(Main) /\ \A g \in GPU : WF_vars(Worker(g))

Spec == Init /\ [][Next]_vars /\ Fairness

-------------------------------------------------------------------------------
(* Properties                                                              *)

Live      == {g \in GPU : wpc[g] \notin {"none", "done"}}
InProcess == pc = "exit" /\ ~aborted      \* main returned of its own accord
Searched  == setup = "ok" /\ thr_started # {}

\* The counter main waits on is the number of workers that will still decrement it, plus the one
\* being created: too high and the drain never ends, too low and it ends under a live worker.
\* It relates g_threadcnt to every worker's position through charge, create, refund and retire.
CounterCountsWorkers ==
  Alive => g_threadcnt = Cardinality(Live) + (IF pc = "spawn" THEN 1 ELSE 0)

\* No worker that may still launch, wait for or read the result of a kernel has lost its buffers,
\* neither to its own Release() nor to the destructor main runs during teardown.
BuffersOutliveWorkers == \A g \in GPU : wpc[g] \in Scanning => held[g]

\* Once main has passed its Stop() loop, every worker that could launch again was told to stop,
\* although that loop skips a GPU on a racy read of Failed.
DrainingMeansStopped ==
  pc \in {"drain", "join", "collect", "return"} =>
    \A g \in GPU : wpc[g] \in {"start", "test", "launch", "running"} => m_stopFlag[g]

\* A worker told to stop ends at most one more launch: the flag is read before a launch that may
\* not have been made yet, so "the current launch" is one launch and never two.
OneLaunchAfterStop == \A g \in GPU : late[g] <= 1

\* Exit code 2 says the range was scanned to its end: every GPU was prepared, started, ran its
\* whole budget without a failure, and no launch of any of them published a match.
ExhaustedMeansScanned ==
  (pc = "exit" /\ exit_code = EXIT_NOT_FOUND) =>
    /\ prepared = GPU /\ thr_started = GPU
    /\ \A g \in GPU : /\ ~Failed[g] /\ ~Found[g]
                      /\ runs_done[g] = runs_total[g]
                      /\ hit[g] = 0

\* Unless a second Ctrl+C cut it short, the program exits 0 exactly if a worker printed a key:
\* neither an interrupt nor another GPU's failure hides it.
PrintedKeyMeansFound ==
  (InProcess /\ Searched) => (exit_code = EXIT_FOUND <=> \E g \in GPU : Found[g])

\* The process ends unless a kernel wedges: no failure of Prepare, pthread_create or a launch,
\* and no interrupt at any moment, leaves main waiting for ever.
Terminates == []( \A g \in GPU : wpc[g] # "wedged") => <>(pc = "exit")

\* The comment on EXIT_INTERRUPTED and the message printed with it: Ctrl+C came before the range
\* was finished, so some GPU failed or has launches left.
InterruptedMeansUnfinished ==
  (InProcess /\ exit_code = EXIT_INTERRUPTED) =>
    \E g \in GPU : Failed[g] \/ runs_done[g] < runs_total[g]

-------------------------------------------------------------------------------
(* The promise of Search                                                   *)

StatusOf(g) ==
  CASE Found[g]                -> "hit"
    [] ~Found[g] /\ Failed[g]  -> "lost"
    [] ~Found[g] /\ ~Failed[g] ->
         IF /\ wpc[g] \in {"release", "report", "retire", "done"}
            /\ runs_done[g] = runs_total[g]
         THEN "complete" ELSE "pending"

PartStatus == [g \in GPU |-> StatusOf(g)]

VerdictOf ==
  IF Alive
  THEN "none"
  ELSE CASE exit_code = EXIT_FOUND       -> "found"
         [] exit_code = EXIT_FAILURE     -> "usage"
         [] exit_code = EXIT_NOT_FOUND   -> "exhausted"
         [] exit_code = EXIT_GPU_ERROR   -> "error"
         [] exit_code = EXIT_INTERRUPTED -> "interrupted"

Promise == INSTANCE Search
  WITH Part <- GPU, status <- PartStatus, asked <- g_sigint, verdict <- VerdictOf

\* The program keeps the promise of Search, under every interleaving of main, workers and Ctrl+C:
\* a part settles once, and the exit code is one the parts justify.
ImplementsSearch == Promise!Spec
===============================================================================
