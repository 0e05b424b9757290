----------------------------- MODULE PrepareRelease ----------------------------
(***************************************************************************)
(* Who owns the CUDA resources of a GpuPuzzle: Prepare with PrepareHost    *)
(* and PrepareCuda, in which every call may fail and jump to LExit; the    *)
(* handoff of the pinned result page from hParams to Kparams; Release at   *)
(* the end of Execute and again in the destructor.  It details what        *)
(* FindKey calls "held".                                                   *)
(*                                                                         *)
(* The main thread prepares the GPUs one after the other and destroys them *)
(* at the end; in between a prepared GPU may run on a worker of its own.   *)
(* A failed CUDA call leaves its error in the thread's last-error slot,    *)
(* which only cudaGetLastError clears.  A kernel that dies ruins the       *)
(* context of its own GPU: nothing of it can be freed any more.            *)
(***************************************************************************)
EXTENDS Integers, Sequences

CONSTANT N      \* the number of GPUs

ASSUME NAssumption == N \in Nat \ {0}

GPU == 1..N

VARIABLES
  gpu,           \* the GPU the main thread is at
  pc,            \* where the main thread is
  result,        \* what each Prepare returned, or FALSE before it did
  worker,        \* where each GPU's worker is
  allocated,     \* what the CUDA runtime holds for each GPU
  locals,        \* what the locals of PrepareHost or PrepareCuda point to
  hParams,       \* what Prepare's local hParams points to
  Kparams,       \* what each GPU's Kparams points to
  m_cudaStream,  \* {} or the stream, for each GPU
  lastError,     \* the GPU whose call filled the main thread's last-error slot, or Clear
  blamed,        \* GPUs whose setup kernel was said to have failed
  wildFrees,     \* GPUs for which something not allocated was freed (history)
  mulFailed,     \* GPUs whose setup kernel failed (history)
  dead           \* GPUs with a ruined context

pointers == <<locals, hParams, Kparams, m_cudaStream>>
errors   == <<lastError, blamed, mulFailed>>
runtime  == <<allocated, wildFrees, dead>>
vars     == <<gpu, pc, result, worker, pointers, errors, runtime>>

Clear == 0

HostScalars   == "h_start_scalars"
Page          == "find_result"
Stream        == "stream"
DeviceBuffers == {"d_start_scalars", "d_Px", "d_Py"}

\* The calls of Prepare that may fail, in their order, with the moves of pointers between them.
Calls ==
  <<"device", HostScalars, Page, "host done", "d_start_scalars", "d_Px", "d_Py", "map page",
    "mul kernel", "constants", "cuda done", "handoff", Stream, "LExit">>

PrepareCalls == {Calls[n] : n \in DOMAIN Calls}
After(call)  == Calls[1 + CHOOSE n \in DOMAIN Calls : Calls[n] = call]

Init ==
  /\ gpu = 1
  /\ pc = "device"
  /\ result = [g \in GPU |-> FALSE]
  /\ worker = [g \in GPU |-> "none"]
  /\ allocated = [g \in GPU |-> {}]
  /\ locals = {} /\ hParams = {}
  /\ Kparams = [g \in GPU |-> {}]
  /\ m_cudaStream = [g \in GPU |-> {}]
  /\ lastError = Clear
  /\ blamed = {} /\ wildFrees = {} /\ mulFailed = {} /\ dead = {}

\* free_host_pinned, free_device and cudaStreamDestroy of all of doomed.
Free(g, doomed) ==
  /\ allocated' = [allocated EXCEPT ![g] = IF g \in dead THEN @ ELSE @ \ doomed]
  /\ wildFrees' = IF doomed \subseteq allocated[g] THEN wildFrees ELSE wildFrees \union {g}

-------------------------------------------------------------------------------
(* Prepare                                                                 *)

\* Defect of the next definition: the jump to LExit leaves the locals of the callee alone.
UnwindNothing == {}

\* What PrepareHost or PrepareCuda frees at its LExit when it fails: its locals.
Unwound == locals

\* The first call that fails in PrepareHost, PrepareCuda or Prepare itself ends them all.
FailCall(call) ==
  /\ pc = call
  /\ Free(gpu, Unwound)
  /\ locals' = {}
  /\ pc' = "LExit"
  /\ UNCHANGED <<gpu, result, worker, hParams, Kparams, m_cudaStream, dead>>

CudaError(call) ==
  /\ FailCall(call)
  /\ lastError' = gpu
  /\ UNCHANGED <<blamed, mulFailed>>

\* The batch budget does not fit, before anything is allocated: no CUDA call, no CUDA error.
RefuseBudget == FailCall(HostScalars) /\ UNCHANGED errors

\* A driver-API call refuses a constant: it leaves nothing in the last-error slot.
RefuseConstants == FailCall("constants") /\ UNCHANGED errors

\* cudaHostAlloc, cudaMalloc
Allocate(resource) ==
  /\ pc = resource
  /\ allocated' = [allocated EXCEPT ![gpu] = @ \union {resource}]
  /\ locals' = locals \union {resource}
  /\ pc' = After(resource)
  /\ UNCHANGED <<gpu, result, worker, hParams, Kparams, m_cudaStream, errors, wildFrees, dead>>

\* A call that changes nothing here.
Succeed(call) ==
  /\ pc = call
  /\ pc' = After(call)
  /\ UNCHANGED <<gpu, result, worker, pointers, errors, runtime>>

\* PrepareHost hands its locals to hParams.
HostDone ==
  /\ pc = "host done"
  /\ hParams' = locals
  /\ locals' = {}
  /\ pc' = After(pc)
  /\ UNCHANGED <<gpu, result, worker, Kparams, m_cudaStream, errors, runtime>>

\* Defect of the next definition: the slot is not drained before the setup kernel.
DrainForgotten == lastError

\* What the last-error slot holds when the setup kernel is launched.
Drained == Clear

\* CallGpuMulKernel, the synchronize after it and the check of the last-error slot. On a kernel
\* that dies the frees of PrepareCuda's own exit path fail too, and drain the slot again.
MulKernel ==
  /\ pc = "mul kernel"
  /\ \E outcome \in {"ran", "rejected", "died"} :
       /\ mulFailed' = IF outcome = "ran" THEN mulFailed ELSE mulFailed \union {gpu}
       /\ dead' = IF outcome = "died" THEN dead \union {gpu} ELSE dead
       /\ IF outcome = "ran" /\ Drained = Clear
          THEN /\ pc' = After(pc)
               /\ UNCHANGED <<locals, allocated, wildFrees, blamed>>
          ELSE /\ pc' = "LExit"
               /\ blamed' = blamed \union {gpu}
               /\ locals' = {}
               /\ allocated' = [allocated EXCEPT ![gpu] = IF gpu \in dead' THEN @ ELSE @ \ Unwound]
               /\ wildFrees' = wildFrees
  /\ lastError' = Clear
  /\ UNCHANGED <<gpu, result, worker, hParams, Kparams, m_cudaStream>>

\* What PrepareCuda stores in Kparams: its buffers, and the page hParams still points to.
TakenByKparams == locals \union {Page}

CudaDone ==
  /\ pc = "cuda done"
  /\ Kparams' = [Kparams EXCEPT ![gpu] = TakenByKparams]
  /\ locals' = {}
  /\ pc' = After(pc)
  /\ UNCHANGED <<gpu, result, worker, hParams, m_cudaStream, errors, runtime>>

\* Defect of the next definition: Prepare does not null the field.
KeepPage == hParams

AfterHandoff == hParams \ {Page}

Handoff ==
  /\ pc = "handoff"
  /\ hParams' = AfterHandoff
  /\ pc' = After(pc)
  /\ UNCHANGED <<gpu, result, worker, locals, Kparams, m_cudaStream, errors, runtime>>

CreateStream ==
  /\ pc = Stream
  /\ m_cudaStream' = [m_cudaStream EXCEPT ![gpu] = {Stream}]
  /\ allocated' = [allocated EXCEPT ![gpu] = @ \union {Stream}]
  /\ result' = [result EXCEPT ![gpu] = TRUE]
  /\ pc' = After(pc)
  /\ UNCHANGED <<gpu, worker, locals, hParams, Kparams, errors, wildFrees, dead>>

\* ClearHParams always, ClearKParams unless Prepare succeeded.
LExit ==
  /\ pc = "LExit"
  /\ Free(gpu, hParams \union (IF result[gpu] THEN {} ELSE Kparams[gpu]))
  /\ hParams' = {}
  /\ Kparams' = [Kparams EXCEPT ![gpu] = IF result[gpu] THEN @ ELSE {}]
  /\ pc' = "next"
  /\ UNCHANGED <<gpu, result, worker, locals, m_cudaStream, errors, dead>>

NextGpu ==
  /\ pc = "next"
  /\ gpu' = gpu + 1
  /\ pc' = IF gpu < N THEN "device" ELSE "start"
  /\ UNCHANGED <<result, worker, pointers, errors, runtime>>

\* Prepare without its calls for the constants.
PrepareBuffers ==
  \/ \E call \in {"device", "map page"} : Succeed(call) \/ CudaError(call)
  \/ \E r \in {HostScalars, Page} \union DeviceBuffers : Allocate(r) \/ CudaError(r)
  \/ RefuseBudget \/ HostDone \/ MulKernel \/ CudaDone \/ Handoff
  \/ CreateStream \/ CudaError(Stream)
  \/ LExit \/ NextGpu

PrepareConstants == Succeed("constants") \/ CudaError("constants") \/ RefuseConstants

-------------------------------------------------------------------------------
(* find_key and Execute; the destructor                                    *)

\* A worker is created for some of the prepared GPUs; pthread_create may fail for the others.
Start ==
  /\ pc = "start"
  /\ \E started \in SUBSET {g \in GPU : result[g]} :
       worker' = [g \in GPU |-> IF g \in started THEN "execute" ELSE "none"]
  /\ pc' = "wait"
  /\ UNCHANGED <<gpu, result, pointers, errors, runtime>>

\* cudaSetDevice fails: Execute returns at once.
SetDeviceFails(g) ==
  /\ worker[g] = "execute"
  /\ worker' = [worker EXCEPT ![g] = "done"]
  /\ UNCHANGED <<gpu, pc, result, pointers, errors, runtime>>

\* The launches are over.
LoopEnds(g) ==
  /\ worker[g] = "execute"
  /\ worker' = [worker EXCEPT ![g] = "release"]
  /\ UNCHANGED <<gpu, pc, result, pointers, errors, allocated, wildFrees>>

\* They may end with a dead kernel.
Launches(g) == LoopEnds(g) /\ dead' \in {dead, dead \union {g}}

\* Release: ClearKParams and the stream.
Release(g) ==
  /\ Free(g, Kparams[g] \union m_cudaStream[g])
  /\ Kparams' = [Kparams EXCEPT ![g] = {}]
  /\ m_cudaStream' = [m_cudaStream EXCEPT ![g] = {}]

WorkerRelease(g) ==
  /\ worker[g] = "release"
  /\ Release(g)
  /\ worker' = [worker EXCEPT ![g] = "done"]
  /\ UNCHANGED <<gpu, pc, result, locals, hParams, errors, dead>>

WorkersGone ==
  /\ pc = "wait"
  /\ \A g \in GPU : worker[g] \in {"none", "done"}
  /\ pc' = "delete"
  /\ gpu' = 1
  /\ UNCHANGED <<result, worker, pointers, errors, runtime>>

\* Defect of the next definition: the destructor leaves the release to Execute.
DestroyNothing(g) == UNCHANGED <<Kparams, m_cudaStream, allocated, wildFrees>>

\* ~GpuPuzzle calls Release, a second time for a GPU that ran.
Destroy(g) == Release(g)

Delete ==
  /\ pc = "delete" /\ gpu <= N
  /\ Destroy(gpu)
  /\ gpu' = gpu + 1
  /\ UNCHANGED <<pc, result, worker, locals, hParams, errors, dead>>

Deleted ==
  /\ pc = "delete" /\ gpu = N + 1
  /\ pc' = "end"
  /\ UNCHANGED <<gpu, result, worker, pointers, errors, runtime>>

Over == pc = "end" /\ UNCHANGED vars

Next ==
  \/ PrepareBuffers \/ PrepareConstants
  \/ Start
  \/ \E g \in GPU : SetDeviceFails(g) \/ Launches(g) \/ WorkerRelease(g)
  \/ WorkersGone \/ Delete \/ Deleted
  \/ Over

Spec == Init /\ [][Next]_vars

-------------------------------------------------------------------------------
(* Properties                                                              *)

Settled(g) == g < gpu /\ pc \in PrepareCalls \union {"start"}

\* What FindKey takes for granted of Prepare: it returned true and the GPU has exactly the five
\* resources Execute needs, or it returned false and, whichever call failed, nothing is left.
PrepareIsAllOrNothing ==
  \A g \in GPU \ dead : Settled(g) =>
    allocated[g] = IF result[g] THEN DeviceBuffers \union {Page, Stream} ELSE {}

\* Nothing is freed twice: neither the page both parameter blocks know for a while, nor what
\* Execute's Release and the destructor's are both called for.
FreedOnce == wildFrees = {}

\* When main returns, everything was freed on every path: prepared but never started, started but
\* cudaSetDevice failed, and failed half way through Prepare.
NothingOrphaned == pc = "end" => \A g \in GPU \ dead : allocated[g] = {}

\* A setup kernel is blamed only for what it did, never for an error an earlier GPU left behind in
\* the last-error slot of the thread that prepares them all.
NoFalseBlame == blamed \subseteq mulFailed
===============================================================================
