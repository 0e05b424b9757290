------------------------------ MODULE KernelLaunch -----------------------------
(***************************************************************************)
(* How TestKernel gets its constants and is launched, in both builds: by   *)
(* the runtime, from the module linked into the program, or (make          *)
(* NATIVE_CUBIN=...) by the driver API, from a cubin loaded for each GPU   *)
(* when it is first asked for.  The two modules have constants of their    *)
(* own.  PrepareRelease takes the six uploads, and the launches, as one    *)
(* step each.                                                              *)
(***************************************************************************)
EXTENDS PrepareRelease

CONSTANT MaxRuns   \* the launches of a scan

ASSUME RunsAssumption == MaxRuns \in Nat \ {0}

Symbols == <<"c_target_words", "c_Gx", "c_Gy", "c_GyNeg", "c_Jx", "c_Jy">>

VARIABLES
  native,      \* USE_NATIVE_CUBIN
  copied,      \* the constants this PrepareCuda has copied
  ready,       \* g_cubin_ready: the GPUs whose cubin is loaded
  constants,   \* what each module of each GPU has of the constants
  at,          \* where each worker is in Execute
  stream,      \* what each stream still has to do
  runs_done,   \* the runs each worker has counted
  ran          \* the runs each GPU has computed (history)

cvars == <<native, copied, ready, constants>>
xvars == <<at, stream, runs_done, ran>>
kvars == <<cvars, xvars>>

Module == {"linked", "cubin"} \X GPU

LaunchInit ==
  /\ Init
  /\ native \in BOOLEAN
  /\ copied = 0
  /\ ready = {}
  /\ constants = [m \in Module |-> {}]
  /\ at = [g \in GPU |-> "enter"]
  /\ stream = [g \in GPU |-> "empty"]
  /\ runs_done = [g \in GPU |-> 0]
  /\ ran = [g \in GPU |-> 0]

-------------------------------------------------------------------------------
(* The constants                                                           *)

\* Defect of the next definition: cudaMemcpyToSymbol in the native build as well.
ToLinked == <<"linked", gpu>>

\* The module a constant of the GPU the main thread prepares is copied to.
ToModule == <<IF native THEN "cubin" ELSE "linked", gpu>>

\* What NativeCubin sets g_cubin_ready to.
Readied(g) == IF native THEN ready \union {g} ELSE ready

\* What NativeCubin leaves in a module: LoadCubin unloads what was loaded, and its constants with it.
Kept(g, m) == IF native /\ g \notin ready THEN {} ELSE constants[m]

\* CudaCopy*, the next in order.
Copy ==
  /\ pc = "constants" /\ copied < Len(Symbols)
  /\ copied' = copied + 1
  /\ ready' = Readied(gpu)
  /\ constants' = [constants EXCEPT ![ToModule] = Kept(gpu, ToModule) \union {Symbols[copied + 1]}]
  /\ UNCHANGED <<vars, native, xvars>>

\* The copy fails: the cubin cannot be loaded, or has no such symbol, or the runtime reports an
\* error. In the native build a runtime call on the way (cudaFree(0)) may leave one too.
CopyFails ==
  /\ copied < Len(Symbols)
  /\ CudaError("constants") \/ (native /\ RefuseConstants)
  /\ copied' = 0
  /\ ready' \in {ready, Readied(gpu)}
  /\ UNCHANGED <<native, constants, xvars>>

\* CudaSetupKernel: nothing to do in the native build.
SetupKernel ==
  /\ copied = Len(Symbols)
  /\ Succeed("constants") \/ (~native /\ CudaError("constants"))
  /\ copied' = 0
  /\ UNCHANGED <<native, ready, constants, xvars>>

-------------------------------------------------------------------------------
(* The launches                                                            *)

\* The module CallGpuKernel launches TestKernel from.
LaunchedFrom(g) == <<IF native THEN "cubin" ELSE "linked", g>>

Enter(g) ==
  /\ worker[g] = "execute" /\ at[g] = "enter"
  /\ at' = [at EXCEPT ![g] = "loop"]
  /\ UNCHANGED <<vars, cvars, stream, runs_done, ran>>

\* Execute goes to LExit: Release comes next.
Leave(g) ==
  /\ LoopEnds(g)
  /\ at' = [at EXCEPT ![g] = "left"]

\* All runs are done, or m_stopFlag is set, or the key was found.
EndLoop(g) ==
  /\ at[g] = "loop"
  /\ Leave(g) /\ UNCHANGED dead
  /\ UNCHANGED <<cvars, stream, runs_done, ran>>

\* Defect of the next definition: as if the synchronize reported a rejected launch.
StatusDiscarded(outcome) == "accepted"

\* What CallGpuKernel returns: the status of cuLaunchKernel, or the last-error slot, drained before
\* the launch and read after it.
LaunchStatus(outcome) == outcome

\* CallGpuKernel; a rejected launch enqueues nothing.
LaunchKernel(g) ==
  /\ at[g] = "loop" /\ runs_done[g] < MaxRuns
  /\ \E outcome \in {"accepted", "rejected"} :
       /\ stream' = [stream EXCEPT ![g] = IF outcome = "accepted" THEN "kernel" ELSE @]
       /\ IF LaunchStatus(outcome) = "accepted"
          THEN at' = [at EXCEPT ![g] = "launched"] /\ UNCHANGED vars
          ELSE Leave(g) /\ UNCHANGED dead
  /\ ready' = Readied(g)
  /\ constants' = [constants EXCEPT ![LaunchedFrom(g)] = Kept(g, LaunchedFrom(g))]
  /\ UNCHANGED <<native, copied, runs_done, ran>>

\* cudaStreamSynchronize succeeds when the stream has nothing left to do.
Synchronize(g) ==
  /\ at[g] = "launched"
  /\ at' = [at EXCEPT ![g] = "loop"]
  /\ stream' = [stream EXCEPT ![g] = "empty"]
  /\ ran' = [ran EXCEPT ![g] = IF stream[g] = "kernel" THEN @ + 1 ELSE @]
  /\ runs_done' = [runs_done EXCEPT ![g] = @ + 1]
  /\ UNCHANGED <<vars, cvars>>

\* It fails when the kernel dies.
KernelDies(g) ==
  /\ at[g] = "launched" /\ stream[g] = "kernel"
  /\ Leave(g) /\ dead' = dead \union {g}
  /\ stream' = [stream EXCEPT ![g] = "empty"]
  /\ UNCHANGED <<cvars, runs_done, ran>>

LaunchNext ==
  \/ Copy \/ CopyFails \/ SetupKernel
  \/ \E g \in GPU :
       \/ Enter(g) \/ EndLoop(g) \/ LaunchKernel(g) \/ Synchronize(g) \/ KernelDies(g)
       \/ at[g] = "enter" /\ SetDeviceFails(g) /\ UNCHANGED kvars
       \/ WorkerRelease(g) /\ UNCHANGED kvars
  \/ (PrepareBuffers \/ Start \/ WorkersGone \/ Delete \/ Deleted \/ Over) /\ UNCHANGED kvars

LaunchSpec == LaunchInit /\ [][LaunchNext]_<<vars, kvars>>

-------------------------------------------------------------------------------
(* Properties                                                              *)

\* A kernel never starts without its constants: the worker's launch reaches the module to which
\* the main thread copied all six of them, in either build.
LaunchSeesConstants ==
  \A g \in GPU : at[g] = "launched" =>
    constants[LaunchedFrom(g)] = {Symbols[n] : n \in DOMAIN Symbols}

\* A run that is counted was computed. Of a rejected launch the synchronize after it knows nothing:
\* it would wait on an empty stream, and a range nobody scanned would be reported as exhausted.
CountedMeansRan == \A g \in GPU : runs_done[g] = ran[g]
===============================================================================
