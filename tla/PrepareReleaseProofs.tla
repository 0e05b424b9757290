------------------------- MODULE PrepareReleaseProofs -------------------------
(***************************************************************************)
(* Theorems about PrepareRelease and KernelLaunch, for any number of GPUs  *)
(* and of launches.                                                        *)
(***************************************************************************)
EXTENDS KernelLaunch, TLAPS

Resource  == DeviceBuffers \union {HostScalars, Page, Stream}
Executing == DeviceBuffers \union {Page}   \* what Kparams points to after a successful Prepare

Preparing == pc \in PrepareCalls \union {"next"}

\* What the order of the calls comes to.
LEMMA CallOrder ==
  /\ PrepareCalls =
       {"device", HostScalars, Page, "host done", "d_start_scalars", "d_Px", "d_Py", "map page",
        "mul kernel", "constants", "cuda done", "handoff", Stream, "LExit"}
  /\ After("device") = HostScalars
  /\ After(HostScalars) = Page
  /\ After(Page) = "host done"
  /\ After("host done") = "d_start_scalars"
  /\ After("d_start_scalars") = "d_Px"
  /\ After("d_Px") = "d_Py"
  /\ After("d_Py") = "map page"
  /\ After("map page") = "mul kernel"
  /\ After("mul kernel") = "constants"
  /\ After("constants") = "cuda done"
  /\ After("cuda done") = "handoff"
  /\ After("handoff") = Stream
  /\ After(Stream) = "LExit"
<1>1. DOMAIN Calls = 1..14
  BY DEF Calls
<1>2. /\ Calls[1] = "device" /\ Calls[2] = "h_start_scalars" /\ Calls[3] = "find_result"
      /\ Calls[4] = "host done" /\ Calls[5] = "d_start_scalars" /\ Calls[6] = "d_Px"
      /\ Calls[7] = "d_Py" /\ Calls[8] = "map page" /\ Calls[9] = "mul kernel"
      /\ Calls[10] = "constants" /\ Calls[11] = "cuda done" /\ Calls[12] = "handoff"
      /\ Calls[13] = "stream" /\ Calls[14] = "LExit"
  BY DEF Calls, HostScalars, Page, Stream
<1>3. \A n \in 1..14 : n = 1 \/ n = 2 \/ n = 3 \/ n = 4 \/ n = 5 \/ n = 6 \/ n = 7 \/ n = 8
                    \/ n = 9 \/ n = 10 \/ n = 11 \/ n = 12 \/ n = 13 \/ n = 14
  OBVIOUS
<1>4. ASSUME NEW m \in 1..14, NEW n \in 1..14, Calls[m] = Calls[n]
      PROVE  m = n
  <2>1. m = 1 \/ m = 2 \/ m = 3 \/ m = 4 \/ m = 5 \/ m = 6 \/ m = 7 \/ m = 8 \/ m = 9 \/ m = 10
        \/ m = 11 \/ m = 12 \/ m = 13 \/ m = 14
    BY <1>3
  <2>2. CASE m = 1  BY <1>2, <1>3, <1>4, <2>2
  <2>3. CASE m = 2  BY <1>2, <1>3, <1>4, <2>3
  <2>4. CASE m = 3  BY <1>2, <1>3, <1>4, <2>4
  <2>5. CASE m = 4  BY <1>2, <1>3, <1>4, <2>5
  <2>6. CASE m = 5  BY <1>2, <1>3, <1>4, <2>6
  <2>7. CASE m = 6  BY <1>2, <1>3, <1>4, <2>7
  <2>8. CASE m = 7  BY <1>2, <1>3, <1>4, <2>8
  <2>9. CASE m = 8  BY <1>2, <1>3, <1>4, <2>9
  <2>10. CASE m = 9  BY <1>2, <1>3, <1>4, <2>10
  <2>11. CASE m = 10  BY <1>2, <1>3, <1>4, <2>11
  <2>12. CASE m = 11  BY <1>2, <1>3, <1>4, <2>12
  <2>13. CASE m = 12  BY <1>2, <1>3, <1>4, <2>13
  <2>14. CASE m = 13  BY <1>2, <1>3, <1>4, <2>14
  <2>15. CASE m = 14  BY <1>2, <1>3, <1>4, <2>15
  <2>. QED BY <2>1, <2>2, <2>3, <2>4, <2>5, <2>6, <2>7, <2>8, <2>9, <2>10, <2>11, <2>12, <2>13, <2>14, <2>15
<1>5. ASSUME NEW n \in 1..13
      PROVE  After(Calls[n]) = Calls[n+1]
  <2>1. n \in DOMAIN Calls
    BY <1>1
  <2>2. \A m \in DOMAIN Calls : Calls[m] = Calls[n] => m = n
    BY <1>1, <1>4
  <2>3. (CHOOSE m \in DOMAIN Calls : Calls[m] = Calls[n]) = n
    BY <2>1, <2>2, Zenon
  <2>4. After(Calls[n]) = Calls[1 + n]
    BY <2>3 DEF After
  <2>. QED BY <2>4
<1>6. /\ After(Calls[1]) = Calls[2] /\ After(Calls[2]) = Calls[3] /\ After(Calls[3]) = Calls[4]
      /\ After(Calls[4]) = Calls[5] /\ After(Calls[5]) = Calls[6] /\ After(Calls[6]) = Calls[7]
      /\ After(Calls[7]) = Calls[8] /\ After(Calls[8]) = Calls[9] /\ After(Calls[9]) = Calls[10]
      /\ After(Calls[10]) = Calls[11] /\ After(Calls[11]) = Calls[12]
      /\ After(Calls[12]) = Calls[13] /\ After(Calls[13]) = Calls[14]
  BY <1>5
<1>7. PrepareCalls = {Calls[n] : n \in 1..14}
  BY <1>1 DEF PrepareCalls
<1>8. {Calls[n] : n \in 1..14} = {Calls[1], Calls[2], Calls[3], Calls[4], Calls[5], Calls[6],
        Calls[7], Calls[8], Calls[9], Calls[10], Calls[11], Calls[12], Calls[13], Calls[14]}
  BY <1>3, SMTT(30)
<1>9. PrepareCalls =
       {"device", HostScalars, Page, "host done", "d_start_scalars", "d_Px", "d_Py", "map page",
        "mul kernel", "constants", "cuda done", "handoff", Stream, "LExit"}
  BY <1>2, <1>7, <1>8 DEF HostScalars, Page, Stream
<1>10. /\ After("device") = HostScalars
       /\ After(HostScalars) = Page
       /\ After(Page) = "host done"
  BY <1>2, <1>6 DEF HostScalars, Page
<1>11. /\ After("host done") = "d_start_scalars"
       /\ After("d_start_scalars") = "d_Px"
       /\ After("d_Px") = "d_Py"
  BY <1>2, <1>6
<1>12. /\ After("d_Py") = "map page"
       /\ After("map page") = "mul kernel"
       /\ After("mul kernel") = "constants"
  BY <1>2, <1>6
<1>13. /\ After("constants") = "cuda done"
       /\ After("cuda done") = "handoff"
       /\ After("handoff") = Stream
       /\ After(Stream) = "LExit"
  BY <1>2, <1>6 DEF Stream
<1>. QED BY <1>9, <1>10, <1>11, <1>12, <1>13

-------------------------------------------------------------------------------
(* The inductive invariant                                                 *)

TypeOK ==
  /\ gpu \in 1..N+1
  /\ pc \in PrepareCalls \union {"next", "start", "wait", "delete", "end"}
  /\ result \in [GPU -> BOOLEAN]
  /\ worker \in [GPU -> {"none", "execute", "release", "done"}]
  /\ allocated \in [GPU -> SUBSET Resource]
  /\ locals \in SUBSET Resource /\ hParams \in SUBSET Resource
  /\ Kparams \in [GPU -> SUBSET Resource]
  /\ m_cudaStream \in [GPU -> SUBSET Resource]
  /\ lastError \in GPU \union {Clear}
  /\ blamed \in SUBSET GPU /\ wildFrees \in SUBSET GPU /\ mulFailed \in SUBSET GPU
  /\ dead \in SUBSET GPU

\* Where the index of the main thread's loops is.
Position ==
  /\ Preparing => gpu \in GPU
  /\ pc \in {"start", "wait", "end"} => gpu = N + 1

\* Who points to what while a Prepare runs, call by call.
Stage ==
  /\ pc \in {"device", HostScalars} => locals = {} /\ hParams = {}
  /\ pc = Page => locals = {HostScalars} /\ hParams = {}
  /\ pc = "host done" => locals = {HostScalars, Page} /\ hParams = {}
  /\ pc = "d_start_scalars" => locals = {} /\ hParams = {HostScalars, Page}
  /\ pc = "d_Px" => locals = {"d_start_scalars"} /\ hParams = {HostScalars, Page}
  /\ pc = "d_Py" => locals = {"d_start_scalars", "d_Px"} /\ hParams = {HostScalars, Page}
  /\ pc \in {"map page", "mul kernel", "constants", "cuda done"} =>
       locals = DeviceBuffers /\ hParams = {HostScalars, Page}
  /\ pc = "handoff" => locals = {} /\ hParams = {HostScalars, Page}
  /\ pc = Stream => locals = {} /\ hParams = {HostScalars}
  /\ pc = "LExit" => locals = {} /\ hParams \subseteq {HostScalars, Page}
  /\ pc \notin PrepareCalls => locals = {} /\ hParams = {}

\* What the GPU being prepared has in its own fields.
OwnFields ==
  Preparing /\ pc # "next" =>
    /\ pc # "LExit" => ~result[gpu] /\ m_cudaStream[gpu] = {}
    /\ pc \in {"handoff", Stream} => Kparams[gpu] = Executing
    /\ pc \notin {"handoff", Stream, "LExit"} => Kparams[gpu] = {}
    /\ pc = "LExit" =>
         /\ result[gpu] => /\ Kparams[gpu] = Executing /\ m_cudaStream[gpu] = {Stream}
                           /\ hParams = {HostScalars}
         /\ ~result[gpu] => /\ Kparams[gpu] \intersect hParams = {}
                            /\ m_cudaStream[gpu] = {}

\* What a GPU has when its Prepare is over and it has not been released yet.
Held(g) ==
  /\ Kparams[g] = IF result[g] THEN Executing ELSE {}
  /\ m_cudaStream[g] = IF result[g] THEN {Stream} ELSE {}

Prepared ==
  \A g \in GPU :
    /\ Preparing /\ g < gpu => Held(g)
    /\ pc = "next" /\ g = gpu => Held(g)
    /\ pc = "start" => Held(g)

Untouched ==
  Preparing => \A g \in GPU : g > gpu => Held(g) /\ ~result[g]

Released ==
  \A g \in GPU :
    (pc = "delete" /\ g < gpu) \/ pc = "end" => Kparams[g] = {} /\ m_cudaStream[g] = {}

Workers ==
  /\ pc \notin {"wait", "delete", "end"} => \A g \in GPU : worker[g] = "none"
  /\ pc \in {"delete", "end"} => \A g \in GPU : worker[g] \in {"none", "done"}

\* Everything anybody points to for a GPU.
Pointed(g) ==
  Kparams[g] \union m_cudaStream[g] \union
    (IF Preparing /\ g = gpu THEN locals \union hParams ELSE {})

\* What is pointed to is there, and what is there is pointed to unless the context is ruined.
Owned(g) ==
  /\ Pointed(g) \subseteq allocated[g]
  /\ g \notin dead => allocated[g] = Pointed(g)

Ownership == \A g \in GPU : Owned(g)

IInv ==
  /\ TypeOK /\ Position /\ Stage /\ OwnFields /\ Prepared /\ Untouched /\ Released /\ Workers
  /\ Ownership
  /\ FreedOnce

-------------------------------------------------------------------------------
(* The steps of Prepare                                                    *)

LEMMA Indices ==
  /\ 1 \in GPU
  /\ \A g \in GPU : g \in Int /\ 1 <= g /\ g <= N /\ g \in 1..N+1 /\ g + 1 \in 1..N+1
  /\ \A g \in 1..N+1 : g \in Int /\ 1 <= g /\ (g \in GPU <=> g <= N) /\ (g <= N \/ g = N + 1)
  /\ N \in Int /\ 1 <= N /\ N + 1 \in 1..N+1 /\ 1 \in 1..N+1
BY NAssumption DEF GPU

USE DEF Preparing, HostScalars, Page, Stream, DeviceBuffers, Resource, Executing

LEMMA FailStep ==
  ASSUME IInv, NEW call \in PrepareCalls \ {"host done", "mul kernel", "cuda done", "handoff", "LExit"},
         FailCall(call), lastError' \in {lastError, gpu}, UNCHANGED <<blamed, mulFailed>>
  PROVE  IInv'
<1>1. TypeOK'
  BY CallOrder DEF IInv, TypeOK, Position, FailCall, Free
<1>2. Position' /\ Workers'
  BY CallOrder DEF IInv, Position, Workers, FailCall
<1>3. Released' /\ Untouched'
  BY DEF IInv, Untouched, Released, Held, FailCall
<1>4. Stage' /\ OwnFields'
  BY CallOrder DEF IInv, Stage, OwnFields, FailCall
<1>5. Prepared'
  BY DEF IInv, Prepared, Held, FailCall
<1>6. FreedOnce'
  BY DEF IInv, Position, Ownership, Owned, FreedOnce, Pointed, FailCall, Free, Unwound
<1>7. ASSUME NEW h \in GPU
      PROVE  Owned(h)'
  <2>1. CASE h = gpu
    <3>1. pc \in PrepareCalls /\ pc' \in PrepareCalls /\ gpu' = gpu /\ dead' = dead
      BY CallOrder DEF FailCall
    <3>2. locals = {} \/ (locals \intersect hParams = {} /\ Kparams[gpu] = {} /\ m_cudaStream[gpu] = {})
      BY CallOrder DEF IInv, Stage, OwnFields
    <3>3. allocated'[h] = IF h \in dead THEN allocated[h] ELSE allocated[h] \ locals
      BY <2>1 DEF IInv, TypeOK, FailCall, Free, Unwound
    <3>4. Pointed(h) = Kparams[h] \union m_cudaStream[h] \union (locals \union hParams)
      BY <2>1, <3>1 DEF Pointed
    <3>5. Pointed(h)' = Kparams[h] \union m_cudaStream[h] \union hParams
      BY <2>1, <3>1 DEF Pointed, FailCall
    <3>6. Pointed(h)' = Pointed(h) \ locals
      <4>1. CASE locals = {}
        BY <3>4, <3>5, <4>1
      <4>2. CASE locals \intersect hParams = {} /\ Kparams[gpu] = {} /\ m_cudaStream[gpu] = {}
        BY <2>1, <3>4, <3>5, <4>2
      <4>. QED BY <3>2, <4>1, <4>2
    <3>. QED BY <3>1, <3>3, <3>6 DEF IInv, Ownership, Owned
  <2>2. CASE h # gpu
    <3>1. /\ allocated'[h] = allocated[h] /\ Kparams'[h] = Kparams[h]
          /\ m_cudaStream'[h] = m_cudaStream[h] /\ gpu' = gpu /\ (h \in dead' <=> h \in dead)
      BY <2>2 DEF IInv, TypeOK, FailCall, Free
    <3>. QED BY <2>2, <3>1 DEF IInv, Ownership, Owned, Pointed
  <2>. QED BY <2>1, <2>2
<1>. QED BY <1>1, <1>2, <1>3, <1>4, <1>5, <1>6, <1>7 DEF IInv, Ownership

LEMMA SucceedStep ==
  ASSUME IInv, NEW call \in {"device", "map page", "constants"}, Succeed(call)
  PROVE  IInv'
<1>1. TypeOK'
  BY CallOrder DEF IInv, TypeOK, Succeed, pointers, errors, runtime
<1>2. Position' /\ Workers'
  BY CallOrder DEF IInv, Position, Workers, Succeed
<1>3. Released' /\ Untouched'
  BY CallOrder DEF IInv, Untouched, Released, Held, Succeed, pointers
<1>4. Stage' /\ OwnFields'
  BY CallOrder DEF IInv, Stage, OwnFields, Succeed, pointers
<1>5. Prepared'
  BY CallOrder DEF IInv, Prepared, Held, Succeed, pointers
<1>6. FreedOnce'
  BY DEF IInv, FreedOnce, Succeed, runtime
<1>7. ASSUME NEW h \in GPU
      PROVE  Owned(h)'
  <2>1. pc \in PrepareCalls /\ pc' \in PrepareCalls
    BY CallOrder DEF Succeed
  <2>2. Pointed(h)' = Pointed(h)
    BY <2>1 DEF Pointed, Succeed, pointers
  <2>. QED BY <2>2 DEF IInv, Ownership, Owned, Succeed, runtime
<1>. QED BY <1>1, <1>2, <1>3, <1>4, <1>5, <1>6, <1>7 DEF IInv, Ownership

LEMMA AllocateStep ==
  ASSUME IInv, NEW r \in {HostScalars, Page} \union DeviceBuffers, Allocate(r)
  PROVE  IInv'
<1>a. /\ pc = r /\ pc' = After(r) /\ locals' = locals \union {r}
      /\ UNCHANGED <<gpu, result, hParams, Kparams, m_cudaStream>>
  BY DEF Allocate
<1>1. TypeOK'
  <2>1. pc \in PrepareCalls /\ pc' \in PrepareCalls /\ gpu \in GPU
    BY <1>a, CallOrder DEF IInv, Position
  <2>2. allocated' \in [GPU -> SUBSET Resource] /\ locals' \in SUBSET Resource
    BY <2>1 DEF IInv, TypeOK, Allocate
  <2>. QED BY <1>a, <2>1, <2>2 DEF IInv, TypeOK, Allocate, errors
<1>2. Position' /\ Workers'
  BY CallOrder DEF IInv, Position, Workers, Allocate
<1>3. Released' /\ Untouched'
  BY CallOrder DEF IInv, Untouched, Released, Held, Allocate
<1>4. Stage' /\ OwnFields'
  <2>1. CASE r = HostScalars
    BY <1>a, <2>1, CallOrder DEF IInv, Stage, OwnFields
  <2>2. CASE r = Page
    BY <1>a, <2>2, CallOrder DEF IInv, Stage, OwnFields
  <2>3. CASE r = "d_start_scalars"
    BY <1>a, <2>3, CallOrder DEF IInv, Stage, OwnFields
  <2>4. CASE r = "d_Px"
    BY <1>a, <2>4, CallOrder DEF IInv, Stage, OwnFields
  <2>5. CASE r = "d_Py"
    BY <1>a, <2>5, CallOrder DEF IInv, Stage, OwnFields
  <2>. QED BY <2>1, <2>2, <2>3, <2>4, <2>5
<1>5. Prepared'
  BY Indices DEF IInv, TypeOK, OwnFields, Prepared, Untouched, Held, Allocate
<1>6. FreedOnce'
  BY DEF IInv, FreedOnce, Allocate
<1>7. ASSUME NEW h \in GPU
      PROVE  Owned(h)'
  <2>1. CASE h = gpu
    <3>1. pc \in PrepareCalls /\ pc' \in PrepareCalls
      BY CallOrder DEF Allocate
    <3>2. allocated'[h] = allocated[h] \union {r}
      BY <2>1 DEF IInv, TypeOK, Allocate
    <3>3. Pointed(h) = Kparams[h] \union m_cudaStream[h] \union (locals \union hParams)
      BY <2>1, <3>1 DEF Pointed
    <3>4. Pointed(h)' = Kparams[h] \union m_cudaStream[h] \union (locals' \union hParams)
      BY <2>1, <3>1 DEF Pointed, Allocate
    <3>5. Pointed(h)' = Pointed(h) \union {r}
      BY <3>3, <3>4 DEF Allocate
    <3>. QED BY <3>2, <3>5 DEF IInv, Ownership, Owned, Allocate
  <2>2. CASE h # gpu
    <3>1. /\ allocated'[h] = allocated[h] /\ Kparams'[h] = Kparams[h]
          /\ m_cudaStream'[h] = m_cudaStream[h] /\ gpu' = gpu /\ (h \in dead' <=> h \in dead)
      BY <2>2 DEF Allocate
    <3>. QED BY <2>2, <3>1 DEF IInv, Ownership, Owned, Pointed
  <2>. QED BY <2>1, <2>2
<1>. QED BY <1>1, <1>2, <1>3, <1>4, <1>5, <1>6, <1>7 DEF IInv, Ownership

LEMMA HostDoneStep ==
  ASSUME IInv, HostDone
  PROVE  IInv'
<1>1. TypeOK'
  BY CallOrder DEF IInv, TypeOK, HostDone, errors, runtime
<1>2. Position' /\ Workers'
  BY CallOrder DEF IInv, Position, Workers, HostDone
<1>3. Released' /\ Untouched'
  BY CallOrder DEF IInv, Untouched, Released, Held, HostDone
<1>4. Stage' /\ OwnFields'
  BY CallOrder DEF IInv, Stage, OwnFields, HostDone
<1>5. Prepared'
  BY CallOrder DEF IInv, Prepared, Held, HostDone
<1>6. FreedOnce'
  BY DEF IInv, FreedOnce, HostDone, runtime
<1>7. ASSUME NEW h \in GPU
      PROVE  Owned(h)'
  <2>1. pc \in PrepareCalls /\ pc' \in PrepareCalls
    BY CallOrder DEF HostDone
  <2>2. UNCHANGED <<gpu, dead, allocated, Kparams, m_cudaStream>>
    BY DEF HostDone, runtime
  <2>3. CASE h = gpu
    <3>1. Pointed(h) = Kparams[h] \union m_cudaStream[h] \union (locals \union hParams)
      BY <2>1, <2>3 DEF Pointed
    <3>2. Pointed(h)' = Kparams[h] \union m_cudaStream[h] \union (locals' \union hParams')
      BY <2>1, <2>2, <2>3 DEF Pointed
    <3>3. hParams = {} /\ hParams' = locals /\ locals' = {}
      BY DEF IInv, Stage, HostDone
    <3>4. Pointed(h)' = Pointed(h)
      BY <3>1, <3>2, <3>3
    <3>. QED BY <2>2, <3>4 DEF IInv, Ownership, Owned
  <2>4. CASE h # gpu
    BY <2>2, <2>4 DEF IInv, Ownership, Owned, Pointed
  <2>. QED BY <2>3, <2>4
<1>. QED BY <1>1, <1>2, <1>3, <1>4, <1>5, <1>6, <1>7 DEF IInv, Ownership

LEMMA MulKernelStep ==
  ASSUME IInv, MulKernel
  PROVE  IInv'
<1>. DEFINE Ran    == /\ pc' = "constants" /\ UNCHANGED <<locals, allocated, wildFrees, blamed, dead>>
                  Failed == /\ pc' = "LExit" /\ locals' = {} /\ blamed' = blamed \union {gpu}
                            /\ allocated' = [allocated EXCEPT ![gpu] =
                                               IF gpu \in dead' THEN @ ELSE @ \ locals]
                            /\ wildFrees' = wildFrees
                            /\ dead' \in {dead, dead \union {gpu}}
<1>a. /\ pc = "mul kernel" /\ mulFailed' \in {mulFailed, mulFailed \union {gpu}} /\ lastError' = Clear
      /\ UNCHANGED <<gpu, result, worker, hParams, Kparams, m_cudaStream>>
  BY DEF MulKernel
<1>b. Ran \/ Failed
  BY CallOrder DEF MulKernel, Drained, Unwound
<1>c. /\ locals = DeviceBuffers /\ hParams = {HostScalars, Page} /\ Kparams[gpu] = {}
      /\ m_cudaStream[gpu] = {} /\ ~result[gpu] /\ gpu \in GPU
  BY <1>a DEF IInv, Stage, OwnFields, Position
<1>. HIDE DEF Ran, Failed
<1>1. TypeOK'
  <2>1. CASE Ran  BY <2>1, <1>a, <1>c, CallOrder, Indices DEF Ran, IInv, TypeOK, Clear
  <2>2. CASE Failed  BY <2>2, <1>a, <1>c, CallOrder, Indices DEF Failed, IInv, TypeOK, Clear
  <2>. QED BY <1>b, <2>1, <2>2
<1>2. Position' /\ Workers'
  <2>1. CASE Ran  BY <2>1, <1>a, <1>c, CallOrder, Indices DEF Ran, IInv, Position, Workers
  <2>2. CASE Failed  BY <2>2, <1>a, <1>c, CallOrder, Indices DEF Failed, IInv, Position, Workers
  <2>. QED BY <1>b, <2>1, <2>2
<1>3. Released' /\ Untouched'
  <2>1. CASE Ran  BY <2>1, <1>a, <1>c, CallOrder, Indices DEF Ran, IInv, Released, Untouched, Held
  <2>2. CASE Failed  BY <2>2, <1>a, <1>c, CallOrder, Indices DEF Failed, IInv, Released, Untouched, Held
  <2>. QED BY <1>b, <2>1, <2>2
<1>4. Stage' /\ OwnFields'
  <2>1. CASE Ran  BY <2>1, <1>a, <1>c, CallOrder DEF Ran, Stage, OwnFields
  <2>2. CASE Failed  BY <2>2, <1>a, <1>c, CallOrder DEF Failed, Stage, OwnFields
  <2>. QED BY <1>b, <2>1, <2>2
<1>5. Prepared'
  <2>1. CASE Ran  BY <2>1, <1>a, <1>c, CallOrder DEF Ran, IInv, Prepared, Held
  <2>2. CASE Failed  BY <2>2, <1>a, <1>c, CallOrder DEF Failed, IInv, Prepared, Held
  <2>. QED BY <1>b, <2>1, <2>2
<1>6. FreedOnce'
  <2>1. CASE Ran  BY <2>1, <1>a DEF Ran, IInv, FreedOnce
  <2>2. CASE Failed  BY <2>2, <1>a DEF Failed, IInv, FreedOnce
  <2>. QED BY <1>b, <2>1, <2>2
<1>7. ASSUME NEW h \in GPU
      PROVE  Owned(h)'
  <2>1. Owned(h)
    BY DEF IInv, Ownership
  <2>2. CASE Ran
    <3>1. Pointed(h)' = Pointed(h)
      BY <1>a, <2>2, CallOrder DEF Ran, Pointed
    <3>. QED BY <2>1, <2>2, <3>1 DEF Ran, Owned
  <2>3. CASE Failed /\ h # gpu
    <3>1. Pointed(h)' = Pointed(h)
      BY <1>a, <2>3 DEF Pointed
    <3>2. allocated'[h] = allocated[h] /\ (h \in dead' <=> h \in dead)
      BY <2>3 DEF Failed, IInv, TypeOK
    <3>. QED BY <2>1, <3>1, <3>2 DEF Owned
  <2>4. CASE Failed /\ h = gpu
    <3>1. Pointed(h) = DeviceBuffers \union {HostScalars, Page}
      BY <1>a, <1>c, <2>4, CallOrder DEF Pointed
    <3>2. Pointed(h)' = {HostScalars, Page}
      BY <1>a, <1>c, <2>4, CallOrder DEF Failed, Pointed
    <3>3. allocated'[h] = (IF h \in dead' THEN allocated[h] ELSE allocated[h] \ DeviceBuffers)
          /\ (h \in dead => h \in dead')
      BY <1>c, <2>4 DEF Failed, IInv, TypeOK
    <3>. QED BY <2>1, <3>1, <3>2, <3>3 DEF Owned
  <2>. QED BY <1>b, <2>2, <2>3, <2>4
<1>. QED BY <1>1, <1>2, <1>3, <1>4, <1>5, <1>6, <1>7 DEF IInv, Ownership

LEMMA CudaDoneStep ==
  ASSUME IInv, CudaDone
  PROVE  IInv'
<1>a. /\ pc = "cuda done" /\ pc' = "handoff" /\ locals' = {}
      /\ Kparams' = [Kparams EXCEPT ![gpu] = locals \union {Page}]
      /\ UNCHANGED <<gpu, result, worker, hParams, m_cudaStream, errors, runtime>>
  BY CallOrder DEF CudaDone, TakenByKparams
<1>b. /\ locals = DeviceBuffers /\ hParams = {HostScalars, Page} /\ Kparams[gpu] = {}
      /\ m_cudaStream[gpu] = {} /\ ~result[gpu] /\ gpu \in GPU
  BY <1>a DEF IInv, Stage, OwnFields, Position
<1>c. \A g \in GPU : g # gpu => Kparams'[g] = Kparams[g]
  BY <1>a DEF IInv, TypeOK
<1>e. \A g \in GPU : (g > gpu => g # gpu) /\ (g < gpu => g # gpu)
  BY <1>b, Indices
<1>f. \A g \in GPU : g # gpu => (Held(g)' <=> Held(g))
  BY <1>a, <1>c DEF Held
<1>d. Kparams'[gpu] = Executing
  BY <1>a, <1>b DEF IInv, TypeOK
<1>1. TypeOK'
  BY CallOrder DEF IInv, TypeOK, CudaDone, TakenByKparams, errors, runtime
<1>2. Position' /\ Workers'
  BY CallOrder DEF IInv, Position, Workers, CudaDone
<1>3. Released' /\ Untouched'
  BY <1>a, <1>e, <1>f, CallOrder DEF IInv, Untouched, Released
<1>4. Stage' /\ OwnFields'
  BY <1>a, <1>b, <1>d, CallOrder DEF Stage, OwnFields
<1>5. Prepared'
  BY <1>a, <1>e, <1>f, CallOrder DEF IInv, Prepared
<1>6. FreedOnce'
  BY DEF IInv, FreedOnce, CudaDone, runtime
<1>7. ASSUME NEW h \in GPU
      PROVE  Owned(h)'
  <2>1. Pointed(h)' = Pointed(h)
    <3>1. CASE h = gpu
      <4>1. Pointed(h) = DeviceBuffers \union {HostScalars, Page}
        BY <1>a, <1>b, <3>1, CallOrder DEF Pointed
      <4>2. Pointed(h)' = Executing \union {HostScalars, Page}
        BY <1>a, <1>b, <1>d, <3>1, CallOrder DEF Pointed
      <4>. QED BY <4>1, <4>2
    <3>2. CASE h # gpu
      BY <1>a, <1>c, <3>2 DEF Pointed
    <3>. QED BY <3>1, <3>2
  <2>. QED BY <1>a, <2>1 DEF IInv, Ownership, Owned, runtime
<1>. QED BY <1>1, <1>2, <1>3, <1>4, <1>5, <1>6, <1>7 DEF IInv, Ownership

LEMMA HandoffStep ==
  ASSUME IInv, Handoff
  PROVE  IInv'
<1>1. TypeOK'
  BY CallOrder DEF IInv, TypeOK, Handoff, AfterHandoff, errors, runtime
<1>2. Position' /\ Workers'
  BY CallOrder DEF IInv, Position, Workers, Handoff
<1>3. Released' /\ Untouched'
  BY CallOrder DEF IInv, Untouched, Released, Held, Handoff
<1>4. Stage' /\ OwnFields'
  BY CallOrder DEF IInv, Stage, OwnFields, Handoff, AfterHandoff
<1>5. Prepared'
  BY CallOrder DEF IInv, Prepared, Held, Handoff
<1>6. FreedOnce'
  BY DEF IInv, FreedOnce, Handoff, runtime
<1>7. ASSUME NEW h \in GPU
      PROVE  Owned(h)'
  <2>1. pc \in PrepareCalls /\ pc' \in PrepareCalls
    BY CallOrder DEF Handoff
  <2>2. UNCHANGED <<gpu, dead, allocated, Kparams, m_cudaStream>>
    BY DEF Handoff, runtime
  <2>3. CASE h = gpu
    <3>1. Pointed(h) = Kparams[h] \union m_cudaStream[h] \union (locals \union hParams)
      BY <2>1, <2>3 DEF Pointed
    <3>2. Pointed(h)' = Kparams[h] \union m_cudaStream[h] \union (locals' \union hParams')
      BY <2>1, <2>2, <2>3 DEF Pointed
    <3>3. Page \in Kparams[h] /\ hParams' = hParams \ {Page} /\ locals' = locals
      BY <2>3 DEF IInv, Stage, OwnFields, Handoff, AfterHandoff
    <3>4. Pointed(h)' = Pointed(h)
      BY <3>1, <3>2, <3>3
    <3>. QED BY <2>2, <3>4 DEF IInv, Ownership, Owned
  <2>4. CASE h # gpu
    BY <2>2, <2>4 DEF IInv, Ownership, Owned, Pointed
  <2>. QED BY <2>3, <2>4
<1>. QED BY <1>1, <1>2, <1>3, <1>4, <1>5, <1>6, <1>7 DEF IInv, Ownership

LEMMA CreateStreamStep ==
  ASSUME IInv, CreateStream
  PROVE  IInv'
<1>1. TypeOK'
  BY CallOrder DEF IInv, TypeOK, CreateStream, errors
<1>2. Position' /\ Workers'
  BY CallOrder DEF IInv, Position, Workers, CreateStream
<1>3. Released' /\ Untouched'
  BY CallOrder DEF IInv, TypeOK, OwnFields, Untouched, Released, Held, CreateStream
<1>4. Stage' /\ OwnFields'
  BY CallOrder DEF IInv, TypeOK, Position, Stage, OwnFields, CreateStream
<1>5. Prepared'
  BY CallOrder DEF IInv, TypeOK, OwnFields, Prepared, Held, CreateStream
<1>6. FreedOnce'
  BY DEF IInv, FreedOnce, CreateStream
<1>7. ASSUME NEW h \in GPU
      PROVE  Owned(h)'
  <2>1. CASE h = gpu
    <3>1. pc \in PrepareCalls /\ pc' \in PrepareCalls /\ gpu' = gpu /\ dead' = dead
      BY CallOrder DEF CreateStream
    <3>2. m_cudaStream[gpu] = {}
      BY CallOrder DEF IInv, OwnFields, CreateStream
    <3>3. allocated'[h] = allocated[h] \union {Stream} /\ m_cudaStream'[h] = {Stream}
      BY <2>1 DEF IInv, TypeOK, CreateStream
    <3>4. Pointed(h) = Kparams[h] \union m_cudaStream[h] \union (locals \union hParams)
      BY <2>1, <3>1 DEF Pointed
    <3>5. Pointed(h)' = Kparams[h] \union m_cudaStream'[h] \union (locals \union hParams)
      BY <2>1, <3>1 DEF Pointed, CreateStream
    <3>6. Pointed(h)' = Pointed(h) \union {Stream}
      BY <2>1, <3>2, <3>3, <3>4, <3>5
    <3>. QED BY <3>1, <3>3, <3>6 DEF IInv, Ownership, Owned
  <2>2. CASE h # gpu
    <3>1. /\ allocated'[h] = allocated[h] /\ Kparams'[h] = Kparams[h]
          /\ m_cudaStream'[h] = m_cudaStream[h] /\ gpu' = gpu /\ (h \in dead' <=> h \in dead)
      BY <2>2 DEF CreateStream
    <3>. QED BY <2>2, <3>1 DEF IInv, Ownership, Owned, Pointed
  <2>. QED BY <2>1, <2>2
<1>. QED BY <1>1, <1>2, <1>3, <1>4, <1>5, <1>6, <1>7 DEF IInv, Ownership

LEMMA LExitStep ==
  ASSUME IInv, LExit
  PROVE  IInv'
<1>1. TypeOK'
  BY DEF IInv, TypeOK, Position, LExit, Free, errors
<1>2. Position' /\ Workers'
  BY DEF IInv, TypeOK, Position, Workers, LExit
<1>3. Released' /\ Untouched'
  BY CallOrder DEF IInv, TypeOK, Untouched, Released, Held, LExit
<1>4. Stage' /\ OwnFields'
  BY DEF IInv, Stage, OwnFields, LExit
<1>5. Prepared'
  <2>1. pc = "LExit" /\ pc' = "next" /\ gpu' = gpu /\ gpu \in GPU
    BY CallOrder DEF IInv, Position, LExit
  <2>2. \A g \in GPU : Kparams'[g] = IF g = gpu /\ ~result[gpu] THEN {} ELSE Kparams[g]
    BY <2>1 DEF IInv, TypeOK, LExit
  <2>3. result' = result /\ m_cudaStream' = m_cudaStream
    BY DEF LExit
  <2>4. /\ result[gpu] => Kparams[gpu] = Executing /\ m_cudaStream[gpu] = {Stream}
        /\ ~result[gpu] => m_cudaStream[gpu] = {}
    BY <2>1, CallOrder DEF IInv, OwnFields
  <2>5. Held(gpu)'
    BY <2>1, <2>2, <2>3, <2>4 DEF Held
  <2>6. ASSUME NEW g \in GPU, g < gpu
        PROVE  Held(g)'
    <3>1. Held(g)
      BY <2>1, <2>6, CallOrder DEF IInv, Prepared
    <3>2. g # gpu
      BY <2>6, Indices
    <3>. QED BY <2>2, <2>3, <3>1, <3>2 DEF Held
  <2>. QED BY <2>1, <2>5, <2>6 DEF Prepared
<1>6. FreedOnce'
  BY DEF IInv, TypeOK, Position, Ownership, Owned, FreedOnce, Pointed, LExit, Free
<1>7. ASSUME NEW h \in GPU
      PROVE  Owned(h)'
  <2>1. CASE h = gpu
    <3>1. /\ pc \in PrepareCalls /\ pc' = "next" /\ gpu' = gpu /\ dead' = dead
          /\ locals = {} /\ locals' = {} /\ hParams' = {} /\ m_cudaStream' = m_cudaStream
      BY CallOrder DEF IInv, Stage, LExit
    <3>. DEFINE doomed == hParams \union (IF result[gpu] THEN {} ELSE Kparams[gpu])
    <3>2. allocated'[h] = IF h \in dead THEN allocated[h] ELSE allocated[h] \ doomed
      BY <2>1 DEF IInv, TypeOK, LExit, Free
    <3>3. Pointed(h) = Kparams[h] \union m_cudaStream[h] \union hParams
      BY <2>1, <3>1 DEF Pointed
    <3>4. Kparams'[h] = IF result[gpu] THEN Kparams[h] ELSE {}
      BY <2>1 DEF IInv, TypeOK, LExit
    <3>5. Pointed(h)' = Kparams'[h] \union m_cudaStream[h]
      BY <2>1, <3>1 DEF Pointed
    <3>6. Pointed(h)' = Pointed(h) \ doomed
      <4>1. CASE result[gpu]
        <5>1. Kparams[h] = Executing /\ m_cudaStream[h] = {Stream} /\ hParams = {HostScalars}
          BY <2>1, <4>1, CallOrder DEF IInv, OwnFields, LExit
        <5>2. doomed = {HostScalars}
          BY <4>1, <5>1
        <5>3. Pointed(h)' = Executing \union {Stream}
          BY <3>4, <3>5, <4>1, <5>1
        <5>4. Pointed(h) = Executing \union {Stream} \union {HostScalars}
          BY <3>3, <5>1
        <5>. QED BY <5>2, <5>3, <5>4
      <4>2. CASE ~result[gpu]
        <5>1. m_cudaStream[h] = {}
          BY <2>1, <4>2, CallOrder DEF IInv, OwnFields, LExit
        <5>. QED BY <2>1, <3>3, <3>4, <3>5, <4>2, <5>1
      <4>. QED BY <4>1, <4>2
    <3>. HIDE DEF doomed
    <3>. QED BY <3>1, <3>2, <3>6 DEF IInv, Ownership, Owned
  <2>2. CASE h # gpu
    <3>1. /\ allocated'[h] = allocated[h] /\ Kparams'[h] = Kparams[h]
          /\ m_cudaStream'[h] = m_cudaStream[h] /\ gpu' = gpu /\ (h \in dead' <=> h \in dead)
      BY <2>2 DEF LExit, Free
    <3>. QED BY <2>2, <3>1 DEF IInv, Ownership, Owned, Pointed
  <2>. QED BY <2>1, <2>2
<1>. QED BY <1>1, <1>2, <1>3, <1>4, <1>5, <1>6, <1>7 DEF IInv, Ownership

LEMMA NextGpuStep ==
  ASSUME IInv, NextGpu
  PROVE  IInv'
<1>a. /\ pc = "next" /\ gpu \in GPU /\ gpu' = gpu + 1 /\ locals = {} /\ hParams = {}
      /\ pc' = IF gpu < N THEN "device" ELSE "start"
      /\ UNCHANGED <<result, worker, pointers, errors, runtime>>
  BY CallOrder DEF IInv, Position, Stage, NextGpu
<1>b. (gpu < N /\ gpu + 1 \in GPU /\ pc' = "device") \/ (gpu = N /\ pc' = "start")
  BY <1>a, Indices
<1>c. \A g \in GPU : Held(g)' <=> Held(g)
  BY <1>a DEF Held, pointers
<1>1. TypeOK'
  BY CallOrder, Indices DEF IInv, TypeOK, Position, NextGpu, pointers, errors, runtime
<1>2. Position' /\ Workers'
  BY <1>a, <1>b, CallOrder DEF IInv, Position, Workers
<1>3. Released' /\ Untouched'
  <2>1. pc' # "delete" /\ pc' # "end"
    BY <1>b
  <2>2. \A g \in GPU : g > gpu' => g > gpu
    BY <1>a, Indices
  <2>. QED BY <1>a, <1>c, <2>1, <2>2 DEF IInv, Untouched, Released
<1>4. Stage' /\ OwnFields'
  <2>1. CASE gpu < N /\ gpu + 1 \in GPU /\ pc' = "device"
    <3>1. gpu + 1 > gpu
      BY <1>a, Indices
    <3>2. Held(gpu + 1) /\ ~result[gpu + 1]
      BY <1>a, <2>1, <3>1 DEF IInv, Untouched
    <3>3. ~result'[gpu'] /\ m_cudaStream'[gpu'] = {} /\ Kparams'[gpu'] = {}
      BY <1>a, <3>2 DEF Held, pointers
    <3>. QED BY <1>a, <2>1, <3>3, CallOrder DEF Stage, OwnFields, pointers
  <2>2. CASE gpu = N /\ pc' = "start"
    BY <1>a, <2>2, CallOrder DEF Stage, OwnFields, pointers
  <2>. QED BY <1>b, <2>1, <2>2
<1>5. Prepared'
  <2>1. \A g \in GPU : g < gpu \/ g = gpu => Held(g)
    BY <1>a DEF IInv, Prepared
  <2>2. \A g \in GPU : (g < gpu' => g < gpu \/ g = gpu) /\ (gpu = N => g < gpu \/ g = gpu)
    BY <1>a, Indices
  <2>3. pc' # "next"
    BY <1>b
  <2>. QED BY <1>b, <1>c, <2>1, <2>2, <2>3 DEF Prepared
<1>6. FreedOnce'
  BY DEF IInv, FreedOnce, NextGpu, runtime
<1>7. ASSUME NEW h \in GPU
      PROVE  Owned(h)'
  <2>1. Pointed(h) = Kparams[h] \union m_cudaStream[h]
    BY <1>a DEF Pointed
  <2>2. Pointed(h)' = (Kparams[h] \union m_cudaStream[h])'
    BY <1>a DEF Pointed, pointers
  <2>. QED BY <1>a, <2>1, <2>2 DEF IInv, Ownership, Owned, pointers, runtime
<1>. QED BY <1>1, <1>2, <1>3, <1>4, <1>5, <1>6, <1>7 DEF IInv, Ownership

-------------------------------------------------------------------------------
(* The steps of find_key, of Execute and of the destructor                 *)

LEMMA StartStep ==
  ASSUME IInv, Start
  PROVE  IInv'
<1>1. TypeOK'
  BY DEF IInv, TypeOK, Start, pointers, errors, runtime
<1>2. Position' /\ Workers'
  BY CallOrder DEF IInv, Position, Workers, Start
<1>3. Released' /\ Untouched'
  BY Indices DEF IInv, Position, Untouched, Released, Start
<1>4. Stage' /\ OwnFields'
  BY CallOrder DEF IInv, Stage, OwnFields, Start, pointers
<1>5. Prepared'
  BY DEF IInv, Prepared, Held, Start, pointers
<1>6. FreedOnce'
  BY DEF IInv, FreedOnce, Start, runtime
<1>7. ASSUME NEW h \in GPU
      PROVE  Owned(h)'
  <2>1. CASE h = gpu
    BY Indices DEF IInv, Position, Ownership, Owned, Pointed, Start, pointers, runtime
  <2>2. CASE h # gpu
    <3>1. /\ allocated'[h] = allocated[h] /\ Kparams'[h] = Kparams[h]
          /\ m_cudaStream'[h] = m_cudaStream[h] /\ gpu' = gpu /\ (h \in dead' <=> h \in dead)
      BY DEF Start, pointers, runtime
    <3>. QED BY <2>2, <3>1 DEF IInv, Ownership, Owned, Pointed
  <2>. QED BY <2>1, <2>2
<1>. QED BY <1>1, <1>2, <1>3, <1>4, <1>5, <1>6, <1>7 DEF IInv, Ownership

LEMMA SetDeviceFailsStep ==
  ASSUME IInv, NEW g \in GPU, SetDeviceFails(g)
  PROVE  IInv'
<1>a. pc = "wait" /\ locals = {} /\ hParams = {} /\ pc \notin PrepareCalls \union {"next"}
  BY CallOrder DEF IInv, Workers, Stage, SetDeviceFails
<1>b. UNCHANGED <<gpu, pc, result, pointers, errors, runtime>>
  BY DEF SetDeviceFails
<1>1. TypeOK'
  BY DEF IInv, TypeOK, SetDeviceFails, pointers, errors, runtime
<1>2. Position' /\ Workers'
  BY DEF IInv, Position, Workers, SetDeviceFails
<1>3. Released' /\ Untouched'
  BY DEF IInv, Untouched, Released, Held, SetDeviceFails, pointers
<1>4. Stage' /\ OwnFields'
  BY <1>a, <1>b DEF Stage, OwnFields, pointers
<1>5. Prepared'
  BY <1>a, <1>b DEF Prepared
<1>6. FreedOnce'
  BY DEF IInv, FreedOnce, SetDeviceFails, runtime
<1>7. ASSUME NEW h \in GPU
      PROVE  Owned(h)'
  <2>1. Pointed(h)' = Pointed(h)
    BY <1>b DEF Pointed, pointers
  <2>. QED BY <1>b, <2>1 DEF IInv, Ownership, Owned, runtime
<1>. QED BY <1>1, <1>2, <1>3, <1>4, <1>5, <1>6, <1>7 DEF IInv, Ownership

LEMMA LaunchesStep ==
  ASSUME IInv, NEW g \in GPU, Launches(g)
  PROVE  IInv'
<1>a. pc = "wait" /\ locals = {} /\ hParams = {} /\ pc \notin PrepareCalls \union {"next"}
  BY CallOrder DEF IInv, Workers, Stage, Launches, LoopEnds
<1>b. UNCHANGED <<gpu, pc, result, pointers, errors, allocated, wildFrees>>
      /\ dead' \in {dead, dead \union {g}}
  BY DEF Launches, LoopEnds
<1>1. TypeOK'
  BY DEF IInv, TypeOK, Launches, LoopEnds, pointers, errors
<1>2. Position' /\ Workers'
  BY DEF IInv, Position, Workers, Launches, LoopEnds
<1>3. Released' /\ Untouched'
  BY DEF IInv, Untouched, Released, Held, Launches, LoopEnds, pointers
<1>4. Stage' /\ OwnFields'
  BY <1>a, <1>b DEF Stage, OwnFields, pointers
<1>5. Prepared'
  BY <1>a, <1>b DEF Prepared
<1>6. FreedOnce'
  BY DEF IInv, FreedOnce, Launches, LoopEnds
<1>7. ASSUME NEW h \in GPU
      PROVE  Owned(h)'
  <2>1. Pointed(h)' = Pointed(h)
    BY <1>b DEF Pointed, pointers
  <2>. QED BY <1>b, <2>1 DEF IInv, Ownership, Owned
<1>. QED BY <1>1, <1>2, <1>3, <1>4, <1>5, <1>6, <1>7 DEF IInv, Ownership

LEMMA WorkerReleaseStep ==
  ASSUME IInv, NEW g \in GPU, WorkerRelease(g)
  PROVE  IInv'
<1>a. pc = "wait" /\ locals = {} /\ hParams = {} /\ pc \notin PrepareCalls \union {"next"}
  BY CallOrder DEF IInv, Workers, Stage, WorkerRelease
<1>b. /\ UNCHANGED <<gpu, pc, result, locals, hParams, errors, dead>>
      /\ allocated' = [allocated EXCEPT ![g] =
                         IF g \in dead THEN @ ELSE @ \ (Kparams[g] \union m_cudaStream[g])]
      /\ Kparams' = [Kparams EXCEPT ![g] = {}]
      /\ m_cudaStream' = [m_cudaStream EXCEPT ![g] = {}]
  BY DEF WorkerRelease, Release, Free
<1>1. TypeOK'
  BY DEF IInv, TypeOK, WorkerRelease, Release, Free, errors
<1>2. Position' /\ Workers'
  BY DEF IInv, Position, Workers, WorkerRelease
<1>3. Released' /\ Untouched'
  BY CallOrder DEF IInv, TypeOK, Untouched, Released, Held, WorkerRelease, Release
<1>4. Stage' /\ OwnFields'
  BY <1>a, <1>b DEF Stage, OwnFields
<1>5. Prepared'
  BY <1>a, <1>b DEF Prepared
<1>6. FreedOnce'
  BY DEF IInv, Ownership, Owned, FreedOnce, Pointed, WorkerRelease, Release, Free
<1>7. ASSUME NEW h \in GPU
      PROVE  Owned(h)'
  <2>1. Pointed(h) = Kparams[h] \union m_cudaStream[h] /\ Owned(h)
    BY <1>a DEF IInv, Ownership, Pointed
  <2>2. Pointed(h)' = (Kparams[h] \union m_cudaStream[h])'
    BY <1>a, <1>b DEF Pointed
  <2>3. CASE h = g
    <3>1. Kparams'[h] = {} /\ m_cudaStream'[h] = {}
      BY <1>b, <2>3 DEF IInv, TypeOK
    <3>2. allocated'[h] = IF h \in dead THEN allocated[h] ELSE allocated[h] \ Pointed(h)
      BY <1>b, <2>1, <2>3 DEF IInv, TypeOK
    <3>3. Pointed(h)' = {}
      BY <2>2, <3>1
    <3>. QED BY <1>b, <2>1, <3>2, <3>3 DEF Owned
  <2>4. CASE h # g
    <3>1. allocated'[h] = allocated[h] /\ Pointed(h)' = Pointed(h)
      BY <1>b, <2>1, <2>2, <2>4
    <3>. QED BY <1>b, <2>1, <3>1 DEF Owned
  <2>. QED BY <2>3, <2>4
<1>. QED BY <1>1, <1>2, <1>3, <1>4, <1>5, <1>6, <1>7 DEF IInv, Ownership

LEMMA WorkersGoneStep ==
  ASSUME IInv, WorkersGone
  PROVE  IInv'
<1>a. /\ pc = "wait" /\ pc' = "delete" /\ gpu' = 1 /\ locals = {} /\ hParams = {}
      /\ pc \notin PrepareCalls \union {"next"} /\ pc' \notin PrepareCalls \union {"next"}
      /\ UNCHANGED <<result, worker, pointers, errors, runtime>>
  BY CallOrder DEF IInv, Stage, WorkersGone
<1>1. TypeOK'
  BY DEF IInv, TypeOK, Position, WorkersGone, pointers, errors, runtime
<1>2. Position' /\ Workers'
  BY Indices DEF Position, Workers, WorkersGone
<1>3. Released' /\ Untouched'
  BY <1>a, Indices DEF Released, Untouched
<1>4. Stage' /\ OwnFields'
  BY CallOrder DEF IInv, Stage, OwnFields, WorkersGone, pointers
<1>5. Prepared'
  BY Indices DEF Prepared, WorkersGone
<1>6. FreedOnce'
  BY DEF IInv, FreedOnce, WorkersGone, runtime
<1>7. ASSUME NEW h \in GPU
      PROVE  Owned(h)'
  <2>1. Pointed(h)' = Pointed(h)
    BY <1>a DEF Pointed, pointers
  <2>. QED BY <1>a, <2>1 DEF IInv, Ownership, Owned, runtime
<1>. QED BY <1>1, <1>2, <1>3, <1>4, <1>5, <1>6, <1>7 DEF IInv, Ownership

LEMMA DeleteStep ==
  ASSUME IInv, Delete
  PROVE  IInv'
<1>a. /\ pc = "delete" /\ locals = {} /\ hParams = {} /\ pc \notin PrepareCalls \union {"next"}
      /\ gpu \in GPU
  BY CallOrder, Indices DEF IInv, TypeOK, Stage, Delete
<1>b. /\ UNCHANGED <<pc, result, worker, locals, hParams, errors, dead>>
      /\ gpu' = gpu + 1
      /\ allocated' = [allocated EXCEPT ![gpu] =
                         IF gpu \in dead THEN @ ELSE @ \ (Kparams[gpu] \union m_cudaStream[gpu])]
      /\ Kparams' = [Kparams EXCEPT ![gpu] = {}]
      /\ m_cudaStream' = [m_cudaStream EXCEPT ![gpu] = {}]
  BY DEF Delete, Destroy, Release, Free
<1>1. TypeOK'
  BY Indices DEF IInv, TypeOK, Delete, Destroy, Release, Free, errors
<1>2. Position' /\ Workers'
  BY CallOrder DEF IInv, Position, Workers, Delete
<1>3. Released' /\ Untouched'
  <2>1. \A g \in GPU : g < gpu' => g < gpu \/ g = gpu
    BY <1>a, <1>b, Indices
  <2>2. \A g \in GPU : g < gpu \/ g = gpu => Kparams'[g] = {} /\ m_cudaStream'[g] = {}
    BY <1>a, <1>b DEF IInv, TypeOK, Released
  <2>. QED BY <1>a, <1>b, <2>1, <2>2 DEF Released, Untouched
<1>4. Stage' /\ OwnFields'
  BY <1>a, <1>b DEF Stage, OwnFields
<1>5. Prepared'
  BY <1>a, <1>b DEF Prepared
<1>6. FreedOnce'
  BY <1>a DEF IInv, Ownership, Owned, FreedOnce, Pointed, Delete, Destroy, Release, Free
<1>7. ASSUME NEW h \in GPU
      PROVE  Owned(h)'
  <2>1. Pointed(h) = Kparams[h] \union m_cudaStream[h] /\ Owned(h)
    BY <1>a DEF IInv, Ownership, Pointed
  <2>2. Pointed(h)' = (Kparams[h] \union m_cudaStream[h])'
    BY <1>a, <1>b DEF Pointed
  <2>3. CASE h = gpu
    <3>1. Kparams'[h] = {} /\ m_cudaStream'[h] = {}
      BY <1>b, <2>3 DEF IInv, TypeOK
    <3>2. allocated'[h] = IF h \in dead THEN allocated[h] ELSE allocated[h] \ Pointed(h)
      BY <1>b, <2>1, <2>3 DEF IInv, TypeOK
    <3>3. Pointed(h)' = {}
      BY <2>2, <3>1
    <3>. QED BY <1>b, <2>1, <3>2, <3>3 DEF Owned
  <2>4. CASE h # gpu
    <3>1. allocated'[h] = allocated[h] /\ Pointed(h)' = Pointed(h)
      BY <1>b, <2>1, <2>2, <2>4
    <3>. QED BY <1>b, <2>1, <3>1 DEF Owned
  <2>. QED BY <2>3, <2>4
<1>. QED BY <1>1, <1>2, <1>3, <1>4, <1>5, <1>6, <1>7 DEF IInv, Ownership

LEMMA DeletedStep ==
  ASSUME IInv, Deleted
  PROVE  IInv'
<1>a. /\ pc = "delete" /\ pc' = "end" /\ gpu = N + 1 /\ gpu' = gpu
      /\ pc \notin PrepareCalls \union {"next"} /\ pc' \notin PrepareCalls \union {"next"}
      /\ UNCHANGED <<result, worker, pointers, errors, runtime>>
  BY CallOrder DEF IInv, Stage, Deleted
<1>1. TypeOK'
  BY DEF IInv, TypeOK, Deleted, pointers, errors, runtime
<1>2. Position' /\ Workers'
  BY CallOrder DEF IInv, Position, Workers, Deleted
<1>3. Released' /\ Untouched'
  <2>1. \A g \in GPU : g < gpu
    BY <1>a, Indices
  <2>. QED BY <1>a, <2>1 DEF IInv, Released, Untouched, pointers
<1>4. Stage' /\ OwnFields'
  BY CallOrder DEF IInv, Stage, OwnFields, Deleted, pointers
<1>5. Prepared'
  BY CallOrder DEF Prepared, Deleted
<1>6. FreedOnce'
  BY DEF IInv, FreedOnce, Deleted, runtime
<1>7. ASSUME NEW h \in GPU
      PROVE  Owned(h)'
  <2>1. Pointed(h)' = Pointed(h)
    BY <1>a DEF Pointed, pointers
  <2>. QED BY <1>a, <2>1 DEF IInv, Ownership, Owned, runtime
<1>. QED BY <1>1, <1>2, <1>3, <1>4, <1>5, <1>6, <1>7 DEF IInv, Ownership

-------------------------------------------------------------------------------
(* The theorems                                                            *)

LEMMA InitInv == Init => IInv
<1>. SUFFICES ASSUME Init PROVE IInv
  OBVIOUS
<1>1. TypeOK /\ Position
  BY CallOrder, Indices DEF Init, TypeOK, Position
<1>2. Stage /\ OwnFields /\ Released /\ Workers /\ FreedOnce
  BY Indices DEF Init, Stage, OwnFields, Released, Workers, FreedOnce
<1>3. Prepared /\ Untouched
  BY DEF Init, Prepared, Untouched, Held
<1>4. Ownership
  BY DEF Init, Ownership, Owned, Pointed
<1>. QED BY <1>1, <1>2, <1>3, <1>4 DEF IInv

LEMMA StutterInv == ASSUME IInv, UNCHANGED vars PROVE IInv'
<1>. USE DEF vars, pointers, errors, runtime
<1>1. (TypeOK /\ Position)'
  BY DEF IInv, TypeOK, Position
<1>4. Stage'
  BY DEF IInv, Stage
<1>5. OwnFields'
  BY DEF IInv, OwnFields
<1>2. (Prepared /\ Untouched /\ Released /\ Workers /\ FreedOnce)'
  BY DEF IInv, Prepared, Untouched, Released, Workers, FreedOnce, Held
<1>3. Ownership'
  BY DEF IInv, Ownership, Owned, Pointed
<1>. QED BY <1>1, <1>2, <1>3, <1>4, <1>5 DEF IInv

LEMMA StepInv == ASSUME IInv, Next PROVE IInv'
<1>1. CASE PrepareBuffers
  <2>1. ASSUME NEW call \in {"device", "map page"}, Succeed(call) \/ CudaError(call)  PROVE IInv'
    <3>1. call \in PrepareCalls \ {"host done", "mul kernel", "cuda done", "handoff", "LExit"}
      BY CallOrder
    <3>2. CudaError(call) =>
            FailCall(call) /\ lastError' \in {lastError, gpu} /\ UNCHANGED <<blamed, mulFailed>>
      BY DEF CudaError
    <3>. QED BY <2>1, <3>1, <3>2, SucceedStep, FailStep
  <2>2. ASSUME NEW r \in {HostScalars, Page} \union DeviceBuffers, Allocate(r) \/ CudaError(r)
        PROVE  IInv'
    <3>1. r \in PrepareCalls \ {"host done", "mul kernel", "cuda done", "handoff", "LExit"}
      BY CallOrder
    <3>2. CudaError(r) =>
            FailCall(r) /\ lastError' \in {lastError, gpu} /\ UNCHANGED <<blamed, mulFailed>>
      BY DEF CudaError
    <3>. QED BY <2>2, <3>1, <3>2, AllocateStep, FailStep
  <2>3. CASE RefuseBudget \/ CudaError(Stream)
    <3>1. {HostScalars, Stream} \subseteq
            PrepareCalls \ {"host done", "mul kernel", "cuda done", "handoff", "LExit"}
      BY CallOrder
    <3>2. \E call \in {HostScalars, Stream} :
            FailCall(call) /\ lastError' \in {lastError, gpu} /\ UNCHANGED <<blamed, mulFailed>>
      BY <2>3 DEF RefuseBudget, CudaError, errors
    <3>. QED BY <3>1, <3>2, FailStep
  <2>. QED
    BY <1>1, <2>1, <2>2, <2>3, HostDoneStep, MulKernelStep, CudaDoneStep, HandoffStep,
       CreateStreamStep, LExitStep, NextGpuStep DEF PrepareBuffers
<1>2. CASE PrepareConstants
  <2>1. "constants" \in PrepareCalls \ {"host done", "mul kernel", "cuda done", "handoff", "LExit"}
    BY CallOrder
  <2>2. CudaError("constants") \/ RefuseConstants =>
          /\ FailCall("constants") /\ lastError' \in {lastError, gpu}
          /\ UNCHANGED <<blamed, mulFailed>>
    BY DEF CudaError, RefuseConstants, errors
  <2>. QED BY <1>2, <2>1, <2>2, SucceedStep, FailStep DEF PrepareConstants
<1>3. CASE Over
  BY <1>3, StutterInv DEF Over
<1>4. CASE \E g \in GPU : SetDeviceFails(g) \/ Launches(g) \/ WorkerRelease(g)
  BY <1>4, SetDeviceFailsStep, LaunchesStep, WorkerReleaseStep
<1>. QED
  BY <1>1, <1>2, <1>3, <1>4, StartStep, WorkersGoneStep, DeleteStep, DeletedStep DEF Next

\* The invariant that says, call by call, who points to what.
THEOREM Inductive == Spec => []IInv
<1>1. IInv /\ [Next]_vars => IInv'
  BY StepInv, StutterInv
<1>. QED BY InitInv, <1>1, PTL DEF Spec

\* Whichever call of Prepare fails, it returns with all five resources of Execute or with none,
\* on every GPU whose context still works, for any number of GPUs.
THEOREM PrepareCorrect == Spec => []PrepareIsAllOrNothing
<1>1. IInv => PrepareIsAllOrNothing
  <2>. SUFFICES ASSUME IInv, NEW g \in GPU \ dead, Settled(g)
       PROVE  allocated[g] = IF result[g] THEN DeviceBuffers \union {Page, Stream} ELSE {}
    BY DEF PrepareIsAllOrNothing
  <2>1. Held(g)
    BY CallOrder DEF IInv, Settled, Prepared
  <2>2. g # gpu
    BY Indices DEF IInv, TypeOK, Settled
  <2>3. allocated[g] = Kparams[g] \union m_cudaStream[g]
    BY <2>2 DEF IInv, Ownership, Owned, Pointed
  <2>. QED BY <2>1, <2>3 DEF Held
<1>. QED BY Inductive, <1>1, PTL

\* No path of Prepare, Release and the destructor frees what is not allocated.
THEOREM FreedOnceCorrect == Spec => []FreedOnce
<1>1. IInv => FreedOnce
  BY DEF IInv
<1>. QED BY Inductive, <1>1, PTL

\* When main returns nothing is left on a GPU whose context still works.
THEOREM OrphansCorrect == Spec => []NothingOrphaned
<1>1. IInv => NothingOrphaned
  <2>. SUFFICES ASSUME IInv, pc = "end", NEW g \in GPU \ dead
       PROVE  allocated[g] = {}
    BY DEF NothingOrphaned
  <2>1. Kparams[g] = {} /\ m_cudaStream[g] = {}
    BY DEF IInv, Released
  <2>2. pc \notin PrepareCalls \union {"next"}
    BY CallOrder
  <2>. QED BY <2>1, <2>2 DEF IInv, Ownership, Owned, Pointed
<1>. QED BY Inductive, <1>1, PTL

\* A setup kernel is blamed only for what it did: the slot is drained before it is launched.
THEOREM BlameCorrect == Spec => []NoFalseBlame
<1>1. Init => NoFalseBlame
  BY DEF Init, NoFalseBlame
<1>2. NoFalseBlame /\ [Next]_vars => NoFalseBlame'
  <2>. SUFFICES ASSUME NoFalseBlame, [Next]_vars PROVE NoFalseBlame'
    OBVIOUS
  <2>1. CASE MulKernel
    BY <2>1 DEF MulKernel, Drained, NoFalseBlame
  <2>2. CASE UNCHANGED <<blamed, mulFailed>>
    BY <2>2 DEF NoFalseBlame
  <2>3. CASE PrepareBuffers \/ PrepareConstants
    BY <2>1, <2>2, <2>3 DEF PrepareBuffers, PrepareConstants, Succeed, CudaError, Allocate, FailCall,
         RefuseBudget, RefuseConstants, HostDone, CudaDone, Handoff, CreateStream, LExit, NextGpu, errors
  <2>4. CASE Start \/ WorkersGone \/ Delete \/ Deleted
    BY <2>2, <2>4 DEF Start, WorkersGone, Delete, Deleted, errors
  <2>5. CASE \E g \in GPU : SetDeviceFails(g) \/ Launches(g) \/ WorkerRelease(g)
    BY <2>2, <2>5 DEF SetDeviceFails, Launches, LoopEnds, WorkerRelease, errors
  <2>6. CASE Over \/ UNCHANGED vars
    BY <2>2, <2>6 DEF Over, vars, errors
  <2>. QED BY <2>3, <2>4, <2>5, <2>6 DEF Next
<1>. QED BY <1>1, <1>2, PTL DEF Spec

-------------------------------------------------------------------------------
(* The launches implement PrepareRelease                                   *)

LEMMA LeaveIsLaunches ==
  ASSUME NEW g \in GPU, Leave(g), dead' \in {dead, dead \union {g}}
  PROVE  Next
BY DEF Leave, Launches, Next

LEMMA LaunchStep == LaunchNext => Next \/ UNCHANGED vars
<1>. SUFFICES ASSUME LaunchNext PROVE Next \/ UNCHANGED vars
  OBVIOUS
<1>1. CASE Copy
  BY <1>1 DEF Copy
<1>2. CASE CopyFails \/ SetupKernel
  BY <1>2 DEF CopyFails, SetupKernel, PrepareConstants, Next
<1>3. ASSUME NEW g \in GPU, Enter(g) \/ Synchronize(g)  PROVE UNCHANGED vars
  BY <1>3 DEF Enter, Synchronize
<1>4. ASSUME NEW g \in GPU, EndLoop(g) \/ KernelDies(g)  PROVE Next
  BY <1>4, LeaveIsLaunches DEF EndLoop, KernelDies
<1>5. ASSUME NEW g \in GPU, LaunchKernel(g)  PROVE Next \/ UNCHANGED vars
  BY <1>5, LeaveIsLaunches DEF LaunchKernel
<1>6. ASSUME NEW g \in GPU, SetDeviceFails(g) \/ WorkerRelease(g)  PROVE Next
  BY <1>6 DEF Next
<1>7. CASE PrepareBuffers \/ Start \/ WorkersGone \/ Delete \/ Deleted \/ Over
  BY <1>7 DEF Next
<1>. QED BY <1>1, <1>2, <1>3, <1>4, <1>5, <1>6, <1>7 DEF LaunchNext

\* The uploads and the launches, taken apart, do to the resources what PrepareRelease says of them:
\* whatever is proved of PrepareRelease holds of KernelLaunch.
THEOREM LaunchImplementsPrepare == LaunchSpec => Spec
<1>1. LaunchInit => Init
  BY DEF LaunchInit
<1>2. [LaunchNext]_<<vars, kvars>> => [Next]_vars
  BY LaunchStep
<1>. QED BY <1>1, <1>2, PTL DEF LaunchSpec, Spec

-------------------------------------------------------------------------------
(* The runs that are counted                                               *)

\* A worker that is about to synchronize has a kernel in its stream.
Counted ==
  /\ at \in [GPU -> {"enter", "loop", "launched", "left"}]
  /\ stream \in [GPU -> {"empty", "kernel"}]
  /\ runs_done \in [GPU -> Int] /\ ran \in [GPU -> Int]
  /\ \A g \in GPU : at[g] = "launched" => stream[g] = "kernel"
  /\ CountedMeansRan

\* A run that is counted was computed, however many are launched and whichever launch is rejected.
THEOREM CountedCorrect == LaunchSpec => []CountedMeansRan
<1>1. LaunchInit => Counted
  BY DEF LaunchInit, Counted, CountedMeansRan
<1>2. Counted /\ [LaunchNext]_<<vars, kvars>> => Counted'
  <2>. SUFFICES ASSUME Counted, [LaunchNext]_<<vars, kvars>> PROVE Counted'
    OBVIOUS
  <2>. USE DEF Counted, CountedMeansRan
  <2>1. CASE UNCHANGED xvars
    BY <2>1 DEF xvars
  <2>2. CASE Copy \/ CopyFails \/ SetupKernel
    BY <2>1, <2>2 DEF Copy, CopyFails, SetupKernel
  <2>3. ASSUME NEW g \in GPU, Enter(g) \/ EndLoop(g)  PROVE Counted'
    BY <2>3 DEF Enter, EndLoop, Leave
  <2>4. ASSUME NEW g \in GPU, LaunchKernel(g)  PROVE Counted'
    BY <2>4 DEF LaunchKernel, Leave, LaunchStatus
  <2>5. ASSUME NEW g \in GPU, Synchronize(g)  PROVE Counted'
    <3>1. stream[g] = "kernel"
      BY <2>5 DEF Synchronize
    <3>2. /\ at' = [at EXCEPT ![g] = "loop"] /\ stream' = [stream EXCEPT ![g] = "empty"]
          /\ ran' = [ran EXCEPT ![g] = ran[g] + 1]
          /\ runs_done' = [runs_done EXCEPT ![g] = runs_done[g] + 1]
      BY <2>5, <3>1 DEF Synchronize
    <3>. QED BY <3>2
  <2>6. ASSUME NEW g \in GPU, KernelDies(g)  PROVE Counted'
    BY <2>6 DEF KernelDies, Leave
  <2>7. CASE UNCHANGED kvars \/ UNCHANGED <<vars, kvars>>
    BY <2>1, <2>7 DEF kvars
  <2>. QED BY <2>2, <2>3, <2>4, <2>5, <2>6, <2>7 DEF LaunchNext
<1>3. Counted => CountedMeansRan
  BY DEF Counted
<1>. QED BY <1>1, <1>2, <1>3, PTL DEF LaunchSpec

-------------------------------------------------------------------------------
(* The constants a launch sees                                             *)

AllSymbols      == {Symbols[n] : n \in DOMAIN Symbols}
FirstSymbols(k) == {Symbols[n] : n \in 1..k}

LEMMA SymbolFacts ==
  /\ Len(Symbols) = 6 /\ FirstSymbols(6) = AllSymbols /\ FirstSymbols(0) = {}
  /\ \A k \in 0..5 : /\ FirstSymbols(k + 1) = FirstSymbols(k) \union {Symbols[k + 1]}
                     /\ Symbols[k + 1] \in AllSymbols /\ k + 1 \in 0..6
<1>1. Len(Symbols) = 6 /\ DOMAIN Symbols = 1..6
  BY DEF Symbols
<1>2. FirstSymbols(6) = AllSymbols /\ FirstSymbols(0) = {}
  BY <1>1 DEF FirstSymbols, AllSymbols
<1>3. ASSUME NEW k \in 0..5
      PROVE  FirstSymbols(k + 1) = FirstSymbols(k) \union {Symbols[k + 1]}
  <2>1. 1..k+1 = 1..k \union {k + 1}
    OBVIOUS
  <2>. QED BY <2>1 DEF FirstSymbols
<1>4. \A k \in 0..5 : Symbols[k + 1] \in AllSymbols /\ k + 1 \in 0..6
  BY <1>1 DEF AllSymbols
<1>. QED BY <1>1, <1>2, <1>3, <1>4

\* The module a GPU launches from has everything, and is not loaded again.
Full(g) == constants[LaunchedFrom(g)] = AllSymbols /\ (native => g \in ready)

KernelTypes ==
  /\ native \in BOOLEAN
  /\ copied \in 0..6
  /\ constants \in [Module -> SUBSET AllSymbols]
  /\ at \in [GPU -> {"enter", "loop", "launched", "left"}]

\* The GPU that is being prepared has what was copied so far.
Copying ==
  /\ pc # "constants" => copied = 0
  /\ pc = "constants" /\ copied > 0 =>
       FirstSymbols(copied) \subseteq constants[LaunchedFrom(gpu)] /\ (native => gpu \in ready)

\* A GPU past its uploads has all of them.
Uploaded ==
  /\ pc \in {"cuda done", "handoff", Stream} => Full(gpu)
  /\ \A g \in GPU : result[g] => Full(g)

\* Only prepared GPUs run.
Running == \A g \in GPU : worker[g] # "none" \/ at[g] # "enter" => result[g]

LInv == KernelTypes /\ Copying /\ Uploaded /\ Running

\* What a step of Prepare other than the uploads does to its own progress.
LEMMA BufferProgress ==
  ASSUME IInv, PrepareBuffers
  PROVE  /\ pc # "constants"
         /\ pc' \in {"cuda done", "handoff", Stream} => pc \in {"cuda done", "handoff"} /\ gpu' = gpu
         /\ worker' = worker
         /\ result' = result \/ (pc = Stream /\ pc' = "LExit" /\ result' = [result EXCEPT ![gpu] = TRUE])
<1>1. ASSUME NEW call, call \in {"device", "map page"}, Succeed(call)
      PROVE  /\ pc # "constants" /\ pc' \notin {"cuda done", "handoff", Stream}
             /\ worker' = worker /\ result' = result
  BY <1>1, CallOrder DEF Succeed
<1>2. ASSUME NEW call, call # "constants", FailCall(call)
      PROVE  /\ pc # "constants" /\ pc' \notin {"cuda done", "handoff", Stream}
             /\ worker' = worker /\ result' = result
  BY <1>2 DEF FailCall
<1>3. ASSUME NEW r \in {HostScalars, Page} \union DeviceBuffers, Allocate(r)
      PROVE  /\ pc # "constants" /\ pc' \notin {"cuda done", "handoff", Stream}
             /\ worker' = worker /\ result' = result
  BY <1>3, CallOrder DEF Allocate
<1>4. ASSUME HostDone \/ MulKernel \/ LExit \/ NextGpu
      PROVE  /\ pc # "constants" /\ pc' \notin {"cuda done", "handoff", Stream}
             /\ worker' = worker /\ result' = result
  BY <1>4, CallOrder DEF HostDone, MulKernel, LExit, NextGpu
<1>5. ASSUME CudaDone \/ Handoff
      PROVE  /\ pc \in {"cuda done", "handoff"} /\ gpu' = gpu
             /\ worker' = worker /\ result' = result
  BY <1>5, CallOrder DEF CudaDone, Handoff
<1>6. ASSUME CreateStream
      PROVE  /\ pc = Stream /\ pc' = "LExit" /\ worker' = worker
             /\ result' = [result EXCEPT ![gpu] = TRUE]
  BY <1>6, CallOrder DEF CreateStream
<1>7. \A call : CudaError(call) => FailCall(call)
  BY DEF CudaError
<1>8. CASE \E call \in {"device", "map page"} : Succeed(call) \/ CudaError(call)
  BY <1>8, <1>1, <1>2, <1>7
<1>9. CASE \E r \in {HostScalars, Page} \union DeviceBuffers : Allocate(r) \/ CudaError(r)
  BY <1>9, <1>2, <1>3, <1>7
<1>10. CASE RefuseBudget \/ CudaError(Stream)
  BY <1>10, <1>2, <1>7 DEF RefuseBudget
<1>. QED BY <1>4, <1>5, <1>6, <1>8, <1>9, <1>10 DEF PrepareBuffers

LEMMA LInvInit == LaunchInit => LInv
<1>. SUFFICES ASSUME LaunchInit PROVE LInv
  OBVIOUS
<1>1. KernelTypes
  BY DEF LaunchInit, KernelTypes
<1>2. Copying /\ Uploaded /\ Running
  BY DEF LaunchInit, Init, Copying, Uploaded, Running
<1>. QED BY <1>1, <1>2 DEF LInv

\* Two GPUs never share a module.
LEMMA ModulesApart ==
  ASSUME native \in BOOLEAN, NEW g \in GPU
  PROVE  /\ LaunchedFrom(g) \in Module
         /\ \A h \in GPU : LaunchedFrom(h) = LaunchedFrom(g) => h = g
BY DEF LaunchedFrom, Module

LEMMA CopyKeeps == ASSUME IInv, LInv, Copy PROVE LInv'
<1>1. /\ gpu \in GPU /\ copied \in 0..5 /\ copied' = copied + 1 /\ pc = "constants"
      /\ UNCHANGED <<vars, native, xvars>>
  <2>1. copied \in 0..6 /\ copied < 6
    BY SymbolFacts DEF LInv, KernelTypes, Copy
  <2>2. pc = "constants" /\ gpu \in GPU
    BY CallOrder DEF IInv, Position, Copy
  <2>. QED BY <2>1, <2>2 DEF Copy
<1>2. ToModule = LaunchedFrom(gpu) /\ ToModule \in Module
  BY <1>1, ModulesApart DEF ToModule, LaunchedFrom, LInv, KernelTypes
<1>3. /\ ready' = (IF native THEN ready \union {gpu} ELSE ready)
      /\ constants' = [constants EXCEPT ![ToModule] = Kept(gpu, ToModule) \union {Symbols[copied+1]}]
  BY DEF Copy, Readied
<1>4. /\ Kept(gpu, ToModule) \subseteq constants[ToModule]
      /\ (native /\ gpu \notin ready) \/ Kept(gpu, ToModule) = constants[ToModule]
  BY DEF Kept
<1>5. constants'[ToModule] = Kept(gpu, ToModule) \union {Symbols[copied + 1]}
  BY <1>2, <1>3 DEF LInv, KernelTypes
<1>6. KernelTypes'
  <2>1. Kept(gpu, ToModule) \union {Symbols[copied + 1]} \subseteq AllSymbols
    BY <1>1, <1>2, <1>4, SymbolFacts DEF LInv, KernelTypes
  <2>2. constants' \in [Module -> SUBSET AllSymbols]
    BY <1>3, <2>1 DEF LInv, KernelTypes
  <2>. QED BY <1>1, <2>2, SymbolFacts DEF LInv, KernelTypes, xvars
<1>7. Copying'
  <2>1. FirstSymbols(copied) \subseteq Kept(gpu, ToModule)
    <3>1. CASE copied = 0
      BY <3>1, SymbolFacts
    <3>2. CASE copied # 0
      <4>1. copied > 0
        BY <1>1, <3>2
      <4>. QED BY <1>1, <1>2, <1>4, <4>1 DEF LInv, Copying
    <3>. QED BY <3>1, <3>2
  <2>2. FirstSymbols(copied + 1) = FirstSymbols(copied) \union {Symbols[copied + 1]}
    BY <1>1, SymbolFacts
  <2>3. FirstSymbols(copied') \subseteq constants'[ToModule]
    BY <1>1, <1>5, <2>1, <2>2
  <2>4. pc' = pc /\ gpu' = gpu /\ LaunchedFrom(gpu)' = ToModule /\ (native' => gpu \in ready')
    BY <1>1, <1>2, <1>3 DEF vars, LaunchedFrom
  <2>5. (constants[LaunchedFrom(gpu)])' = constants'[ToModule]
    BY <2>4
  <2>. QED BY <1>1, <2>3, <2>4, <2>5 DEF Copying
<1>8. ASSUME NEW g \in GPU, Full(g) PROVE Full(g)'
  <2>1. CASE g = gpu
    <3>1. Kept(gpu, ToModule) = AllSymbols
      BY <1>2, <1>4, <1>8, <2>1 DEF Full
    <3>2. constants'[ToModule] = AllSymbols
      BY <1>1, <1>5, <3>1, SymbolFacts
    <3>. QED BY <1>1, <1>2, <1>3, <1>8, <2>1, <3>2 DEF Full, LaunchedFrom
  <2>2. CASE g # gpu
    <3>1. LaunchedFrom(g) \in Module /\ LaunchedFrom(g) # ToModule
      BY <1>1, <1>2, <2>2, ModulesApart DEF LInv, KernelTypes
    <3>2. constants'[LaunchedFrom(g)] = constants[LaunchedFrom(g)]
      BY <1>3, <3>1 DEF LInv, KernelTypes
    <3>. QED BY <1>1, <1>3, <1>8, <3>2 DEF Full, LaunchedFrom
  <2>. QED BY <2>1, <2>2
<1>9. Uploaded' /\ Running'
  BY <1>1, <1>8 DEF LInv, Uploaded, Running, vars, xvars
<1>. QED BY <1>6, <1>7, <1>9 DEF LInv

LEMMA UploadEndsKeeps == ASSUME IInv, LInv, CopyFails \/ SetupKernel PROVE LInv'
<1>1. /\ gpu \in GPU /\ copied' = 0 /\ pc = "constants" /\ pc' \in {"LExit", "cuda done"}
      /\ pc' = "cuda done" => copied = 6
      /\ UNCHANGED <<gpu, result, worker, native, constants, xvars>>
      /\ ready \subseteq ready'
  BY CallOrder, SymbolFacts DEF IInv, Position, CopyFails, SetupKernel, CudaError, RefuseConstants,
     FailCall, Succeed, Readied
<1>2. ASSUME NEW g \in GPU, Full(g) PROVE Full(g)'
  BY <1>1, <1>2 DEF Full, LaunchedFrom
<1>3. ASSUME copied = 6 PROVE Full(gpu)
  <2>1. AllSymbols \subseteq constants[LaunchedFrom(gpu)] /\ (native => gpu \in ready)
    <3>1. copied > 0 /\ FirstSymbols(copied) = AllSymbols
      BY <1>3, SymbolFacts
    <3>. QED BY <1>1, <3>1 DEF LInv, Copying
  <2>2. constants[LaunchedFrom(gpu)] \subseteq AllSymbols
    BY <1>1, ModulesApart DEF LInv, KernelTypes
  <2>. QED BY <2>1, <2>2 DEF Full
<1>4. KernelTypes' /\ Copying' /\ Running'
  <2>1. at' = at
    BY <1>1 DEF xvars
  <2>5. 0 \in 0..6
    OBVIOUS
  <2>2. KernelTypes'
    BY <1>1, <2>1, <2>5 DEF LInv, KernelTypes
  <2>3. Copying'
    BY <1>1 DEF Copying
  <2>4. Running'
    BY <1>1, <2>1 DEF LInv, Running
  <2>. QED BY <2>2, <2>3, <2>4
<1>5. Uploaded'
  <2>1. pc' = "cuda done" => Full(gpu)'
    BY <1>1, <1>2, <1>3
  <2>. QED BY <1>1, <1>2, <2>1 DEF LInv, Uploaded
<1>. QED BY <1>4, <1>5 DEF LInv

LEMMA LaunchKeeps ==
  ASSUME IInv, LInv, NEW g \in GPU, LaunchKernel(g)
  PROVE  LInv'
<1>1. Full(g)
  BY DEF LInv, Uploaded, Running, LaunchKernel
<1>2. constants' = constants /\ ready' = ready
  <2>1. Kept(g, LaunchedFrom(g)) = constants[LaunchedFrom(g)]
    BY <1>1 DEF Full, Kept
  <2>. QED BY <1>1, <2>1 DEF LaunchKernel, Readied, Full, LInv, KernelTypes
<1>3. /\ UNCHANGED <<gpu, pc, result, native, copied>>
      /\ at' \in {[at EXCEPT ![g] = "launched"], [at EXCEPT ![g] = "left"]}
      /\ worker' \in {worker, [worker EXCEPT ![g] = "release"]}
  BY DEF LaunchKernel, Leave, LoopEnds, vars
<1>4. result[g]
  BY DEF LInv, Running, LaunchKernel
<1>5. KernelTypes' /\ Copying' /\ Uploaded'
  BY <1>2, <1>3 DEF LInv, KernelTypes, Copying, Uploaded, Full, LaunchedFrom
<1>6. Running'
  BY <1>3, <1>4 DEF LInv, Running, KernelTypes, IInv, TypeOK
<1>. QED BY <1>5, <1>6 DEF LInv

LEMMA WorkerKeeps ==
  ASSUME IInv, LInv, NEW g \in GPU,
         \/ Enter(g) \/ EndLoop(g) \/ Synchronize(g) \/ KernelDies(g)
         \/ (SetDeviceFails(g) \/ WorkerRelease(g)) /\ UNCHANGED kvars
  PROVE  LInv'
<1>1. /\ UNCHANGED <<gpu, pc, result, native, copied, constants, ready>>
      /\ at' = at \/ (\E w \in {"loop", "left"} : at' = [at EXCEPT ![g] = w])
      /\ worker' = worker \/ (\E w \in {"release", "done"} : worker' = [worker EXCEPT ![g] = w])
  BY DEF Enter, EndLoop, Synchronize, KernelDies, Leave, LoopEnds, SetDeviceFails, WorkerRelease,
     vars, cvars, kvars, xvars
<1>2. result[g]
  BY DEF LInv, Running, Enter, EndLoop, Synchronize, KernelDies, SetDeviceFails, WorkerRelease
<1>3. KernelTypes' /\ Copying' /\ Uploaded'
  BY <1>1 DEF LInv, KernelTypes, Copying, Uploaded, Full, LaunchedFrom
<1>4. Running'
  BY <1>1, <1>2 DEF LInv, Running, KernelTypes, IInv, TypeOK
<1>. QED BY <1>3, <1>4 DEF LInv

LEMMA BuffersKeep == ASSUME IInv, LInv, PrepareBuffers, UNCHANGED kvars PROVE LInv'
<1>1. UNCHANGED <<native, copied, constants, ready, at>>
  BY DEF kvars, cvars, xvars
<1>2. \A g \in GPU : Full(g)' <=> Full(g)
  BY <1>1 DEF Full, LaunchedFrom
<1>3. copied = 0
  BY BufferProgress DEF LInv, Copying
<1>4. KernelTypes' /\ Copying'
  BY <1>1, <1>3 DEF LInv, KernelTypes, Copying
<1>5. Uploaded'
  <2>1. ASSUME pc' \in {"cuda done", "handoff", Stream}
        PROVE  Full(gpu)'
    <3>1. gpu' = gpu /\ pc \in {"cuda done", "handoff"}
      BY <2>1, BufferProgress
    <3>2. Full(gpu)
      BY <3>1 DEF LInv, Uploaded
    <3>. QED BY <1>1, <3>1, <3>2 DEF Full, LaunchedFrom
  <2>2. ASSUME NEW g \in GPU, result'[g]
        PROVE  Full(g)
    <3>1. result[g] \/ (pc = Stream /\ g = gpu)
      BY <2>2, BufferProgress DEF IInv, TypeOK
    <3>. QED BY <3>1 DEF LInv, Uploaded
  <2>. QED BY <1>2, <2>1, <2>2 DEF Uploaded
<1>6. Running'
  BY <1>1, BufferProgress DEF LInv, Running, IInv, TypeOK
<1>. QED BY <1>4, <1>5, <1>6 DEF LInv

LEMMA MainKeeps ==
  ASSUME IInv, LInv, UNCHANGED kvars,
         Start \/ WorkersGone \/ Delete \/ Deleted \/ Over \/ UNCHANGED vars
  PROVE  LInv'
<1>1. UNCHANGED <<native, copied, constants, ready, at, result>>
  BY DEF kvars, cvars, xvars, Start, WorkersGone, Delete, Deleted, Over, vars
<1>2. KernelTypes'
  BY <1>1 DEF LInv, KernelTypes
<1>3. \A g \in GPU : Full(g)' <=> Full(g)
  BY <1>1 DEF Full, LaunchedFrom
<1>4. CASE Start \/ WorkersGone \/ Delete \/ Deleted
  <2>1. pc # "constants" /\ pc' \notin {"constants", "cuda done", "handoff", Stream}
    BY <1>4 DEF Start, WorkersGone, Delete, Deleted
  <2>2. Copying' /\ Uploaded'
    BY <1>1, <1>3, <2>1 DEF LInv, Copying, Uploaded
  <2>3. ASSUME NEW g \in GPU, worker'[g] # "none" PROVE result[g]
    BY <1>4, <2>3 DEF Start, WorkersGone, Delete, Deleted, LInv, Running
  <2>. QED BY <1>1, <1>2, <2>2, <2>3 DEF LInv, Running
<1>5. CASE Over \/ UNCHANGED vars
  <2>1. UNCHANGED <<gpu, pc, worker>>
    BY <1>5 DEF Over, vars
  <2>. QED BY <1>1, <1>2, <2>1 DEF LInv, Copying, Uploaded, Running, Full, LaunchedFrom
<1>. QED BY <1>4, <1>5

\* No launch, in either build, reaches a module that lacks one of the six constants: what the main
\* thread uploaded while it prepared is still there when the worker launches.
THEOREM ConstantsCorrect == LaunchSpec => []LaunchSeesConstants
<1>1. IInv /\ LInv /\ [LaunchNext]_<<vars, kvars>> => LInv'
  <2>. SUFFICES ASSUME IInv, LInv, [LaunchNext]_<<vars, kvars>> PROVE LInv'
    OBVIOUS
  <2>1. CASE Copy
    BY <2>1, CopyKeeps
  <2>2. CASE CopyFails \/ SetupKernel
    BY <2>2, UploadEndsKeeps
  <2>3. ASSUME NEW g \in GPU, LaunchKernel(g) PROVE LInv'
    BY <2>3, LaunchKeeps
  <2>4. ASSUME NEW g \in GPU,
               \/ Enter(g) \/ EndLoop(g) \/ Synchronize(g) \/ KernelDies(g)
               \/ (SetDeviceFails(g) \/ WorkerRelease(g)) /\ UNCHANGED kvars
        PROVE  LInv'
    BY <2>4, WorkerKeeps
  <2>5. CASE PrepareBuffers /\ UNCHANGED kvars
    BY <2>5, BuffersKeep
  <2>6. CASE (Start \/ WorkersGone \/ Delete \/ Deleted \/ Over) /\ UNCHANGED kvars
    BY <2>6, MainKeeps
  <2>7. CASE UNCHANGED <<vars, kvars>>
    BY <2>7, MainKeeps
  <2>. QED BY <2>1, <2>2, <2>3, <2>4, <2>5, <2>6, <2>7 DEF LaunchNext
<1>2. LInv => LaunchSeesConstants
  BY DEF LInv, Uploaded, Running, Full, LaunchSeesConstants, AllSymbols
<1>3. LaunchSpec => []IInv
  BY LaunchImplementsPrepare, Inductive, PTL
<1>. QED BY LInvInit, <1>1, <1>2, <1>3, PTL DEF LaunchSpec
===============================================================================
