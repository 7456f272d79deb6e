--------------------------- MODULE GpuExecutable ---------------------------
(***************************************************************************)
(* The execution engine of xla::gpu::GpuExecutable (gpu_executable.h):    *)
(* several caller threads run ExecuteAsyncOnStream on one executable.     *)
(* Each call checks compatibility, resolves the constant globals of its   *)
(* executor through the module cache, decides once whether graph capture  *)
(* is safe, and then either replays / captures a graph cached per         *)
(* temporary-buffer base, or executes the thunk schedule directly on its  *)
(* stream.  The device drains each stream in FIFO order.                  *)
(*                                                                         *)
(* The header declares the state; the bodies live in gpu_executable.cc,   *)
(* which is not part of this source tree, so the actions follow the      *)
(* documented behaviour (spec.md sections 4 and 5).                        *)
(***************************************************************************)
EXTENDS Naturals, Sequences, SequencesExt, FiniteSets

CONSTANTS
    Callers,             \* threads calling ExecuteAsyncOnStream
    Executors,           \* StreamExecutors the executable may be loaded on
    CompatibleExecutors, \* executors whose compute capability matches gpu_version_
    TempBases,           \* base addresses of the temporary buffer
    BufKeys,             \* BufferAllocations::KeyType: input/output addresses
    Hash(_),             \* hash of a temporary base pointer (diagnostic map key)
    NumThunks,           \* length of the thunk schedule
    FallibleThunks,      \* thunks whose launch may return an error status
    CacheSize,           \* TF_XLA_GPU_EXEC_GRAPH_CACHE_SIZE
    MaxCalls,            \* bound on the number of calls in a behaviour
    NoOwner              \* the free state of module_handle_mutex_

ASSUME
    /\ CompatibleExecutors \subseteq Executors
    /\ NumThunks \in Nat \ {0}
    /\ FallibleThunks \subseteq 1..NumThunks
    /\ CacheSize \in Nat \ {0}
    /\ MaxCalls \in Nat
    /\ NoOwner \notin Callers

Thunks == 1..NumThunks
CallIds == 1..MaxCalls

\* A device operation: thunk i launched against temp base t and buffers k.
DeviceOp(i, t, k) == [thunk |-> i, temp |-> t, key |-> k]

\* The operations one run of the schedule performs for buffers (t, k).
ScheduleOps(t, k) == [i \in Thunks |-> DeviceOp(i, t, k)]

VARIABLES
    moduleHandleMutex,          \* module_handle_mutex_: owner or NoOwner
    moduleHandles,              \* executors in module_handles_
    moduleGlobals,              \* executors in module_globals_
    moduleLoads,                \* successful loads per executor (history)
    canUseGpuGraphCapture,      \* can_use_gpu_graph_capture_ (pair of bools)
    safeForGraphCapture,        \* GpuExecutableSafeForGraphCapture(schedule)
    isGraphCaptureCostly,       \* is_graph_capture_costly_
    graphStats,                 \* graph_stats_: attempts and hits
    gpuExecGraphsCache,         \* gpu_exec_graphs_cache_: temp base -> LRU seq
    tempBufferBaseToBufsKeysMap,\* diagnostic map: Hash(temp) -> keys seen
    pc,                         \* program counter of each caller
    call,                       \* the current call of each caller
    stream,                     \* operations enqueued on each caller's stream
    completed,                  \* completed operations of the current call
    result,                     \* status returned by each caller's last call
    calls,                      \* number of calls started so far
    costlySince                 \* calls started when capture became costly (history)

moduleVars == <<moduleHandleMutex, moduleHandles, moduleGlobals, moduleLoads>>
flagVars == <<canUseGpuGraphCapture, safeForGraphCapture>>
costVars == <<isGraphCaptureCostly, graphStats, costlySince>>
cacheVars == <<gpuExecGraphsCache, tempBufferBaseToBufsKeysMap>>
engineVars == <<moduleVars, flagVars, costVars, cacheVars>>
callerVars == <<pc, call, stream, completed, result, calls>>
vars == <<engineVars, callerVars>>

PCs == {"idle", "resolve_wait", "resolve", "load", "flag", "flag_write2", "graph",
        "capture", "insert", "direct", "sync"}
Statuses == {"none", "ok", "compat_error", "load_error", "exec_error"}
Stamped == [id: CallIds, op: [thunk: Thunks, temp: TempBases, key: BufKeys]]
CacheEntry == [key: BufKeys, graph: Seq([thunk: Thunks, temp: TempBases, key: BufKeys])]

-----------------------------------------------------------------------------
(* Initial state.  The pair starts as (false, false): not yet computed.    *)

\* Mutant: the pair defaults to "safe" before it is computed.
InitCanUseSecondTrue == [first |-> FALSE, second |-> TRUE]

InitCanUse == [first |-> FALSE, second |-> FALSE]

Init ==
    /\ moduleHandleMutex = NoOwner
    /\ moduleHandles = {}
    /\ moduleGlobals = {}
    /\ moduleLoads = [e \in Executors |-> 0]
    /\ canUseGpuGraphCapture = InitCanUse
    /\ safeForGraphCapture \in BOOLEAN
    /\ isGraphCaptureCostly = FALSE
    /\ graphStats = [attempts |-> 0, hits |-> 0]
    /\ gpuExecGraphsCache = [t \in TempBases |-> <<>>]
    /\ tempBufferBaseToBufsKeysMap = [h \in {Hash(t) : t \in TempBases} |-> {}]
    /\ pc = [c \in Callers |-> "idle"]
    /\ call = [c \in Callers |-> [id |-> 0, exec |-> CHOOSE e \in Executors : TRUE,
                                  temp |-> CHOOSE t \in TempBases : TRUE,
                                  key |-> CHOOSE k \in BufKeys : TRUE,
                                  block |-> FALSE, i |-> 1, graph |-> <<>>]]
    /\ stream = [c \in Callers |-> <<>>]
    /\ completed = [c \in Callers |-> <<>>]
    /\ result = [c \in Callers |-> [status |-> "none", thunk |-> 0]]
    /\ calls = 0
    /\ costlySince = MaxCalls

-----------------------------------------------------------------------------
(* Helpers.                                                                *)

\* Enqueue the operations ops on c's stream, stamped with c's call id.
Launch(c, ops) ==
    stream' = [stream EXCEPT ![c] = @ \o [j \in DOMAIN ops |->
                                          [id |-> call[c].id, op |-> ops[j]]]]

\* Return from the call with the given status.
Return(c, status, thunk) ==
    /\ pc' = [pc EXCEPT ![c] = "idle"]
    /\ result' = [result EXCEPT ![c] = [status |-> status, thunk |-> thunk]]

\* Mutant: the lookup matches any graph of the temp base, ignoring the key.
CachedAtTempOnly(t, k) == IF gpuExecGraphsCache[t] # <<>> THEN 1 ELSE 0

\* Position of key k in the LRU sequence of temp base t, 0 if absent.
CachedAt(t, k) ==
    LET s == gpuExecGraphsCache[t]
    IN  IF \E j \in DOMAIN s : s[j].key = k
        THEN CHOOSE j \in DOMAIN s : s[j].key = k ELSE 0

\* Mutant: the cost decision is re-evaluated on every attempt.
RecordAttemptRecomputed(hit) ==
    LET a == graphStats.attempts + 1
        h == graphStats.hits + (IF hit THEN 1 ELSE 0)
    IN  /\ graphStats' = [attempts |-> a, hits |-> h]
        /\ isGraphCaptureCostly' = (a >= CacheSize /\ 5 * h < a)

\* Record one capture attempt and apply the one-way cost decision: once
\* attempts reach the cache size with a hit rate below 20%, give up.
RecordAttempt(hit) ==
    LET a == graphStats.attempts + 1
        h == graphStats.hits + (IF hit THEN 1 ELSE 0)
    IN  /\ graphStats' = [attempts |-> a, hits |-> h]
        /\ isGraphCaptureCostly' = (isGraphCaptureCostly \/ (a >= CacheSize /\ 5 * h < a))

\* Mutant: insertion does not drop an entry already stored for the key.
InsertEntryAppend(t, k, g) ==
    LET s == gpuExecGraphsCache[t]
        kept == IF Len(s) >= CacheSize THEN Tail(s) ELSE s
    IN  gpuExecGraphsCache' = [gpuExecGraphsCache EXCEPT ![t] =
                                   Append(kept, [key |-> k, graph |-> g])]

\* Mutant: eviction happens only once the cache is already over its bound.
InsertEntryEvictLate(t, k, g) ==
    LET rest == RemoveFirstMatch(gpuExecGraphsCache[t], LAMBDA x : x.key = k)
        kept == IF Len(rest) > CacheSize THEN Tail(rest) ELSE rest
    IN  gpuExecGraphsCache' = [gpuExecGraphsCache EXCEPT ![t] =
                                   Append(kept, [key |-> k, graph |-> g])]

\* Store graph g under (t, k) as most recently used, evicting the least
\* recently used entry when the cache of t is full.
InsertEntry(t, k, g) ==
    LET rest == RemoveFirstMatch(gpuExecGraphsCache[t], LAMBDA x : x.key = k)
        kept == IF Len(rest) >= CacheSize THEN Tail(rest) ELSE rest
    IN  gpuExecGraphsCache' = [gpuExecGraphsCache EXCEPT ![t] =
                                   Append(kept, [key |-> k, graph |-> g])]

-----------------------------------------------------------------------------
\* CheckCompatibilityWithServiceExecutableRunOptions: the executor's
\* compute capability must match gpu_version_.
Compatible(e) == e \in CompatibleExecutors

(* ExecuteAsyncOnStream: start a call and run the compatibility check.     *)
Start(c) ==
    /\ pc[c] = "idle"
    /\ calls < MaxCalls
    /\ \E e \in Executors, t \in TempBases, k \in BufKeys, b \in BOOLEAN :
         /\ call' = [call EXCEPT ![c] = [id |-> calls + 1, exec |-> e, temp |-> t,
                                         key |-> k, block |-> b, i |-> 1,
                                         graph |-> <<>>]]
         /\ IF Compatible(e)
              THEN /\ pc' = [pc EXCEPT ![c] = "resolve_wait"]
                   /\ result' = [result EXCEPT ![c] = [status |-> "none", thunk |-> 0]]
              ELSE Return(c, "compat_error", 0)
    /\ completed' = [completed EXCEPT ![c] = <<>>]
    /\ calls' = calls + 1
    /\ UNCHANGED <<engineVars, stream>>

\* Mutant: module_handle_mutex_ is released for the duration of the load
\* and taken again to store the result.
OwnerWhileLoadingReleased(c) == NoOwner

\* The lock spans the whole of ResolveConstantGlobals: the loading caller
\* keeps module_handle_mutex_ while it loads the module.
OwnerWhileLoading(c) == c

\* Mutant: the status of a failed load is dropped and the call goes on.
LoadFailedIgnored(c) ==
    /\ pc' = [pc EXCEPT ![c] = "flag"]
    /\ UNCHANGED <<moduleHandles, moduleGlobals, moduleLoads, result>>

\* A failed load caches nothing and fails the call.
LoadFailed(c) ==
    /\ Return(c, "load_error", 0)
    /\ UNCHANGED <<moduleHandles, moduleGlobals, moduleLoads>>

(* ResolveConstantGlobals: take module_handle_mutex_ ...                  *)
ResolveLock(c) ==
    /\ pc[c] = "resolve_wait"
    /\ moduleHandleMutex = NoOwner
    /\ moduleHandleMutex' = c
    /\ pc' = [pc EXCEPT ![c] = "resolve"]
    /\ UNCHANGED <<moduleHandles, moduleGlobals, moduleLoads, flagVars, costVars,
                   cacheVars, call, stream, completed, result, calls>>

(* ... and look the executor up in module_globals_: a cached map is     *)
(* returned and the mutex released; otherwise the module is loaded.       *)
ResolveConstantGlobals(c) ==
    /\ pc[c] = "resolve"
    /\ IF call[c].exec \in moduleGlobals
         THEN /\ moduleHandleMutex' = NoOwner
              /\ pc' = [pc EXCEPT ![c] = "flag"]
         ELSE /\ moduleHandleMutex' = OwnerWhileLoading(c)
              /\ pc' = [pc EXCEPT ![c] = "load"]
    /\ UNCHANGED <<moduleHandles, moduleGlobals, moduleLoads, flagVars, costVars,
                   cacheVars, call, stream, completed, result, calls>>

(* Load the PTX or CUBIN into the executor and resolve the constant       *)
(* globals, then store the handle and the map and release the mutex; a    *)
(* failed load caches nothing and fails the call.                         *)
LoadModule(c) ==
    LET e == call[c].exec IN
    /\ pc[c] = "load"
    /\ moduleHandleMutex' = NoOwner
    /\ \/ /\ moduleHandles' = moduleHandles \cup {e}
          /\ moduleGlobals' = moduleGlobals \cup {e}
          /\ moduleLoads' = [moduleLoads EXCEPT ![e] = @ + 1]
          /\ pc' = [pc EXCEPT ![c] = "flag"]
          /\ UNCHANGED result
       \/ LoadFailed(c)
    /\ UNCHANGED <<flagVars, costVars, cacheVars, call, stream, completed, calls>>

\* Where the call goes once the flag is known: the graph path only when
\* capture is safe and has not been marked costly.
AfterFlag(c, canUse) ==
    pc' = [pc EXCEPT ![c] = IF canUse /\ ~isGraphCaptureCostly
                            THEN "graph" ELSE "direct"]

(* CanUseGpuGraphCapture: the pair is read and written without the mutex.*)
(* A caller that finds it set uses the second element; otherwise it       *)
(* computes the answer and stores both elements.  The two plain stores    *)
(* race with readers and may become visible in either order.              *)
CanUseGpuGraphCapture(c) ==
    /\ pc[c] = "flag"
    /\ \/ /\ canUseGpuGraphCapture.first
          /\ AfterFlag(c, canUseGpuGraphCapture.second)
          /\ UNCHANGED canUseGpuGraphCapture
       \/ /\ ~canUseGpuGraphCapture.first
          /\ \/ canUseGpuGraphCapture' = [canUseGpuGraphCapture EXCEPT !.first = TRUE]
             \/ canUseGpuGraphCapture' = [canUseGpuGraphCapture EXCEPT !.second =
                                              safeForGraphCapture]
          /\ pc' = [pc EXCEPT ![c] = "flag_write2"]
    /\ UNCHANGED <<moduleVars, safeForGraphCapture, costVars, cacheVars,
                   call, stream, completed, result, calls>>

(* The second store of the pair; the caller then uses the value it just   *)
(* computed.                                                              *)
SetCanUseGraphCaptureFlag(c) ==
    /\ pc[c] = "flag_write2"
    /\ canUseGpuGraphCapture' = [first |-> TRUE, second |-> safeForGraphCapture]
    /\ AfterFlag(c, safeForGraphCapture)
    /\ UNCHANGED <<moduleVars, safeForGraphCapture, costVars, cacheVars,
                   call, stream, completed, result, calls>>

(* Graph path, under module_handle_mutex_: look (temp, key) up in the     *)
(* cache of the temp base, record the attempt, note the key in the        *)
(* diagnostic map on a miss.  A hit replays the cached graph on the       *)
(* stream and makes it most recently used; a miss goes on to capture.     *)
(* costlySince remembers how many calls had started when the cost switch  *)
(* first turned on.                                                       *)
LookupGraph(c) ==
    LET t == call[c].temp
        k == call[c].key
        j == CachedAt(t, k)
    IN
    /\ pc[c] = "graph"
    /\ moduleHandleMutex = NoOwner
    /\ RecordAttempt(j # 0)
    /\ costlySince' = IF costlySince = MaxCalls /\ isGraphCaptureCostly'
                      THEN calls ELSE costlySince
    /\ IF j # 0
         THEN LET e == gpuExecGraphsCache[t][j]
              IN  /\ gpuExecGraphsCache' = [gpuExecGraphsCache EXCEPT ![t] =
                                               Append(RemoveAt(@, j), e)]
                  /\ Launch(c, e.graph)
                  /\ pc' = [pc EXCEPT ![c] = "sync"]
                  /\ UNCHANGED tempBufferBaseToBufsKeysMap
         ELSE /\ tempBufferBaseToBufsKeysMap' =
                     [tempBufferBaseToBufsKeysMap EXCEPT ![Hash(t)] = @ \cup {k}]
              /\ pc' = [pc EXCEPT ![c] = "capture"]
              /\ UNCHANGED <<gpuExecGraphsCache, stream>>
    /\ UNCHANGED <<moduleVars, flagVars, call, completed, result, calls>>

\* Mutant: a failed capture is retried instead of falling back.
CaptureFailedRetry(c) ==
    /\ call' = [call EXCEPT ![c].graph = <<>>, ![c].i = 1]
    /\ pc' = [pc EXCEPT ![c] = "capture"]

\* A failed capture abandons the graph; the thunks run directly from 1.
CaptureFailed(c) ==
    /\ call' = [call EXCEPT ![c].graph = <<>>, ![c].i = 1]
    /\ pc' = [pc EXCEPT ![c] = "direct"]

(* ExecuteThunkSequence on the private capture stream: thunk i is         *)
(* recorded into the graph, nothing runs on the device.  A fallible thunk *)
(* may fail to capture.                                                   *)
CaptureThunk(c) ==
    LET i == call[c].i IN
    /\ pc[c] = "capture"
    /\ \/ /\ call' = [call EXCEPT ![c].graph = Append(@, DeviceOp(i, call[c].temp, call[c].key)),
                                  ![c].i = i + 1]
          /\ pc' = [pc EXCEPT ![c] = IF i = NumThunks THEN "insert" ELSE "capture"]
       \/ /\ i \in FallibleThunks
          /\ CaptureFailed(c)
    /\ UNCHANGED <<engineVars, stream, completed, result, calls>>

(* Store the captured graph under (temp, key), then launch it.            *)
InsertGraph(c) ==
    /\ pc[c] = "insert"
    /\ moduleHandleMutex = NoOwner
    /\ InsertEntry(call[c].temp, call[c].key, call[c].graph)
    /\ Launch(c, call[c].graph)
    /\ pc' = [pc EXCEPT ![c] = "sync"]
    /\ UNCHANGED <<moduleVars, flagVars, costVars, tempBufferBaseToBufsKeysMap,
                   call, completed, result, calls>>

\* Mutant: the failing thunk is enqueued before its status is checked.
ThunkFailedLaunched(c, i) ==
    /\ Launch(c, <<DeviceOp(i, call[c].temp, call[c].key)>>)
    /\ Return(c, "exec_error", i)
    /\ UNCHANGED call

\* Mutant: the error is tagged with the index of the next thunk.
ThunkFailedNextIndex(c, i) ==
    /\ Return(c, "exec_error", i + 1)
    /\ UNCHANGED <<call, stream>>

\* Thunk i returned an error status: the call returns it, tagged with i.
ThunkFailed(c, i) ==
    /\ Return(c, "exec_error", i)
    /\ UNCHANGED <<call, stream>>

(* Direct path: thunk i is launched on the caller's stream.  A launch     *)
(* error returns at once; later thunks never run.                        *)
ExecuteThunk(c) ==
    LET i == call[c].i IN
    /\ pc[c] = "direct"
    /\ \/ /\ Launch(c, <<DeviceOp(i, call[c].temp, call[c].key)>>)
          /\ call' = [call EXCEPT ![c].i = i + 1]
          /\ pc' = [pc EXCEPT ![c] = IF i = NumThunks THEN "sync" ELSE "direct"]
          /\ UNCHANGED result
       \/ /\ i \in FallibleThunks
          /\ ThunkFailed(c, i)
    /\ UNCHANGED <<engineVars, completed, calls>>

(* End of ExecuteThunks: with block_host_until_done the host waits for    *)
(* the stream to drain; otherwise it returns with the work in flight.     *)
BlockHostUntilDone(c) ==
    /\ pc[c] = "sync"
    /\ call[c].block => stream[c] = <<>>
    /\ Return(c, "ok", 0)
    /\ UNCHANGED <<engineVars, call, stream, completed, calls>>

(* The device completes the oldest operation of a stream; completed keeps *)
(* only the operations of the caller's current call.                      *)
DeviceComplete(c) ==
    /\ stream[c] # <<>>
    /\ completed' = [completed EXCEPT ![c] = IF Head(stream[c]).id = call[c].id
                                             THEN Append(@, Head(stream[c])) ELSE @]
    /\ stream' = [stream EXCEPT ![c] = Tail(@)]
    /\ UNCHANGED <<engineVars, pc, call, result, calls>>

CallerStep(c) ==
    \/ Start(c)
    \/ ResolveLock(c)
    \/ ResolveConstantGlobals(c)
    \/ LoadModule(c)
    \/ CanUseGpuGraphCapture(c)
    \/ SetCanUseGraphCaptureFlag(c)
    \/ LookupGraph(c)
    \/ CaptureThunk(c)
    \/ InsertGraph(c)
    \/ ExecuteThunk(c)
    \/ BlockHostUntilDone(c)

\* Once MaxCalls calls have returned and the streams are drained, nothing
\* is enabled: the callers have stopped calling.
Next == \E c \in Callers : CallerStep(c) \/ DeviceComplete(c)

\* Callers and the device keep running: each thread runs until it blocks,
\* and the GPU drains every stream.
Fairness ==
    \A c \in Callers : WF_vars(CallerStep(c) /\ pc[c] # "idle") /\ WF_vars(DeviceComplete(c))

Spec == Init /\ [][Next]_vars /\ Fairness

-----------------------------------------------------------------------------
(* Properties.                                                             *)

TypeOK ==
    /\ moduleHandleMutex \in Callers \cup {NoOwner}
    /\ moduleHandles \subseteq Executors /\ moduleGlobals \subseteq Executors
    /\ moduleLoads \in [Executors -> Nat]
    /\ canUseGpuGraphCapture \in [first: BOOLEAN, second: BOOLEAN]
    /\ safeForGraphCapture \in BOOLEAN /\ isGraphCaptureCostly \in BOOLEAN
    /\ graphStats \in [attempts: Nat, hits: Nat]
    /\ gpuExecGraphsCache \in [TempBases -> Seq(CacheEntry)]
    /\ \A h \in DOMAIN tempBufferBaseToBufsKeysMap :
           tempBufferBaseToBufsKeysMap[h] \subseteq BufKeys
    /\ pc \in [Callers -> PCs]
    /\ stream \in [Callers -> Seq(Stamped)] /\ completed \in [Callers -> Seq(Stamped)]
    /\ result \in [Callers -> [status: Statuses, thunk: 0..NumThunks]]
    /\ calls \in 0..MaxCalls
    /\ costlySince \in 0..MaxCalls

\* The device operations of c's current call, completed or still queued.
OpsOfCall(c) ==
    LET mine == SelectSeq(completed[c] \o stream[c], LAMBDA x : x.id = call[c].id)
    IN  [j \in DOMAIN mine |-> mine[j].op]

(* ResolveConstantGlobals under concurrent callers: the module of an      *)
(* executor is loaded at most once, however the calls on it interleave    *)
(* and whatever loads failed before.                                      *)
ConstantsLoadedOnce == \A e \in Executors : moduleLoads[e] <= 1

(* Capture-and-replay is equivalent to direct execution: a call that      *)
(* returned OK performed exactly the thunk schedule for its own temp base *)
(* and buffer key, in order, whether it replayed a graph another call     *)
(* captured, captured one itself, or ran thunks directly; a call that     *)
(* blocked the host returned only after all of it completed.              *)
CallRunsItsSchedule ==
    \A c \in Callers :
        (pc[c] = "idle" /\ result[c].status = "ok") =>
            /\ OpsOfCall(c) = ScheduleOps(call[c].temp, call[c].key)
            /\ call[c].block => \A j \in DOMAIN stream[c] : stream[c][j].id # call[c].id

(* A thunk failure aborts the rest of the schedule: a call that failed at *)
(* thunk i launched thunks 1..i-1 and nothing after them (their effects   *)
(* are not rolled back).                                                  *)
FailedThunkStopsSchedule ==
    \A c \in Callers :
        (pc[c] = "idle" /\ result[c].status = "exec_error") =>
            OpsOfCall(c) = SubSeq(ScheduleOps(call[c].temp, call[c].key), 1,
                                  result[c].thunk - 1)

(* gpu_exec_graphs_cache_ stays consistent under concurrent misses on the *)
(* same buffers: each temp base holds at most CacheSize graphs, one per   *)
(* key, and every graph is the complete schedule for exactly that key.    *)
GraphCacheConsistent ==
    \A t \in TempBases :
        LET s == gpuExecGraphsCache[t] IN
        /\ Len(s) <= CacheSize
        /\ \A i, j \in DOMAIN s : s[i].key = s[j].key => i = j
        /\ \A j \in DOMAIN s : s[j].graph = ScheduleOps(t, s[j].key)

(* The racy one-shot flag can_use_gpu_graph_capture_ never lets a caller  *)
(* use graphs for an executable that is not safe for capture, whatever    *)
(* order the two stores of the pair become visible in.                    *)
NoGraphWhenUnsafe ==
    ~safeForGraphCapture =>
        /\ graphStats.attempts = 0
        /\ \A t \in TempBases : gpuExecGraphsCache[t] = <<>>

(* The cost switch takes effect for every later call (spec.md, section   *)
(* 8): once graphs were judged costly, no call started afterwards looks   *)
(* up, captures or inserts a graph, even if a matching key is cached.     *)
CallsAfterCostlyRunDirect ==
    \A c \in Callers :
        call[c].id > costlySince => pc[c] \notin {"graph", "capture", "insert"}

(* Every call returns: no caller waits forever on the mutex, the flag, a  *)
(* capture or its stream.                                                 *)
EveryCallReturns == \A c \in Callers : pc[c] # "idle" ~> pc[c] = "idle"

-----------------------------------------------------------------------------
(* Refinement.  The engine implements GpuEngine: the loaded executors are *)
(* the keys of module_globals_, a caller is busy while its pc is not      *)
(* idle, and the thunks it has issued are the operations of its current   *)
(* call completed or still on its stream.  Flag, cache and capture steps  *)
(* are stuttering steps of the abstract engine.                           *)

Abstract == INSTANCE GpuEngine WITH
    loaded <- moduleGlobals,
    busy <- [c \in Callers |-> pc[c] # "idle"],
    job <- [c \in Callers |-> [id |-> call[c].id, exec |-> call[c].exec,
                               temp |-> call[c].temp, key |-> call[c].key,
                               block |-> call[c].block]],
    issued <- [c \in Callers |-> Len(OpsOfCall(c))]

(* Every behaviour of the engine is one of GpuEngine: whether a call      *)
(* replays a cached graph, captures one, falls back or runs directly, it  *)
(* issues its own schedule in order, only after its module is loaded,     *)
(* fails only at the next fallible thunk, and returns OK only once the    *)
(* whole schedule is issued and, for a blocking call, drained.            *)
RefinesGpuEngine == Abstract!Spec

=============================================================================
