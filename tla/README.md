# TLA+ models of the iDeepRec sources

This directory holds TLA+ modules for the parts of the tree that have state,
concurrency or control flow worth checking, and the TLC configurations that
check them. `PROJECT.json` lists the components, the runs, the mutants, the
map from each definition to the source lines it models, and the hazards.

## The system and its parts

The tree is a set of excerpts from TensorFlow/DeepRec:

| Part | Source | State and operations | Module |
|---|---|---|---|
| GPU execution engine | `src/tensorflow/compiler/xla/service/gpu/gpu_executable.h` | Callers run `ExecuteAsyncOnStream` concurrently. Each call resolves constants, decides between graph and direct execution, runs or replays the thunk schedule on its stream and may block until done. | `GpuExecutable` |
| Module/constant cache | same header, lines 180-186 | `module_handles_` and `module_globals_` per executor, under `module_handle_mutex_` | `GpuExecutable` |
| Graph capture cache and cost tracker | same header, lines 188-237 | The racy `can_use_gpu_graph_capture_` pair, `is_graph_capture_costly_`, `graph_stats_`, an LRU `gpu_exec_graphs_cache_` per temp base, and the hash-keyed diagnostic map | `GpuExecutable` |
| Bilinear resize CPU kernels | `.../core/kernels/resize_bilinear_op.cc` | `ResizeBilinearOp::Compute` and `ResizeBilinearOpGrad::Compute` (stateless) | `ResizeBilinear` |
| cuDNN batchnorm runner | `.../xla/service/gpu/cudnn_batchnorm_runner.cc` | Three entry points, each enqueueing one cuDNN call on a stream or returning an error | `BatchNormRunner` |
| Segment reduction functors | `.../core/kernels/segment_reduction_ops.h` | GPU atomic reducers and initial-value functors | `SegmentReduction` |
| Star tensor coding | `.../contrib/star/star_tensor_coding.h` | Response holders (`StarTensorResponse`, `StarFuseTensorResponse`) and request structs | `StarTensorCoding` (the responses) |
| Tanh kernel, MKL tests | `cwise_op_tanh.cc`, `mkl_*_test.cc` | Registrations, tests and benchmarks | not modelled |

The parts do not call each other in this tree. The batchnorm runner is run
by a thunk of the execution engine in the full framework. The kernels are
ops of the TensorFlow runtime. Each module therefore stands alone.

`gpu_executable.cc` is not part of the tree. `GpuExecutable` takes its
state and the documented behaviour of each member from the header (its
comments and declarations). The bodies of `ResolveConstantGlobals`, the
graph lookup, the graph insertion and the status return follow `spec.md`
sections 4 and 5; these are marked `spec_modelled` in the map.
`CalculateResizeScale`, the scalers and `ValidateAndCreateOutput` live in
`image_resizer_state.h`, which is also outside the tree; they are marked the
same way.

## Modules

### GpuExecutable (+ MCGpuExecutable)

Each caller has a program counter `pc` and a `call` record: call id,
executor, temp base, buffer key, `block_host_until_done`, next thunk and the
graph being captured. Its steps are:

* `Start` runs the compatibility check. An incompatible executor fails the
  call.
* `ResolveLock` takes `module_handle_mutex_`. `ResolveConstantGlobals`
  looks the executor up in `module_globals_`. A cached map releases the
  mutex at once; a miss goes on to `LoadModule`.
* `LoadModule` loads the module while the caller still holds the mutex
  (`OwnerWhileLoading`). It stores the handle and the map, or fails with a
  load error and caches nothing, and releases the mutex either way.
* `CanUseGpuGraphCapture` and `SetCanUseGraphCaptureFlag` handle the
  unguarded pair.
  * A caller that finds `first` set uses `second`.
  * Otherwise it stores both halves in two steps, in either order.
* `AfterFlag` sends the call to the graph path only when capture is safe and
  not costly.
* `LookupGraph` runs under the mutex. It records the attempt and may set the
  costly switch.
  * On a hit it replays the graph and moves it to most recently used.
  * On a miss it notes the key under `Hash(temp)` in the diagnostic map.
* `CaptureThunk` records thunk i without running it. A fallible thunk may
  fail, which falls back to direct execution from thunk 1.
* `InsertGraph` stores the graph under (temp, key), evicting the least
  recently used one at `CacheSize`, and launches it.
* `ExecuteThunk` launches thunk i on the caller's stream. A failure returns
  at once, tagged with the thunk.
* `BlockHostUntilDone` waits for the stream to drain when asked to.

The header bounds the graph cache by `TF_XLA_GPU_EXEC_GRAPH_CACHE_SIZE`
(lines 199-203), but the eviction policy of `MutexedGraphExecCache` is not
in the tree. The model evicts the least recently used graph.
`GraphCacheConsistent` holds for any policy that removes the old entry of a
re-inserted key. The cache is keyed by the raw temp-base pointer (line 226),
not by its hash.

`costlySince` is a history variable: the number of calls that had started
when the cost switch first turned on (`MaxCalls` while it is off).

`DeviceComplete` is the GPU: it completes the head of a stream in FIFO
order. Each operation is stamped with its call id, and `completed` keeps the
operations of the caller's current call. This lets a property compare what a
call ran with its schedule.

### GpuEngine: what a call promises

`GpuEngine` is the abstract engine, without the flag, the graph cache and
the mutex. A caller is busy or not, and its call has an executor, temp
base, key and blocking flag. Its actions are:

* `Start`: an incompatible executor fails the call at once.
* `Load` and `LoadFail`: the executor's module is loaded at most once, or
  the load fails the call before any thunk is issued.
* `Issue`: the next thunks of the schedule go on the stream, in order. One
  step may issue one thunk (direct execution) or all of them (a graph
  launch).
* `Fail`: the next thunk is fallible and the call returns its error.
* `Return`: after the whole schedule, and for a blocking call after the
  stream drained.
* `Complete`: the device completes the head of a stream.

`GpuExecutable` instantiates it as `Abstract` with this mapping:

* `loaded` is `module_globals_`;
* a caller is busy while its `pc` is not idle;
* the thunks a call has issued are the operations of that call, completed
  or still queued.

The flag, lookup-miss and capture steps are stuttering steps of the
abstract engine. A cache hit and a graph insertion are one `Issue` of the
whole schedule.

### ThunkStreams: one execution over several streams

`GpuExecutable` runs the whole schedule on the caller's main stream.
`ThunkStreams` models what spec.md sections 4.2 (step 5) and 5 add: thunks
that the schedule marks parallel run on helper sub-streams.

* The schedule is chosen in `Init`: a stream per thunk, and dependencies on
  earlier thunks.
* `IssueThunk` walks the schedule in total order. It enqueues, on the
  thunk's stream:
  * a wait for the finish event of each dependency on another stream;
  * the thunk itself;
  * its own finish event, if a thunk on another stream depends on it.
* `FailThunk` aborts the rest of the schedule and returns the error at
  once: the join comes after the thunk loop and is not reached. Neither the
  header nor spec.md sections 4.2 and 7 join on this path.
* `Join` puts a marker on every sub-stream, and on the main stream a join
  that waits for all the markers.
* `BlockHostUntilDone` then waits for the main stream if asked.
* `CallerSync` is the caller synchronizing the main stream before reading
  outputs (spec.md section 5).
* `DeviceStep` runs the head of one stream. A wait runs once its event is
  reached; the join runs once every marker is reached.

The header declares `sub_streams` but not the body. The dependency, event
and join steps follow spec.md and are marked `spec_modelled`.

`LiveSpec` adds weak fairness:
* on the host thread (`Host`: issue, fail, join, block). `ExecuteThunks`
  runs to its return, and it waits only on the main stream;
* on `DeviceStep(s)` for each stream: the GPU keeps executing the ready
  head of every stream.

The caller's final `CallerSync` is not assumed to happen.

### StarTensorCoding (+ MCStarTensorCoding)

This models the response objects of `star_tensor_coding.h`, driven by any
caller of their public methods. No caller of them is in the tree, so every
sequence of calls is allowed.
* The state is `fuse_count_`, the sizes of the four vectors, the base
  class's `data_type_` and a flag for an index past the end. Tensor and
  proto contents are abstracted away.
* `Init(n)` assigns `fuse_count_` and then resizes the vectors in order.
  * A negative `n` converts to a `size_t` above `max_size()`, so the first
    resize throws `length_error`.
  * A growing resize may throw `bad_alloc`.
  * The first resize that throws ends the call, with the earlier resizes
    done.
* A caller that gets the exception abandons the response. With
  `CallerCatches`, it goes on using the response instead.
* The by-index accessors (`ByIndex`) take any index below `GetFuseCount()`.
  `operator[]` does not check it.
* `GetDataType` before any `SetDataType` reads an uninitialized member. This
  is a nondeterministic value that may be one no caller stored.
* `NewResponse` is the caller moving on to a fresh object.

### ResizeBilinear

The kernels are pure functions over exact rationals:

* `ResizeBilinearFunctor` includes the no-op shortcut.
* `ResizeGradCore` and `GradContribution` hold the four `+=` lines, with the
  scaler chosen by `operator()`.
* Coordinates are numerator/denominator pairs. Tensors hold numerators over
  the common denominator `dy * dx`.

One Compute step takes a request (sizes, `align_corners`,
`half_pixel_centers`, batch) and a unit input at one position, and stores
the status and output. Because the kernels keep no state, a behaviour is one
call.

### BatchNormRunner

Each entry point is one action with all of its returns in code order. The
Impl templates are the operators `InferenceOp`, `TrainingOp` and
`BackwardOp`; each builds the record that the cuDNN call is enqueued with. A
request abstracts the HLO to its kind, output element type and backend
config, and each buffer to null or not. The state is three sequences: the
requests, the returned statuses and the stream.

### SegmentReduction (+ MCSegmentReduction)

The output is filled with `InitialValue(reduction)` (Zero, One, Lowest or
Highest). Then each GPU thread makes one atomic `ReduceOp` update of its
segment's slot, in any order. `T` is a signed integer of `Width` bits, so
`SumOpGpu` and `ProdOpGpu` wrap.

The pairing of initial value and reducer (`InitialValue`, `ReduceOp`) is
made by the kernel registrations in `segment_reduction_ops.cc`, which is not
in the tree. The model takes the pairing of the op documentation. The
property's `Reference` does not use the functors. It takes the wrapped sum
or product, or the largest or smallest element, and for an empty segment
the literal values the op documents. A wrong functor therefore shows up as
a wrong result. Each atomic update is one step, as `GpuAtomic*` guarantees,
so a lost update cannot occur in the model.

## Runs

| Run | What it checks | What it shows |
|---|---|---|
| `gpu_engine` (`MCGpuExecutable.cfg`) | `TypeOK` and the six below | Safety of the engine in every interleaving of two callers (1,082,634 states). |
| | `ConstantsLoadedOnce` | Each executor's module is loaded at most once, however calls interleave and whatever loads failed. The lookup and the load are separate steps, so this rests on the mutex being held across the load. |
| | `CallRunsItsSchedule` | A call that returns OK ran exactly its own schedule, in order, for its own temp base and buffers. This holds whether it replayed another caller's graph, captured one, or ran thunks directly. A blocking call returned only after all of it completed. |
| | `FailedThunkStopsSchedule` | A call failing at thunk i launched exactly thunks 1..i-1. |
| | `GraphCacheConsistent` | At most `CacheSize` graphs per temp base, one per key, each the full schedule for that key. |
| | `NoGraphWhenUnsafe` | The racy pair never lets a caller use graphs for an executable that is unsafe to capture. |
| | `RefinesGpuEngine` | Every behaviour of the engine is a behaviour of `GpuEngine` under the mapping above. |
| `gpu_cost_switch` (`MCGpuCostSwitch.cfg`) | `CallsAfterCostlyRunDirect` | Once graphs are judged costly, no call started afterwards looks up, captures or inserts a graph (spec.md section 8). The cost switch stays one-way under stale decisions. A caller that chose the graph path before the switch can still record a hit after it, and that hit must not switch graphs back on for a fourth call (667,841 states). |
| `gpu_three_callers` (`MCGpuExecutable3.cfg`) | `GraphCacheConsistent`, `RefinesGpuEngine` | Three callers contend for the mutex and race on the flag pair. With a cache of one entry, every insertion of a new key evicts, and the cache stays within its bound with one complete graph per key (628,159 states). |
| `gpu_liveness` (`MCGpuExecutableLive.cfg`) | `EveryCallReturns` | Under fairness, every started call returns. |
| `thunk_streams` (`MCThunkStreams.cfg`) | `DependenciesRespected` | A thunk runs only after every thunk it depends on has finished, on its own stream or another (an action property). |
| | `OkCallWorkDoneWhenMainDrained` | Once the call has returned OK and the main stream has drained, every launched thunk on every stream has finished. |
| | `CallReturnsAndStreamsDrain` | Under the fairness of `LiveSpec`, the call returns and every stream drains. No cross-stream wait or join blocks for good (875,728 states). |
| `thunk_error_no_join` (`ThunkErrorNoJoin.cfg`, expect violation) | `WorkDoneWhenMainDrained` | The same statement for every return. After a thunk error the call has returned and the main stream has drained, while a thunk launched earlier on a sub-stream is still pending. |
| `star_response` (`MCStarTensorCoding.cfg`) | `TypeOK`, `IndicesBelowFuseCountInBounds` | Over any sequence of `Init` calls (growing, shrinking, negative) and by-index accesses below `GetFuseCount()`, no access runs past a vector, if a caller drops a response whose `Init` threw. |
| `star_init_caught` (`StarInitCaught.cfg`, expect violation) | `IndicesBelowFuseCountInBounds` | A caller that catches a `bad_alloc` out of `Init` and keeps the response indexes past the end with an index below `GetFuseCount()`. |
| `resize_kernels` | `GradIsAdjointOfResize` | The gradient kernel is the exact adjoint of the resize kernel, for all sizes up to 3x3, both scalers and `align_corners`. |
| | `InterpolationIndicesInRange` | The indices both kernels use stay inside the source image. |
| `batchnorm_runner` | `OkIffEnqueuedOnce` | A call enqueues exactly one operation iff it returns OK. |
| | `SupportedCallsSucceed` | Every F16/F32 call with a valid config succeeds. |
| | `EnqueuedOpMatchesCall` | The enqueued operation carries its call's type, descriptors and training flag, and no allocator over a null buffer. |
| `segment_reduction` | `SegmentsHoldReduction` | Each segment ends with the wrapped sum or product, or the max or min, of its own elements. An empty segment holds the documented value: 0, 1, `lowest()` or `max()` of T. |

Every property has a mutant in `PROJECT.json`: a plausible bug in one mapped
definition, which TLC finds violating the property under the run's own cfg.
Examples are a lookup that ignores the buffer key, insertion without
removing the old entry, eviction one entry late, the mutex released during
the module load, the cost decision recomputed on every attempt, a dropped
upper clamp, swapped lerp weights, the activation check moved after the
enqueue, a join that does not wait, and `lowest()` written as
`-highest()`.

## Findings

* **`Init` is not exception-safe** (`star_tensor_coding.h:64`).
  * `Init` sets `fuse_count_` before the four resizes.
  * TLC's counterexample has three states. `Init(1)` on a fresh response
    throws `bad_alloc` from one of the resizes, and the caller catches it.
    `GetFuseCount()` is 1, but the vector whose resize threw, and every
    vector after it, are still empty. The by-index accessor of one of those
    vectors, at index 0, then goes past the end.
  * Which resize throws depends on the order TLC explores states in. With
    sizes `<<0,0,0,0>>` the first resize threw, and `SetTensorByIndex(0)`
    writes past `tensors_`. With `<<1,0,0,0>>` `tensors_` was resized, and
    the access goes past `tensor_protos_`, `data_types_` or `is_deads_`.
  * With a negative count, `length_error` leaves `GetFuseCount()` negative.
  * Assigning `fuse_count_` after the resizes, or resizing into temporaries,
    would keep the two in step.
* **A thunk error returns before the join** (`gpu_executable.h:106`,
  spec gap).
  * spec.md section 5 says that parallel thunks must all complete (joined)
    before the execution is complete. Section 7 only says that the remaining
    thunks are skipped.
  * The error return leaves the thunk loop before the join. TLC's
    counterexample: thunk 1 goes to a sub-stream, thunk 2 fails, and the
    call returns with the main stream empty and thunk 1 still queued.
  * A caller that synchronizes the main stream and then frees the buffers
    may free memory that thunk 1 is still using.

`data_type_` of `StarTensorResponse` (`star_tensor_coding.h:55`) has no
initializer, unlike every other scalar member, so a `GetDataType()` before
`SetDataType()` is undefined behaviour. The declaration shows this on its
own, so it is listed as a hazard without a run.

## Bounds, symmetry and fairness

* **gpu_engine.**
  * Bounds: two callers (so every race has two sides), two executors (one
    compatible, so both the compatibility failure and sharing a loaded
    module happen), two temp bases whose `Hash` collides, two buffer keys
    (so a temp base sees distinct keys), two thunks with the second
    fallible, `CacheSize = 2`, and three calls. Three calls are enough for a
    hit after a capture and for the costly switch (attempts >= 2 with fewer
    than 20% hits). They are not enough for eviction: two keys never exceed
    a cache of two. Eviction is checked by `gpu_three_callers`.
  * Symmetry over callers, buffer keys and temp bases. It is sound because
    the properties quantify over these sets and `MCHash` maps every temp
    base to the same value.
  * Deadlock checking is off because the callers stop after `MaxCalls`
    calls.
* **gpu_cost_switch.**
  * Bounds: two callers, one executor, one temp base, two keys, a
    one-thunk schedule, `CacheSize = 2` and four calls.
  * Four calls are the fewest that can break a switch that does not stay
    on. Call 1 misses on k1 and inserts it. Call 3 then takes the graph
    path, and call 2 misses on k2, which turns the switch on. Call 3's
    late hit comes next, and call 4 starts after it.
  * With three calls no call can start after the switch and such a late
    hit, so `gpu_engine` cannot tell a switch that stays on from one that
    is re-evaluated on every attempt.
* **gpu_three_callers.**
  * Bounds: three callers, one compatible executor, one temp base, two
    keys, a one-thunk schedule that may fail, and a cache of one entry.
  * Every insertion of a second key evicts, so this is the run that checks
    the cache bound. Duplicate keys are checked by `gpu_engine`: with one
    entry, a duplicate would have to evict itself.
* **gpu_liveness.**
  * Bounds: one temp base and two calls, without symmetry (symmetry is not
    sound for liveness in TLC).
  * Fairness: weak fairness on each caller's steps while it is inside a call
    (a running thread keeps being scheduled), and on the device completing
    each stream (the GPU drains queued work). No fairness is assumed for
    starting calls: callers may stop calling.
* **thunk_streams.**
  * Bounds: four thunks, the main stream and two sub-streams, with the
    third thunk fallible. This gives chains of three cross-stream waits and
    diamonds. A failure can also come after thunks that later ones wait on
    have recorded their events.
  * Every stream assignment, every dependency relation on earlier thunks,
    and both values of `block_host_until_done`: 10,368 initial states and
    875,728 states in all, in about 30 seconds.
  * A behaviour is one call, so deadlock checking is off. The liveness
    property takes the place of a deadlock check.
  * Symmetry is not used, because the run checks liveness.
* **thunk_error_no_join.** Three thunks on the main stream and one
  sub-stream, with the second fallible. These are the fewest needed for a
  thunk on a sub-stream followed by a failure.
* **star_response.**
  * Counts {-1, 0, 1, 2}: this covers growing, shrinking, an empty response
    and a negative count. There are two data types.
  * `NewResponse` is always enabled, so nothing deadlocks; 216 states.
* **resize_kernels.** Every height and width of input and output in 1..3,
  all flag combinations and every input position. Three is the smallest size
  where up- and downscaling, a middle row, and the last-row clamp all occur.
* **batchnorm_runner.** Two calls over F16, F32 and one unsupported type (S32).
* **segment_reduction.**
  * Bounds: three threads over two segments (so a segment can be empty),
    values {-3, -1, 2}, which overflow a 3-bit T under both sum and product,
    and all four reducers.
  * Symmetry over threads.

## Not modelled, and the plan

* **Modelled:** the engine and both of its caches, with the abstract
  `GpuEngine` and the refinement; the resize kernels; the batchnorm runner;
  the segment-reduction functors; the multi-stream execution with its
  liveness; the Star response objects.
* **Star tensor coding, the rest.**
  * The values of tensors, protos and the base class's `is_dead_` and
    `tensor_` are abstracted away: no property tells them apart.
  * `InitAlloc`, `Clear` and `StarRunGraphRequest::EncodeRequest` /
    `DecodeRequest` have no body in the tree.
* **Float rounding of the resize coordinate** (`resize_bilinear_op.cc:200`).
  * The smallest size where binary32 moves `floorf(in_y)` off the exact
    value is 7 -> 13 rows with half-pixel centres, far beyond the 3x3 that
    the exact run enumerates.
  * In every case up to 64x64, the clamps keep the indices in range, and the
    weight moves by about one ulp between adjacent rows.
  * Both kernels compute `in_y` alike, so the adjoint is unaffected.
* **Unannotated shared members of the engine.** `executor_impl_`,
  `graph_stats_` and the diagnostic map carry no `GUARDED_BY`. The code that
  updates them is in `gpu_executable.cc`, which is not in the tree. The model
  updates the statistics and the map inside the locked lookup, as spec.md's
  lookup contract describes. `executor_impl_` is left out.
* **Accessors of `GpuExecutable`** (`text`, `binary`, `ir_module_string`,
  `SetExecutor`/`GetExecutor`, `GetBufferAssignment`).
  * Each is a one-line getter or setter. The header says
    `set_ir_module_string` should be called before `ExecuteOnStream`, but no
    engine step modelled here reads the string, so calling it late would
    change nothing a property could observe.
  * `executor_impl_` is set and read in the missing `.cc`. The model has no
    basis for ordering those calls against execution.
  * The component therefore stays `not_modelled`.
* **Outside the model:**
  * Profiling and deferred host callbacks. The header declares them, but
    their behaviour is in the missing `.cc`.
  * The GPU specialisations of the resize kernels, and the bodies of the
    other segment functors, which are not in the tree.
  * The tanh registrations and the MKL tests, which have no state.
