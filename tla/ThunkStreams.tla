----------------------------- MODULE ThunkStreams ----------------------------
(***************************************************************************)
(* One direct execution of a thunk schedule over several streams          *)
(* (GpuExecutable::ExecuteThunks / ExecuteThunkSequence with sub_streams, *)
(* gpu_executable.h lines 101-121; spec.md sections 4.2 and 5).  The host *)
(* walks the schedule in its total order.  Each thunk goes to the stream  *)
(* the schedule assigns it (the main stream or a helper sub-stream);      *)
(* before it, its stream waits for the finish events of the thunks it     *)
(* depends on that run on other streams, and a thunk that others wait for *)
(* records its finish event after it.  A failing thunk aborts the rest.   *)
(* Before an OK return the main stream is joined with every sub-stream;  *)
(* with block_host_until_done the host then waits for the main stream.    *)
(* A failing thunk returns its error at once, without the join.           *)
(* The device runs each stream in FIFO order.  After the call the caller  *)
(* synchronizes the main stream before it reads the outputs.              *)
(***************************************************************************)
EXTENDS Naturals, Sequences, SequencesExt, FiniteSets

CONSTANTS NumThunks,      \* length of the schedule
          Main,           \* the main stream of the run options
          SubStreams,     \* helper streams taken from the stream pool
          FallibleThunks  \* thunks whose launch may return an error

ASSUME NumThunks \in Nat \ {0} /\ Main \notin SubStreams
       /\ FallibleThunks \subseteq 1..NumThunks

Thunks == 1..NumThunks
Streams == {Main} \cup SubStreams

\* A stream operation: wait for an event, run a thunk, record an event,
\* or the join markers.
Op(kind, x) == [kind |-> kind, x |-> x]

VARIABLES
    streamOf,   \* the stream the schedule assigns to each thunk
    dependsOn,  \* the thunks each thunk reads the output of (earlier ones)
    block,      \* block_host_until_done
    host,       \* where the host thread is
    next,       \* the next thunk in the total order
    status,     \* the status the call returns
    launched,   \* thunks whose launch succeeded
    queue,      \* the operations enqueued on each stream, oldest first
    recorded,   \* finish events the device has reached
    marked,     \* sub-streams whose join marker the device has reached
    finished    \* thunks the device has run

vars == <<streamOf, dependsOn, block, host, next, status, launched, queue,
          recorded, marked, finished>>

Schedules == {d \in [Thunks -> SUBSET Thunks] : \A i \in Thunks : d[i] \subseteq 1..(i - 1)}

Init ==
    /\ streamOf \in [Thunks -> Streams]
    /\ dependsOn \in Schedules
    /\ block \in BOOLEAN
    /\ host = "issue"
    /\ next = 1
    /\ status = [kind |-> "none", thunk |-> 0]
    /\ launched = {}
    /\ queue = [s \in Streams |-> <<>>]
    /\ recorded = {} /\ marked = {} /\ finished = {}

\* Mutant: the stream waits only for dependencies on its own stream.
WaitsForSameStream(i) == {d \in dependsOn[i] : streamOf[d] = streamOf[i]}

\* The dependencies a thunk's stream must wait for: those on other
\* streams (one stream already runs in order).
WaitsFor(i) == {d \in dependsOn[i] : streamOf[d] # streamOf[i]}

\* Mutant: the record is emitted only for a thunk that waits on an earlier
\* one, the dependence relation read backwards.
DependedBackward(i) == \E j \in Thunks : j < i /\ i \in WaitsFor(j)

\* A thunk some later thunk waits for records its finish event.
Depended(i) == \E j \in Thunks : i \in WaitsFor(j)

\* Launch thunk i: its waits, the thunk, and its finish event if needed.
IssueThunk ==
    LET i == next
        ops == [j \in DOMAIN SetToSeq(WaitsFor(i)) |-> Op("wait", SetToSeq(WaitsFor(i))[j])]
               \o <<Op("run", i)>>
               \o (IF Depended(i) THEN <<Op("record", i)>> ELSE <<>>)
    IN
    /\ host = "issue"
    /\ queue' = [queue EXCEPT ![streamOf[i]] = @ \o ops]
    /\ launched' = launched \cup {i}
    /\ next' = i + 1
    /\ host' = IF i = NumThunks THEN "join" ELSE "issue"
    /\ UNCHANGED <<streamOf, dependsOn, block, status, recorded, marked, finished>>

\* Mutant: the failing thunk is enqueued although its launch failed.
ThunkFailedEnqueued(i) ==
    /\ status' = [kind |-> "exec_error", thunk |-> i]
    /\ host' = "returned"
    /\ queue' = [queue EXCEPT ![streamOf[i]] = Append(@, Op("run", i))]
    /\ UNCHANGED launched

\* A failed launch aborts the remaining thunks and returns the error,
\* tagged with the thunk, at once: the join comes after the thunk loop and
\* is not reached (spec.md sections 4.2 and 7 abort the schedule and
\* surface the error; neither joins on this path).
ThunkFailed(i) ==
    /\ status' = [kind |-> "exec_error", thunk |-> i]
    /\ host' = "returned"
    /\ UNCHANGED <<launched, queue>>

FailThunk ==
    /\ host = "issue"
    /\ next \in FallibleThunks
    /\ ThunkFailed(next)
    /\ UNCHANGED <<streamOf, dependsOn, block, next, recorded, marked, finished>>

\* Mutant: the sub-streams get their markers but the main stream does not
\* wait for them.
JoinNoWait ==
    /\ host = "join"
    /\ queue' = [s \in Streams |-> IF s = Main THEN queue[s]
                                   ELSE Append(queue[s], Op("mark", s))]
    /\ host' = "sync"
    /\ UNCHANGED <<streamOf, dependsOn, block, next, status, launched, recorded,
                   marked, finished>>

\* main_stream->ThenWaitFor(sub_streams): a marker on every sub-stream and
\* a join on the main stream that waits for all of them.
Join ==
    /\ host = "join"
    /\ queue' = [s \in Streams |-> IF s = Main THEN Append(queue[s], Op("join", Main))
                                   ELSE Append(queue[s], Op("mark", s))]
    /\ host' = "sync"
    /\ UNCHANGED <<streamOf, dependsOn, block, next, status, launched, recorded,
                   marked, finished>>

(* ExecuteThunks ends: with block_host_until_done the host waits for the  *)
(* main stream to drain, then the call returns OK.                        *)
BlockHostUntilDone ==
    /\ host = "sync"
    /\ block => queue[Main] = <<>>
    /\ host' = "returned"
    /\ status' = [kind |-> "ok", thunk |-> 0]
    /\ UNCHANGED <<streamOf, dependsOn, block, next, launched, queue, recorded,
                   marked, finished>>

\* The caller synchronizes the main stream before reading the outputs.
CallerSync ==
    /\ host = "returned"
    /\ queue[Main] = <<>>
    /\ host' = "synced"
    /\ UNCHANGED <<streamOf, dependsOn, block, next, status, launched, queue,
                   recorded, marked, finished>>

\* The device may run the operation at the head of stream s: a wait needs
\* its event reached, the join needs every sub-stream's marker reached.
Ready(op) ==
    CASE op.kind = "wait" -> op.x \in recorded
      [] op.kind = "join" -> marked = SubStreams
      [] OTHER -> TRUE

DeviceStep(s) ==
    LET op == Head(queue[s]) IN
    /\ queue[s] # <<>>
    /\ Ready(op)
    /\ queue' = [queue EXCEPT ![s] = Tail(@)]
    /\ finished' = finished \cup (IF op.kind = "run" THEN {op.x} ELSE {})
    /\ recorded' = recorded \cup (IF op.kind = "record" THEN {op.x} ELSE {})
    /\ marked' = marked \cup (IF op.kind = "mark" THEN {op.x} ELSE {})
    /\ UNCHANGED <<streamOf, dependsOn, block, host, next, status, launched>>

Next ==
    \/ IssueThunk \/ FailThunk \/ Join \/ BlockHostUntilDone \/ CallerSync
    \/ \E s \in Streams : DeviceStep(s)

Spec == Init /\ [][Next]_vars

(* The host thread runs ExecuteThunks to its return without waiting on    *)
(* anything but the main stream, and the device keeps executing the head  *)
(* of every stream whose head is ready: weak fairness for the host and     *)
(* for each stream.  The caller's final synchronization is not assumed.   *)
Host == IssueThunk \/ FailThunk \/ Join \/ BlockHostUntilDone

LiveSpec == Spec /\ WF_vars(Host) /\ \A s \in Streams : WF_vars(DeviceStep(s))

-----------------------------------------------------------------------------
(* Properties.                                                             *)

TypeOK ==
    /\ streamOf \in [Thunks -> Streams] /\ dependsOn \in Schedules
    /\ block \in BOOLEAN
    /\ host \in {"issue", "join", "sync", "returned", "synced"}
    /\ next \in 1..NumThunks + 1
    /\ status \in [kind: {"none", "ok", "exec_error"}, thunk: 0..NumThunks]
    /\ launched \subseteq Thunks /\ finished \subseteq launched
    /\ queue \in [Streams -> Seq([kind: {"wait", "run", "record", "mark", "join"},
                                  x: Thunks \cup Streams])]
    /\ recorded \subseteq Thunks /\ marked \subseteq SubStreams

(* Spec section 5 (ordering): a thunk runs on the device only after every *)
(* thunk it depends on has finished, whether that one ran on the same     *)
(* stream or on another one, in every interleaving of the streams.        *)
DependenciesRespected ==
    [][\A i \in Thunks : i \in finished' \ finished => dependsOn[i] \subseteq finished]_vars

(* The join makes the main stream the one place to wait: once the call   *)
(* returned OK and the main stream has drained, every thunk it launched   *)
(* on any stream has finished, so the caller that synchronized the main   *)
(* stream reads complete outputs.                                         *)
OkCallWorkDoneWhenMainDrained ==
    (host \in {"returned", "synced"} /\ status.kind = "ok" /\ queue[Main] = <<>>)
        => launched \subseteq finished

(* spec.md section 5: parallel thunks must all complete (joined) before   *)
(* the engine considers the execution complete.  Stated for every return, *)
(* the error return included: once the call returned and the main stream  *)
(* drained, no launched thunk is still pending on a sub-stream.           *)
WorkDoneWhenMainDrained ==
    (host \in {"returned", "synced"} /\ queue[Main] = <<>>) => launched \subseteq finished

(* No stream waits forever: the call returns and the device drains every  *)
(* stream, sub-streams included.  Each cross-stream wait names an event   *)
(* recorded on another stream and the join waits for a marker on every    *)
(* sub-stream, so a missing record, a wait on a later thunk or a marker   *)
(* the join does not expect would leave a stream blocked for good.        *)
CallReturnsAndStreamsDrain ==
    <>(host \in {"returned", "synced"} /\ \A s \in Streams : queue[s] = <<>>)

=============================================================================
