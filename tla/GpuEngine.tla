------------------------------ MODULE GpuEngine ------------------------------
(***************************************************************************)
(* What GpuExecutable::ExecuteAsyncOnStream promises its callers, with    *)
(* graph capture, the flag and the mutex abstracted away.  A call on an   *)
(* incompatible executor fails at once.  Otherwise its executor's module *)
(* is loaded at most once (or the load fails the call).  The thunk        *)
(* schedule is then issued on the caller's stream in order, any number   *)
(* of thunks per step: one thunk when run directly, all of them when a   *)
(* graph is launched.  A call fails at the next thunk if it is fallible,  *)
(* and returns OK only after the whole schedule was issued and, if it   *)
(* blocks the host, drained.  The device drains each stream in order.    *)
(***************************************************************************)
EXTENDS Naturals, Sequences

CONSTANTS Callers, Executors, CompatibleExecutors, TempBases, BufKeys,
          NumThunks, FallibleThunks, MaxCalls

VARIABLES
    loaded,     \* executors whose module is loaded
    busy,       \* busy[c]: caller c is inside a call
    job,        \* job[c]: id, executor, temp base, key, blocking flag of c's call
    issued,     \* issued[c]: thunks of c's current call issued so far
    stream,     \* operations on each caller's stream, stamped with the call id
    completed,  \* completed operations of each caller's current call
    result,     \* status of each caller's last call
    calls       \* calls started so far

vars == <<loaded, busy, job, issued, stream, completed, result, calls>>

Jobs == [id: 0..MaxCalls, exec: Executors, temp: TempBases, key: BufKeys,
         block: BOOLEAN]

\* Thunk i run against temp base t and buffer key k.
DeviceOp(i, t, k) == [thunk |-> i, temp |-> t, key |-> k]

\* Thunks from+1..to of c's schedule, stamped with c's call id.
Issued(c, from, to) ==
    [j \in 1..(to - from) |->
        [id |-> job[c].id, op |-> DeviceOp(from + j, job[c].temp, job[c].key)]]

Init ==
    /\ loaded = {}
    /\ busy = [c \in Callers |-> FALSE]
    /\ job \in [Callers -> Jobs]
    /\ issued = [c \in Callers |-> 0]
    /\ stream = [c \in Callers |-> <<>>]
    /\ completed = [c \in Callers |-> <<>>]
    /\ result = [c \in Callers |-> [status |-> "none", thunk |-> 0]]
    /\ calls = 0

Finish(c, status, thunk) ==
    /\ busy' = [busy EXCEPT ![c] = FALSE]
    /\ result' = [result EXCEPT ![c] = [status |-> status, thunk |-> thunk]]

\* A call starts; an incompatible executor fails it at once.
Start(c) ==
    /\ ~busy[c]
    /\ calls < MaxCalls
    /\ \E e \in Executors, t \in TempBases, k \in BufKeys, b \in BOOLEAN :
         /\ job' = [job EXCEPT ![c] = [id |-> calls + 1, exec |-> e, temp |-> t,
                                       key |-> k, block |-> b]]
         /\ busy' = [busy EXCEPT ![c] = e \in CompatibleExecutors]
         /\ result' = [result EXCEPT ![c] = [status |->
                         IF e \in CompatibleExecutors THEN "none" ELSE "compat_error",
                         thunk |-> 0]]
    /\ issued' = [issued EXCEPT ![c] = 0]
    /\ completed' = [completed EXCEPT ![c] = <<>>]
    /\ calls' = calls + 1
    /\ UNCHANGED <<loaded, stream>>

\* The executor's module is loaded, once.
Load(c) ==
    /\ busy[c] /\ issued[c] = 0
    /\ job[c].exec \notin loaded
    /\ loaded' = loaded \cup {job[c].exec}
    /\ UNCHANGED <<busy, job, issued, stream, completed, result, calls>>

\* Loading the module fails the call before any thunk is issued.
LoadFail(c) ==
    /\ busy[c] /\ issued[c] = 0
    /\ job[c].exec \notin loaded
    /\ Finish(c, "load_error", 0)
    /\ UNCHANGED <<loaded, job, issued, stream, completed, calls>>

\* The next thunks of the schedule are issued on c's stream, in order.
Issue(c) ==
    /\ busy[c] /\ job[c].exec \in loaded
    /\ \E n \in issued[c] + 1 .. NumThunks :
         /\ stream' = [stream EXCEPT ![c] = @ \o Issued(c, issued[c], n)]
         /\ issued' = [issued EXCEPT ![c] = n]
    /\ UNCHANGED <<loaded, busy, job, completed, result, calls>>

\* The next thunk fails; the call returns the error, naming that thunk.
Fail(c) ==
    /\ busy[c] /\ job[c].exec \in loaded
    /\ issued[c] + 1 \in FallibleThunks
    /\ Finish(c, "exec_error", issued[c] + 1)
    /\ UNCHANGED <<loaded, job, issued, stream, completed, calls>>

\* The whole schedule was issued (and drained, for a blocking call).
Return(c) ==
    /\ busy[c] /\ job[c].exec \in loaded
    /\ issued[c] = NumThunks
    /\ job[c].block => stream[c] = <<>>
    /\ Finish(c, "ok", 0)
    /\ UNCHANGED <<loaded, job, issued, stream, completed, calls>>

\* The device completes the oldest operation on c's stream.
Complete(c) ==
    /\ stream[c] # <<>>
    /\ completed' = [completed EXCEPT ![c] = IF Head(stream[c]).id = job[c].id
                                             THEN Append(@, Head(stream[c])) ELSE @]
    /\ stream' = [stream EXCEPT ![c] = Tail(@)]
    /\ UNCHANGED <<loaded, busy, job, issued, result, calls>>

Next ==
    \E c \in Callers :
        \/ Start(c) \/ Load(c) \/ LoadFail(c) \/ Issue(c) \/ Fail(c)
        \/ Return(c) \/ Complete(c)

Spec == Init /\ [][Next]_vars

=============================================================================
