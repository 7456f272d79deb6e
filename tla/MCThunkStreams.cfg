\* Four thunks whose third may fail, the main stream and two helper
\* sub-streams: every assignment of thunks to streams, every dependency
\* relation on earlier thunks (chains of three cross-stream waits,
\* diamonds, a failure after dependents' events were recorded), blocking
\* and non-blocking calls.
CONSTANTS
    NumThunks = 4
    Main = main
    SubStreams = {s1, s2}
    FallibleThunks = {3}

SPECIFICATION LiveSpec

INVARIANT TypeOK
INVARIANT OkCallWorkDoneWhenMainDrained
PROPERTY DependenciesRespected
PROPERTY CallReturnsAndStreamsDrain

\* One call per behaviour: it ends once the caller has synchronized and
\* the device has drained every stream.
CHECK_DEADLOCK FALSE
