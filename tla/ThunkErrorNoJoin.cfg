\* The error return of ExecuteThunks against spec.md section 5: a thunk
\* after a parallel one fails, and the call returns before any join.
CONSTANTS
    NumThunks = 3
    Main = main
    SubStreams = {s1}
    FallibleThunks = {2}

SPECIFICATION Spec

INVARIANT WorkDoneWhenMainDrained

CHECK_DEADLOCK FALSE
