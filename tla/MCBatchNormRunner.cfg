\* F16 and F32 have an Impl; S32 stands for every other primitive type.
\* Two calls give every pair of entry points, outcomes and buffer states.
CONSTANTS
    ElemTypes = {"F16", "F32", "S32"}
    MaxCalls = 2

SPECIFICATION Spec

INVARIANT TypeOK
INVARIANT OkIffEnqueuedOnce
INVARIANT SupportedCallsSucceed
INVARIANT EnqueuedOpMatchesCall

\* The caller makes MaxCalls calls and stops.
CHECK_DEADLOCK FALSE
