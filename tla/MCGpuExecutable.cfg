\* Two callers, one compatible and one incompatible executor, two temp
\* bases and two buffer keys, a two-thunk schedule whose second thunk
\* may fail, a graph cache of two entries and three calls in all.
CONSTANTS
    Callers = {c1, c2}
    Executors = {e1, e2}
    CompatibleExecutors = {e1}
    TempBases = {t1, t2}
    BufKeys = {k1, k2}
    Hash <- MCHash
    NumThunks = 2
    FallibleThunks = {2}
    CacheSize = 2
    MaxCalls = 3
    NoOwner = NoOwner

SPECIFICATION Spec
SYMMETRY MCSymmetry

INVARIANT TypeOK
INVARIANT ConstantsLoadedOnce
INVARIANT CallRunsItsSchedule
INVARIANT FailedThunkStopsSchedule
INVARIANT GraphCacheConsistent
INVARIANT NoGraphWhenUnsafe
PROPERTY RefinesGpuEngine

\* The behaviour ends when the callers stop calling after MaxCalls calls.
CHECK_DEADLOCK FALSE
