\* Three callers racing on one compatible executor and one temp base: the
\* flag pair with two writers and a reader, three callers contending for
\* the module mutex, and concurrent misses and captures on one temp base.
\* A one-thunk schedule and a cache of one entry keep the run small.
CONSTANTS
    Callers = {c1, c2, c3}
    Executors = {e1}
    CompatibleExecutors = {e1}
    TempBases = {t1}
    BufKeys = {k1, k2}
    Hash <- MCHash
    NumThunks = 1
    FallibleThunks = {1}
    CacheSize = 1
    MaxCalls = 3
    NoOwner = NoOwner

SPECIFICATION Spec
SYMMETRY MCSymmetry

INVARIANT GraphCacheConsistent
PROPERTY RefinesGpuEngine

\* The behaviour ends when the callers stop calling after MaxCalls calls.
CHECK_DEADLOCK FALSE
