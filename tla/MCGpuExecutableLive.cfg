\* Liveness of every call under weak fairness of callers and device; no
\* symmetry reduction (unsound for liveness), one temp base to keep the
\* behaviour graph small; two calls suffice for one to contend with the other.
CONSTANTS
    Callers = {c1, c2}
    Executors = {e1, e2}
    CompatibleExecutors = {e1}
    TempBases = {t1}
    BufKeys = {k1, k2}
    Hash <- MCHash
    NumThunks = 2
    FallibleThunks = {2}
    CacheSize = 2
    MaxCalls = 2
    NoOwner = NoOwner

SPECIFICATION Spec

PROPERTY EveryCallReturns

\* The behaviour ends when the callers stop calling after MaxCalls calls.
CHECK_DEADLOCK FALSE
