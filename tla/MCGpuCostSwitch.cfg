\* The cost switch under a stale decision: two callers, one temp base, two
\* buffer keys and four calls, so that a caller that chose the graph path
\* before the switch can record a hit after it, and a fourth call starts
\* once graphs were judged costly.  A cache bound of 2 makes the switch
\* reachable after two misses.
CONSTANTS
    Callers = {c1, c2}
    Executors = {e1}
    CompatibleExecutors = {e1}
    TempBases = {t1}
    BufKeys = {k1, k2}
    Hash <- MCHash
    NumThunks = 1
    FallibleThunks = {1}
    CacheSize = 2
    MaxCalls = 4
    NoOwner = NoOwner

SPECIFICATION Spec
SYMMETRY MCSymmetry

INVARIANT CallsAfterCostlyRunDirect

\* The run ends when MaxCalls calls have returned.
CHECK_DEADLOCK FALSE
