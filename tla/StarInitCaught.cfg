\* As MCStarTensorCoding.cfg, but a caller catches the exception out of
\* Init and keeps using the response.
CONSTANTS
    FuseCounts <- MCFuseCounts
    DataTypes = {dt1, dt2}
    Garbage = Garbage
    Indeterminate = Indeterminate
    NoRead = NoRead
    CallerCatches = TRUE

SPECIFICATION Spec

INVARIANT IndicesBelowFuseCountInBounds
