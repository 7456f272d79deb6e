\* Counts that shrink, grow and go negative (length_error), two data
\* types; a caller abandons a response whose Init threw.
CONSTANTS
    FuseCounts <- MCFuseCounts
    DataTypes = {dt1, dt2}
    Garbage = Garbage
    Indeterminate = Indeterminate
    NoRead = NoRead
    CallerCatches = FALSE

SPECIFICATION Spec

INVARIANT TypeOK
INVARIANT IndicesBelowFuseCountInBounds
