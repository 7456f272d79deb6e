\* Three threads over two segments (so one segment may stay empty), values
\* that overflow a 3-bit T under sum and product, and all four reducers.
CONSTANTS
    Threads = {t1, t2, t3}
    Segments = {s1, s2}
    Values <- MCValues
    Width = 3
    Reductions = {"sum", "prod", "max", "min"}

SPECIFICATION Spec
SYMMETRY MCSymmetry

INVARIANT SegmentsHoldReduction

\* The kernel ends when every thread has made its update.
CHECK_DEADLOCK FALSE
