------------------------- MODULE MCSegmentReduction -------------------------
EXTENDS SegmentReduction, TLC

\* Threads are interchangeable: only their segment and value matter.
MCSymmetry == Permutations(Threads)

\* Values that overflow a 3-bit T under sum (2 + 2) and product (-3 * -3).
MCValues == {-3, -1, 2}

=============================================================================
