------------------------- MODULE MCStarTensorCoding --------------------------
EXTENDS StarTensorCoding

\* Counts that shrink, grow, and one that is negative.
MCFuseCounts == {-1, 0, 1, 2}

=============================================================================
