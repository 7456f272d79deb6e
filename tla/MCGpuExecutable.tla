-------------------------- MODULE MCGpuExecutable --------------------------
(* Model values and small bounds for checking GpuExecutable with TLC.     *)
EXTENDS GpuExecutable, TLC

\* Both temp bases hash alike, so the diagnostic map sees a collision.
MCHash(t) == "h0"

\* Callers, keys and temp bases are interchangeable model values.
MCSymmetry == Permutations(Callers) \cup Permutations(BufKeys) \cup Permutations(TempBases)

=============================================================================
