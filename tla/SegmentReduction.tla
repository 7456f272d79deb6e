-------------------------- MODULE SegmentReduction --------------------------
(***************************************************************************)
(* The GPU reduction functors of segment_reduction_ops.h.  An unsorted    *)
(* segment reduction fills the output with the initial-value functor of   *)
(* its reducer, then every GPU thread folds its data element into the     *)
(* output slot of its segment with one atomic read-modify-write           *)
(* (GpuAtomicAdd / Mul / Max / Min).  Threads run in any order.  T is a   *)
(* signed integer type of Width bits, so sums and products wrap.          *)
(***************************************************************************)
EXTENDS Integers, FiniteSetsExt

CONSTANTS Threads,    \* GPU threads, one data element each
          Segments,   \* output segments
          Values,     \* data values a thread may hold
          Width,      \* bit width of T
          Reductions  \* the reductions a kernel may run

ASSUME Width \in Nat \ {0} /\ Reductions \subseteq {"sum", "prod", "max", "min"}

\* Two's-complement wrap-around of a Width-bit T.
Wrap(x) == ((x + 2^(Width-1)) % 2^Width) - 2^(Width-1)

\* Initial value functors.
Zero == 0
One == 1
Highest == 2^(Width-1) - 1                    \* NumTraits<T>::highest()

\* Mutant: lowest written as the negated highest, one above the minimum of
\* a two's-complement T.
LowestNegHighest == -Highest

Lowest == -(2^(Width-1))                      \* NumTraits<T>::lowest()

\* The initial value paired with each reducer.
InitialValue(r) ==
    CASE r = "sum" -> Zero [] r = "prod" -> One [] r = "max" -> Lowest [] r = "min" -> Highest

\* SumOpGpu, ProdOpGpu, MaxOpGpu, MinOpGpu: the atomic update of *dest.
SumOpGpu(dest, value) == Wrap(dest + value)
ProdOpGpu(dest, value) == Wrap(dest * value)
MaxOpGpu(dest, value) == IF value > dest THEN value ELSE dest
MinOpGpu(dest, value) == IF value < dest THEN value ELSE dest

\* The reducer the kernel is instantiated with.
ReduceOp(r, dest, value) ==
    CASE r = "sum" -> SumOpGpu(dest, value) [] r = "prod" -> ProdOpGpu(dest, value)
      [] r = "max" -> MaxOpGpu(dest, value) [] r = "min" -> MinOpGpu(dest, value)

VARIABLES reduction,   \* the reducer of this kernel
          segmentIds,  \* segment_ids: thread -> segment
          data,        \* data: thread -> value
          output,      \* output: segment -> value
          done         \* threads whose atomic update has happened

vars == <<reduction, segmentIds, data, output, done>>

\* The output is filled with the initial value before the kernel starts.
Init ==
    /\ reduction \in Reductions
    /\ segmentIds \in [Threads -> Segments]
    /\ data \in [Threads -> Values]
    /\ output = [s \in Segments |-> InitialValue(reduction)]
    /\ done = {}

\* Thread t folds its element into its segment in one atomic step.
AtomicUpdate(t) ==
    /\ t \notin done
    /\ output' = [output EXCEPT ![segmentIds[t]] = ReduceOp(reduction, @, data[t])]
    /\ done' = done \cup {t}
    /\ UNCHANGED <<reduction, segmentIds, data>>

Next == \E t \in Threads : AtomicUpdate(t)

Spec == Init /\ [][Next]_vars

-----------------------------------------------------------------------------
(* Properties.                                                             *)

\* Reference, stated without the functors: the wrapped sum or product of
\* the segment's elements, the largest or smallest of them, and for a
\* segment with no element the value the op documents: 0, 1,
\* numeric_limits<T>::lowest() for max and numeric_limits<T>::max() for min.
Reference(r, s) ==
    LET ts == {t \in Threads : segmentIds[t] = s}
        vals == {data[t] : t \in ts}
        Fold(op(_, _), base) ==
            MapThenFoldSet(op, base, LAMBDA t : data[t], LAMBDA S : CHOOSE x \in S : TRUE, ts)
    IN  CASE r = "sum"  -> Wrap(Fold(+, 0))
          [] r = "prod" -> Wrap(Fold(LAMBDA a, b : a * b, 1))
          [] r = "max"  -> IF ts = {} THEN -(2^(Width-1)) ELSE Max(vals)
          [] r = "min"  -> IF ts = {} THEN 2^(Width-1) - 1 ELSE Min(vals)

(* Whatever order the GPU threads' atomic updates land in, once all have  *)
(* run every segment holds the reduction of exactly its own elements      *)
(* under T's wrap-around, and a segment no thread touched holds the value *)
(* the op documents for it: the initial-value functor the kernel fills    *)
(* the output with (Zero, One, Lowest, Highest) must be exactly that      *)
(* value, and the identity of its reducer.                                *)
SegmentsHoldReduction ==
    done = Threads => \A s \in Segments : output[s] = Reference(reduction, s)

=============================================================================
