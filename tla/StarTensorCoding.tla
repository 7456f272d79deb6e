--------------------------- MODULE StarTensorCoding ---------------------------
(***************************************************************************)
(* The response objects of star_tensor_coding.h as seen by any caller of  *)
(* their public methods.  A StarFuseTensorResponse holds fuse_count_ and   *)
(* four parallel vectors (tensors_, tensor_protos_, data_types_,          *)
(* is_deads_) that Init(fuse_count) resizes one after the other; the      *)
(* by-index accessors index them without a bounds check.  The base        *)
(* StarTensorResponse has a data_type_ without an initializer.  Vector    *)
(* contents, tensors and protos are abstracted away: only the sizes, the   *)
(* count, the data type and whether an index ran past the end matter.     *)
(* A resize that throws leaves the caller with a half-initialized object: *)
(* it abandons it (the exception unwinds past its owner) or, if           *)
(* CallerCatches, goes on using it.                                       *)
(***************************************************************************)
EXTENDS Integers

CONSTANTS FuseCounts,     \* fuse_count values a caller may pass to Init
          DataTypes,      \* DataType values a caller may set
          Garbage,        \* a data_type_ bit pattern no caller stored
          Indeterminate,  \* data_type_ before any SetDataType
          NoRead,         \* no GetDataType call yet
          CallerCatches   \* a caller may catch an exception out of Init

ASSUME FuseCounts \subseteq Int /\ Garbage \notin DataTypes
       /\ CallerCatches \in BOOLEAN

\* The vectors in the order Init resizes them.
Vectors == <<"tensors", "tensor_protos", "data_types", "is_deads">>
Vec == DOMAIN Vectors

VARIABLES
    alive,        \* the caller still uses this response object
    fuseCount,    \* fuse_count_
    size,         \* size[v]: size of the v-th vector of Vectors
    dataType,     \* data_type_ of the base StarTensorResponse
    read,         \* the value the last GetDataType returned
    outOfBounds   \* a by-index accessor indexed past the end of its vector

vars == <<alive, fuseCount, size, dataType, read, outOfBounds>>

\* The constructors: fuse_count_(0), empty vectors, data_type_ left
\* uninitialized.
StarFuseTensorResponse ==
    /\ alive = TRUE
    /\ fuseCount = 0
    /\ size = [v \in Vec |-> 0]
    /\ dataType = Indeterminate
    /\ read = NoRead
    /\ outOfBounds = FALSE

\* vector::resize(n) with an int n: a negative n converts to a size_t
\* above max_size() and always throws length_error; growing allocates
\* and may throw bad_alloc; shrinking never throws.
MustThrow(n) == n < 0
MayThrow(v, n) == n < 0 \/ n > size[v]

\* Mutant: fuse_count_ is one more than the count the vectors get.
InitCountOffByOne(n) ==
    \E k \in 0..4 :
        /\ \A v \in 1..k : ~MustThrow(n)
        /\ k < 4 => MayThrow(k + 1, n)
        /\ fuseCount' = n + 1
        /\ size' = [v \in Vec |-> IF v <= k THEN n ELSE size[v]]
        /\ alive' = (k = 4 \/ CallerCatches)

\* Mutant: is_deads_ is not resized.
InitNoIsDeadsResize(n) ==
    \E k \in 0..3 :
        /\ \A v \in 1..k : ~MustThrow(n)
        /\ k < 3 => MayThrow(k + 1, n)
        /\ fuseCount' = n
        /\ size' = [v \in Vec |-> IF v <= k THEN n ELSE size[v]]
        /\ alive' = (k = 3 \/ CallerCatches)

\* Init(fuse_count): fuse_count_ is assigned first, then the four vectors
\* are resized in order; the first resize that throws ends the call with
\* the earlier ones done.
Init(n) ==
    \E k \in 0..4 :     \* resizes that complete
        /\ \A v \in 1..k : ~MustThrow(n)
        /\ k < 4 => MayThrow(k + 1, n)
        /\ fuseCount' = n
        /\ size' = [v \in Vec |-> IF v <= k THEN n ELSE size[v]]
        /\ alive' = (k = 4 \/ CallerCatches)

CallInit ==
    /\ alive
    /\ \E n \in FuseCounts : Init(n)
    /\ UNCHANGED <<dataType, read, outOfBounds>>

\* A by-index accessor of the v-th vector called with an index below
\* GetFuseCount(); operator[] does not check the index.
ByIndex(v) ==
    /\ alive
    /\ \E idx \in 0..(fuseCount - 1) : outOfBounds' = (outOfBounds \/ idx >= size[v])
    /\ UNCHANGED <<alive, fuseCount, size, dataType, read>>

SetTensorByIndex == ByIndex(1)      \* and GetTensorByIndex
GetTensorProtoByIndex == ByIndex(2)
SetDataTypeByIndex == ByIndex(3)    \* and GetDataTypeByIndex
SetIsDeadByIndex == ByIndex(4)      \* and GetIsDeadByIndex

SetDataType ==
    /\ alive
    /\ \E t \in DataTypes : dataType' = t
    /\ UNCHANGED <<alive, fuseCount, size, read, outOfBounds>>

\* Reading data_type_ before it was set reads an indeterminate value: any
\* bit pattern the build leaves there.
GetDataType ==
    /\ alive
    /\ read' \in IF dataType = Indeterminate THEN DataTypes \cup {Garbage}
                 ELSE {dataType}
    /\ UNCHANGED <<alive, fuseCount, size, dataType, outOfBounds>>

\* The caller moves on to a fresh response object.
NewResponse ==
    /\ alive' = TRUE /\ fuseCount' = 0 /\ size' = [v \in Vec |-> 0]
    /\ dataType' = Indeterminate /\ read' = NoRead /\ outOfBounds' = FALSE

Next ==
    \/ CallInit \/ SetTensorByIndex \/ GetTensorProtoByIndex
    \/ SetDataTypeByIndex \/ SetIsDeadByIndex \/ SetDataType \/ GetDataType
    \/ NewResponse

Spec == StarFuseTensorResponse /\ [][Next]_vars

-----------------------------------------------------------------------------
(* Properties.                                                             *)

TypeOK ==
    /\ alive \in BOOLEAN /\ fuseCount \in FuseCounts \cup {0}
    /\ size \in [Vec -> {n \in FuseCounts \cup {0} : n >= 0}]
    /\ dataType \in DataTypes \cup {Indeterminate}
    /\ read \in DataTypes \cup {Garbage, NoRead}
    /\ outOfBounds \in BOOLEAN

(* Every by-index access with an index below GetFuseCount() lands inside  *)
(* its vector, over any sequence of Init calls growing and shrinking the  *)
(* response, as long as no caller keeps a response whose Init threw: Init *)
(* assigns fuse_count_ before its four resizes, so a resize that throws   *)
(* leaves a count larger than the vectors behind it.                      *)
IndicesBelowFuseCountInBounds == ~outOfBounds

=============================================================================
