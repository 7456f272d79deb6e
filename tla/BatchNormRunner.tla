--------------------------- MODULE BatchNormRunner --------------------------
(***************************************************************************)
(* cudnn_batchnorm_runner.cc: the three entry points that turn a          *)
(* batchnorm custom call into one cuDNN call enqueued on a stream.  Each  *)
(* entry point fills a parameter struct (AssignCommonParams plus its own  *)
(* fields), may fail on the backend config or the element type, and       *)
(* otherwise enqueues exactly one operation through its Impl template.    *)
(* Device memory is abstracted to "null or not"; an HLO instruction to    *)
(* its kind, the element type of its (first) output and its backend       *)
(* config.                                                                 *)
(***************************************************************************)
EXTENDS Naturals, Sequences, FiniteSets

CONSTANTS ElemTypes,   \* primitive types an HLO output may have
          MaxCalls     \* calls made in one behaviour

ASSUME {"F16", "F32"} \subseteq ElemTypes /\ MaxCalls \in Nat

\* The element types with an Impl instantiation (the switch cases).
Supported == {"F16", "F32"}

\* A batchnorm HLO: inference returns a plain array, training and backward
\* a tuple whose element 0 is the data output.  A tuple shape has element
\* type TUPLE.
Requests ==
    [kind: {"inference", "training", "backward"}, elem: ElemTypes,
     configParses: BOOLEAN, activationValid: BOOLEAN,
     reserveNull: BOOLEAN, workspaceNull: BOOLEAN]

ShapeOf(h) ==
    IF h.kind = "inference"
    THEN [isTuple |-> FALSE, type |-> h.elem]
    ELSE [isTuple |-> TRUE, type |-> "TUPLE", tuple0 |-> h.elem]

\* Mutant: the descriptors are made from the whole (tuple) shape.
DescriptorShapeTypeWholeShape(h) == ShapeOf(h).type

\* AssignCommonParams: descriptors from tuple_shapes(0) for a tuple.
DescriptorShapeType(h) ==
    IF ShapeOf(h).isTuple THEN ShapeOf(h).tuple0 ELSE ShapeOf(h).type

InferenceOutputType(h) == ShapeOf(h).type

\* Mutant: training switches on the element type of the whole tuple.
TrainingOutputTypeWholeShape(h) == ShapeOf(h).type

TrainingOutputType(h) == ShapeOf(h).tuple0

BackwardOutputType(h) == ShapeOf(h).tuple0

\* Mutant: the IsBufferNull test of the allocator lambda is dropped.
ScratchAllocatorUnchecked(bufferNull) == "allocator"

\* The allocator lambda: a ScratchBufAllocator over a null buffer becomes
\* a null allocator.
ScratchAllocator(bufferNull) == IF bufferNull THEN "null" ELSE "allocator"

VARIABLES requests,   \* requests[i]: the HLO and buffers of call i
          statuses,   \* statuses[i]: the Status call i returned
          stream      \* operations enqueued, in order

vars == <<requests, statuses, stream>>

Statuses == {"OK", "ConfigError", "InternalError", "Unimplemented"}

Ops == [call: Nat, kind: {"inference", "training", "backward"},
        elem: ElemTypes, desc: ElemTypes, isTraining: BOOLEAN,
        reserve: {"null", "allocator", "memory"},
        workspace: {"null", "allocator"}]

Init ==
    /\ requests = <<>>
    /\ statuses = <<>>
    /\ stream = <<>>

\* Record call i = Len(requests) + 1 with its status, enqueueing ops.
Return(h, status, ops) ==
    /\ requests' = Append(requests, h)
    /\ statuses' = Append(statuses, status)
    /\ stream' = stream \o ops

Call == Len(requests) + 1

\* RunCudnnBatchNormForwardInferenceImpl: no statistics, no scratch space,
\* is_training false.
InferenceOp(h) ==
    [call |-> Call, kind |-> h.kind, elem |-> InferenceOutputType(h),
     desc |-> DescriptorShapeType(h), isTraining |-> FALSE,
     reserve |-> "null", workspace |-> "null"]

\* RunCudnnBatchNormForwardTrainingImpl: the allocators pass the lambda.
TrainingOp(h) ==
    [call |-> Call, kind |-> h.kind, elem |-> TrainingOutputType(h),
     desc |-> DescriptorShapeType(h), isTraining |-> TRUE,
     reserve |-> ScratchAllocator(h.reserveNull),
     workspace |-> ScratchAllocator(h.workspaceNull)]

\* RunCudnnBatchNormBackwardImpl: the workspace allocator is nulled for a
\* null buffer; the reserve space is handed over as memory, null or not.
BackwardOp(h) ==
    [call |-> Call, kind |-> h.kind, elem |-> BackwardOutputType(h),
     desc |-> DescriptorShapeType(h), isTraining |-> FALSE,
     reserve |-> "memory", workspace |-> ScratchAllocator(h.workspaceNull)]

\* RunCudnnBatchNormForwardInference: switch on the output element type.
RunCudnnBatchNormForwardInference ==
    \E h \in Requests :
        /\ Len(requests) < MaxCalls
        /\ h.kind = "inference"
        /\ IF InferenceOutputType(h) \in Supported
           THEN Return(h, "OK", <<InferenceOp(h)>>)
           ELSE Return(h, "Unimplemented", <<>>)

\* Mutant: the activation mode is validated after the Impl has enqueued.
RunCudnnBatchNormForwardTrainingLateCheck ==
    \E h \in Requests :
        /\ Len(requests) < MaxCalls
        /\ h.kind = "training"
        /\ CASE ~h.configParses -> Return(h, "ConfigError", <<>>)
             [] TrainingOutputType(h) \notin Supported -> Return(h, "Unimplemented", <<>>)
             [] ~h.activationValid -> Return(h, "InternalError", <<TrainingOp(h)>>)
             [] OTHER -> Return(h, "OK", <<TrainingOp(h)>>)

\* RunCudnnBatchNormForwardTraining: TF_ASSIGN_OR_RETURN on the backend
\* config, the activation-mode check, then the switch on the type of
\* tuple element 0.
RunCudnnBatchNormForwardTraining ==
    \E h \in Requests :
        /\ Len(requests) < MaxCalls
        /\ h.kind = "training"
        /\ CASE ~h.configParses -> Return(h, "ConfigError", <<>>)
             [] ~h.activationValid -> Return(h, "InternalError", <<>>)
             [] TrainingOutputType(h) \notin Supported -> Return(h, "Unimplemented", <<>>)
             [] OTHER -> Return(h, "OK", <<TrainingOp(h)>>)

\* RunCudnnBatchNormBackward: switch on the type of tuple element 0.
RunCudnnBatchNormBackward ==
    \E h \in Requests :
        /\ Len(requests) < MaxCalls
        /\ h.kind = "backward"
        /\ IF BackwardOutputType(h) \in Supported
           THEN Return(h, "OK", <<BackwardOp(h)>>)
           ELSE Return(h, "Unimplemented", <<>>)

Next ==
    \/ RunCudnnBatchNormForwardInference
    \/ RunCudnnBatchNormForwardTraining
    \/ RunCudnnBatchNormBackward

Spec == Init /\ [][Next]_vars

-----------------------------------------------------------------------------
(* Properties.                                                             *)

TypeOK ==
    /\ requests \in Seq(Requests)
    /\ statuses \in Seq(Statuses)
    /\ Len(statuses) = Len(requests)
    /\ stream \in Seq(Ops)

OpsOf(i) == {k \in 1..Len(stream) : stream[k].call = i}

(* A call leaves work on the stream exactly when it returns OK, and then  *)
(* exactly one operation: no error path of the three entry points (bad   *)
(* config, bad activation mode, unsupported type) runs after the Impl has *)
(* enqueued, and no successful call returns without enqueueing.           *)
OkIffEnqueuedOnce ==
    \A i \in 1..Len(statuses) :
        Cardinality(OpsOf(i)) = IF statuses[i] = "OK" THEN 1 ELSE 0

(* Every call whose output is F16 or F32 and whose backend config is      *)
(* valid succeeds: each entry point switches on the element type of the   *)
(* data output (element 0 of the tuple for training and backward).        *)
SupportedCallsSucceed ==
    \A i \in 1..Len(requests) :
        LET h == requests[i] IN
        (/\ DescriptorShapeType(h) \in Supported
         /\ h.kind = "training" => h.configParses /\ h.activationValid)
            => statuses[i] = "OK"

(* Every enqueued operation carries what its call asked for: the element  *)
(* type and descriptors of the data output, training only for training,  *)
(* and no scratch allocator over a null buffer.                           *)
EnqueuedOpMatchesCall ==
    \A k \in 1..Len(stream) :
        LET op == stream[k]
            h == requests[op.call]
        IN  /\ op.kind = h.kind
            /\ op.elem = DescriptorShapeType(h) /\ op.desc = op.elem
            /\ op.isTraining = (h.kind = "training")
            /\ op.workspace = "allocator" => ~h.workspaceNull
            /\ op.reserve = "allocator" => ~h.reserveNull

=============================================================================
