--------------------------- MODULE ResizeBilinear ---------------------------
(***************************************************************************)
(* The CPU kernels of resize_bilinear_op.cc: ResizeBilinearOp::Compute     *)
(* with the ResizeBilinear<CPUDevice> functor, and ResizeBilinearOpGrad::  *)
(* Compute with ResizeBilinearGrad<CPUDevice>::ResizeGradCore.  One image *)
(* of one channel is resized; the batch and channel loops repeat the same *)
(* computation on independent slices.  Real values are kept exact: a      *)
(* sample coordinate is a rational n/d, and a tensor holds numerators     *)
(* over the common denominator of the two axes.                           *)
(***************************************************************************)
EXTENDS Integers, FiniteSetsExt

CONSTANT MaxSize   \* largest image height / width enumerated

ASSUME MaxSize \in Nat \ {0}

Sizes == 1..MaxSize
Pos(h, w) == (0..h-1) \X (0..w-1)

\* A unit tensor of height h and width w (numerators).
Basis(h, w, q) == [p \in Pos(h, w) |-> IF p = q THEN 1 ELSE 0]

-----------------------------------------------------------------------------
(* Scales and scalers, as ImageResizerState computes and applies them.     *)

\* CalculateResizeScale: (in-1)/(out-1) with align_corners, else in/out.
CalculateResizeScale(inSize, outSize, alignCorners) ==
    IF alignCorners /\ outSize > 1
    THEN [n |-> inSize - 1, d |-> outSize - 1]
    ELSE [n |-> inSize, d |-> outSize]

\* LegacyScaler: y * scale.  HalfPixelScaler: (y + 0.5) * scale - 0.5.
Scaler(y, s, halfPixelCenters) ==
    IF halfPixelCenters
    THEN [n |-> (2 * y + 1) * s.n - s.d, d |-> 2 * s.d]
    ELSE [n |-> y * s.n, d |-> s.d]

FloorQ(q) == q.n \div q.d
CeilQ(q) == -((-q.n) \div q.d)
\* in - floor(in), as a numerator over q.d.
LerpNum(q) == q.n - FloorQ(q) * q.d

\* std::max(floor(in), 0)
TopIndex(q) == IF FloorQ(q) > 0 THEN FloorQ(q) ELSE 0

\* Mutant: the upper clamp of the bottom index is dropped.
BottomIndexUnclamped(q, size) == CeilQ(q)

\* std::min(ceil(in), size - 1)
BottomIndex(q, size) == IF CeilQ(q) < size - 1 THEN CeilQ(q) ELSE size - 1

-----------------------------------------------------------------------------
(* ResizeBilinear<CPUDevice>: a no-op resize copies the image; otherwise  *)
(* each output pixel interpolates its four neighbours (the weights of     *)
(* compute_interpolation_weights, the formula of                          *)
(* crop_resize_single_image_common).  Result over dy * dx.                *)
ResizeBilinearFunctor(img, inH, inW, outH, outW, sh, sw, half) ==
    LET dy == Scaler(0, sh, half).d
        dx == Scaler(0, sw, half).d
        At(i, j) == IF <<i, j>> \in DOMAIN img THEN img[<<i, j>>] ELSE 0
        Interp(y, x) ==
            LET qy == Scaler(y, sh, half)
                qx == Scaler(x, sw, half)
                t == TopIndex(qy)
                b == BottomIndex(qy, inH)
                l == TopIndex(qx)
                r == BottomIndex(qx, inW)
                top == At(t, l) * dx + (At(t, r) - At(t, l)) * LerpNum(qx)
                bottom == At(b, l) * dx + (At(b, r) - At(b, l)) * LerpNum(qx)
            IN  top * dy + (bottom - top) * LerpNum(qy)
    IN  IF outH = inH /\ outW = inW
        THEN [p \in Pos(outH, outW) |-> At(p[1], p[2]) * dy * dx]
        ELSE [p \in Pos(outH, outW) |-> Interp(p[1], p[2])]

(* Mutant: the two vertical weights of the gradient are swapped.          *)
GradContributionSwappedLerp(inputGrad, i, j, y, x, origH, origW, sh, sw, half) ==
    LET qy == Scaler(y, sh, half)
        qx == Scaler(x, sw, half)
        dy == qy.d
        dx == qx.d
        g == inputGrad[<<y, x>>]
    IN    (IF TopIndex(qy) = i /\ TopIndex(qx) = j
           THEN g * LerpNum(qy) * (dx - LerpNum(qx)) ELSE 0)
        + (IF TopIndex(qy) = i /\ BottomIndex(qx, origW) = j
           THEN g * LerpNum(qy) * LerpNum(qx) ELSE 0)
        + (IF BottomIndex(qy, origH) = i /\ TopIndex(qx) = j
           THEN g * (dy - LerpNum(qy)) * (dx - LerpNum(qx)) ELSE 0)
        + (IF BottomIndex(qy, origH) = i /\ BottomIndex(qx, origW) = j
           THEN g * (dy - LerpNum(qy)) * LerpNum(qx) ELSE 0)

(* The four += of ResizeGradCore for resized pixel (y, x), as seen by     *)
(* original pixel (i, j): the gradient goes to top/bottom-left/right with *)
(* the interpolation weights of the forward pass.  Over dy * dx.          *)
GradContribution(inputGrad, i, j, y, x, origH, origW, sh, sw, half) ==
    LET qy == Scaler(y, sh, half)
        qx == Scaler(x, sw, half)
        dy == qy.d
        dx == qx.d
        g == inputGrad[<<y, x>>]
    IN    (IF TopIndex(qy) = i /\ TopIndex(qx) = j
           THEN g * (dy - LerpNum(qy)) * (dx - LerpNum(qx)) ELSE 0)
        + (IF TopIndex(qy) = i /\ BottomIndex(qx, origW) = j
           THEN g * (dy - LerpNum(qy)) * LerpNum(qx) ELSE 0)
        + (IF BottomIndex(qy, origH) = i /\ TopIndex(qx) = j
           THEN g * LerpNum(qy) * (dx - LerpNum(qx)) ELSE 0)
        + (IF BottomIndex(qy, origH) = i /\ BottomIndex(qx, origW) = j
           THEN g * LerpNum(qy) * LerpNum(qx) ELSE 0)

\* Mutant: the output gradient is allocated with the resized shape.
ResizeGradCoreResizedShape(inputGrad, origH, origW, resH, resW, sh, sw, half) ==
    [p \in Pos(resH, resW) |->
        MapThenSumSet(LAMBDA yx : GradContribution(inputGrad, p[1], p[2], yx[1], yx[2],
                                                   origH, origW, sh, sw, half),
                      Pos(resH, resW))]

(* ResizeGradCore: output_grad (original shape) is zeroed, then every     *)
(* resized pixel adds its contributions.                                  *)
ResizeGradCore(inputGrad, origH, origW, resH, resW, sh, sw, half) ==
    [p \in Pos(origH, origW) |->
        MapThenSumSet(LAMBDA yx : GradContribution(inputGrad, p[1], p[2], yx[1], yx[2],
                                                   origH, origW, sh, sw, half),
                      Pos(resH, resW))]

-----------------------------------------------------------------------------
(* The kernels as steps: a Compute call takes a request (sizes, flags,    *)
(* batch, and a unit input at one position) and produces its output.  The *)
(* kernels keep no state between calls, so one call per behaviour covers  *)
(* every call; the behaviour then stops.                                  *)

VARIABLES request, status, output

vars == <<request, status, output>>

Requests ==
    [op: {"resize", "grad"}, inH: Sizes, inW: Sizes, outH: Sizes, outW: Sizes,
     alignCorners: BOOLEAN, halfPixelCenters: BOOLEAN, batch: {0, 1},
     at: (0..MaxSize-1) \X (0..MaxSize-1)]

HeightScale(r) == CalculateResizeScale(r.inH, r.outH, r.alignCorners)
WidthScale(r) == CalculateResizeScale(r.inW, r.outW, r.alignCorners)

\* ValidateAndCreateOutput rejects half_pixel_centers with align_corners.
Valid(r) == ~(r.alignCorners /\ r.halfPixelCenters)

NoTensor == [p \in {} |-> 0]

Init ==
    /\ request = CHOOSE r \in Requests : TRUE
    /\ status = "none"
    /\ output = NoTensor

(* ResizeBilinearOp::Compute: validate, return on an empty output, else   *)
(* run the functor on the image (a unit pixel at r.at).                   *)
ResizeBilinearOpCompute ==
    \E r \in Requests :
        /\ status = "none"
        /\ r.op = "resize"
        /\ r.at \in Pos(r.inH, r.inW)
        /\ request' = r
        /\ \/ /\ ~Valid(r)
              /\ status' = "invalid" /\ output' = NoTensor
           \/ /\ Valid(r) /\ r.batch = 0
              /\ status' = "empty" /\ output' = NoTensor
           \/ /\ Valid(r) /\ r.batch = 1
              /\ status' = "ok"
              /\ output' = ResizeBilinearFunctor(Basis(r.inH, r.inW, r.at),
                               r.inH, r.inW, r.outH, r.outW,
                               HeightScale(r), WidthScale(r), r.halfPixelCenters)

(* ResizeBilinearOpGrad::Compute: validate, then the functor picks the    *)
(* scaler and ResizeGradCore maps the gradient of the resized image (a    *)
(* unit at r.at) back onto the original image.  There is no early return  *)
(* on an empty output: an empty batch runs no iteration and produces an   *)
(* empty tensor, so only non-empty batches are enumerated.                *)
ResizeBilinearOpGradCompute ==
    \E r \in Requests :
        /\ status = "none"
        /\ r.op = "grad"
        /\ r.batch = 1
        /\ r.at \in Pos(r.outH, r.outW)
        /\ request' = r
        /\ \/ /\ ~Valid(r)
              /\ status' = "invalid" /\ output' = NoTensor
           \/ /\ Valid(r)
              /\ status' = "ok"
              /\ output' = ResizeGradCore(Basis(r.outH, r.outW, r.at),
                               r.inH, r.inW, r.outH, r.outW,
                               HeightScale(r), WidthScale(r), r.halfPixelCenters)

Next == ResizeBilinearOpCompute \/ ResizeBilinearOpGradCompute

Spec == Init /\ [][Next]_vars

-----------------------------------------------------------------------------
(* Properties.                                                             *)

\* The output of a call has the shape the op allocates for it.
OutputShape(r) ==
    IF r.op = "resize" THEN Pos(r.outH, r.outW) ELSE Pos(r.inH, r.inW)

TypeOK ==
    /\ request \in Requests
    /\ status \in {"none", "invalid", "empty", "ok"}
    /\ output \in [IF status = "ok" THEN OutputShape(request) ELSE {} -> Int]

(* The gradient kernel is the exact adjoint of the resize kernel: the     *)
(* gradient that ResizeGradCore sends from resized pixel p back to        *)
(* original pixel q is the weight with which q reaches p in the forward   *)
(* op (its no-op shortcut included), for every size, scale and scaler.   *)
(* Over all calls this compares the two kernels on every pair (q, p).     *)
GradIsAdjointOfResize ==
    LET r == request
        Resize(q) == ResizeBilinearFunctor(Basis(r.inH, r.inW, q), r.inH, r.inW,
                        r.outH, r.outW, HeightScale(r), WidthScale(r), r.halfPixelCenters)
    IN  status = "ok" /\ r.op = "grad" =>
            output = [q \in Pos(r.inH, r.inW) |-> Resize(q)[r.at]]

(* The neighbour indices both kernels use stay inside the source image,   *)
(* although the top index is only clamped from below: 0 <= top <= bottom  *)
(* <= size - 1 for every output row and column of a valid request.        *)
InterpolationIndicesInRange ==
    LET r == request
        Ok(q, size) == 0 <= TopIndex(q) /\ TopIndex(q) <= BottomIndex(q, size)
                       /\ BottomIndex(q, size) <= size - 1
    IN  Valid(r) =>
            /\ \A y \in 0..r.outH-1 : Ok(Scaler(y, HeightScale(r), r.halfPixelCenters), r.inH)
            /\ \A x \in 0..r.outW-1 : Ok(Scaler(x, WidthScale(r), r.halfPixelCenters), r.inW)

=============================================================================
