\* Every image and output size up to 3x3, every combination of
\* align_corners and half_pixel_centers, empty and non-empty batches, and a
\* unit input at every position.
CONSTANT MaxSize = 3

SPECIFICATION Spec

INVARIANT TypeOK
INVARIANT GradIsAdjointOfResize
INVARIANT InterpolationIndicesInRange

\* Each behaviour is one stateless kernel call, after which nothing is
\* enabled.
CHECK_DEADLOCK FALSE
