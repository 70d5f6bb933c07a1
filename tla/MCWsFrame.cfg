SPECIFICATION FrameSpec
CONSTANTS
    PayloadLens <- BoundaryLens
    Types = {0, 1, 2, 8, 9, 10}
INVARIANTS
    ReadAsWritten
    GeometryAgrees
\* A behaviour ends when the frame was decoded.
CHECK_DEADLOCK FALSE
