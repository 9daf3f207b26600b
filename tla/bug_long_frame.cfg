SPECIFICATION FramingSpec
CONSTANTS
    PAYLOAD_SIZE_MAX = 512
    Bodies <- OverlongBodies
INVARIANT RoundTrip
\* a run ends when its frame is decoded
CHECK_DEADLOCK FALSE
