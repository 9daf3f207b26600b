SPECIFICATION Spec
CONSTANTS
    PAYLOAD_SIZE_MAX = 3
    Regular <- Heartbeat
    Occasional <- UserWrites
    MaxOccasional = 2
    MaxFaults = 2
INVARIANTS PacketsAreGenuine WholeFramesAreHeard
PROPERTY Resynchronises
