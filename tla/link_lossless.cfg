SPECIFICATION Spec
CONSTANTS
    PAYLOAD_SIZE_MAX = 3
    Messages <- AllMessages
    MaxSent = 3
INVARIANT CleanBetweenFrames
PROPERTY IsReliableChannel
\* the sender stops after MaxSent messages
CHECK_DEADLOCK FALSE
