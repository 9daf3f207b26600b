SPECIFICATION Spec
CONSTANTS
    PAYLOAD_SIZE_MAX = 120
    Regular <- NameQuery
    Occasional <- Nothing
    MaxOccasional = 0
    MaxFaults = 1
PROPERTY Resynchronises
