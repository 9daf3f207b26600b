SPECIFICATION Spec
CONSTANTS
    PAYLOAD_SIZE_MAX = 2
    Alphabet = {0, 2, 255}
    MaxBytes = 48
INVARIANTS StoreIsInside
CHECK_DEADLOCK FALSE
