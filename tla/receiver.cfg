SPECIFICATION Spec
CONSTANTS
    PAYLOAD_SIZE_MAX = 2
    Alphabet = {0, 255}
    MaxBytes = 48
INVARIANTS IdTerminated PayloadArrived StoresInside
\* the bound on the bytes received ends a run
CHECK_DEADLOCK FALSE
