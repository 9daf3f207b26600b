SPECIFICATION SearchSpec
CONSTANTS
    CountValues = 256
    dev_tracked_num = 255
    Matches <- Positions
PROPERTIES Terminates
CHECK_DEADLOCK FALSE
