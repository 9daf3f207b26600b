SPECIFICATION PartsSpec
CONSTANTS
    MECHANISM_POS_OPEN = 580
    MECHANISM_POS_CLOSED = 40
    MECHANISM_POS_START = 200
    PositionSize = 65536
    Tracked <- SmallTracked
    StoredValues <- SmallValues
    EepromLength = 5
    FAN_STARTUP_TIME_MS = 1
    FAN_STALL_WAIT_TIME_MS = 2
    ClockSize = 5
    MaxLate = 2
    Curves <- FanCurves
    Temperatures = {0, 305}
    RpmNoise <- Noise
    HEARTBEAT_EXPECTED_MS = 2
    BeatClockSize = 5
    BeatMaxLate = 2
    MinResults = {0, 1, 2}
    Loads = {0, 2, 600}
    PAYLOAD_SIZE_MAX = 304
    Requests <- AnyRequests
    CountValues = 256
    dev_tracked_num = 254
    Matches <- Positions
    Bodies <- FramedBodies
INVARIANTS RoundTrip ZeroOnlyDelimits SlicesAbut LoopSendsSlices SendsWhatItAnnounces AnnouncedInBounds FirstMatch DoorStaysInTravel DoorReportIsTrue NeverOvercharged
PROPERTIES Returns Terminates DoorObeys KeepsSettings FanTimersHold FanFollowsCurve BeatOkIsAlive BeatSettles ChargesInCycles
