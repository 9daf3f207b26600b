SPECIFICATION DeviceSpec
CONSTANTS
    IntBits = 32
    PAYLOAD_SIZE_MAX = 4
    L1 = L1
    L2 = L2
    NoLink = NoLink
    Interfaces <- TwoLinks
    Mute = {}
    Arrays <- OneArray
    Inbound <- Requests
    Updates <- Nothing
    Functions <- NoFunctions
    Reports <- DeviceReports
    InitialMemory <- DeviceMemory
    Untracked <- Nothing
    Uuids <- Nothing
    MaxIdentified = 0
    Garbage <- NoGarbage
    MaxPackets <- TwoAndOne
INVARIANTS ServedOnceInOrder
PROPERTIES ImplementsElectricUI DefaultFollowsPackets
