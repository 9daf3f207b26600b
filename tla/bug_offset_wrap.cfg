SPECIFICATION Spec
CONSTANTS
    IntBits = 16
    PAYLOAD_SIZE_MAX = 44
    L1 = L1
    L2 = L2
    NoLink = NoLink
    Interfaces <- TwoLinks
    Mute = {L2}
    Arrays <- DeviceArrays
    Inbound <- DeviceInbound
    Updates <- DeviceUpdates
    Functions <- DeviceFunctions
    Reports <- DeviceReports
    InitialMemory <- DeviceMemory
    Untracked <- DeviceUntracked
    Uuids <- DeviceUuids
    MaxIdentified = 1
    Garbage <- StackGarbage
PROPERTIES OnlyAddressedBytes
