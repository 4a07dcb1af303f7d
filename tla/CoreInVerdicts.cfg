CONSTANTS
    admin = admin
    query = query
    normal = normal
    other = other
    notag = notag
    none = none
    Addr <- MCAddr
    AdminMAC = admin
    QueryMAC = query
    NormalMAC = normal
    FilterDepth = 2
    PktBytes = 12
    ItemBytes = 7
    Tag <- MCTag
    NoTag = notag
    None = none
    Hash <- MCHash
    BootFilters <- VerdictFilters
    Packets <- VerdictPackets
    HashLatency = 3
    MaxPkts = 1
SPECIFICATION Spec
INVARIANTS
    ScanSound
PROPERTIES
    ImplementsPacketFilter
    PacketFinished
