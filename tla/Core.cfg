CONSTANTS
    admin = admin
    query = query
    normal = normal
    other = other
    notag = notag
    none = none
    Addr <- MCAddr
    AdminMAC = admin
    QueryMAC = query
    NormalMAC = normal
    ReplyMAC = other
    WordSum <- MCWordSum
    NoFrame <- ZeroFrame
    FilterDepth = 2
    PktBytes = 128
    ItemBytes = 2
    Tag <- MCTag
    NoTag = notag
    None = none
    Hash <- MCHash
    BootFilters <- Boot
    Packets <- WholePackets
    HashLatency = 3
    MaxPkts = 3
SPECIFICATION CoreSpec
INVARIANTS
    OutTypeOK
    AnswerTaken
    LengthsAgree
    TypeOK
    HashFresh
    TakenOnce
    CountersNested
PROPERTIES
    ImplementsResponder
    AnswerSent
    ImplementsPacketFilter
    PacketFinished
