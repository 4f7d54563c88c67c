SPECIFICATION Spec
CONSTANTS
    Users = {"u"}
    Files = {"f"}
    Types = {"CHAT", "SEND"}
    MaxClients = 2
    Pairs <- SomePairs
    Length = 4
    Block = 2
    MaxRead = 2
    Senders = {"x", "y"}
    Nick = "me"
    Channel = "#c"
    Traffics <- EachTraffic
    Bucket <- OneBucket
    AutoMask <- HostMask
    Masks <- SomeMasks
    Matching <- SomeMatching
    IgnoreTypes = {"MSGS", "CTCPS"}
    FloodUsers = 1
    FloodAfter <- Ones
    FloodRate <- Ones
    OtherCount <- OtherTwos
    OtherRate <- OtherOnes
    Aged = 2
    MaxCount = 2
    CtcpDelay = 2
    IgnoreTime = 1
    PubfloodTime = 1
    Protection = TRUE
    BufferSize = 2
    LineSize = 3
    MaxBytes = 3
    Wanted <- OneWanted
    Others <- SomeOthers
    Full = 2
    GiveUp = 4
    MaxWire = 1
    MaxPrompts = 1
INVARIANTS
    TypeOK
    NoByteLost
    KnowsItsNick
PROPERTIES
    WorkEnds
    OnlyFloodersIgnored
    AutoIgnoreEnds
CHECK_DEADLOCK FALSE
