SPECIFICATION Spec
CONSTANTS
    Users = {"u"}
    Files = {"f"}
    Types = {"CHAT", "SEND", "GET", "RESEND"}
    MaxClients = 2
    Pids = {1, 2}
    MaxSize = 2
    Limit = 1
    ServerCount = 2
INVARIANTS
    TypeOK
    TalksWhereItShould
    WalkIsSafe
    OwnServer
    OneOwner
PROPERTIES
    Tiled
    ShowsTheLatest
    InputComesBack
    ModesAreKept
    SearchIsRight
    RunWhole
    SettingsSurvive
    KeepsAsking
CHECK_DEADLOCK FALSE
