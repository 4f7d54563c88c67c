CONSTANTS
    Wanted <- A
    Others <- Tried
    Full = 2
    GiveUp = 4
    MaxWire = 1
    MaxPrompts = 1
SPECIFICATION Spec
INVARIANTS
    NoNickIsHarmless
CHECK_DEADLOCK FALSE
