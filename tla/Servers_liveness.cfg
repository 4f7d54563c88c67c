CONSTANTS
    Names = {n1, n2}
    Windows = {w1}
    MaxTimers = 1
    Events = {"464", "KILL"}
SPECIFICATION FairSpec
PROPERTIES
    Reconnects
