CONSTANTS
    Names = {n1, n2}
    Windows = {w1, w2}
    MaxTimers = 1
    Events = {"JOIN", "004", "464", "KILL", "463", "whois", "add", "windows"}
SYMMETRY Symmetry
SPECIFICATION Spec
INVARIANTS
    TypeOK
    ConnectedIsOpen
    WindowsShowOpenServers
    OneServerToRejoin
PROPERTIES
    SwitchKeepsConnection
