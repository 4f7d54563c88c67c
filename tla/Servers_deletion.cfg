CONSTANTS
    Names = {n1, n2, n3}
    Windows = {w1, w2}
    MaxTimers = 1
    Events = {"001", "465", "delete", "unreachable", "windows"}
SYMMETRY Symmetry
SPECIFICATION Spec
PROPERTIES
    DeletionKeepsServers
