CONSTANTS
    Wanted = {1}
    Waits <- LateAndLater
    Counts <- OnceOrForever
    Commands = {"delete", "delete all"}
    MaxTimers = 3
    MaxRef = 3
    MaxTime = 2
    Earliest <- MinusTwo
SPECIFICATION FairSpec
INVARIANTS
    TypeOK
    Sorted
    OnTime
PROPERTIES
    EarliestFirst
    DueTimersRun
    PassEnds
CHECK_DEADLOCK FALSE
