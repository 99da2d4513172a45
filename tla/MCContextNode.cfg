SPECIFICATION FairSpec
CONSTANTS
    Threads = {t1, t2, t3}
    Nodes = {n1}
    FileSystems <- MCFileSystems
    MaxMaps = 3
    MaxChanges = 1
    MaxCalls = 1
CHECK_DEADLOCK FALSE
INVARIANTS NodeInv
PROPERTIES SleepersWake
