SPECIFICATION FairSpec
CONSTANTS
    Tools = {"t1", "t2"}
    Names = {"ver", "ro", "a", "b"}
    BadNames = {"."}
    ReadOnly = {"ver", "ro"}
    PersistNames = {"a", "b"}
    VersionName = "ver"
    Values = {"on", "off", "long"}
    LongValues = {"long"}
    Truncated <- MCTruncated
    CommandLines <- MCCommandLines
    FileLines <- MCFileLines
    Areas <- MCAreas
    Stores <- MCStores
    MaxCommands = 2
CHECK_DEADLOCK FALSE
PROPERTIES ExitTells StorageKept ReadOnlyKept
