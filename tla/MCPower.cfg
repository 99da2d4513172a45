SPECIFICATION FairSpec
CONSTANTS
    Delayed = {d1, d2}
    KeyThreads = {k1}
    NGroups = 3
    Sections <- MCSections
    Selectable = {"POWER_SAVE"}
    ModuleValues = {TRUE, FALSE}
    MaxCalls = 4
    MaxFailures = 1
CHECK_DEADLOCK FALSE
INVARIANTS AppliedWhole KeysKeptUnlessRaced
PROPERTIES AwakeDevice
