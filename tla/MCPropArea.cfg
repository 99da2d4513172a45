SPECIFICATION FairSpec
CONSTANTS
    Mutators = {m1}
    Readers = {r1}
    Names <- MCNames
    Values <- MCValues
    DataSize = 380
    BtSize = 20
    InfoSize = 96
    ValueMax = 92
    MaxOps = 3
CHECK_DEADLOCK FALSE
PROPERTIES AreaKept CallsEnd ImplementsMap
