SPECIFICATION Spec
CONSTANTS
    SatelliteNumbers <- MCSatellites
    ListLengths <- MCLengths
    FlagWords <- MCFlags
    ClockTimes <- MCTimes
    LocationBatches <- MCBatches
    BatchLimit = 1
    CountLimit = 3
    FeatureThreads = {"t", "u"}
    FeatureFiles <- MCDocuments
    FeatureTags = {"a", "b"}
    FeatureDefaults = {"0", "no"}
    VectorNames = {"v", "w"}
    VectorItems = {"a", "b"}
    VectorSize = 3
    ItemFrees = 2
    StreamReads = {1, 3, 4}
    StreamBytes = 40
    LineBuffers = {0, 1, 2, 65, 100}
    LineLength = 300
    ArraySizes = {1, 2, 5}
    ContextLines <- MCContextLines
    PropertyNames <- MCNames
    ContextFiles <- MCContextFiles
    LinesRead = 3
CHECK_DEADLOCK FALSE
INVARIANTS     BuffersInv
 
