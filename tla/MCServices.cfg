SPECIFICATION Spec
CONSTANTS
    CameraIds = {0, 1, 2, 3}
    NumCameras = 2
    ParameterNumbers <- MCNumbers
    ParameterKeys <- MCKeys
    ParameterValues <- MCValues
    ParameterTexts <- MCTexts
    CameraCalls = 4
    DisplayIds = {0, 1, 4, 9}
    Calibrations <- MCCalibrations
    DisplayCalls = 3
    DisplayCrashes = 2
    AddressTexts <- MCAddresses
    StackBytes <- MCStackBytes
    HelperCalls = 3
    CreatedFiles = 2
    BootLines = {"G920", "G925", "G928", "N920", "X999"}
    BootVariants = {"F", "I", "K", "L", "P", "S", "T", "W8", "C", "G", "8", "R4"}
    BuiltFor <- MCBuiltFor
    SimSlots = 2
    LibArgs = {0, 13}
    RilCommands = 3
    RilDeaths = 2
CHECK_DEADLOCK FALSE
INVARIANTS  DisplayInv OneSource   CommandsDone
 
