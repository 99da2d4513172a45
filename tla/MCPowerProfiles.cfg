SPECIFICATION Spec
CONSTANTS
    ProfileXmls <- MCXmls
    KernelGovernors = {"interactive", "performance"}
    ProfileHints <- MCHintData
    BoostDurations <- MCDurations
    HintCalls = 3
CHECK_DEADLOCK FALSE
 
PROPERTIES SettingsReach
