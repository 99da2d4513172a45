SPECIFICATION FairSpec
CONSTANTS
    HalThreads = {h1, h2}
    LockingCalls <- CallsOnDevice
    MaxCalls = 5
    MaxCallbacks = 2
CHECK_DEADLOCK FALSE
INVARIANTS OwnershipInv AtMostOneSlips
PROPERTIES RegisteredKept Progress
