SPECIFICATION Spec
CONSTANTS
    HalThreads = {h1}
    LockingCalls <- CallsOnDevice
    MaxCalls = 4
    MaxCallbacks = 1
INVARIANT Unblocked
