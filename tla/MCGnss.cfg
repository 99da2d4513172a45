SPECIFICATION FairSpec
CONSTANTS
    Clients = {1, 2}
    Capabilities = {1, 2}
    Years = {1}
    Implementations <- MCImplementations
    MaxCalls <- MCMaxCalls
    MaxCallbacks <- MCMaxCallbacks
CHECK_DEADLOCK FALSE
INVARIANTS PointersInv ClientServed
 
