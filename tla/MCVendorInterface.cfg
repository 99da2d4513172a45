SPECIFICATION FairSpec
CONSTANTS
    Clients = {c1, c2}
    VendorCommands = {"sco", "lpmoff"}
    MaxPackets = 2
    MaxFw = 2
CHECK_DEADLOCK FALSE
INVARIANTS  InternalStaysInternal
PROPERTIES SleepsQuietly Answered
