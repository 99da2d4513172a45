SPECIFICATION FairSpec
CONSTANTS
    Mutators = {m1}
    Readers = {r1}
    Waiters = {w1}
    Chars <- MCChars
    Values <- MCValues
    MaxLen = 2
    CtrMod = 4
    MaxUpdates = 3
INVARIANTS SeqLockInv
PROPERTIES ReturnsWhole NoSleeperLost
