SPECIFICATION FairSyncSpec
CONSTANTS
    Length <- Lengths
    Buf = 3
    Room = 2
    MaxWrites = 4
    MaxFaults = 3
CHECK_DEADLOCK FALSE
INVARIANT OwnDataUntilReplaced
PROPERTIES  BlockedSyncEnds
