SPECIFICATION FairSpec
CONSTANTS
    k1 = k1
    k2 = k2
    k3 = k3
    k4 = k4
    k5 = k5
    k6 = k6
    v1 = v1
    v2 = v2
    Nil = Nil
    Key <- FiveKeys
    Val <- TwoVals
    Hash <- HashOf
    InitialSize = 2
    Width = 9
    MinSlots = 2
    MinFill = 30
CHECK_DEADLOCK FALSE
INVARIANTS TypeOK WellPlaced UsedIsCount WalkAllButLastSlot NextIsAlive
PROPERTIES OnlyDeletesMakeSparse ImplementsMap RandomKeyEnds
