SPECIFICATION FairSpec
CONSTANTS
    c1 = c1
    c2 = c2
    Nil = Nil
    Pid <- OneChildOnly
    SaveParams <- TwoParams
    Faults = {"kill", "fork", "lastslot"}
    MaxVer = 1
    MaxTime = 0
    MaxSeed = 1
    MaxFile = 3
    MaxFault = 1
CHECK_DEADLOCK FALSE
PROPERTY BgsaveEnds
