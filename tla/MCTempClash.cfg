SPECIFICATION Spec
CONSTANTS
    c1 = c1
    c2 = c2
    Nil = Nil
    Pid <- OneChildOnly
    SaveParams <- TwoParams
    Faults = {}
    MaxVer = 1
    MaxTime = 0
    MaxSeed = 1
    MaxFile = 3
    MaxFault = 0
CHECK_DEADLOCK FALSE
INVARIANT DumpIsWhole
