SPECIFICATION Spec
CONSTANTS
    c1 = c1
    c2 = c2
    Nil = Nil
    Pid <- OneChildOnly
    SaveParams <- TwoParams
    Faults = {"crash", "kill", "fork", "flush", "rename"}
    MaxVer = 2
    MaxTime = 1
    MaxSeed = 1
    MaxFile = 3
    MaxFault = 1
CHECK_DEADLOCK FALSE
INVARIANTS TypeOK NeverAhead
PROPERTIES DumpRegressesOnlyDuringBgsave 
