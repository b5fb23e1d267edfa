SPECIFICATION Spec
CONSTANTS
    c1 = c1
    c2 = c2
    Nil = Nil
    Pid <- Children
    SaveParams <- TwoParams
    Faults = {"crash", "flush", "fork", "kill", "rename"}
    MaxVer = 1
    MaxTime = 1
    MaxSeed = 1
    MaxFile = 4
    MaxFault = 1
CHECK_DEADLOCK FALSE
SYMMETRY PidSymmetry
CONSTRAINT NoClash
INVARIANTS OneChild DumpWholeUnlessShared
PROPERTY ForegroundSaveIsExact
