SPECIFICATION FairSpec
CONSTANTS
    f1 = f1
    f2 = f2
    h1 = h1
    Fds <- TwoFds
    Data <- OneHandler
    Delays = {3}
    NewDelays = {0, 3}
    FlagSets <- MainFlags
    Slow = 1
    MaxEvents = 2
    MaxTimers = 2
CHECK_DEADLOCK FALSE
INVARIANTS NoStaleReadiness  FewSkips
PROPERTIES NewTimersWait ReadyIsServed
