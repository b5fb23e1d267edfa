SPECIFICATION FairSpec
CONSTANTS
    c1 = c1
    c2 = c2
    c3 = c3
    Client <- TwoClients
    Server = server
    Nil = Nil
    Fds = {0, 1, 2}
    SlaveOf = TRUE
    CronDelay = 1
    MaxReply = 1
    Slow = 0
CHECK_DEADLOCK FALSE
INVARIANTS EventsMatchClients ListsMatchClients MasterIsAlive
PROPERTIES HangsBehindAnother ImplementsLoop ReadersAreServed
