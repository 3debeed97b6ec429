CONSTANTS
    Messages = {m1, m2, m3}
    Announces = {a1}
    Jobs = {t1}
    Notices = {}
    Priority <- MCPriority
    Resumer = Resumer
    MayStop = TRUE
    MaxPushes = 2
    MaxRetries = 1
    None = None
SPECIFICATION FairSpec
INVARIANTS TypeOK QueueOrdered  BusyHasTurn
CHECK_DEADLOCK FALSE
PROPERTIES QueuedWhileBusyIsTaken
