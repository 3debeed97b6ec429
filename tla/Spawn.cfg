CONSTANTS
    Root = Root
    Children = {1, 2}
    RunMode = {1}
    Timed = {2}
    MaySpawn = {Root, 1}
    MayKill = {1}
    MayYield = {Root}
    MaxTurns <- MCTurns
    Timers = {y1}
    Sweeper = Sweeper
    None = None
SPECIFICATION FairSpec
INVARIANTS WaitingIsGuarded ReclaimedIsAnnounced
CHECK_DEADLOCK FALSE
PROPERTIES YieldEnds OrphansAreReclaimed
