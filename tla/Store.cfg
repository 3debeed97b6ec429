SPECIFICATION FairSpec
CONSTANTS
  MaxSessions = 2
  MaxMessages = 3
  MaxCrashes = 2
  SlowArchive = FALSE
INVARIANTS TypeOK
PROPERTIES SessionKept RestartLosesOnlyTorn ResolveReturns ArchiveResumes
CHECK_DEADLOCK FALSE
