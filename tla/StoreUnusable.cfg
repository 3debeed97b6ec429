SPECIFICATION Spec
CONSTANTS
  MaxSessions = 2
  MaxMessages = 2
  MaxCrashes = 1
  SlowArchive = FALSE
PROPERTIES ResolvedIsUsable
CHECK_DEADLOCK FALSE
