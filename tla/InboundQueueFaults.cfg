CONSTANTS
  NoMsg = NoMsg m1 = m1 m2 = m2 m3 = m3
  Messages = {m1, m2, m3}
  Retired = {}
  Capacity = 1
  MaxCrashes = 0
  CrashInRewrite = FALSE
  IoErrors = TRUE
  EarlyArrivals = TRUE
  Shutdowns = FALSE
SPECIFICATION FairSpec
PROPERTY AcceptedIsFinished
CHECK_DEADLOCK FALSE
