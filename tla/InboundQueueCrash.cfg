CONSTANTS
  NoMsg = NoMsg m1 = m1 m2 = m2 m3 = m3
  Messages = {m1, m2, m3}
  Retired = {m1}
  Capacity = 2
  MaxCrashes = 2
  CrashInRewrite = FALSE
  IoErrors = FALSE
  EarlyArrivals = FALSE
  Shutdowns = TRUE
SPECIFICATION Spec
 
PROPERTY ImplementsInbox
CHECK_DEADLOCK FALSE
