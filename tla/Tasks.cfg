CONSTANTS
  t1 = t1
  s1 = s1
  s2 = s2
  Tasks = {t1}
  Sessions = {s1, s2}
  Owner <- MCOwner
SPECIFICATION FairSpec
INVARIANTS EndReportedOnce KilledByStopIsQuiet
PROPERTIES LimitKillsProcess LimitIsReported TrackingEnds
CHECK_DEADLOCK FALSE
