SPECIFICATION FairShutdown
CONSTANTS
  t1 = t1
  t2 = t2
  Turns = {t1, t2}
  Levels = 3
  MaxSignals = 3
INVARIANT StopModesMonotone
PROPERTIES LateEscalationHonoured 
CHECK_DEADLOCK FALSE
