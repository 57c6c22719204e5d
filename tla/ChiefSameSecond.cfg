\* Two runs that are entered in one second.
CONSTANTS
  None = None
  Scanners = {s1, s2}
  MaxRuns = 2
  MaxSecond = 1
  SameSecond = TRUE
SPECIFICATION Spec
INVARIANT EveryRunSaved
CHECK_DEADLOCK FALSE
