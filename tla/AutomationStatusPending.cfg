\* A ticket waits for approval while the report is made.
CONSTANTS
  None = None
  Scanners = {s1}
  MaxRuns = 2
  MaxSecond = 1
  SameSecond = FALSE
  MaxAnalyses = 1
SPECIFICATION StatusSpec
INVARIANT WaitingIsShown
CHECK_DEADLOCK FALSE
