\* Two processes whose runs may overlap but are never entered in the same second,
\* and a report at any time.
CONSTANTS
  None = None
  Scanners = {s1, s2}
  MaxRuns = 2
  MaxSecond = 1
  SameSecond = FALSE
  MaxAnalyses = 1
CONSTRAINT OneThingAtATime
SPECIFICATION StatusSpec
INVARIANTS RunIsWhole ReportIsFresh
PROPERTY DecisionStands
CHECK_DEADLOCK FALSE
