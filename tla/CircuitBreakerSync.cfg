\* The loss limit is reached by an event that the fill sync records.
CONSTANTS
  f1 = f1  f2 = f2  f3 = f3  f4 = f4
  today = today  yesterday = yesterday
  NoFill = NoFill
  Fills <- MCFills
  SyncFills = {f2}
  Keys = {today, yesterday}
  Key <- MCKey
  Pnl <- MCPnl
  Limit = 5
  Recorders = {r1, r2}
  MaxRows = 2
  Instants = {2, 3, 4, 10, 11, 12}
  Offsets = {0, 2}
  Kst = 2
  DaySeconds = 4
  MaxEvents = 2
  Realized <- MCRealized
SPECIFICATION MCSpec
INVARIANT SyncedBreachIsCaught
CHECK_DEADLOCK FALSE
