\* An order is executed although the loss limit of the day is reached.
CONSTANTS
  NoTicket = NoTicket
  NoFill = NoFill
  Symbol = symbol
  other = other
  f1 = f1
  f2 = f2
  Scanners = {s1}
  Tickets = {t1}
  Amount <- MCAmount
  MaxTime = 1
  DayLength = 1
  UtcLag = 0
  OpenTimes = {0, 1}
  Cooldown = 0
  MaxDailyBuy = 3
  Configs <- MCConfigs
  OneDatabase = TRUE
  Fills = {f1, f2}
  SyncFills = {f1}
  Keys <- MCKeys
  Key <- MCKey
  Pnl <- MCPnl
  Limit = 5
  Recorders = {r1}
  MaxRows = 1
SPECIFICATION DaySpec
INVARIANT NoOrderBeyondLossLimit
CHECK_DEADLOCK FALSE
