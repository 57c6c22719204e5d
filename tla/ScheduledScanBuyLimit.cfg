\* Two tickets wait for the user, who approves both.
CONSTANTS
  NoTicket = NoTicket
  Scanners = {s1}
  Tickets = {t1, t2}
  Amount <- MCAmount
  MaxTime = 1
  DayLength = 2
  UtcLag = 0
  OpenTimes = {1}
  Cooldown = 1
  MaxDailyBuy = 3
  Configs <- GuardConfigs
  OneDatabase = TRUE
SPECIFICATION Spec
INVARIANT DailyBuyWithinLimit
CHECK_DEADLOCK FALSE
