\* A ticket is executed some time after it was proposed.
CONSTANTS
  NoTicket = NoTicket
  Scanners = {s1}
  Tickets = {t1, t2}
  Amount <- MCAmount
  MaxTime = 3
  DayLength = 4
  UtcLag = 0
  OpenTimes = {0, 1, 2, 3}
  Cooldown = 2
  MaxDailyBuy = 9
  Configs <- GuardConfigs
  OneDatabase = TRUE
SPECIFICATION Spec
INVARIANT CooldownFromExecution
CHECK_DEADLOCK FALSE
