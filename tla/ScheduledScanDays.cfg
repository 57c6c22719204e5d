\* One scan at a time, in every configuration and with fair steps: the session
\* is moments 1 and 2; at moment 0 UTC still has the date of the day before.
CONSTANTS
  NoTicket = NoTicket
  Scanners = {s1}
  Tickets = {t1, t2}
  Amount <- MixedAmount
  MaxTime = 2
  DayLength = 3
  UtcLag = 1
  OpenTimes = {1, 2}
  Cooldown = 1
  MaxDailyBuy = 2
  Configs <- AllConfigs
  OneDatabase = TRUE
SPECIFICATION FairSpec
INVARIANTS CooldownKept DailyBuyKept BlocksHaltScans
PROPERTY ToldEventually
CHECK_DEADLOCK FALSE
