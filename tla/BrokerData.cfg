\* Every candidate against every account; and every quote and balance, with histories
\* of up to two rows, on days around a leap day.
CONSTANTS
  NoTicket = NoTicket
  NoAccount = NoAccount
  NoReview = NoReview
  Missing = Missing
  NoNumber = NoNumber
  Candidates <- MCCandidates
  Accounts <- MCAccounts
  AllowedSymbols = {"498270"}
  MaxOrderAmount = 10
  Symbols = {"498270", "005930"}
  Prices <- MCPrices
  Sums <- MCSums
  Transfers <- MCTransfers
  MaxTransfers = 2
  Todays <- MCTodays
  DefaultPrice = 1
SPECIFICATION BrokerSpec
INVARIANTS WithinLimits ReducesLeast ApprovedIsBacked CoversOneYear
CHECK_DEADLOCK FALSE
