\* A ticket is analysed twice on a day.
CONSTANTS
  NoTicket = NoTicket
  t1 = t1  t2 = t2
  Tickets = {t1}
  Executed = {t1}
  Symbol <- MCSymbol
  Fills <- MCFills
  Analyzers = {a1}
  Exporters = {x1}
  Notes = {}
  MaxAnalyses = 2
  LastDay = 0
  MaxDeaths = 0
  a = a  b = b  c = c
  Pnls <- MCPnls
  Texts = {a, b, c}
  Blank = Blank
  Unreadable = Unreadable
  MaxLessons = 2
  MaxRows = 3
  Limit = 2
SPECIFICATION MCSpec
INVARIANT TicketsCountedOnce
CHECK_DEADLOCK FALSE
