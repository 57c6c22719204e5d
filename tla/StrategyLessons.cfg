\* One analyzer and one exporter, the user, and the rest of the system; and digests
\* of up to three analyses of a day with up to two of three lessons, of which two fit.
CONSTANTS
  NoTicket = NoTicket
  t1 = t1  t2 = t2
  Tickets = {t1, t2}
  Executed = {t1}
  Symbol <- MCSymbol
  Fills <- MCFills
  Analyzers = {a1}
  Exporters = {x1}
  Notes = {n1}
  MaxAnalyses = 2
  LastDay = 1
  MaxDeaths = 1
  a = a  b = b  c = c
  Pnls <- MCPnls
  Texts = {a, b, c}
  Blank = Blank
  Unreadable = Unreadable
  MaxLessons = 2
  MaxRows = 3
  Limit = 2
SPECIFICATION MCSpec
INVARIANTS DigestAddsUp AnalysesAdvance FileIsWhole HealsInTwo PicksAreRight
CHECK_DEADLOCK FALSE
