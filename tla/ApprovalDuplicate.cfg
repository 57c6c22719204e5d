\* Two final approvals of one ticket overlap; nothing crashes.
CONSTANTS
  NoMessage = NoMessage
  Tickets = {t1}
  RiskApproved = {t1}
  Orderable = {t1}
  Messages = {m1, m2, m3}
  Processes = {p1, p2}
  Roles <- FinalRoles
  MaxCrashes = 0
SPECIFICATION Spec
INVARIANT NoDuplicateOrder
CHECK_DEADLOCK FALSE
