\* An approval and a rejection of one ticket overlap; nothing crashes.
CONSTANTS
  NoMessage = NoMessage
  Tickets = {t1}
  RiskApproved = {t1}
  Orderable = {t1}
  Messages = {m1, m2}
  Processes = {p1, p2}
  Roles <- LiveRoles
  MaxCrashes = 0
SPECIFICATION Spec
INVARIANT RejectionStands
CHECK_DEADLOCK FALSE
