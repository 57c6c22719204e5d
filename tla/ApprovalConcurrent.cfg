\* Two handlers at once, one crash, one ticket the risk review turned down.
CONSTANTS
  NoMessage = NoMessage
  Tickets = {t1, t2}
  RiskApproved = {t1}
  Orderable = {t1, t2}
  Messages = {m1, m2, m3}
  Processes = {p1, p2}
  Roles <- LiveRoles
  MaxCrashes = 1
SPECIFICATION Spec
SYMMETRY Symmetry
INVARIANTS TypeOK SubmittedWasOrdered TwoStepApproval AuditTrail
CHECK_DEADLOCK FALSE
