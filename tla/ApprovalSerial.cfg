\* One handler at a time, with fair steps, one ticket whose order cannot be built.
CONSTANTS
  NoMessage = NoMessage
  Tickets = {t1, t2}
  RiskApproved = {t1, t2}
  Orderable = {t1}
  Messages = {m1, m2, m3}
  Processes = {p1}
  Roles <- SerialRoles
  MaxCrashes = 1
SPECIFICATION FairSpec
INVARIANT OneOrderUnlessLost
PROPERTIES ImplementsLifecycle AuditedEventually
CHECK_DEADLOCK FALSE
