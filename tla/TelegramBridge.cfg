\* Three messages, batches of one, a bridge that dies twice.
CONSTANTS
  Tickets = {t1, t2}
  Mode = "paper"
  Batch = 1
  MaxUpdates = 3
  MaxCrashes = 2
SPECIFICATION FairSpec
INVARIANTS NothingForgotten FirstCommandDecides
PROPERTIES DecidedEventually ImplementsLifecycle
CHECK_DEADLOCK FALSE
