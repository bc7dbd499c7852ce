SPECIFICATION FairSpec
CONSTANTS
  r1 = r1
  w1 = w1
  p1 = p1
  p2 = p2
  None = None
  Reminders = {r1}
  Workers = {w1}
  Refreshers = {p1, p2}
  Attempts = 2
  RecoveryAttempts = 2
  MaxOutages = 3
  MaxDrops = 1
  MaxEvents = 1
INVARIANT TypeOK
INVARIANT ToldOnce
INVARIANT SummarizedIsTold
INVARIANT MissedIsRemembered
PROPERTY SameOwner
PROPERTY EndsTold
CHECK_DEADLOCK FALSE
