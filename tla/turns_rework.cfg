SPECIFICATION Spec
CONSTANTS
  t1 = t1
  t2 = t2
  p1 = p1
  NoTurn = NoTurn
  Turns = {t1, t2}
  Stops = {}
  Procs = {p1}
  BurstWindow = 1
  Lease = 2
  Poll = 1
  MaxLag = 0
  MaxCrashes = 2
  MaxShutdowns = 0
  Stalls = FALSE
  Notices = FALSE
INVARIANT ActedUnderOneKey
