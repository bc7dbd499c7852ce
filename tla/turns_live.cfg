SPECIFICATION FairSpec
CONSTANTS
  t1 = t1
  t2 = t2
  p1 = p1
  NoTurn = NoTurn
  Turns = {t1, t2}
  Stops = {}
  Procs = {p1}
  BurstWindow = 1
  Lease = 3
  Poll = 1
  MaxLag = 1
  MaxCrashes = 1
  MaxShutdowns = 1
  Stalls = FALSE
  Notices = TRUE
INVARIANT NoSilentDrop
PROPERTY WatchedIsServed
