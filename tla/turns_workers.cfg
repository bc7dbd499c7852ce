SPECIFICATION Spec
CONSTANTS
  t1 = t1
  t2 = t2
  s1 = s1
  p1 = p1
  p2 = p2
  NoTurn = NoTurn
  Turns = {t1, t2}
  Stops = {s1}
  Procs = {p1, p2}
  BurstWindow = 1
  Lease = 2
  Poll = 1
  MaxLag = 0
  MaxCrashes = 1
  MaxShutdowns = 0
  Stalls = FALSE
  Notices = FALSE
SYMMETRY Symmetry
INVARIANTS TypeOK SealedNotSuperseded OneWorker AnsweredOnce
PROPERTIES ToolsOnlyWhenSealed EndIsFinal
