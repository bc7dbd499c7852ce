SPECIFICATION FairSpec
CONSTANTS
  s1 = s1
  s2 = s2
  r1 = r1
  i1 = i1
  o1 = o1
  NoCall = NoCall
  Sends = {s1, s2}
  Retries = {r1}
  Ids = {i1}
  Ops = {o1}
  Stale = 1
  Limit = 2
  MaxLost = 1
INVARIANT TypeOK
INVARIANT OneAnswer
INVARIANT OneExecutor
PROPERTY CompletedIsFinal
PROPERTY StoredIsSettled
CHECK_DEADLOCK FALSE
