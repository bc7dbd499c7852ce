SPECIFICATION Spec
CONSTANTS
  s1 = s1
  s2 = s2
  r1 = r1
  i1 = i1
  i2 = i2
  o1 = o1
  NoCall = NoCall
  Sends = {s1, s2}
  Retries = {}
  Ids = {i1, i2}
  Ops = {o1}
  Stale = 1
  Limit = 2
  MaxLost = 0
INVARIANT AnswersMatch
CHECK_DEADLOCK FALSE
