SPECIFICATION FairSpec
CONSTANTS
  title = title
  place = place
  status = status
  own = own
  twin = twin
  w1 = w1
  w2 = w2
  p1 = p1
  None = None
  Fields = {title, place, status}
  Status = status
  Own = own
  Twin = twin
  Ops = {1, 2, 3}
  Workers = {w1, w2}
  Pullers = {p1}
  Starts = {"new", "linked"}
  Budget = 2
  MaxSydia = 2
  MaxGoogle = 1
  MaxTrouble = 1
  MaxTotal = 3
INVARIANT TypeOK
INVARIANT NoSydiaEditLost
PROPERTY GoogleEditKept
INVARIANT SyncedIsHeld
INVARIANT CreatedFirst
PROPERTY Converges
CHECK_DEADLOCK FALSE
