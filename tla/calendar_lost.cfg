SPECIFICATION Spec
CONSTANTS
  title = title
  place = place
  status = status
  own = own
  twin = twin
  w1 = w1
  
  p1 = p1
  None = None
  Fields = {title, place, status}
  Status = status
  Own = own
  Twin = twin
  Ops = {1, 2, 3}
  Workers = {w1}
  Pullers = {p1}
  Starts = {"linked"}
  Budget = 2
  MaxSydia = 2
  MaxGoogle = 1
  MaxTrouble = 0
  MaxTotal = 4
CHECK_DEADLOCK FALSE
INVARIANT NoGoogleEditLost
