SPECIFICATION Spec
CONSTANTS
  a = a  b = b  c = c  m1 = m1  m2 = m2  w = w
  NoModel = NoModel
  NoSession = NoSession
  Nobody = Nobody
  Request = {a, b}
  Master = {m1, m2}
  Worker = {w}
  MaxRevision = 3
  MaxFaults = 0
  Configs <- Everything
  Homes <- Spread
  Casts <- TwoEdits
  Batches <- Numbered
INVARIANT EditsBuildOnTheRow
CHECK_DEADLOCK FALSE
