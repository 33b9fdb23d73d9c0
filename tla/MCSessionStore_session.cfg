SPECIFICATION Spec
CONSTANTS
  a = a  b = b  c = c  m1 = m1  m2 = m2  w = w
  NoModel = NoModel
  NoSession = NoSession
  Nobody = Nobody
  Request = {a, b, c}
  Master = {m1, m2}
  Worker = {w}
  MaxRevision = 3
  MaxFaults = 1
  Configs <- Deployments
  Homes <- Spread
  Casts <- Mixes
  Batches <- AnyBatch
INVARIANTS
  OneModel
  RanOnItsModel
  NothingAckedIsLost
  CachesBehindRow
  SolvesAgree
PROPERTY
  EditsAreSerial
\* Every request may be answered: then nothing is left to do.
CHECK_DEADLOCK FALSE
