SPECIFICATION Spec
CONSTANTS
  r1 = r1
  r2 = r2
  m1 = m1
  m2 = m2
  Nobody = Nobody
  Client = {r1, r2}
  Master = {m1, m2}
  Backends <- MCBackends
  MaxFaults = 1
  MaxControls = 2
SYMMETRY Symmetric
INVARIANTS
  SolvesExclude
  OnePerMaster
  BusyWithReason
  TaskShowsSolve
  CancelRemembered
  NothingLeftBehind
  GuardIntact
PROPERTY
  ImplementsLock
CHECK_DEADLOCK FALSE
