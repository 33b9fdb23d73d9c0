SPECIFICATION FairSpec
CONSTANTS
  w1 = w1  w2 = w2  a = a  b = b  c = c  s1 = s1  s2 = s2  p = p
  NoWorker = NoWorker
  Worker = {w1, w2}
  Job = {a, c}
  Key = {s1}
  KeysOf <- MCKeysOf
  Avoided <- Anywhere
  Malformed = {c}
  MaxInFlight = 1
  MaxDeliver = 2
  MaxCrashes = 1
PROPERTY CancelStops
INVARIANTS WorkerInv AckedIsAnswered SolversHoldSlots
\* Every job may be settled and every cancel heard: then nothing is left to do.
CHECK_DEADLOCK FALSE
