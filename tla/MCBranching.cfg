CONSTANTS
  Scale = 4
  IntTol = 1
  LpTol = 1
  Var <- MCVar
  IntegerVar <- MCInteger
  Lower <- MCLower
  Upper = 2
  SplitDepth = 2
SPECIFICATION Spec
CHECK_DEADLOCK FALSE
INVARIANTS
  BranchingSplits
  EveryPointKept
