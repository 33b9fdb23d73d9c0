CONSTANTS
  Node <- MCNode
  Root <- MCRoot
  Kids <- MCKids
  Below <- MCBelow
  Depth <- MCDepth
  Point <- MCPoint
  Pts <- MCPts
  Obj <- MCObj
  NoPoint = NoPoint
  SplitDepth = 2
  MaxSubproblems = 3
  MaxRetries = 1
  MaxAttempts = 1
  Answers <- LocalAnswers
SPECIFICATION LocalFairSpec
INVARIANTS
  WithinLimits
  ReturnsFrontier
  NothingDropped
  NothingTwice
  LocalCounts
PROPERTIES
  Terminates
  LocalImplementsContract
  CancelEndsLocal
CHECK_DEADLOCK FALSE
