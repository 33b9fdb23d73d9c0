CONSTANTS
  Node <- MCNode
  Root <- MCRoot
  Kids <- MCKids
  Below <- MCBelow
  Depth <- MCDepth
  Point <- MCPoint
  Pts <- MCPts
  Obj <- MCObj
  NoPoint = NoPoint
  Frontiers <- WholeProblem
  SplitDepth = 1
  MaxRetries = 1
  MaxAttempts = 1
  Answers <- RetryAnswers
SPECIFICATION Spec
CHECK_DEADLOCK FALSE
INVARIANTS
  IInv
  AnswerIsSound
  NoDoubleWork
  OneResultPerNode
  NoPointLost
  CountsOriginals
  RegistryAgrees
PROPERTIES
  NeverReexpected
