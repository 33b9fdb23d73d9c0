CONSTANTS
  Node <- MCNode
  Root <- MCRoot
  Kids <- MCKids
  Below <- MCBelow
  Depth <- MCDepth
  Point <- MCPoint
  Pts <- MCPts
  Obj <- MCObj
  NoPoint = NoPoint
  Frontiers <- Halves
  SplitDepth = 1
  MaxRetries = 1
  MaxAttempts = 1
  Answers <- AllAnswers
SPECIFICATION FairSpec
CHECK_DEADLOCK FALSE
PROPERTIES
  CancelEndsTask
  Answered
  FinishedIsFinal
  ImplementsContract
