SPECIFICATION FairSpec
CONSTANTS
  c1 = c1
  c2 = c2
  p1 = p1
  p2 = p2
  x = x
  None = None
  Caller <- TwoCallers
  Processor <- TwoProcessors
  Point <- OnePoint
  QueueSize = 1
  Parts = 2
  MaxApplies = 2
  MaxFrames = 1
  MaxFailures = 1
INVARIANTS
  TypeOK
  RequestHandledOnce
PROPERTIES
  AppliesReturn
  ShutdownEnds
CHECK_DEADLOCK FALSE
