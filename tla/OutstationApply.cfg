SPECIFICATION Spec
CONSTANTS
  c1 = c1
  c2 = c2
  p1 = p1
  p2 = p2
  x = x
  None = None
  Caller <- OneCaller
  Processor <- OneProcessor
  Point <- OnePoint
  QueueSize = 1
  Parts = 2
  MaxApplies = 1
  MaxFrames = 1
  MaxFailures = 1
INVARIANT UpdatesApplied
CHECK_DEADLOCK FALSE
