SPECIFICATION MCSpec
CONSTANTS
  s1 = s1
  s2 = s2
  c1 = c1
  c2 = c2
  p1 = p1
  p2 = p2
  Once = Once
  None = None
  Scan <- OneScan
  Command <- OneCommand
  Selecting <- OneCommand
  Processor <- TwoProcessors
  MaxEntries = 1
  MaxInFlight = 1
  MaxEvents = 1
INVARIANTS
  TypeOK
  ScanNotForgotten
  CommandOnce
  SuccessIsExecuted
PROPERTIES
  DemandIsMet
  ShutdownEnds
CHECK_DEADLOCK FALSE
