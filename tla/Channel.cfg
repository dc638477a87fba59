SPECIFICATION FairSpec
CONSTANTS
  c1 = c1
  c2 = c2
  a1 = a1
  a2 = a2
  ReadLoop = ReadLoop
  Nobody = Nobody
  Client <- TwoClients
  Address <- OneAddress
  Answering <- OneAddress
  QueueSize = 1
  MayClose = TRUE
  MaxWrites = 1
  MaxFrames = 1
  MaxFailures = 1
  MaxConnects = 1
  MaxSessions = 1
  MaxOpens = 2
INVARIANTS
  TypeOK
PROPERTIES
  WritesAreServed
  QuietAfterClose
  WritesReturn
  CloseReturns
CHECK_DEADLOCK FALSE
