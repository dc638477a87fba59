SPECIFICATION MCSpec
CONSTANTS
  k1 = k1
  k2 = k2
  k3 = k3
  None = None
  First = k1
  Kind <- EveryKind
  Conn <- ThreeConnections
INVARIANTS
  TypeOK
  NoStray
PROPERTIES
  ResetBetween
  DeadIsDropped
  CloseEnds
  Reconnects
CHECK_DEADLOCK FALSE
