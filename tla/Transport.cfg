SPECIFICATION FairSpec
CONSTANTS
  t1 = t1
  t2 = t2
  Sender <- TwoSenders
  Modulus = 4
  Capacity = 2
  MaxSegments = 3
  MaxMessages = 2
  MaxInFlight = 2
  MaxLosses = 3
  MaxResets = 2
INVARIANTS
  TypeOK
  WholeMessages
PROPERTY Arrives
CHECK_DEADLOCK FALSE
