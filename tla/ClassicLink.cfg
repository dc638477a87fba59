SPECIFICATION MCSpec
CONSTANTS
  m1 = m1
  m2 = m2
  Caller <- TwoCallers
  Used <- MostUsed
  MaxRetries = 1
  SendSize = 1
  ResponseSize = 1
  TooLong <- ThirdData
  MaxData = 3
  MaxUnsolicited = 1
  MaxFailures = 1
  MaxStops = 1
INVARIANTS
  TypeOK
  AtMostOnce
  SuccessIsDelivery
PROPERTY CallsReturn
CHECK_DEADLOCK FALSE
