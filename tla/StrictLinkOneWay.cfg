SPECIFICATION TimelySpec
CONSTANTS
  Master = Master
  Outstation = Outstation
  MaxRequests <- ThreeToOne
  MaximumRetries = 1
  Resetters <- OnlyMaster
  Senders <- OnlyMaster
  Announcers <- OnlyOutstation
  Pollers <- Both
  WithHandler <- Both
  Faults <- WaitingFaults
INVARIANTS
  AckedNotLost
PROPERTIES
  CallsReturn
