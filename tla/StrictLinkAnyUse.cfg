SPECIFICATION Spec
CONSTANTS
  Master = Master
  Outstation = Outstation
  MaxRequests <- ThreeToOne
  MaximumRetries = 1
  Resetters <- Both
  Senders <- Both
  Announcers <- OnlyOutstation
  Pollers <- Nobody
  WithHandler <- OnlyMaster
  Faults <- EveryFault
INVARIANTS
  TypeOK
  AtMostOnce
PROPERTIES
  DeliveryService
