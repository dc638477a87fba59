SPECIFICATION FairSpec
CONSTANTS
    Master = Master
    Outstation = Outstation
    Modulus = 3
    AppModulus = 2
    MaximumApplication <- ApplicationLimits
    MaxSize <- SizeBounds
    Modes <- SendingModes
    MaxFragments <- FragmentBounds
    MaxFaults = 2
INVARIANTS
    TypeOK
    JoinsOneMessage
    RefusesOnlyBrokenInput
PROPERTIES
    MessageArrives
CHECK_DEADLOCK FALSE
