SPECIFICATION MCSpec
CONSTANTS
    RangeBase = 2
    PointKinds <- Kinds3
    Points <- PointConfig
    Values <- UpdateValues
    Updaters = {"u1", "u2"}
    MaxEvents = 2
    MaxUpdates = 3
    MaxClears = 1
    StaticVariation <- Variations
    Scans <- MasterScans
    MaxPolls = 1
INVARIANTS
    EventsFollowStores
    PollReportsOneMoment
CHECK_DEADLOCK FALSE
