SPECIFICATION FairSpec
CONSTANTS
    Refused = Refused
    None = None
    Regions = {1, 2}
    Objects <- MCObjects
    Moved <- Right
    MaxSignals = 3
INVARIANTS
    StaleIsMarked
    ReadsEveryPoint
PROPERTIES
    WarningsAreTrue
    IdentitiesAreKept
    MarkedIsCommitted
CHECK_DEADLOCK FALSE
