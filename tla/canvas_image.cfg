SPECIFICATION FairSpec
CONSTANTS
    t1 = t1
    t2 = t2
    none = none
    None = none
    Tiles <- TwoTiles
    Sizes <- TwoSizes
    Reconnect = 1
    MaxSessions = 3
    MaxStarts = 2
    MaxDowns = 1
    MaxRevision = 1
    MaxLosses = 1
    MaxFailures = 1
INVARIANTS
    SessionIsWithTheProcess
    NodesShowTheImage
    ShownIsInThePixels
PROPERTIES
    ImageShowsTheCanvas
    IdentitiesGrow
    ComesBack
    ExitIsShown
CHECK_DEADLOCK FALSE
