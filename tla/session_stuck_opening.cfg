SPECIFICATION HostFairSpec
CONSTANTS
    Settings = {hardness}
    Values = {soft}
    Tiles = {tile}
    None = None
    ActionWindow = 2
    FrameSlots = 5
    OpenPatience = 0
    ReplyPatience = 1
    StateWindow = 2
    ResultWindow = 2
    SpoilsRecords = FALSE
    MaxAsked = 0
    MaxDrawn = 0
    MaxLate = 0
    WrongAnswers <- Incomplete
PROPERTIES
    OpeningIsDecided
CHECK_DEADLOCK FALSE
