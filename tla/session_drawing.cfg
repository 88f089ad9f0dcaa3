SPECIFICATION ExchangeSpec
CONSTANTS
    Settings = {hardness}
    Values = {soft}
    Tiles = {left, right}
    None = None
    ActionWindow = 2
    FrameSlots = 5
    OpenPatience = 0
    ReplyPatience = 1
    StateWindow = 2
    ResultWindow = 2
    SpoilsRecords = FALSE
    MaxAsked = 1
    MaxDrawn = 4
    MaxLate = 1
    WrongAnswers <- Never
SYMMETRY SameTiles
INVARIANTS
    MirrorIsDrawn
    RegionsAreAccountedFor
    PortsAreWithinLimits
CHECK_DEADLOCK FALSE
