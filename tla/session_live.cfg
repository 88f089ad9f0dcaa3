SPECIFICATION FairSpec
CONSTANTS
    Settings = {hardness}
    Values = {soft, hard}
    Tiles = {tile}
    None = None
    ActionWindow = 2
    FrameSlots = 5
    OpenPatience = 0
    ReplyPatience = 1
    StateWindow = 1
    ResultWindow = 1
    SpoilsRecords = FALSE
    MaxAsked = 2
    MaxDrawn = 2
    MaxLate = 0
    WrongAnswers <- Never
PROPERTIES
    AskedIsSettled
    WindowsReopen
    OpeningIsDecided
CHECK_DEADLOCK FALSE
