SPECIFICATION ExchangeSpec
CONSTANTS
    Settings = {size, hardness}
    Values = {soft, hard}
    Tiles = {tile}
    None = None
    ActionWindow = 2
    FrameSlots = 2
    OpenPatience = 0
    ReplyPatience = 0
    StateWindow = 2
    ResultWindow = 2
    SpoilsRecords = TRUE
    MaxAsked = 3
    MaxDrawn = 0
    MaxLate = 1
    WrongAnswers <- Incomplete
SYMMETRY Same
INVARIANTS
    LatestAskIsShown
    EffectiveIsReported
    ActionsArriveInOrder
PROPERTIES
    KeepsPromise
    ClosedForGood
CHECK_DEADLOCK FALSE
