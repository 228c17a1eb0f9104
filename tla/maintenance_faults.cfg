SPECIFICATION FairMSpec
CONSTANTS
    Symbols = {spy}
    Intervals = {m15}
    Qtys = {2}
    ExternalQtys = {3}
    MaxPositionSize = 3
    MaxOpenPositions = 2
    DailyLossLimit = FALSE
    ReplaceMode = "replace"
    DisableTrail = TRUE
    IgnoreShort = TRUE
    MinLot = 2
    Failures <- Interruption
    MaxSignals = 1
    MaxQueued = 2
    MaxExternal = 1
    MaxDrops = 1
    MaxOverstatement = 0
    MaxWindows = 1
CHECK_DEADLOCK FALSE
INVARIANTS
    MTypeOK
    WorkingOrdersTracked
PROPERTIES
    SignalsConsumed
    FillsProcessed
    SignalsResume
