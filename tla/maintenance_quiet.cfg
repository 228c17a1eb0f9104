SPECIFICATION QuietSpec
CONSTANTS
    Symbols = {spy}
    Intervals = {m1, m15}
    Qtys = {1, 3}
    ExternalQtys = {3}
    MaxPositionSize = 2
    MaxOpenPositions = 1
    DailyLossLimit = FALSE
    ReplaceMode = "replace"
    DisableTrail = FALSE
    IgnoreShort = FALSE
    MinLot = 3
    Failures <- ExitMayFail
    MaxSignals = 3
    MaxQueued = 1
    MaxExternal = 0
    MaxDrops = 0
    MaxOverstatement = 0
    MaxWindows = 2
CHECK_DEADLOCK FALSE
INVARIANTS
    PositionsInSync
    AlertOrFlat
    WindowIsFlat
