SPECIFICATION Spec
CONSTANTS
    Symbols = {spy}
    Intervals = {m15}
    Qtys = {2}
    ExternalQtys = {3}
    MaxPositionSize = 3
    MaxOpenPositions = 2
    DailyLossLimit = FALSE
    ReplaceMode = "replace"
    DisableTrail = FALSE
    IgnoreShort = FALSE
    MinLot = 2
    Failures <- NoFailure
    MaxSignals = 2
    MaxQueued = 1
    MaxExternal = 0
    MaxDrops = 0
    MaxOverstatement = 0
CHECK_DEADLOCK FALSE
INVARIANTS
    OneTradePerEntry
