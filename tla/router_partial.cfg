SPECIFICATION Spec
CONSTANTS
    Symbols = {spy}
    Intervals = {m15, "none"}
    Qtys = {2}
    ExternalQtys = {3}
    MaxPositionSize = 3
    MaxOpenPositions = 2
    DailyLossLimit = FALSE
    ReplaceMode = "replace"
    DisableTrail = FALSE
    IgnoreShort = TRUE
    MinLot = 1
    Failures <- AnyOneFailure
    MaxSignals = 2
    MaxQueued = 2
    MaxExternal = 1
    MaxDrops = 1
    MaxOverstatement = 1
CONSTRAINTS
    ExternalAlone
    LossWithIntervals
CHECK_DEADLOCK FALSE
INVARIANTS
    TypeOK
    FillsConserved
    OnlyNewestEntryIsLive
    TrailsMatchEntries
    OrdersFollowSignals
PROPERTIES
    OrderLifecycle
