SPECIFICATION Spec
CONSTANTS
    TradeKeys = {openLong}
    ShortKeys = {openShort}
    InfoKeys = {}
    ManualKeys = {}
    Window = 1
    Rps = 2
    Capacity = 2
    IgnoreShort = TRUE
    MaxRequests = 3
    MaxTime = 2
    MaxToggles = 0
    MaxRestarts = 1
CHECK_DEADLOCK FALSE
INVARIANTS
    RateBounded
    OnlyOverlappingDuplicates
    DuplicatesNamePrimaries
PROPERTIES
    SignalsQueuedOnce
