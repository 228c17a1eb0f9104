SPECIFICATION FairSpec
CONSTANTS
    IntervalQty <- MCIntervalQty
    SymbolQty <- MCSymbolQty
    DefaultQty = 1
    TradeKeys <- MCTradeKeys
    ShortKeys <- MCShortKeys
    InfoKeys <- MCInfoKeys
    ManualKeys <- MCManualKeys
    Window = 1
    Rps = 1
    Capacity = 1
    IgnoreShort = TRUE
    MaxRequests = 2
    MaxTime = 2
    MaxToggles = 2
    MaxRestarts = 1
CHECK_DEADLOCK FALSE
INVARIANTS
    TypeOK
    AcceptedAccountedFor
    RoutedAsMeant
    TimeframesKept
    FormatsAgree
    EntriesAskForSomething
PROPERTIES
    SignalsDelivered
