SPECIFICATION Spec
CONSTANTS
    Windows <- DefaultWindows
    DayTicks = 10
    Before = 1
INVARIANTS
    TypeOK
    WindowsKept
    RefusesOnlyForWindows
PROPERTIES
    SignalsResume
