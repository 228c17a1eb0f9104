SPECIFICATION Spec
CONSTANTS
    Accounts = {"expected", "other"}
    MaxRaised = 1
    Clients = {c1}
    MaxChanges = 1
INVARIANTS
    TypeOK
    ExecutionsHeardOnce
    RestsOnExpectedAccount
    NoChangeMissed
    LinkShown
PROPERTIES
    KeepsTrying
