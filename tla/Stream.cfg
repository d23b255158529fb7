CONSTANTS
    Prefix = 4
    Total = 3
    ReadBuffer = 2
    NotifyUnits = 1
    Buffer = 5
    MaxOthers = 1
    MaxSwallowed = 3
SPECIFICATION StreamFairSpec
INVARIANTS OnlyACutMisleads FinishedMeansAll
PROPERTIES UncutIsDelivered NoEndIsLeftBehind CancelIsObeyed
CHECK_DEADLOCK FALSE
