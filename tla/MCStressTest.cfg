CONSTANTS
    Event <- AnyEvent
    Logs <- SmallLogs
    Count = 2
    MaxRows = 3
SPECIFICATION Spec
INVARIANTS
    EveryEventOnce
    DoneMeansSent
CHECK_DEADLOCK FALSE
