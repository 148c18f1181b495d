CONSTANTS
    f1 = f1
    File = {f1}
    HourOf <- OneHour
    HourLen = 2
    Extra = 1
    Period = 1
    MaxTime = 4
    MaxRecords = 3
    MaxFailures = 2
    MaxCrashes = 1
SPECIFICATION HistorySpec
INVARIANTS
    NothingPassedOver
    OnceInOrder
    DuplicatesAreReopenings
PROPERTIES
    LetGoWhenDone
    FoundInPeriod
CHECK_DEADLOCK FALSE
