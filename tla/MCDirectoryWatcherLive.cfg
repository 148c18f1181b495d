CONSTANTS
    f1 = f1
    f2 = f2
    File = {f1, f2}
    HourOf <- TwoHours
    HourLen = 2
    Extra = 1
    Period = 1
    MaxTime = 4
    MaxRecords = 1
    MaxFailures = 1
    MaxCrashes = 1
SPECIFICATION FairSpec
PROPERTIES
    EventuallyDelivered
CHECK_DEADLOCK FALSE
