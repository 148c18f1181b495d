CONSTANTS
    f1 = f1
    f2 = f2
    File = {f1, f2}
    HourOf <- SameHour
    HourLen = 3
    Extra = 1
    Period = 4
    MaxTime = 5
    MaxRecords = 1
    MaxFailures = 0
    MaxCrashes = 0
    SecPerMin = 3
    Grace = 1
    Brisk = 1
    KindOf <- Timeouts
SPECIFICATION PipelineSpec
INVARIANTS
    PromptEventsReported
PROPERTIES
    ImplementsWorker
CHECK_DEADLOCK FALSE
