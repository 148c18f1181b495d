\* A day of three hours, two threads that print.
CONSTANTS
    t1 = t1
    t2 = t2
    None = None
    Thread <- Threads
    HoursPerDay = 3
    Default = 1
    Configured = 2
    MaxHour = 3
    MaxMessages = 1
    MaxFailures = 1
    MaxCleaners = 1
SPECIFICATION Spec
SYMMETRY Symmetry
INVARIANTS
    LinesWhole
    FileOfTheHour
    KeptLongEnough
CHECK_DEADLOCK FALSE
