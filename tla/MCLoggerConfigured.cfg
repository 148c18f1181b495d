\* A day of three hours, one thread that changes files, files to be kept four hours.
CONSTANTS
    t1 = t1
    t2 = t2
    None = None
    Thread = {t1}
    HoursPerDay = 3
    Default = 3
    Configured = 4
    MaxHour = 6
    MaxMessages = 0
    MaxFailures = 0
    MaxCleaners = 1
SPECIFICATION Spec
INVARIANTS
    KeptAsConfigured
CHECK_DEADLOCK FALSE
