CONSTANTS
    r1 = r1
    r2 = r2
    Report = {r1, r2}
SPECIFICATION FairSpec
INVARIANTS
    SilenceMeansAccepted
    AcceptedAtMostOnce
PROPERTIES
    SessionsEnd
CHECK_DEADLOCK FALSE
