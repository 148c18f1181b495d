CONSTANTS
    a = a
    b = b
    Event = {a, b}
    KindOf <- KindsOfTwo
    SecPerMin = 3
    Grace = 1
    MaxLag = 1
    MaxMinute = 2
    MaxStarts = 2
SPECIFICATION Spec
INVARIANTS
    Conservation
    ReportsOrdered
    OnTimeEventsReported
    OwnMinuteOnly
PROPERTIES
    ConsecutiveReports
    AtMostOnce
CHECK_DEADLOCK FALSE
