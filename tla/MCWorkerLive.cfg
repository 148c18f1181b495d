CONSTANTS
    a = a
    b = b
    Event = {a}
    KindOf <- KindsOfOne
    SecPerMin = 4
    Grace = 1
    MaxLag = 1
    MaxMinute = 3
    MaxStarts = 2
SPECIFICATION FairSpec
PROPERTIES
    HeldIsSent
CHECK_DEADLOCK FALSE
