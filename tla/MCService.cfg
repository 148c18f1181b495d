CONSTANTS
    c1 = c1
    c2 = c2
    Controls = {c1, c2}
    KindOf <- StopAndClose
SPECIFICATION FairSpec
INVARIANTS
    StatusInOrder
    EventOutlivesUsers
PROPERTIES
    StopIsAnswered
    CtrlCEnds
CHECK_DEADLOCK FALSE
