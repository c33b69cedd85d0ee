SPECIFICATION FairSpec
CONSTANTS
    ERSTSZ = 2
    SegSize <- MCSegSize
    Line = {l1, l2}
    NoLine = NoLine
    DriverSetsEhb = FALSE
    MaxEvents = 5
    MaxLines = 2
    MaxResets = 1
INVARIANTS TypeOK NoLostSignal
PROPERTIES ImplementsQueue EventsAreRead
CHECK_DEADLOCK FALSE
