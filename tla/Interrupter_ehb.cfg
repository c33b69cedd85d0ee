SPECIFICATION Spec
CONSTANTS
    ERSTSZ = 2
    SegSize <- MCSegSize
    Line = {l1, l2}
    NoLine = NoLine
    DriverSetsEhb = TRUE
    MaxEvents = 4
    MaxLines = 2
    MaxResets = 1
INVARIANT DriverReadsWhatWasSent
CHECK_DEADLOCK FALSE
