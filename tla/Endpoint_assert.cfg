SPECIFICATION Spec
CONSTANTS
    Kinds = {"out"}
    RingSize <- MCRingSize
    None = None
    MaxTrbs <- MCMaxTrbs
    MaxCommands = 2
    MaxQueue = 2
INVARIANT SubmissionsAreCompleted
CHECK_DEADLOCK FALSE
