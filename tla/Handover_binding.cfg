SPECIFICATION FairSpec
CONSTANTS
    Conn = {c1, c2}
    NoOwner = NoOwner
    None = None
    Region = {r1}
    Vector = {v1, v2}
    PreflightTimeout = 1
    Lease = 1
    RequireReady = TRUE
    AutoReclaim = TRUE
    RequireDevice = TRUE
    BlockRegistration = TRUE
    RequireController = TRUE
    DupMayFail = TRUE
    MaxEpoch = 2
INVARIANT CandidateIsHeld
PROPERTIES HeldReplyIsSent WatchEnds
