SPECIFICATION Spec
CONSTANTS
    Conn = {c1, c2}
    NoOwner = NoOwner
    None = None
    Region = {r1}
    Vector = {v1}
    PreflightTimeout = 1
    Lease = 1
    RequireReady = TRUE
    AutoReclaim = TRUE
    RequireDevice = TRUE
    BlockRegistration = FALSE
    RequireController = FALSE
    DupMayFail = TRUE
    MaxEpoch = 3
SYMMETRY Symmetry
PROPERTY ReceiverMemoryIsOnBus
