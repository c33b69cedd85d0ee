SPECIFICATION Spec
CONSTANTS
    Conn = {c1, c2, c3}
    NoOwner = NoOwner
    None = None
    Region = {r1}
    Vector = {v1}
    PreflightTimeout = 1
    Lease = 0
    RequireReady = TRUE
    AutoReclaim = TRUE
    RequireDevice = TRUE
    BlockRegistration = FALSE
    RequireController = FALSE
    DupMayFail = TRUE
    MaxEpoch = 3
SYMMETRY Symmetry
INVARIANTS LineFollowsOwner FallbackIsIntact UnownedIsBoot
PROPERTIES TeardownIsOwners ReadinessIsEarned HandedOverMemoryIsCovered ImplementsOwnership
