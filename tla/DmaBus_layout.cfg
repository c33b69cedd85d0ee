SPECIFICATION Spec
CONSTANTS
    BusSize = 4
    Ones = Ones
    Conn = {c1, c2}
    NoOwner = NoOwner
    None = None
    Region <- MCRegion
    Deferred = FALSE
    MaxLength = 3
    MaxEpoch = 3
SYMMETRY Symmetry
INVARIANTS MappingsAreDisjoint BusIsOnRecord AccessSeesOneBus
PROPERTIES MappingsLeaveByRight
CHECK_DEADLOCK FALSE
