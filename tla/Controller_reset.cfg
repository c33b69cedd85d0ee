SPECIFICATION FairSpec
CONSTANTS
    Slots = {1}
    None = None
    Endings = {"quiet", "dead"}
    Faults = {"isoch", "forceheader", "interrupter"}
    OldOps = {"enable", "disable", "endpoint", "noop"}
    MaxCommands = 2
    MaxResets = 1
    MaxMessages = 1
INVARIANTS EndpointsFitSlot NothingLeftBehind
PROPERTIES ResetIsComplete CommandsAreCompleted ResetEnds
CHECK_DEADLOCK FALSE
