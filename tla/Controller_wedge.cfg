SPECIFICATION Spec
CONSTANTS
    Slots = {1}
    None = None
    Endings = {"quiet"}
    Faults = {}
    OldOps = {"enable", "disable", "endpoint", "noop"}
    MaxCommands = 2
    MaxResets = 1
    MaxMessages = 1
INVARIANT SlotWorkerIsAlive
CHECK_DEADLOCK FALSE
