SPECIFICATION FairSpec
CONSTANTS
    Ports = {1, 2}
    Usb3Ports = {1}
    Devices <- MCDevices
    Eps = {e}
    None = None
    MaxInstances = 2
    MaxRequests = 1
INVARIANTS PortsAgree ConnectionIsAnnounced
PROPERTIES OnlyOwnInstance CancelledIsDetached RequestsAreAnswered
CHECK_DEADLOCK FALSE
