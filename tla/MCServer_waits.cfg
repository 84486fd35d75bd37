\* One client and one message, and a mutex that is fair.
CONSTANTS
    Sockets = {s1}
    MaxSent = 1
SPECIFICATION FairMutexSpec
PROPERTY WaitsOnlyForPacket
CHECK_DEADLOCK FALSE
