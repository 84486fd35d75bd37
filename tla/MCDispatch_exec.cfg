\* One slot is enough: it is lost with the first packet, and the second hangs.
CONSTANTS
    THREADS_MAX = 1
    MaxPackets = 2
SPECIFICATION Spec
PROPERTY TakenIsExecuted
CHECK_DEADLOCK FALSE
