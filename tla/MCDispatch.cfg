\* Two slots and four packets: both slots can be lost and a packet remains.
\* The number of packets is bounded, and the program can hang or crash.
CONSTANTS
    THREADS_MAX = 2
    MaxPackets = 4
SPECIFICATION Spec
INVARIANTS
    TypeOK
    HandlersSerialized
    BusySlotIsDangling
 
CHECK_DEADLOCK FALSE
