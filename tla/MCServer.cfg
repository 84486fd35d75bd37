\* Two clients, so that one can be shifted into the other's place, with two
\* messages each, so that their order can be lost.
\* The program can crash, and it stops when both clients have come and gone.
CONSTANTS
    Sockets = {s1, s2}
    MaxSent = 2
SPECIFICATION Spec
INVARIANTS
    TypeOK
    NoEmptyPop
    
    Attributed
PROPERTY Polled
CHECK_DEADLOCK FALSE
