\* Two handles and three connections, so that a handle is reused, even twice;
\* one message in hand and one queued, so that a message of a connection that is
\* gone can meet one of the connection that has the handle now.  The number of
\* connections is bounded, so the model stops when all of them have gone.
CONSTANTS
    Usernames = {none, u1}
    EmptyName = none
    NoRow = NoRow
    Sockets = {s1, s2}
    MaxConns = 3
    MaxMessages = 1
SPECIFICATION Spec
SYMMETRY Symmetry
INVARIANTS
    TypeOK
    StaleSessionExplained
    NoWrongfulLogout
    
CHECK_DEADLOCK FALSE
