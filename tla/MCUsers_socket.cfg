\* One user and one request are enough.
CONSTANTS
    Usernames = {none, u1}
    EmptyName = none
    NoRow = NoRow
    Sockets = {s1, s2}
    MaxConns = 2
    MaxMessages = 1
SPECIFICATION Spec
INVARIANT IsLoginSocketTruthful
CHECK_DEADLOCK FALSE
