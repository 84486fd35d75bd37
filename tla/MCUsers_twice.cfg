\* Two connections and one user.
CONSTANTS
    Usernames = {none, u1}
    EmptyName = none
    NoRow = NoRow
    Sockets = {s1, s2}
    MaxConns = 2
    MaxMessages = 1
SPECIFICATION Spec
INVARIANT OneSocketPerUser
CHECK_DEADLOCK FALSE
