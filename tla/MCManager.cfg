\* Two users and a nameless client, two sockets, one group.
CONSTANTS
    Usernames = {none, u1, u2}
    EmptyName = none
    NoRow = NoRow
    Unknown = Unknown
    Sockets = {s1, s2}
    Codes = {1}
    GroupLimit = 3
    Granted = {"fc", "r"}
SPECIFICATION Spec
SYMMETRY Symmetry
INVARIANTS
    TypeOK
    
    
