\* Neither a fault nor a second group is needed.
CONSTANTS
    Usernames = {u1, u2, u3}
    NoRow = NoRow
    MaxCode = 1
    GroupLimit = 3
    MaxFaults = 0
SPECIFICATION Spec
PROPERTY OnlyAuthorizedChange
