\* Two group codes, so that a code could be reissued and the last row could be
\* somebody else's group; three users and a limit of two, so that a group fills
\* up; one fault, whose residue every later call can meet.
CONSTANTS
    Usernames = {u1, u2, u3}
    NoRow = NoRow
    MaxCode = 2
    GroupLimit = 2
    MaxFaults = 1
SPECIFICATION Spec
SYMMETRY Symmetry
INVARIANTS
    TypeOK
    FreshCode
    NeverAdminless
    CounterDrift
    GroupCapacity
    ReferentialIntegrity
PROPERTIES
    AdminUntouchable
    ImplementsGroups
