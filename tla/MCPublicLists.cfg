\* One group of two users, two items, ints from -2 to 1 and one lost statement.
CONSTANTS
    Usernames = {u1, u2}
    NoRow = NoRow
    Null = Null
    Invalid = Invalid
    Codes = {1}
    IntMax = 1
    MaxLost = 1
    Items <- MCItems
    Remarks <- MCRemarks
    QuantityTexts <- MCQuantityTexts
    GroupName <- MCGroupName
SPECIFICATION Spec
SYMMETRY Symmetry
INVARIANTS
    TypeOK
    NumeralsNeverLeak
    RestoreDecodes
 
