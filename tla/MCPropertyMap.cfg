SPECIFICATION Spec
CONSTANTS
    k1 = k1
    k2 = k2
    k3 = k3
    k4 = k4
    Keys <- MCKeys
    Hash <- MCHash
    Values = {v1}
    Attributes <- MCAttributes
    NoKey = NoKey
    Deleted = Deleted
    InitialSize = 4
    MaxSize = 16
    MaxIndex = 5
    ClearAnyTime = FALSE
INVARIANTS
    TypeOK
    Consistent
    WalksEnd
    EnumerationExact
PROPERTIES
    ImplementsOrderedMap
