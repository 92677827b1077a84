SPECIFICATION Spec
CONSTANTS
    Nodes = {1, 2, 3, 4, 5}
    MaxStack = 3
    MaxHeld = 1
INVARIANTS
    TypeOK
    NodesCounted
PROPERTIES
    TreesKept
