SPECIFICATION Spec
CONSTANTS
    Threads = {t1, t2}
    NoThread = NoThread
    MaxDepth = 1
    Cells = {c1, c2, c3}
    Interpreters = {i1}
    MaxProtect = 1
    MaxStray = 1
    MaxEdges = 2
    MaxAnchors = 1
SYMMETRY Symmetry
INVARIANTS
    TypeOK
    ReachableAllocated
PROPERTIES
    CallsConstructed
CHECK_DEADLOCK FALSE
