SPECIFICATION Spec
CONSTANTS
    Blocks = {b1, b2, b3}
    Oversize = {o1, o2}
    CellsPerBlock = 2
    Spare = 1
    MinArray = 1
    Growth = 2
    LowWater = 2
    Threshold = 2
    MemLimit = 5
INVARIANTS
    TypeOK
    FreeListsExact
    ArraysExact
    SweepComplete
PROPERTIES
    SweepSpares
    SweepAdvances
SYMMETRY Symmetry
