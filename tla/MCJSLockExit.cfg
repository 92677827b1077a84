SPECIFICATION Spec
CONSTANTS
    Threads = {t1, t2, t3}
    NoThread = NoThread
    MaxDepth = 2
    MaxDrops = 1
    ExitsSerialised = FALSE
SYMMETRY Symmetry
INVARIANT RegistryComplete
