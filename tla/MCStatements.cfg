SPECIFICATION Spec
CONSTANTS
    Programs <- MCPrograms
    Outcomes = {"true", "false", "throw"}
    MaxEvents = 8
    MaxNames = 2
    TimeCheckCount = 2
    CounterRange = 4
INVARIANTS
    TypeOK
    ContextExact
    MeetsEcma
PROPERTIES
    ScriptEnds
CHECK_DEADLOCK FALSE
