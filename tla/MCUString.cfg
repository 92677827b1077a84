SPECIFICATION Spec
CONSTANTS
    Vars = {x}
    Idents = {i}
    Reps = {1,2,3}
    Chars = {"A", "b"}
    Literals <- MCLiterals
    Lower <- MCLower
    Cuts <- MCCuts
    MaxLen = 3
    MaxRoom = 4
    Careful = TRUE
INVARIANTS
    TypeOK
    RefCountsExact
    NamesUnique
PROPERTIES
    ImplementsStringValues
