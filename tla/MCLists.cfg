SPECIFICATION Spec
CONSTANTS
    Handles = {h1, h2, h3, h4}
    Values = {"a", "b"}
    PoolSize = 2
    HeapAddresses = {10, 11}
    inlineValuesSize = 1
    MaxLoad = 5
INVARIANTS
    TypeOK
    ListsExact
    ValuesMarked
PROPERTIES
    ImplementsSharedLists
SYMMETRY Symmetry
