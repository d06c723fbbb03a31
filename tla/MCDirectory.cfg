SPECIFICATION Spec
CONSTANTS
    NULL = NULL
    Names <- MCNames
    Metas = {m1, m2}
    P = 2
    MaxRefs = 6
INVARIANTS
    TypeOK
    Sorted
    SearchFinds
    BlocksMatchSize
PROPERTIES
    ImplementsNameMap
