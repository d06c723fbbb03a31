SPECIFICATION Spec
CONSTANTS
    NULL = NULL
    Nodes <- MCNodes
    ValueOf <- MCValueOf
INVARIANTS
    IsSearchTree
    FindIsCeiling
    RootIsBlack
PROPERTIES
    InsertKeepsRedBlack
    RefusesOnlyHalfRoot
    ImplementsOrderedSet
