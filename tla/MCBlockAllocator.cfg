SPECIFICATION Spec
CONSTANTS
    NULL = NULL
    N <- MCN
    Stale <- MCStale
INVARIANT
    PointersInOrder
PROPERTY
    ImplementsSegments
