SPECIFICATION Spec
CONSTANTS
    NULL = NULL
    N <- MCN
    Stale <- MCStale
INVARIANTS
    FreeSpaceInOrder
    HeadersFindSegments
PROPERTIES
    OneSegmentIsSafe
    KeepsPromise
