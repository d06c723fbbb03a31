SPECIFICATION Spec
CONSTANTS
    NULL = NULL
    BlockCount = 9
    WordSize = 128
    Sizes <- MCSizes
INVARIANTS
    TypeOK
    Accounting
    RoomForRequest
    WildOnlyWhenFull
PROPERTIES
    SegmentsStay
