SPECIFICATION Spec
CONSTANTS
    NULL = NULL
    FOREIGN = FOREIGN
    Blocks <- MCBlocks
    MaxSize = 27
    Sizes <- MCSizes
    MetaIds <- MCMetas
    Programs <- MCPrograms
    F = 2
    T = 9
    E = 2
    BlockBytes = 4
    Chunk = 2
    MaxLives = 2
    Names <- MCNames
    MaxFds = 3
    Targets <- MCTargets
    Lengths <- MCLengths
    Offsets <- MCOffsets
INVARIANTS
    PartsApart
    RecordIsWritten
    ExecIsConsecutive
    PagesShowFile
    AddressesOnce
    OnlyNewNamesShare
PROPERTIES
    UserModeReady
    BootEnds
