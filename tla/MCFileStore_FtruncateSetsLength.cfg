SPECIFICATION Spec
SYMMETRY Symmetry
CONSTANTS
    NULL = NULL
    FOREIGN = FOREIGN
    MetaIds = {a, b}
    Blocks <- MCBlocks
    F = 2
    BlockBytes = 2
    Chunk = 1
    MaxSize = 13
    Lengths <- MCLengths
    Targets <- MCTargets
PROPERTY
    FtruncateSetsLength
