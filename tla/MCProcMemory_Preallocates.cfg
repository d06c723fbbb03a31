SPECIFICATION Spec
CONSTANTS
    NULL = NULL
    OUTSIDE = OUTSIDE
    Procs <- MCProcs
    Blocks <- MCBlocks
    T = 3
    E = 2
    PageBytes = 2
    Addresses <- MCAddresses
    Lengths <- MCLengths
PROPERTY PreallocatesPageTables
