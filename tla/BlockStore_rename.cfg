\* A rename replaces a file that was unlinked before (it does not).
SPECIFICATION Spec
CONSTANTS
    f1 = f1
    f2 = f2
    c1 = c1
    c2 = c2
    b1 = b1
    b2 = b2
    b3 = b3
    NULL = NULL
    Files <- MCFiles
    Blocks <- MCBlocks
    Clients <- MCClients
    Buffers <- MCBuffers
    BLOCK_SIZE = 2
    STAT_SIZE = 1
    max_storage_size = 100
    MaxVersion = 2
    MaxSize = 1
    MaxGarbage = 1
    SpuriousWakeups = FALSE
    BusyTargets = TRUE
SYMMETRY MCSymmetry
\* A server that has crashed, or whose clients made all their writes, stops.
CHECK_DEADLOCK FALSE
INVARIANTS
    AckedIsStored
