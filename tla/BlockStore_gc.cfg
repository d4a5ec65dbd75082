\* The collector runs between the steps of the writes.
SPECIFICATION Spec
CONSTANTS
    f1 = f1
    f2 = f2
    c1 = c1
    c2 = c2
    b1 = b1
    b2 = b2
    b3 = b3
    NULL = NULL
    Files <- MCFile
    Blocks <- MCTwoBlocks
    Clients <- MCClients
    Buffers <- MCBuffers
    BLOCK_SIZE = 2
    STAT_SIZE = 1
    max_storage_size = 100
    MaxVersion = 3
    MaxSize = 0
    MaxGarbage = 1
    SpuriousWakeups = TRUE
    BusyTargets = FALSE
SYMMETRY MCOneFileSymmetry
\* A server that has crashed, or whose clients made all their writes, stops.
CHECK_DEADLOCK FALSE
INVARIANTS
    OneOwner
    OccupiedCoversUse
