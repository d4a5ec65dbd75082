SPECIFICATION Spec
CONSTANTS
    t1 = t1
    t2 = t2
    p1 = p1
    p2 = p2
    Threads = {t1, t2}
    process <- MCprocess
    IMSS_DATA_BSIZE = 2
    WriteSizes = {1, 4}
    ReadSizes = {0, 4}
    Offsets = {1, 2}
    Positional = {t2}
    NoCall = NoCall
    NoFd = NoFd
    NoStat = NoStat
    NoBlock = NoBlock
    NoByte = NoByte
    MaxBlk = 3
    MaxWrites = 2
INVARIANTS
    TypeOK
    WritesInPlace
    WritesLast
    ReadsInPlace
    SizesAreReal
    ClosedIsPublished
