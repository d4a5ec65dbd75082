SPECIFICATION Spec
CONSTANTS
    p1 = p1  p2 = p2  t1 = t1  t2 = t2  t3 = t3  f1 = f1  f2 = f2
    NoData = NoData  NoCall = NoCall  MSG_OK_OP = MSG_OK_OP  Undefined = Undefined
    crc16 <- Crc
    hash <- Hash
    num_storages = 2
    repl_factor = 1
    Threads = {t1, t2}
    process <- Together
    FilesOf <- AllFiles
    Writers = {t1, t2}
    Files = {f1, f2}
    Blocks = {1}
    Garbage = {0}
    policy = "RR"
    ASYNC_IO = FALSE
    matching_server_id <- NoMatch
    MaxWrites = 2
    MaxReads = 0
INVARIANTS
    StoredAtHome
CHECK_DEADLOCK FALSE
