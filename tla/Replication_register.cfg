SPECIFICATION FairSpec
CONSTANTS
    p1 = p1  p2 = p2  t1 = t1  t2 = t2  t3 = t3  f1 = f1  f2 = f2
    NoData = NoData  NoCall = NoCall  MSG_OK_OP = MSG_OK_OP  Undefined = Undefined
    crc16 <- Crc
    hash <- Hash
    num_storages = 3
    repl_factor = 2
    Threads = {t1, t2, t3}
    process <- TwoProcesses
    FilesOf <- OneFile
    Writers = {t1, t3}
    Files = {f1}
    Blocks = {1}
    Garbage = {0}
    policy = "RR"
    ASYNC_IO = FALSE
    matching_server_id <- NoMatch
    MaxWrites = 2
    MaxReads = 2
INVARIANTS
    TypeOK
    AnswersMatch
    StoredAtHome
    ReplicasComplete
PROPERTIES
    RegisterSpec
    CallsReturn
CHECK_DEADLOCK FALSE
