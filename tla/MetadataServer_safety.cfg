\* Three clients, one dataset, every operation that changes a record, spurious
\* wake-ups included.
SPECIFICATION Spec
CONSTANTS
    k1 = k1
    c1 = c1
    c2 = c2
    c3 = c3
    Nobody = Nobody
    Keys <- MCKeys
    Clients <- MCThreeClients
    Operations <- MCChanging
    MaxOpen = 2
    MaxGarbage = 1
    SpuriousWakeups = TRUE
SYMMETRY MCSymmetry
\* An aborted server answers nobody.
CHECK_DEADLOCK FALSE
INVARIANTS
    TypeOK
    DestHasOpener
    HeldIsStored
    InsertsOnlyIfAbsent
    CreatedIsComing
PROPERTIES
    DestIsFinal
