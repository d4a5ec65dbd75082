\* A rename is answered (it is not).
SPECIFICATION FairSpec
CONSTANTS
    k1 = k1
    c1 = c1
    c2 = c2
    c3 = c3
    Nobody = Nobody
    Keys <- MCKeys
    Clients <- MCClients
    Operations <- MCRename
    MaxOpen = 1
    MaxGarbage = 1
    SpuriousWakeups = FALSE
CHECK_DEADLOCK FALSE
PROPERTIES
    EveryCallReturns
