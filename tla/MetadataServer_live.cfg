\* Every call returns: two clients, one dataset, no rename.
SPECIFICATION FairSpec
CONSTANTS
    k1 = k1
    c1 = c1
    c2 = c2
    c3 = c3
    Nobody = Nobody
    Keys <- MCKeys
    Clients <- MCClients
    Operations <- MCWithoutRename
    MaxOpen = 2
    MaxGarbage = 1
    SpuriousWakeups = TRUE
PROPERTIES
    EveryCallReturns
