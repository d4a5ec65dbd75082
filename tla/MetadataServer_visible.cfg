\* A create that returned is visible (it is not).
SPECIFICATION Spec
CONSTANTS
    k1 = k1
    c1 = c1
    c2 = c2
    c3 = c3
    Nobody = Nobody
    Keys <- MCKeys
    Clients <- MCClients
    Operations <- MCCreates
    MaxOpen = 1
    MaxGarbage = 1
    SpuriousWakeups = FALSE
CHECK_DEADLOCK FALSE
INVARIANTS
    CreatedIsVisible
