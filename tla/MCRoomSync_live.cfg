CONSTANTS
    a = a
    n = n
    k1 = k1
    k2 = k2
    Client = {a, n}
    Newcomer = {n}
    Slot = {k1}
    MaxChanges = 1
    MaxDrops = 1
    MaxRestarts = 1
    MayClose = TRUE
SPECIFICATION SteadySpec
PROPERTIES CatchesUp EndReachesEveryone
CHECK_DEADLOCK FALSE
