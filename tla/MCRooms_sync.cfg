CONSTANTS
    a = a
    n = n
    k1 = k1
    k2 = k2
    Client = {a}
    Newcomer = {}
    Slot = {k1, k2}
    MaxChanges = 3
    MaxDrops = 2
    MaxRestarts = 1
    MayClose = TRUE
    ana = ana
    aces = aces
    kings = kings
    red = red
    blue = blue
    t1 = t1
    t2 = t2
    t3 = t3
    Hand = {aces, kings}
    Room = {red, blue}
    Person = {ana}
    Tx = {t1, t2, t3}
    MaxCommands = 6
SPECIFICATION RoomsSpec
SYMMETRY Alike
INVARIANTS Agreement NoSilentHole NothingLeftOver
PROPERTIES NeverGoesBack KeepsHands
CHECK_DEADLOCK FALSE
