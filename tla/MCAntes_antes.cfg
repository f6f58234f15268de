CONSTANTS
    None = None
    SmallBlind = 1
    BigBlind = 2
    Games <- AnteGames
    MaxActions = 8
    MaxBet = 14
    ScreenNames <- OwnNames
    MaxText = 3
SPECIFICATION Spec
INVARIANT AllInsPayOut
CHECK_DEADLOCK FALSE
