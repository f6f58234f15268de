CONSTANTS
    None = None
    Failed = Failed
    Filtered = Filtered
    Away = Away
    SmallBlind = 1
    BigBlind = 2
    Games <- SomeGames
    MaxActions = 8
    MaxBet = 14
    ScreenNames <- SomeNames
    MaxText = 3
    Deck <- SomeCards
    Questions <- SomeQuestions
    Series <- SomeSeries
    MaxPoints = 4
    Hands = {1, 2, 3, 4}
    At <- Instants
    Site <- Sites
    Pot <- Pots
    Taken = {2}
    Since <- FirstDays
    FirstDay = 2
    TagIds = {t1, t2}
    Names = {x, y}
    Ranges = {"yesterday", "all-time"}
    PageSize = 2
    MaxMoves = 3
    MaxCalls = 1
    MaxMishaps = 1
    RangeIds = {r1, r2, r3}
    LabTagIds = {g1, g2}
    RangeNames = {x, y}
    Combos = {none, wide}
    NoCombos = none
    MaxSteps = 4
    MaxFaults = 1
    Cards = {1, 2, 3, 4, 5}
    Categories = {pair}
    Matrices = {"wide"}
    Blank = "blank"
    Sources <- SavedRanges
    TypedBoards <- SomeBoards
    MaxTurns = 4
    MaxLoads = 1
    LastRank = 4
    Suits = {1, 2}
    ByEquity <- RanksOrder
    Brushes = {100, 50}
    Pasted <- SomeTexts
    TopPercents = {20, 60}
    MaxEdits = 3
SPECIFICATION Spec
INVARIANTS ChipsAddUp StatsAgree TableTellsTheHand HandsAreReadBack PokerAgrees CategoriesAgree ShowsWhatIsAsked ZoomsAddUp KeepsTheWork AnalysisIsKept TextGivesItBack
CHECK_DEADLOCK FALSE
