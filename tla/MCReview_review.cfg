CONSTANTS
    aces = aces
    kings = kings
    n1 = n1
    old = old
    new = new
    t1 = t1
    t2 = t2
    None = None
    Hand = {aces, kings}
    Order <- AcesFirst
    Steps <- KingsLonger
    Note = {n1}
    About <- OnAces
    Body = {old, new}
    Task = {t1, t2}
    Commands = {"start", "end", "load", "goTo", "hide", "open", "remove", "restore", "write", "edit", "drop", "undo", "libraryWrite", "libraryEdit", "libraryDrop", "libraryUndo"}
    MaxCommands = 3
    MaxSnapshots = 1
    HandIn <- SomeEntries
    NotesAbout <- SomeNotes
    MaxVisitSteps = 4
    MaxFetches = 3
    TabsOf <- OneAndTwoTabs
    Master = "Marta"
    FirstTabs = {"m1", "g1"}
    SlowTabs = {"g1"}
    UnstableAfter = 1
    AwayAfter = 2
    RoundTrips <- SomeRoundTrips
    LatencyStep = 10
    MaxPresenceSteps = 3
SPECIFICATION AllSpec
SYMMETRY Alike
INVARIANTS StepsExist ShowsTheRoom OfferLasts PanelIsOfTheHand HandKeepsUp FollowingIsTrue
CHECK_DEADLOCK FALSE
