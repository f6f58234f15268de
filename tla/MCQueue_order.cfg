CONSTANTS
    a = a
    b = b
    c = c
    d = d
    e = e
    Ana = Ana
    Luis = Luis
    Hand = {a, b, c, d}
    Person = {Ana, Luis}
    Already <- Two
    Commands = {"preview", "add", "remove", "author", "snapshot"}
    None = None
    Texts = {"played", "odd", "huge"}
    Formats = {"f1", "f2"}
    Reading <- Readings
    OwnNames = {"me"}
    Before <- Oldest
    OthersNames = {"me", "z"}
    Mail <- MailOf
    Administrators = {"u1"}
    Columns <- ByColumn
    Named <- Found
    Stalest <- Rooms
    AlreadyThere <- Site
    PanelPage = 2
    MaxTouches = 3
    MaxMishaps = 1
    MaxAdded = 2
    MaxAsked = 3
    MaxFailed = 1
    MaxDialogs = 2
    Window = 1
    MaxBatch = 2
    MaxUndos = 0
    MaxChanges = 3
SYMMETRY Alike
SPECIFICATION AllSpec
INVARIANTS NoHandTwice ShowsTheLastReading PanelTellsTheSite
CHECK_DEADLOCK FALSE
