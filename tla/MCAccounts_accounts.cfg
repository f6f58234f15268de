CONSTANTS
    r1 = r1
    r2 = r2
    r3 = r3
    r4 = r4
    ana = ana
    mail = mail
    post = post
    side = side
    g1 = g1
    first = first
    None = None
    Request = {r1, r2, r3, r4}
    Email = {mail, post, side}
    Subject = {g1}
    founder = ana
    founderMail = mail
    invitedMail = post
    InvitationLife = 1
    ResetLife = 1
    ImpersonationLife = 1
    FreeFailures = 1
    Waits <- OneThenTwo
    MaxTime = 2
    Accounts = {"ana", "ben"}
    Administrator = "ana"
    Guest = "guest"
    Themes = {"dark", "light"}
    DefaultTheme = "dark"
    MaxSignIns = 3
    MaxSent = 3
    MaxAway = 1
SPECIFICATION AllSpec
SYMMETRY Alike
INVARIANTS GuessesWait SignedOutStaysOut LeadsBack ShowsWhatIsKept
PROPERTY LinkUsedOnce
CHECK_DEADLOCK FALSE
