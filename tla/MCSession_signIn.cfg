CONSTANTS
    None = None
    Accounts = {ana, ben}
    Administrator = ana
    Guest = guest
    Themes = {dark, light}
    DefaultTheme = dark
    MaxSignIns = 3
    MaxSent = 3
    MaxAway = 0
SPECIFICATION SessionSpec
INVARIANT SignInKept
CHECK_DEADLOCK FALSE
