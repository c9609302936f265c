CONSTANTS
    TermWidth = 80
    TermHeight = 25
    IsDialDirectory = TRUE
    KeyMapNames = {"ANSI"}
    Keys <- MCFewKeys
    Texts = {"A"}
    Clippings = {}
    Points <- MCPoints
    WindowSizes <- MCSizes
    DesktopSize <- MCDesktop
    MaxInput = 2
    Menus <- MCSwitchMenus
    Themes <- MCOneTheme
    DirectorySizes = {3}
    ScreenRows = 4
SPECIFICATION Spec
INVARIANT MenuIsTheOneAskedFor
CHECK_DEADLOCK FALSE
