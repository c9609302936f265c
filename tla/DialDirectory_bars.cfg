CONSTANTS
    TermWidth = 80
    TermHeight = 25
    IsDialDirectory = TRUE
    KeyMapNames = {"ANSI"}
    Keys <- MCFewKeys
    Texts = {"]"}
    Clippings = {}
    Points <- MCPoints
    WindowSizes <- MCSizes
    DesktopSize <- MCDesktop
    MaxInput = 2
    Menus <- MCShortMenus
    Themes <- MCThemes
    DirectorySizes = {3}
    ScreenRows = 4
SPECIFICATION Spec
INVARIANT TypeOK
CHECK_DEADLOCK FALSE
