CONSTANTS
    TermWidth = 80
    TermHeight = 25
    IsDialDirectory = TRUE
    KeyMapNames = {"ANSI"}
    Keys <- MCFewKeys
    Texts = {"]", "[", "?"}
    Clippings = {}
    Points <- MCPoints
    WindowSizes <- MCSizes
    DesktopSize <- MCDesktop
    MaxInput = 2
    Menus <- MCMenus
    Themes <- MCOtherBoxes
    DirectorySizes = {3}
    ScreenRows = 4
SPECIFICATION Spec
INVARIANT PageHoldsSelection
CHECK_DEADLOCK FALSE
