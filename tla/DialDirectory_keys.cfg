CONSTANTS
    TermWidth = 80
    TermHeight = 25
    IsDialDirectory = TRUE
    KeyMapNames = {"ANSI"}
    Keys <- MCKeys
    Texts = {"]", "[", "?"}
    Clippings = {}
    Points <- MCPoints
    WindowSizes <- MCSizes
    DesktopSize <- MCDesktop
    MaxInput = 2
    Menus <- MCMenus
    Themes <- MCThemes
    DirectorySizes = {0, 3}
    ScreenRows = 4
SPECIFICATION Spec
INVARIANTS TypeOK PageHoldsSelection PictureShowsSelection
PROPERTIES DialsWhatIsShown
CHECK_DEADLOCK FALSE
