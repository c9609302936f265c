CONSTANTS
    TermWidth = 4
    TermHeight = 3
    IsDialDirectory = FALSE
    KeyMapNames <- MCKeyMaps
    Keys <- MCKeys
    Texts = {"a"}
    Clippings <- MCClippings
    Points <- MCPoints
    WindowSizes <- MCSizes
    DesktopSize <- MCDesktop
    MaxInput = 1
SPECIFICATION InputSpec
INVARIANTS SelectionOnScreen CopiedIsMeant
CHECK_DEADLOCK FALSE
