SPECIFICATION Spec
CONSTANTS
    Width = 2
    Height = 3
    WrapColumn = 3
    Glyphs = {a, b}
    Blank = "blank"
    MaxInputs = 5
    Commands <- AllCommands
SYMMETRY GlyphsAlike
INVARIANTS
    TypeOK
    TextInReadingOrder
    ClipboardMatchesPicture
PROPERTY ScrollKeepsRest
CHECK_DEADLOCK FALSE
