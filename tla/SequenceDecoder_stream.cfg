SPECIFICATION Spec
CONSTANTS
    Items <- PlainItems
    MaxItems = 3
    MaxChunk = 8
INVARIANTS
    TypeOK
    StreamIsShownInOrder
    NothingIsHeldBack
CHECK_DEADLOCK FALSE
