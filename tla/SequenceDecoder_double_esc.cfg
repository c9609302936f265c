SPECIFICATION Spec
CONSTANTS
    Items <- DoubleEscItems
    MaxItems = 2
    MaxChunk = 8
INVARIANTS
    CommandsComeThrough
CHECK_DEADLOCK FALSE
