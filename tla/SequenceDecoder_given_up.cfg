SPECIFICATION Spec
CONSTANTS
    Items <- GivenUpItems
    MaxItems = 2
    MaxChunk = 8
INVARIANTS
    CommandsComeThrough
CHECK_DEADLOCK FALSE
