CONSTANTS
    FieldLength = 1
    Lines <- MCPercent
    Inputs <- NoInputs
    MaxLines = 2
    MaxShown = 2
SPECIFICATION Spec
INVARIANT TextIsShown
CHECK_DEADLOCK FALSE
