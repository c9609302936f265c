CONSTANTS
    FieldLength = 1
    Lines <- MCLines
    Inputs <- MCInputs
    MaxLines = 2
    MaxShown = 2
SPECIFICATION Spec
INVARIANTS NothingIsLost LinesAreWhole PingsAreAnswered PromptShowsLine CodesAreReplacedInPlace
CHECK_DEADLOCK FALSE
