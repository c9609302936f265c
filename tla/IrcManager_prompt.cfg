CONSTANTS
    FieldLength = 1
    Lines <- NoLines
    Inputs <- MoreInputs
    MaxLines = 2
    MaxShown = 2
SPECIFICATION Spec
INVARIANTS TypeOK NothingIsLost LinesAreWhole PingsAreAnswered PromptShowsLine CodesAreReplacedInPlace
CHECK_DEADLOCK FALSE
