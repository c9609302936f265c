SPECIFICATION Spec
CONSTANTS
    Options <- AllOptions
    Text = {65}
    TermWidth = 132
    TermHeight = 50
    MaxMessages = 3
INVARIANTS
    TypeOK
    TextComesThrough
    RepliesAreAnswers
    NoLoop
    BinaryIsAgreed
    NawsTellsSize
