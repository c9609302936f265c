SPECIFICATION Spec
CONSTANTS
    Options <- AllOptions
    Text = {65}
    TermWidth = 132
    TermHeight = 50
    MaxMessages = 1
INVARIANT RepliesAreAnswersAlways
