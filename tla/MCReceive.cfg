\* A buffer that a request can fill exactly; two requests, or one and a piece of
\* another, in it.
CONSTANTS
    ALL_MESSAGES_CODES <- Table
    N <- TableLength
    Inputs <- LookedUp
    Invalid = Invalid
    Alone <- MCAlone
    Mixed <- MCMixed
    BufLen = 9
    MaxBytes = 18
SPECIFICATION RSpec
CHECK_DEADLOCK FALSE
INVARIANTS
    InBounds
    SearchCorrect
    
    AcceptedWasSent
    RequestUnderstood
    NothingDropped
PROPERTY EveryMessageJudged
