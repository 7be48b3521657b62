\* One message and its answer, for every request and answer of MCMessages.
SPECIFICATION Spec
CONSTANTS
    MaxNumeral = 999
    Ibans <- MCIbans
    Bics <- MCBics
    Isins <- MCIsins
    Wkns <- MCWkns
    ThreeLetters <- MCThreeLetters
    Dates <- MCDates
    ShortNumbers <- MCShortNumbers
    Alphabetic <- MCAlphabetic
    None = None
    NewLine = "newline"
    Joint = "|"
    Letters <- MCLetters
INVARIANTS
    RoundTrip
    IsConsistent
    OrdersFitTheBank
    ServerReadsRequest
    OpeningIsRead
    OrdersAreAnswered
    BankIsRead
    CutIsNoticed
    CutIsPrefix
\* An exchange is over when its last message is read.
CHECK_DEADLOCK FALSE
