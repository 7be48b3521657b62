\* Orders for an account without an IBAN.
SPECIFICATION Spec
CONSTANTS
    MaxNumeral = 999
    Ibans <- MCIbans
    Bics <- MCBics
    Isins <- MCIsins
    Wkns <- MCWkns
    ThreeLetters <- MCThreeLetters
    Dates <- MCDates
    ShortNumbers <- MCShortNumbers
    Alphabetic <- MCAlphabetic
    None = None
    NewLine = "newline"
    Joint = "|"
    Letters <- MCLetters
INVARIANT NationalIsRefused
\* An exchange is over when its last message is read.
CHECK_DEADLOCK FALSE
