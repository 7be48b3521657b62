\* Every call, against three banks.
SPECIFICATION FairSpec
CONSTANTS
    FetchCalls <- MCCalls
    BankData <- MCData
    TanPollMax = 3
INVARIANTS
    FetchInv
    PagesInOrder
    OkIsNotCutShort
    NoticeIsTrue
PROPERTIES
    RepeatsOnlyReleased
    Terminates
\* The call returns.
CHECK_DEADLOCK FALSE
