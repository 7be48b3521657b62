\* A fetch without TAN callback, as a Flow makes it.
SPECIFICATION Spec
CONSTANTS
    FetchCalls <- MCOpts
    BankData <- MCData
    TanPollMax = 3
INVARIANT EverythingFetched
\* The call returns.
CHECK_DEADLOCK FALSE
