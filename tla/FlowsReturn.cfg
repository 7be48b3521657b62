\* Calls of initiate and of Session::fetch come back (no symmetry: a temporal
\* property).
SPECIFICATION FairFlowSpec
CONSTANTS
    Unassigned = Unassigned
    SecurityFunctions = {912, 999}
    PinOnly = 999
    Accounts = {"giro"}
    NoFunction = 0
    Operations = {}
    DialogIds = {d1, d2, d3, d4}
    SystemIds = {s1}
    NoSystemId = NoSystemId
    SavedIds = {s1}
    NoRequest = NoRequest
    NoAnswer = NoAnswer
    Bpd <- MCBpd
    Upd <- MCUpd
    AllowedLists <- MCAllowed
    Preferences = {0}
    PendingCodes = {"3956"}
    UnreadableAnswers = TRUE
    MaxDialogs = 3
    MaxNumber = 3
    Parks = FALSE
PROPERTY CallsReturn
\* A flow that is over stops.
CHECK_DEADLOCK FALSE
