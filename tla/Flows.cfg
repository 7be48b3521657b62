\* initiate with and without a system id, and confirm_and_fetch.
SPECIFICATION FlowSpec
CONSTANTS
    Unassigned = Unassigned
    SecurityFunctions = {912, 999}
    PinOnly = 999
    Accounts = {"giro"}
    NoFunction = 0
    Operations = {"HKSAL"}
    DialogIds = {d1, d2, d3, d4}
    SystemIds = {s1, s2}
    NoSystemId = NoSystemId
    SavedIds = {s1}
    NoRequest = NoRequest
    NoAnswer = NoAnswer
    Bpd <- MCBpd
    Upd <- MCUpd
    AllowedLists <- MCAllowed
    Preferences = {0}
    PendingCodes = {"3956"}
    UnreadableAnswers = FALSE
    MaxDialogs = 3
    MaxNumber = 4
    Parks = TRUE
SYMMETRY MCSymmetry
INVARIANTS
    FlowTracksDialog
    HeldDialogIsGood
    DeviceIsKept
    AtMostThreeTries
\* A flow that is over stops.
CHECK_DEADLOCK FALSE
