\* One Dialog at a bank whose answers all arrive or get lost whole.
SPECIFICATION Spec
CONSTANTS
    Unassigned = Unassigned
    SecurityFunctions = {912, 921, 999}
    PinOnly = 999
    Accounts = {"giro"}
    NoFunction = 0
    Operations = {}
    DialogIds = {d1, d2, d3}
    SystemIds = {s1}
    NoSystemId = NoSystemId
    SavedIds = {}
    NoRequest = NoRequest
    NoAnswer = NoAnswer
    Bpd <- MCBpd
    Upd <- MCUpd
    AllowedLists <- MCAllowed
    Preferences = {0}
    PendingCodes = {"3956"}
    UnreadableAnswers = FALSE
    MaxDialogs = 1
    MaxNumber = 3
SYMMETRY MCSymmetry
INVARIANTS
    AccountsListedOnce
\* The application stops after MaxDialogs Dialogs.
CHECK_DEADLOCK FALSE
