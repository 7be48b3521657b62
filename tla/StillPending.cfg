\* A bank that says 3955 as well as 3956 while the TAN is not confirmed.
SPECIFICATION Spec
CONSTANTS
    Unassigned = Unassigned
    SecurityFunctions = {912, 921, 999}
    PinOnly = 999
    Accounts = {"giro"}
    NoFunction = 0
    Operations = {}
    DialogIds = {d1, d2, d3}
    SystemIds = {s1}
    NoSystemId = NoSystemId
    SavedIds = {}
    NoRequest = NoRequest
    NoAnswer = NoAnswer
    Bpd <- MCBpd
    Upd <- MCUpd
    AllowedLists <- MCAllowed
    Preferences = {0}
    PendingCodes = {"3955", "3956"}
    UnreadableAnswers = FALSE
    MaxDialogs = 1
    MaxNumber = 3
SYMMETRY MCSymmetry
INVARIANTS
    OpenOnlyIfAdmitted
\* The application stops after MaxDialogs Dialogs.
CHECK_DEADLOCK FALSE
