\* Two Dialogs in a row without orders: what the first leaves behind for the
\* second, with bank lists of functions that change, and answers that can reach
\* the client without their segments.
SPECIFICATION Spec
CONSTANTS
    Unassigned = Unassigned
    SecurityFunctions = {912, 921, 999}
    PinOnly = 999
    Accounts = {"giro"}
    NoFunction = 0
    Operations = {}
    DialogIds = {d1, d2, d3}
    SystemIds = {s1}
    NoSystemId = NoSystemId
    SavedIds = {}
    NoRequest = NoRequest
    NoAnswer = NoAnswer
    Bpd <- MCBpd
    Upd <- MCUpd
    AllowedLists <- MCAllowedVaries
    Preferences = {0, 921}
    PendingCodes = {"3956"}
    UnreadableAnswers = TRUE
    MaxDialogs = 2
    MaxNumber = 3
SYMMETRY MCSymmetry
INVARIANTS
    TypeOK
    NegotiationIsSound
    SignedAsAllowed
    LearnedOnce
    TanPendingInStep
    NumberingInv
    NumbersNeverReused
    EndIsLast
\* The application stops after MaxDialogs Dialogs.
CHECK_DEADLOCK FALSE
