\* One Dialog with room for orders, their pages and their TANs, as a Conversation.
SPECIFICATION Spec
CONSTANTS
    Unassigned = Unassigned
    SecurityFunctions = {912, 921, 999}
    PinOnly = 999
    Accounts = {"giro"}
    NoFunction = 0
    Operations = {"HKSAL", "HKKAZ", "DKKKU", "RAW"}
    DialogIds = {d1, d2, d3}
    SystemIds = {s1}
    NoSystemId = NoSystemId
    SavedIds = {s1}
    NoRequest = NoRequest
    NoAnswer = NoAnswer
    Bpd <- MCBpd
    Upd <- MCUpd
    AllowedLists <- MCAllowed
    Preferences = {0}
    PendingCodes = {"3956"}
    UnreadableAnswers = FALSE
    MaxDialogs = 1
    MaxNumber = 4
SYMMETRY MCSymmetry
PROPERTY LeadsConversations
INVARIANTS
    AdmissionInv
    NumberedConsecutively
    OpenOnlyIfAdmitted
\* The application stops after MaxDialogs Dialogs.
CHECK_DEADLOCK FALSE
