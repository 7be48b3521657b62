---------------------------- MODULE FinTSDialog ----------------------------
(***************************************************************************)
(* One client of the library and the bank it talks to (protocol.rs,        *)
(* `Dialog<S>`).                                                           *)
(*                                                                         *)
(* The client owns at most one Dialog at a time.  Its typestate parameter  *)
(* S is the variable typestate; "none" means that no Dialog exists (it was *)
(* never created, was consumed by a method, or was dropped).  A method is  *)
(* a call action, which sends a request and suspends at `.await`, and a    *)
(* return action, which handles the answer.                                *)
(*                                                                         *)
(* Requests travel by HTTP POST.  A request the client waits for may fail  *)
(* at any moment (SendFails): lost on its way, refused by HTTP, answered   *)
(* unreadably, or timed out.  The request itself may nevertheless still    *)
(* reach the bank, later and after younger requests.  A request is never   *)
(* delivered twice: the transport does not retry a POST.                   *)
(*                                                                         *)
(* The bank is not part of the repository: the actions Bank... are an      *)
(* assumption about it, taken from how protocol.rs uses it.                *)
(***************************************************************************)
EXTENDS BankParams, FiniteSets

CONSTANTS
    DialogIds,        \* dialog ids the bank can issue
    SystemIds,        \* system ids the bank can issue
    NoSystemId,       \* the system id "0" of a client without one
    SavedIds,         \* system ids the application has from an earlier time
    Operations,       \* the business orders the application uses
    NoRequest,        \* no request is awaited
    NoAnswer,         \* no answer has arrived
    Bpd,              \* the bank's parameters: [version, methods, pins, params]
    Upd,              \* the user's: [version, read, accounts]; read is the
                      \* version the client reads from HIUPA
    AllowedLists,     \* lists of security functions code 3920 can carry
    Preferences,      \* preferred_security_function values a caller sets
    PendingCodes,     \* codes by which the bank says "not confirmed yet"
    UnreadableAnswers,\* whether an answer can lose all its segments
    MaxDialogs,       \* bound: Dialogs created
    MaxNumber         \* bound: messages sent by one Dialog in a row

ASSUME DialogIdAssumption == Unassigned \notin DialogIds
ASSUME SystemIdAssumption == NoSystemId \notin SystemIds /\ SavedIds \subseteq SystemIds
ASSUME BoundAssumption == MaxDialogs \in Nat /\ MaxNumber \in Nat
ASSUME PendingAssumption == PendingCodes \subseteq {"3955", "3956"}
ASSUME UnreadableAssumption == UnreadableAnswers \in BOOLEAN
ASSUME OperationAssumption == Operations \subseteq BusinessOrders
ASSUME AllowedAssumption ==
    /\ AllowedLists \subseteq Seq(SecurityFunctions)
    /\ Preferences \subseteq SecurityFunctions \cup {NoFunction}
ASSUME BankDataAssumption ==
    /\ Bpd.version \in Nat
    /\ Bpd.methods \in Seq(TanMethods)
    /\ Bpd.pins \in PinRules
    /\ Bpd.params \in SUBSET (STRING \X Nat)
    /\ Upd.version \in Nat /\ Upd.read \in Nat
    /\ Upd.accounts \in Seq(Accounts)

VARIABLES
    \* the Dialog object
    typestate, dialog_id, message_number, system_id, params,
    \* its suspended method, and what the last method returned
    pending, answer, outcome,
    \* what the application keeps: the last challenge, the parameters and
    \* system id of the last sync dialog, the number of Dialogs it created
    challenge, stored, serial,
    \* requests not yet processed by the bank, the bank's dialogs
    net, bank,
    \* history: every request ever sent
    sent

dialogVars == <<typestate, dialog_id, message_number, system_id, params>>
appVars == <<challenge, stored, serial>>
vars == <<typestate, dialog_id, message_number, system_id, params, pending,
          answer, outcome, challenge, stored, serial, net, bank, sent>>

-----------------------------------------------------------------------------
(* Requests and answers.                                                   *)

\* Methods that start a dialog; the others that are not orders.
OpeningCalls == {"sync", "init", "probe", "init_no_tan"}
EndCalls == {"end", "synced_end", "probe_end"}
TanCalls == {"poll", "submit_tan", "poll_decoupled_tan"}
Calls == OpeningCalls \cup EndCalls \cup TanCalls \cup Operations

\* A request names the method that sent it and the Dialog object (obj) that
\* ran it; hktan says that HKTAN is among its segments, page that it asks for
\* a further page of an order (a touchdown point is among them).
Requests ==
    [obj : Nat, call : Calls, page : BOOLEAN, did : DialogIds \cup {Unassigned}, num : Nat,
     hktan : BOOLEAN, task : Tasks \cup {NoTask}, fn : SecurityFunctions,
     sys : SystemIds \cup {NoSystemId}, bpd : Nat, upd : Nat]

Answers ==
    [id : DialogIds \cup {Unassigned}, codes : SUBSET Codes,
     hitan : Tasks \cup {NoTask}, hibpa : Seq(Nat), hiupa : Seq(Nat),
     hitans : Seq(TanMethods), hiupd : Seq(Accounts),
     hipins : PinRules,
     params : SUBSET (STRING \X Nat), hisyn : Seq(SystemIds),
     allowed : Seq(SecurityFunctions)]

ASSUME NullAssumption == NoRequest \notin Requests /\ NoAnswer \notin Answers

PlainAnswer(id, codes) ==
    [id |-> id, codes |-> codes, hitan |-> NoTask, hibpa |-> <<>>,
     hiupa |-> <<>>, hitans |-> <<>>, hiupd |-> <<>>,
     hipins |-> NoRules, params |-> {}, hisyn |-> <<>>,
     allowed |-> <<>>]

\* Idle: a Dialog exists or not, and no method of it is running.
Idle == pending = NoRequest

Waiting(call) == pending # NoRequest /\ pending.call = call

Answered(call) == Waiting(call) /\ answer # NoAnswer

\* The number of the first message of a dialog, and of the one after num.
FirstNumberZero == 0
FirstNumber == 1
NextNumberSame(num) == num
NextNumber(num) == num + 1

\* send_segments: the message is built from the fields of the Dialog, the
\* number goes up, and the method suspends until the POST returns.
Send(call, page, did, num, hktan, task, p, sid) ==
    LET q == [obj |-> serial, call |-> call, page |-> page, did |-> did, num |-> num,
              hktan |-> hktan, task |-> task, fn |-> p.selected, sys |-> sid,
              bpd |-> p.bpd_version, upd |-> p.upd_version]
    IN  /\ pending' = q
        /\ answer' = NoAnswer
        /\ message_number' = NextNumber(num)
        /\ net' = net \cup {q}
        /\ sent' = sent \cup {q}

\* The same from a Dialog that changes in no other way; MaxNumber is the
\* model's bound on message numbers (u16 in the code).
SendFrom(state, call, page, hktan, task) ==
    /\ typestate = state
    /\ Idle
    /\ message_number <= MaxNumber
    /\ Send(call, page, dialog_id, message_number, hktan, task, params, system_id)
    /\ UNCHANGED <<typestate, dialog_id, system_id, params, outcome, bank>>
    /\ UNCHANGED appVars

\* A method that took the Dialog by value and did not give it back.
Consumed(result) ==
    /\ typestate' = "none"
    /\ dialog_id' = Unassigned
    /\ message_number' = FirstNumber
    /\ system_id' = NoSystemId
    /\ params' = NewParams
    /\ challenge' = NoTask
    /\ pending' = NoRequest
    /\ answer' = NoAnswer
    /\ outcome' = result

\* What the answer to an opening request changes in the Dialog, p being the
\* parameters after it.
Learn(p) ==
    /\ dialog_id' = ExtractDialogId(dialog_id, answer)
    /\ system_id' = IngestSystemId(system_id, answer)
    /\ params' = p

\* A method that returns with the Dialog in typestate state.
Return(state, result) ==
    /\ typestate' = state
    /\ pending' = NoRequest
    /\ answer' = NoAnswer
    /\ outcome' = result
    /\ UNCHANGED message_number

-----------------------------------------------------------------------------
(* Dialog<New>.                                                            *)

Init ==
    /\ typestate = "none"
    /\ dialog_id = Unassigned
    /\ message_number = FirstNumber
    /\ system_id = NoSystemId
    /\ params = NewParams
    /\ pending = NoRequest
    /\ answer = NoAnswer
    /\ outcome = "none"
    /\ challenge = NoTask
    /\ stored = [system_id |-> NoSystemId, params |-> NewParams]
    /\ serial = 0
    /\ net = {}
    /\ bank = [d \in DialogIds |-> [phase |-> "free", auth |-> FALSE, order |-> "none"]]
    /\ sent = {}

\* Dialog::new, with_system_id, with_params; preferred_security_function is
\* a public field the caller may set.
NewDialog(sid, p, preferred) ==
    /\ typestate = "none" /\ Idle
    /\ serial < MaxDialogs
    /\ serial' = serial + 1
    /\ typestate' = "New"
    /\ dialog_id' = Unassigned
    /\ message_number' = FirstNumber
    /\ system_id' = sid
    /\ params' = [p EXCEPT !.preferred = preferred]
    /\ challenge' = NoTask
    /\ outcome' = "new"
    /\ UNCHANGED <<pending, answer, stored, net, bank, sent>>

\* The application drops a Dialog, or the future of a method that runs.
DropDialog ==
    /\ typestate # "none"
    /\ Consumed("dropped")
    /\ UNCHANGED <<stored, serial, net, bank, sent>>

\* sync: HKIDN + HKVVB + HKSYN.
SyncCall == SendFrom("New", "sync", FALSE, FALSE, NoTask)

\* An answer that asks for a TAN is not checked for errors.
SyncReturn ==
    /\ Answered("sync")
    /\ IF ~NeedsTanAnswer(answer) /\ HasErrors(answer)
       THEN Consumed("err")
       ELSE /\ Learn(SelectSecurityFunction(IngestResponse(params, answer)))
            /\ Return("Synced", "synced")
            /\ UNCHANGED challenge
    /\ UNCHANGED <<stored, serial, net, bank, sent>>

\* init: HKIDN + HKVVB + HKTAN.
InitCall == SendFrom("New", "init", FALSE, TRUE, NoTask)

\* The answer decides: a challenge leads to TanPending, an error consumes
\* the Dialog, anything else opens it.
InitReturn ==
    /\ Answered("init")
    /\ IF RequiresTan(answer)
       THEN /\ Learn(IngestAndNegotiate(params, answer))
            /\ Return("TanPending", "tan_required")
            /\ challenge' = answer.hitan
       ELSE IF HasErrors(answer)
       THEN Consumed("err")
       ELSE /\ Learn(IngestAndNegotiate(params, answer))
            /\ Return("Open", "opened")
            /\ UNCHANGED challenge
    /\ UNCHANGED <<stored, serial, net, bank, sent>>

\* init_no_tan: HKIDN + HKVVB.
InitNoTanCall == SendFrom("New", "init_no_tan", FALSE, FALSE, NoTask)

InitNoTanReturn ==
    /\ Answered("init_no_tan")
    /\ IF HasErrors(answer)
       THEN Consumed("err")
       ELSE /\ Learn(IngestResponse(params, answer))
            /\ Return("Open", "opened")
            /\ UNCHANGED challenge
    /\ UNCHANGED <<stored, serial, net, bank, sent>>

\* init_negotiate: a probe dialog without HKTAN, then init.
ProbeCall == SendFrom("New", "probe", FALSE, FALSE, NoTask)

\* The function is the PIN alone: the bank listed no other.
NothingNegotiatedUnseen(p) == FALSE
NothingNegotiated(p) == p.selected = PinOnly

\* The end of init_negotiate: the probe dialog is forgotten, numbering starts
\* again, and unless the bank listed no function the method goes on as init.
NegotiatedInit(p, sid) ==
    IF NothingNegotiated(p)
    THEN /\ Consumed("err")
         /\ UNCHANGED <<net, sent>>
    ELSE /\ dialog_id' = Unassigned
         /\ system_id' = sid
         /\ params' = p
         /\ Send("init", FALSE, Unassigned, FirstNumber, TRUE, NoTask, p, sid)
         /\ UNCHANGED <<typestate, outcome, challenge>>

\* No error is looked for in the answer to the probe.  A probe dialog the
\* bank opened is ended first.
ProbeReturn ==
    LET id  == ExtractDialogId(dialog_id, answer)
        sid == IngestSystemId(system_id, answer)
        p   == IngestAndNegotiate(params, answer)
    IN  /\ Answered("probe")
        /\ IF id = Unassigned
           THEN NegotiatedInit(p, sid)
           ELSE /\ dialog_id' = id
                /\ system_id' = sid
                /\ params' = p
                /\ Send("probe_end", FALSE, id, message_number, FALSE, NoTask, p, sid)
                /\ UNCHANGED <<typestate, outcome, challenge>>
        /\ UNCHANGED <<stored, serial, bank>>

\* Neither an error nor a failure of HKEND is noticed.
ProbeEndReturn ==
    /\ Answered("probe_end")
    /\ NegotiatedInit(params, system_id)
    /\ UNCHANGED <<stored, serial, bank>>

-----------------------------------------------------------------------------
(* Dialog<Synced>, and the end of a dialog in any typestate.               *)

\* send_end sends nothing when no dialog id is known.
SyncedEndCall ==
    /\ dialog_id # Unassigned
    /\ SendFrom("Synced", "synced_end", FALSE, FALSE, NoTask)

KeepSyncResult ==
    /\ stored' = [system_id |-> system_id, params |-> params]
    /\ Consumed("ended")
    /\ UNCHANGED <<serial, net, bank, sent>>

SyncedEndReturn == Answered("synced_end") /\ KeepSyncResult

SyncedEndSilently ==
    /\ typestate = "Synced" /\ Idle /\ dialog_id = Unassigned
    /\ KeepSyncResult

\* Dialog<Open>::end and Dialog<TanPending>::cancel.
EndCall ==
    /\ dialog_id # Unassigned
    /\ \E state \in {"Open", "TanPending"} : SendFrom(state, "end", FALSE, FALSE, NoTask)

EndReturn ==
    /\ Answered("end")
    /\ Consumed("ended")
    /\ UNCHANGED <<stored, serial, net, bank, sent>>

EndSilently ==
    /\ typestate \in {"Open", "TanPending"} /\ Idle /\ dialog_id = Unassigned
    /\ Consumed("ended")
    /\ UNCHANGED <<stored, serial, net, bank, sent>>

-----------------------------------------------------------------------------
(* Dialog<TanPending>: the TAN of the initialisation.                      *)

PollCall == challenge # NoTask /\ SendFrom("TanPending", "poll", FALSE, TRUE, challenge)

\* What a confirmed TAN changes: parameters are ingested, no function is
\* selected again, and the dialog id stays.
Ingest ==
    /\ params' = IngestResponse(params, answer)
    /\ system_id' = IngestSystemId(system_id, answer)
    /\ UNCHANGED dialog_id

\* 3956 gives the Dialog back; an error consumes it; else the TAN counts as
\* confirmed.
PollReturn ==
    /\ Answered("poll")
    /\ IF IsDecoupledPending(answer)
       THEN /\ Return("TanPending", "pending")
            /\ UNCHANGED <<dialog_id, system_id, params, challenge>>
       ELSE IF HasErrors(answer)
       THEN Consumed("err")
       ELSE /\ Ingest
            /\ Return("Open", "confirmed")
            /\ challenge' = NoTask
    /\ UNCHANGED <<stored, serial, net, bank, sent>>

SubmitTanCall ==
    challenge # NoTask /\ SendFrom("TanPending", "submit_tan", FALSE, TRUE, challenge)

SubmitTanReturn ==
    /\ Answered("submit_tan")
    /\ IF HasErrors(answer)
       THEN Consumed("err")
       ELSE /\ Ingest
            /\ Return("Open", "confirmed")
            /\ challenge' = NoTask
    /\ UNCHANGED <<stored, serial, net, bank, sent>>

-----------------------------------------------------------------------------
(* Dialog<Open>: business orders and the TANs they need.                   *)

\* The orders that are paged: their answer says where to go on.
PagedOrders == {"HKKAZ", "HKWPD", "HKWDU", "DKKKU"}

HktanOrders == {"HKSAL", "HKKAZ", "HKWPD", "HKWDU"}

\* Orders with HKTAN when HIPINS (or its absence) asks for a TAN; the bank's
\* proprietary orders never carry one.
BundlesHktan(op) == op \in HktanOrders /\ OrderNeedsTan(params, op)

\* The first page of an order, or the next one.
OrderCall(op, page) ==
    /\ op \in Operations
    /\ page => op \in PagedOrders /\ outcome = "more"
    /\ SendFrom("Open", op, page, BundlesHktan(op), NoTask)

\* The segment version an order is sent in, from version 7 on with IBAN.
OrderVersion(op) ==
    CASE op = "HKSAL" -> IF SupportedVersion(params, "HISALS", 7) < 5 THEN 5
                         ELSE SupportedVersion(params, "HISALS", 7)
      [] op = "HKKAZ" -> IF SupportedVersion(params, "HIKAZS", 7) < 5 THEN 5
                         ELSE SupportedVersion(params, "HIKAZS", 7)
      [] op = "HKWPD" -> SupportedVersion(params, "HIWPDS", 7)
      [] op = "HKWDU" -> SupportedVersion(params, "HIWDUS", 7)
      [] OTHER -> 0

\* An order for an account without IBAN cannot be built: nothing is sent and
\* the number does not go up.
OrderNotBuilt(op) ==
    /\ op \in Operations
    /\ typestate = "Open" /\ Idle
    /\ OrderVersion(op) >= 7
    /\ outcome' = "err"
    /\ UNCHANGED <<pending, answer, net, bank, sent>>
    /\ UNCHANGED dialogVars /\ UNCHANGED appVars

\* DKWVB and send_raw (RAW) hand the answer out without looking for a
\* challenge, send_raw not even for errors.
AsksForTan(op, r) == op \notin {"DKWVB", "RAW"} /\ OrderRequiresTan(r)

OrderResult(op, r) ==
    CASE AsksForTan(op, r) -> "need_tan"
      [] ~AsksForTan(op, r) /\ op # "RAW" /\ HasErrors(r) -> "err"
      [] OTHER -> IF op \in PagedOrders /\ Touchdown(r) THEN "more" ELSE "success"

\* An order leaves the Dialog open whatever the answer.
OrderReturn(op) ==
    /\ Answered(op) /\ op \in Operations
    /\ Return("Open", OrderResult(op, answer))
    /\ challenge' = IF AsksForTan(op, answer) THEN answer.hitan ELSE challenge
    /\ UNCHANGED <<dialog_id, system_id, params, stored, serial, net, bank, sent>>

PollDecoupledTanCall ==
    /\ challenge # NoTask
    /\ SendFrom("Open", "poll_decoupled_tan", FALSE, TRUE, challenge)

PollDecoupledTanReturn ==
    /\ Answered("poll_decoupled_tan")
    /\ IF IsDecoupledPending(answer) \/ HasErrors(answer)
       THEN /\ Return("Open", IF IsDecoupledPending(answer) THEN "pending" ELSE "err")
            /\ UNCHANGED <<dialog_id, system_id, params, challenge>>
       ELSE /\ Ingest
            /\ Return("Open", "confirmed")
            /\ challenge' = NoTask
    /\ UNCHANGED <<stored, serial, net, bank, sent>>

-----------------------------------------------------------------------------
(* The transport.                                                          *)

\* The methods on &mut self: an error leaves the Dialog with its owner.
KeepsDialogPolled == Operations \cup {"poll_decoupled_tan", "poll"}
KeepsDialogEnded == Operations \cup {"poll_decoupled_tan", "end"}
KeepsDialog == Operations \cup {"poll_decoupled_tan"}

\* connection.send returns an error.  Methods that took the Dialog by value
\* drop it, and the end of a dialog ignores the error.
SendFails ==
    /\ ~Idle
    /\ \/ /\ pending.call \in KeepsDialog
          /\ Return(typestate, "err")
          /\ UNCHANGED <<dialog_id, system_id, params, challenge>>
          /\ UNCHANGED <<stored, serial, net, bank, sent>>
       \/ /\ pending.call = "probe_end"
          /\ NegotiatedInit(params, system_id)
          /\ UNCHANGED <<stored, serial, bank>>
       \/ pending.call = "synced_end" /\ KeepSyncResult
       \/ /\ pending.call \notin KeepsDialog \cup {"probe_end", "synced_end"}
          /\ Consumed(IF pending.call = "end" THEN "ended" ELSE "err")
          /\ UNCHANGED <<stored, serial, net, bank, sent>>

-----------------------------------------------------------------------------
(* The bank (external).  Phases of a dialog: "free" (id not issued),       *)
(* "sync", "pin" (authenticated by PIN), "tan" (waits for a TAN), "open",  *)
(* "ended"; auth says that the bank ever admitted orders to it; order is   *)
(* the state of the TAN of an order.                                       *)

BankDialogs ==
    [phase : {"free", "sync", "pin", "tan", "open", "ended"}, auth : BOOLEAN,
     order : {"none", "wanted", "released"}]

\* Answers the client can read instead of r: an HNVSD that does not parse is
\* logged and skipped, an empty HTTP body is a message without segments.
Readings(r) ==
    IF UnreadableAnswers
    THEN {r, PlainAnswer(r.id, {}), PlainAnswer(Unassigned, {})}
    ELSE {r}

\* The bank takes request q from the network and answers r; the answer is
\* lost when the client no longer waits for it.
Reply(q, r) ==
    /\ net' = net \ {q}
    /\ answer' \in IF q = pending THEN Readings(r) ELSE {answer}
    /\ UNCHANGED <<pending, outcome, sent>>
    /\ UNCHANGED dialogVars /\ UNCHANGED appVars

\* An answer to HKVVB: parameters whose version is not the client's, and the
\* allowed security functions.
OpeningAnswer(q, id, codes, allowed) ==
    LET bpdIsOld == q.bpd # Bpd.version
        updIsOld == q.upd # Upd.version
    IN  [PlainAnswer(id, codes) EXCEPT
            !.hibpa   = IF bpdIsOld THEN <<Bpd.version>> ELSE @,
            !.hitans  = IF bpdIsOld THEN Bpd.methods ELSE @,
            !.hipins  = IF bpdIsOld THEN Bpd.pins ELSE @,
            !.params  = IF bpdIsOld THEN Bpd.params ELSE @,
            !.hiupa   = IF updIsOld THEN <<Upd.read>> ELSE @,
            !.hiupd   = IF updIsOld THEN Upd.accounts ELSE @,
            !.allowed = allowed]

Enters(d, phase) ==
    bank' = [bank EXCEPT ![d].phase = phase,
                         ![d].auth = @ \/ phase \in {"pin", "open"}]

\* An opening request by one of the given methods can be given the new id d.
CanOpen(q, calls, d) ==
    q.did = Unassigned /\ q.call \in calls /\ bank[d].phase = "free"

\* A sync dialog: normally a new system id; a bank that wants a TAN first
\* gives none.
BankSyncs(q, d, allowed) ==
    /\ CanOpen(q, {"sync"}, d)
    /\ Enters(d, "sync")
    /\ \/ \E s \in SystemIds :
             Reply(q, [OpeningAnswer(q, d, {"0020"}, allowed) EXCEPT !.hisyn = <<s>>])
       \/ Reply(q, OpeningAnswer(q, d, {"0030"}, allowed))

\* A dialog without HKTAN is admitted by PIN.
BankAdmitsPin(q, d, allowed) ==
    /\ CanOpen(q, {"probe", "init_no_tan"}, d)
    /\ Enters(d, "pin")
    /\ Reply(q, OpeningAnswer(q, d, {"0020"}, allowed))

\* An initialisation with HKTAN, exempt from the TAN or not.
BankExempts(q, d, allowed) ==
    /\ CanOpen(q, {"init"}, d) /\ q.fn # PinOnly
    /\ Enters(d, "open")
    /\ Reply(q, OpeningAnswer(q, d, {"0020", "3076"}, allowed))

BankAsksTan(q, d, allowed) ==
    /\ CanOpen(q, {"init"}, d) /\ q.fn # PinOnly
    /\ Enters(d, "tan")
    /\ \E c \in {"0030", "3955"} :
          Reply(q, [OpeningAnswer(q, d, {c}, allowed) EXCEPT !.hitan = "init"])

\* A refused opening: no dialog comes to exist, parameters may come along.
BankRefuses(q, allowed) ==
    /\ q.did = Unassigned
    /\ Reply(q, OpeningAnswer(q, Unassigned, {"9110"}, allowed))
    /\ UNCHANGED bank

\* A request in a dialog: rejected, with or without the end of the dialog.
BankRejects(q) ==
    /\ q.did # Unassigned
    /\ \/ Reply(q, PlainAnswer(q.did, {"9010"})) /\ UNCHANGED bank
       \/ Reply(q, PlainAnswer(q.did, {"9800"})) /\ Enters(q.did, "ended")

BankEnds(q) ==
    /\ q.did # Unassigned /\ q.call \in EndCalls
    /\ Enters(q.did, "ended")
    /\ Reply(q, PlainAnswer(q.did, {"0100"}))

WantsTan(q) ==
    /\ q.did # Unassigned /\ q.call \in TanCalls
    /\ \/ bank[q.did].phase = "tan" /\ q.task = "init"
       \/ bank[q.did].phase = "open" /\ q.task = "order" /\ bank[q.did].order = "wanted"

BankStillWaits(q) ==
    /\ WantsTan(q) /\ q.call # "submit_tan"
    /\ \E c \in PendingCodes : Reply(q, PlainAnswer(q.did, {c}))
    /\ UNCHANGED bank

BankConfirms(q) ==
    /\ WantsTan(q)
    /\ IF q.task = "init" THEN Enters(q.did, "open")
                          ELSE bank' = [bank EXCEPT ![q.did].order = "released"]
    /\ Reply(q, PlainAnswer(q.did, {"0020"}))

\* An order: served, served under an exemption, or made to wait for a TAN.
BankServes(q) ==
    /\ q.did # Unassigned /\ q.call \in Operations
    /\ bank[q.did].phase \in {"pin", "open"}
    /\ bank' = [bank EXCEPT ![q.did].order = "none"]
    /\ \/ Reply(q, PlainAnswer(q.did, {"0020"}))
       \/ Reply(q, PlainAnswer(q.did, {"0020", "3040"}))
       \/ Reply(q, [PlainAnswer(q.did, {"0030", "3076"}) EXCEPT !.hitan = "order"])

BankChallenges(q) ==
    /\ q.did # Unassigned /\ q.call \in Operations
    /\ bank[q.did].phase = "open" /\ bank[q.did].order # "released"
    /\ bank' = [bank EXCEPT ![q.did].order = "wanted"]
    /\ \E c \in {"0030", "3955"} :
          Reply(q, [PlainAnswer(q.did, {c}) EXCEPT !.hitan = "order"])

-----------------------------------------------------------------------------
ClientStep ==
    \/ \E sid \in SavedIds \cup {NoSystemId, stored.system_id}, preferred \in Preferences :
          NewDialog(sid, NewParams, preferred) \/ NewDialog(sid, stored.params, preferred)
    \/ DropDialog
    \/ SyncCall \/ SyncReturn \/ InitCall \/ InitReturn
    \/ InitNoTanCall \/ InitNoTanReturn
    \/ ProbeCall \/ ProbeReturn \/ ProbeEndReturn
    \/ SyncedEndCall \/ SyncedEndReturn \/ SyncedEndSilently
    \/ EndCall \/ EndReturn \/ EndSilently
    \/ PollCall \/ PollReturn \/ SubmitTanCall \/ SubmitTanReturn
    \/ \E op \in Operations : 
          OrderCall(op, FALSE) \/ OrderCall(op, TRUE) \/ OrderNotBuilt(op) \/ OrderReturn(op)
    \/ PollDecoupledTanCall \/ PollDecoupledTanReturn

BankStep ==
    \E q \in net :
        \/ \E d \in DialogIds, allowed \in AllowedLists :
              \/ BankSyncs(q, d, allowed) \/ BankAdmitsPin(q, d, allowed)
              \/ BankExempts(q, d, allowed) \/ BankAsksTan(q, d, allowed)
        \/ \E allowed \in AllowedLists : BankRefuses(q, allowed)
        \/ BankRejects(q) \/ BankEnds(q) \/ BankStillWaits(q) \/ BankConfirms(q)
        \/ BankServes(q) \/ BankChallenges(q)

Next == ClientStep \/ SendFails \/ BankStep

Spec == Init /\ [][Next]_vars

-----------------------------------------------------------------------------
(* Properties.                                                             *)

Outcomes == {"none", "new", "dropped", "err", "synced", "ended", "tan_required",
             "opened", "pending", "confirmed", "need_tan", "more", "success"}

\* Every variable of the client, the network and the bank has its type.
TypeOK ==
    /\ typestate \in {"none", "New", "Synced", "TanPending", "Open"}
    /\ dialog_id \in DialogIds \cup {Unassigned}
    /\ message_number \in Nat \ {0}
    /\ system_id \in SystemIds \cup {NoSystemId}
    /\ params \in BankParamsType
    /\ pending \in Requests \cup {NoRequest}
    /\ answer \in Answers \cup {NoAnswer}
    /\ outcome \in Outcomes
    /\ challenge \in Tasks \cup {NoTask}
    /\ stored \in [system_id : SystemIds \cup {NoSystemId}, params : BankParamsType]
    /\ serial \in Nat
    /\ net \in SUBSET Requests
    /\ bank \in [DialogIds -> BankDialogs]
    /\ sent \in SUBSET Requests

\* No message number is used twice in a dialog, whatever failed before
\* (send_segments counts before it sends; init_negotiate starts again at 1).
NumbersNeverReused ==
    \A q, r \in sent :
        q.did # Unassigned /\ q.did = r.did /\ q.num = r.num => q = r

\* The numbers of a dialog leave no gap, and number 1 belongs to openings,
\* although a failed request, or one that could not be built, may come
\* between two messages.
NumberedConsecutively ==
    /\ NumbersNeverReused
    /\ \A q \in sent :
          IF q.did = Unassigned
          THEN q.num = 1 /\ q.call \in OpeningCalls
          ELSE q.num = 2 \/ \E r \in sent : r.did = q.did /\ r.num = q.num - 1

\* Nothing is sent in a dialog after its HKEND (send_end forgets the id, and
\* end, cancel and init_negotiate give the ended dialog up).
\* What was sent before it may arrive later.
EndIsLast ==
    \A q, r \in sent :
        q.did # Unassigned /\ q.did = r.did /\ q.call \in EndCalls => r.num <= q.num

Admitted(d) == d \in DialogIds /\ bank[d].auth

\* A Dialog is Open only when the bank admitted its dialog id, by PIN or
\* after the TAN, and orders were sent only to such dialogs (what the
\* typestate Open stands for).  Of banks that say 3956 while they wait, and of
\* answers that can be read.
OpenOnlyIfAdmitted ==
    /\ typestate = "Open" => Admitted(dialog_id)
    /\ \A q \in sent : q.call \in Operations => Admitted(q.did)

\* A caller that holds a Dialog<TanPending> holds one whose dialog waits for
\* exactly that TAN at the bank: no lost answer, late request or rejection
\* leaves it with a challenge that was already used (poll and submit_tan give
\* the Dialog back only on 3956).
TanPendingInStep ==
    typestate = "TanPending" /\ Idle =>
        /\ dialog_id \in DialogIds /\ bank[dialog_id].phase = "tan"
        /\ challenge = "init"

\* init_negotiate signs its initialisation with a negotiated function, never
\* with the PIN alone, under the system id of its probe and after the end of
\* every dialog the client knows of.
NegotiationIsSound ==
    \A q, r \in sent :
        q.call = "probe" /\ r.call = "init" /\ r.obj = q.obj =>
            r.fn # PinOnly /\ r.sys = q.sys /\ r.did = Unassigned

\* An initialisation is signed with a function of the last list the bank
\* sent (3920), if that lists any but the PIN alone.
SignedAsAllowed ==
    Waiting("init") /\ BestAllowed(params) # {} =>
        \E i \in 1..Len(params.allowed) : params.allowed[i] = pending.fn

Repeats(s) == \E i, j \in 1..Len(s) : i # j /\ s[i] = s[j]

BpdIsWhole(p) ==
    IF p.bpd_version = Bpd.version
    THEN /\ p.tan_methods = Bpd.methods
         /\ p.operation_tan_required = Bpd.pins
         /\ p.bpd_segments = Bpd.params
    ELSE p.tan_methods = <<>> /\ p.operation_tan_required = NoRules /\ p.bpd_segments = {}

\* The bank's parameters are learned once and whole: caches that carry their
\* version hold its TAN methods, its rules and its segments, none of them twice,
\* and caches of another version hold none, however many dialogs share them and
\* whichever answers are lost or unreadable (HKVVB announces the cached version,
\* ingest_response appends).
LearnedOnce == \A p \in {params, stored.params} : BpdIsWhole(p)

\* No later dialog lists an account again, as the cached versions promise.
AccountsListedOnce == \A p \in {params, stored.params} : ~Repeats(p.accounts_from_upd)

\* The abstract specification: seen through its dialog id, its message number
\* and the messages it sent, the client leads one Conversation after another.
C == INSTANCE Conversation WITH
        current <- dialog_id,
        next    <- message_number,
        over    <- (pending # NoRequest /\ pending.call \in EndCalls),
        wire    <- {<<q.did, q.num>> : q \in sent}

\* Every step is a step of the abstract conversation or changes nothing of it.
LeadsConversations == C!Spec
=============================================================================
