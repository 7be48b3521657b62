--------------------------- MODULE FinTSDialogInv ---------------------------
(***************************************************************************)
(* The inductive invariants behind the safety properties of FinTSDialog.   *)
(***************************************************************************)
EXTENDS FinTSDialog

\* The answer awaited by the client names no dialog, the dialog the client is
\* in, or one no message ever named.
AnswerNames ==
    answer # NoAnswer =>
        /\ ~Idle
        /\ \/ answer.id \in {Unassigned, pending.did}
           \/ /\ bank[answer.id].phase # "free"
              /\ \A q \in sent : q.did # answer.id

\* Ids in use were issued by the bank.
IdsIssued ==
    /\ dialog_id # Unassigned => bank[dialog_id].phase # "free"
    /\ \A q \in sent : q.did # Unassigned => bank[q.did].phase # "free"

\* The next message number of the current dialog is above all of its past.
NumberAhead ==
    \A q \in sent :
        q.did = dialog_id /\ dialog_id # Unassigned => q.num < message_number

\* The current dialog has been ended by nothing but the request that is under
\* way.
NotYetEnded ==
    \A q \in sent :
        q.did = dialog_id /\ dialog_id # Unassigned /\ q.call \in EndCalls => q = pending

\* Numbering and the end of dialogs as an inductive invariant: a dialog the
\* client is in has a past below its next number and no end, and an id it is
\* about to adopt has no past (send_segments, extract_dialog_id, send_end).
NumberingInv ==
    /\ Idle \/ pending.did = dialog_id
    /\ AnswerNames
    /\ IdsIssued
    /\ NumberAhead
    /\ NotYetEnded
    /\ NumbersNeverReused
    /\ EndIsLast

\* A method may open the Dialog on answer r to request q.
Supports(q, r) ==
    /\ q.call = "init" => RequiresTan(r) \/ HasErrors(r) \/ Admitted(r.id)
    /\ q.call = "init_no_tan" => HasErrors(r) \/ Admitted(r.id)
    /\ q.call = "poll" => IsDecoupledPending(r) \/ HasErrors(r) \/ Admitted(q.did)
    /\ q.call = "submit_tan" => HasErrors(r) \/ Admitted(q.did)

\* Admission as an inductive invariant: what the bank serves orders in was
\* admitted, what the client may take for an admission is one, and while a
\* method runs the Dialog is in the state the method started from.
AdmissionInv ==
    /\ OpenOnlyIfAdmitted
    /\ ~Idle /\ answer # NoAnswer => Supports(pending, answer)
    /\ Idle \/ pending.did = dialog_id
    /\ ~Idle /\ pending.call \in KeepsDialog => typestate = "Open"
    /\ ~Idle /\ pending.call \in OpeningCalls \cup {"probe_end"} => typestate = "New"
    /\ \A d \in DialogIds : bank[d].phase \in {"pin", "open"} => bank[d].auth

\* The typestate in which a method runs.
RunsIn(call) ==
    CASE call \in OpeningCalls \cup {"probe_end"} -> {"New"}
      [] call = "synced_end"                      -> {"Synced"}
      [] call \in {"poll", "submit_tan"}          -> {"TanPending"}
      [] call = "end"                             -> {"Open", "TanPending"}
      [] OTHER                                    -> {"Open"}

\* The suspended method, as an inductive invariant: it is one of its
\* typestate, its request is the current Dialog's in the current dialog, and
\* an answer is there only while one is awaited (send_segments).
MethodInv ==
    /\ ~Idle =>
          /\ typestate \in RunsIn(pending.call)
          /\ pending \in sent /\ pending.obj = serial /\ pending.did = dialog_id
    /\ Idle => answer = NoAnswer
    /\ net \subseteq sent
    /\ \A q \in sent : q.obj <= serial

\* The bank waits for the TAN of dialog d, and no request other than the
\* awaited one is on its way there.
IsWaiting(d) ==
    /\ d \in DialogIds
    /\ bank[d].phase = "tan"
    /\ \A q \in net : q.did # d

\* The TAN of the initialisation, as an inductive invariant: a Dialog that
\* waits for it is in a dialog the bank holds for exactly it, and what init
\* and poll conclude from an answer keeps it so (init, poll).
TanInv ==
    /\ typestate = "TanPending" =>
          /\ challenge = "init"
          /\ dialog_id \in DialogIds
          /\ Idle => IsWaiting(dialog_id)
          /\ \A q \in net : q.did = dialog_id => q = pending
    /\ Waiting("poll") => pending.task = "init"
    /\ Answered("init") /\ RequiresTan(answer) => answer.hitan = "init" /\ IsWaiting(answer.id)
    /\ Answered("poll") /\ IsDecoupledPending(answer) => IsWaiting(dialog_id)

\* init_negotiate as an inductive invariant: a Dialog that was not used has
\* sent nothing, and one whose probe is under way no initialisation, under its
\* system id, which the answer to the probe leaves alone.
NegotiationInv ==
    /\ NegotiationIsSound
    /\ typestate = "New" /\ Idle => \A q \in sent : q.obj # serial
    /\ Waiting("probe") \/ Waiting("probe_end") =>
          \A q \in sent : q.obj = serial =>
              q.call # "init" /\ (q.call = "probe" => q.sys = system_id)
    /\ Answered("probe") => answer.hisyn = <<>>

\* The selected function is an allowed one unless the PIN is all there is.
SelectedIsAllowed(p) ==
    BestAllowed(p) # {} => \E i \in 1..Len(p.allowed) : p.allowed[i] = p.selected

\* The selection as an inductive invariant: until a dialog is initialised,
\* and in what a sync dialog leaves to the next one
\* (select_security_function).
SelectionInv ==
    /\ typestate \in {"New", "Synced"} => SelectedIsAllowed(params)
    /\ SelectedIsAllowed(stored.params)
    /\ Waiting("init") => pending.fn = params.selected

\* Answer r brings nothing of the bank's parameters, or all of them.
BringsNoBpd(r) ==
    r.hibpa = <<>> /\ r.hitans = <<>> /\ r.hipins = NoRules /\ r.params = {}
BringsBpd(r) ==
    /\ r.hibpa = <<Bpd.version>> /\ r.hitans = Bpd.methods
    /\ r.hipins = Bpd.pins /\ r.params = Bpd.params

\* The caches as an inductive invariant: a request announces the version the
\* client has, and its answer brings the parameters only to caches of another
\* (HKVVB, ingest_response).
LearningInv ==
    /\ LearnedOnce
    /\ ~Idle => pending.bpd = params.bpd_version
    /\ ~Idle /\ answer # NoAnswer =>
          BringsNoBpd(answer) \/ (params.bpd_version # Bpd.version /\ BringsBpd(answer))

\* Consecutive numbers as an inductive invariant: a Dialog that has no dialog
\* yet has sent nothing or its opening, one that has a dialog follows its last
\* message, and init concludes nothing from an answer without a dialog id.
CountingInv ==
    /\ NumberedConsecutively
    /\ typestate = "New" /\ Idle => dialog_id = Unassigned /\ message_number = 1
    /\ ~Idle /\ dialog_id = Unassigned => message_number = 2
    /\ ~Idle => (pending.call \in OpeningCalls <=> dialog_id = Unassigned)
    /\ typestate \in {"TanPending", "Open"} => dialog_id # Unassigned
    /\ dialog_id # Unassigned =>
          \/ message_number = 2
          \/ \E q \in sent : q.did = dialog_id /\ q.num = message_number - 1
    /\ Answered("init") \/ Answered("init_no_tan") =>
          HasErrors(answer) \/ answer.id # Unassigned
    /\ Answered("init") /\ RequiresTan(answer) => answer.id # Unassigned
=============================================================================
