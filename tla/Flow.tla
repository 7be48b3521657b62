-------------------------------- MODULE Flow --------------------------------
(***************************************************************************)
(* The two-step flow over the Dialog of FinTSDialog: `initiate` of a bank  *)
(* (workflow.rs), which resumes with a stored system id or registers anew, *)
(* and the Flow (flow.rs) or Session (dkb.rs) that holds the Dialog until  *)
(* the application calls confirm_and_fetch, or fetch.                      *)
(*                                                                         *)
(* Every step of the flow is a step of the Dialog, taken at a stage of the *)
(* flow: what the flow adds is which Dialog is created when, with which    *)
(* system id and parameters, and who holds it in between.  What is fetched *)
(* is the subject of Fetch; here orders come in any number.                *)
(***************************************************************************)
EXTENDS FinTSDialog

CONSTANT Parks    \* a Dialog whose TAN is still pending goes back into the
                  \* Flow (flow.rs), or is dropped with the Session (dkb.rs)

ASSUME ParksAssumption == Parks \in BOOLEAN
ASSUME NoPreferenceAssumption == NoFunction \in Preferences

VARIABLES
    given,        \* the system id initiate is called with
    stage         \* where the flow stands

flowVars == <<given, stage>>
allVars == <<vars, flowVars>>

\* initiate runs; confirm_and_fetch runs, FlowState being Done meanwhile;
\* FlowState is WaitingForTan or Authenticated; no Dialog is left.
Initiating == {"resume", "register", "sync", "reinit", "init"}
Confirming == {"poll", "lost", "fetch", "end"}
Holding == {"waiting", "ready"}
Over == {"done", "failed"}

FlowInit ==
    /\ Init
    /\ given \in SavedIds \cup {NoSystemId}
    /\ stage = "start"

-----------------------------------------------------------------------------
(* initiate.                                                               *)

\* A failed attempt to resume is followed by a registration.
FallBackAgain == "start"
FallBackNever == "resume"
FallBack == "register"

\* The transport cannot be set up: Dialog::new returns an error.
SetupFails ==
    /\ stage \in {"start", "register", "reinit"}
    /\ stage' = IF stage = "start" /\ given # NoSystemId THEN FallBack ELSE "failed"
    /\ UNCHANGED given /\ UNCHANGED vars

BeginResume ==
    /\ stage = "start" /\ given # NoSystemId
    /\ NewDialog(given, NewParams, NoFunction)
    /\ stage' = "resume"
    /\ UNCHANGED given

\* What init returned: the Flow gets the Dialog, or there is none.
Lands(onError) ==
    /\ stage' = CASE typestate' = "TanPending" -> "waiting"
                  [] typestate' = "Open"       -> "ready"
                  [] typestate' = "none"       -> onError
                  [] OTHER                     -> stage
    /\ UNCHANGED given

\* init_negotiate.
Resume ==
    /\ stage = "resume"
    /\ ProbeCall \/ ProbeReturn \/ ProbeEndReturn \/ InitReturn \/ SendFails
    /\ Lands(FallBack)

BeginSync ==
    /\ stage = "register" \/ (stage = "start" /\ given = NoSystemId)
    /\ NewDialog(NoSystemId, NewParams, NoFunction)
    /\ stage' = "sync"
    /\ UNCHANGED given

\* sync, then end.
Sync ==
    /\ stage = "sync"
    /\ \/ SyncCall \/ SyncReturn
       \/ SyncedEndCall \/ SyncedEndReturn \/ SyncedEndSilently \/ SendFails
    /\ stage' = CASE typestate' # "none" -> stage
                  [] typestate' = "none" /\ outcome' = "ended" -> "reinit"
                  [] OTHER -> "failed"
    /\ UNCHANGED given

\* The system id of the sync dialog or, if the bank assigned none, the
\* caller's.
AssignedId == stored.system_id
RegisteredId == IF stored.system_id # NoSystemId THEN stored.system_id ELSE given

BeginInit ==
    /\ stage = "reinit"
    /\ NewDialog(RegisteredId, stored.params, NoFunction)
    /\ stage' = "init"
    /\ UNCHANGED given

Initialise ==
    /\ stage = "init"
    /\ InitCall \/ InitReturn \/ SendFails
    /\ Lands("failed")

-----------------------------------------------------------------------------
(* confirm_and_fetch.                                                      *)

Confirm ==
    /\ \/ stage = "waiting" /\ PollCall /\ stage' = "poll"
       \/ stage = "ready" /\ stage' = "fetch" /\ UNCHANGED vars
    /\ UNCHANGED given

Polled ==
    /\ stage = "poll"
    /\ PollReturn \/ SendFails
    /\ stage' = CASE typestate' = "Open" -> "fetch"
                  [] typestate' = "TanPending" -> IF Parks THEN "waiting" ELSE "lost"
                  [] OTHER -> "failed"
    /\ UNCHANGED given

FetchOrders ==
    /\ stage = "fetch"
    /\ \/ \E op \in Operations :
             OrderCall(op, FALSE) \/ OrderCall(op, TRUE) \/ OrderReturn(op)
       \/ SendFails
    /\ UNCHANGED flowVars

\* The account of the caller cannot be resolved, or the fetch returns an
\* error: the operator ? drops the open Dialog, without HKEND.
FetchFails ==
    /\ stage = "fetch" /\ Idle /\ outcome \in {"opened", "confirmed", "err", "need_tan"}
    /\ DropDialog
    /\ stage' = "failed"
    /\ UNCHANGED given

\* The end of the dialog; its errors are ignored.
EndFlow ==
    /\ \/ stage = "fetch" /\ EndCall /\ stage' = "end"
       \/ stage = "fetch" /\ EndSilently /\ stage' = "done"
       \/ stage = "end" /\ (EndReturn \/ SendFails) /\ stage' = "done"
    /\ UNCHANGED given

\* The application drops the future that runs, or the Flow; the Session of
\* dkb.rs is consumed by a fetch that finds its TAN pending.
Abandon ==
    /\ DropDialog
    /\ stage' = "failed"
    /\ UNCHANGED given

-----------------------------------------------------------------------------
\* Steps of a running initiate, and the ends of the awaits of a running
\* confirm_and_fetch.
Progress ==
    \/ BeginSync \/ BeginInit \/ Resume \/ Sync \/ Initialise
    \/ Polled \/ (stage = "end" /\ EndFlow)

FlowNext ==
    \/ SetupFails \/ BeginResume \/ Progress \/ Confirm \/ FetchOrders \/ FetchFails
    \/ EndFlow \/ Abandon
    \/ BankStep /\ UNCHANGED flowVars

FlowSpec == FlowInit /\ [][FlowNext]_allVars

\* The executor polls the future of a call that runs, and the HTTP client
\* gives every request up after 300 s (SendFails).
FairFlowSpec == FlowSpec /\ WF_allVars(Progress)

-----------------------------------------------------------------------------
(* Properties.                                                             *)

\* The typestates at a stage, and the requests that may be awaited there.
HeldAt(s) ==
    CASE s \in {"resume", "init"}            -> {"New"}
      [] s = "sync"                          -> {"New", "Synced"}
      [] s \in {"waiting", "poll", "lost"}   -> {"TanPending"}
      [] s \in {"ready", "fetch", "end"}     -> {"Open"}
      [] OTHER                               -> {"none"}

AwaitedAt(s) ==
    CASE s = "resume" -> {"probe", "probe_end", "init"}
      [] s = "sync"   -> {"sync", "synced_end"}
      [] s = "init"   -> {"init"}
      [] s = "poll"   -> {"poll"}
      [] s = "fetch"  -> Operations
      [] s = "end"    -> {"end"}
      [] OTHER        -> {}

\* The Flow and the Dialog agree: a Flow that waits or is ready holds a Dialog
\* of that typestate which no method uses, none is left over after an error or
\* the end, and a call of the flow awaits its own requests only.
FlowTracksDialog ==
    /\ given \in SystemIds \cup {NoSystemId}
    /\ stage \in {"start"} \cup Initiating \cup Holding \cup Confirming \cup Over
    /\ typestate \in HeldAt(stage)
    /\ Idle \/ pending.call \in AwaitedAt(stage)
    /\ stage \in {"poll", "end"} => ~Idle

\* The Dialog a Flow holds is good for what comes next: the bank still waits
\* for its TAN, or has admitted it, whatever failed or came late before.
HeldDialogIsGood ==
    /\ stage = "waiting" =>
          dialog_id \in DialogIds /\ bank[dialog_id].phase = "tan" /\ challenge = "init"
    /\ stage \in {"ready", "fetch"} => Admitted(dialog_id)

\* A caller with a system id never appears as a device without one: it is
\* kept when the attempt to resume fails and the bank assigns no new id.
DeviceIsKept ==
    \A q \in sent : given # NoSystemId /\ q.call \in {"probe", "init"} => q.sys # NoSystemId

\* The invariant that shows it: the Dialog that will send them has an id.
DeviceInv ==
    /\ given # NoSystemId /\ stage \in {"resume", "init"} => system_id # NoSystemId
    /\ DeviceIsKept

\* A bank that opens no dialog (as for a wrong PIN) is sent at most three
\* signed openings by one call of initiate: probe, init and sync.
NothingOpened == \A d \in DialogIds : bank[d].phase = "free"
Openings == {q \in sent : q.did = Unassigned}
AtMostThreeTries == NothingOpened => Cardinality(Openings) <= 3

\* The invariant that shows it: how many messages were sent at a stage if the
\* bank opened nothing, which it says by errors.
TriesAt(s) ==
    CASE s = "start"    -> 0
      [] s = "resume"   -> IF Idle THEN 0 ELSE IF pending.call = "probe" THEN 1 ELSE 2
      [] s = "register" -> 2
      [] s = "sync"     -> IF Idle THEN 2 ELSE 3
      [] OTHER          -> 3

TriesInv ==
    /\ IsFiniteSet(sent)
    /\ NothingOpened =>
          /\ Cardinality(sent) <= TriesAt(stage)
          /\ stage \notin {"reinit", "init"} /\ typestate # "Synced"
          /\ answer # NoAnswer => HasErrors(answer) /\ ~NeedsTanAnswer(answer)

\* initiate returns, and so do the polls and the end in confirm_and_fetch,
\* whatever the bank does and whichever requests are lost.
CallsReturn ==
    stage \in Initiating \cup {"poll", "end"} ~>
        stage \notin Initiating \cup {"poll", "end"}
=============================================================================
