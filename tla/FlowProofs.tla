----------------------------- MODULE FlowProofs -----------------------------
(***************************************************************************)
(* Theorems about Flow: it drives the Dialog by steps of FinTSDialog, so   *)
(* what holds of every Dialog holds of its Dialogs; Flow and Dialog agree; *)
(* a known device stays known; the Dialog held is good for what comes      *)
(* next; and a bank that opens nothing is tried three times at most.       *)
(***************************************************************************)
EXTENDS Flow, OpeningProofs

-----------------------------------------------------------------------------
(* The flow takes steps of the Dialog.                                     *)

GivenOk == given \in SavedIds \cup {NoSystemId}

\* What the flow does itself are steps of the client, or none.
LEMMA FlowMovesClient ==
    ASSUME GivenOk,
           \/ SetupFails \/ BeginResume \/ Progress \/ Confirm \/ FetchOrders \/ FetchFails
           \/ EndFlow \/ Abandon
    PROVE  (ClientStep \/ SendFails \/ UNCHANGED vars) /\ GivenOk'
<1>1. NoFunction \in Preferences
    BY NoPreferenceAssumption
<1>2. CASE SetupFails
    BY <1>2 DEF SetupFails, GivenOk
<1>3. CASE BeginResume
    BY <1>1, <1>3 DEF BeginResume, GivenOk, ClientStep
<1>4. CASE BeginSync
    BY <1>1, <1>4 DEF BeginSync, GivenOk, ClientStep
<1>5. CASE BeginInit
    <2>1. RegisteredId \in SavedIds \cup {NoSystemId, stored.system_id}
        BY DEF RegisteredId, GivenOk
    <2>2. NewDialog(RegisteredId, stored.params, NoFunction) /\ given' = given
        BY <1>5 DEF BeginInit
    <2> QED BY <1>1, <2>1, <2>2 DEF GivenOk, ClientStep
<1>6. CASE Resume
    BY <1>6 DEF Resume, Lands, GivenOk, ClientStep
<1>7. CASE Sync
    BY <1>7 DEF Sync, GivenOk, ClientStep
<1>8. CASE Initialise
    BY <1>8 DEF Initialise, Lands, GivenOk, ClientStep
<1>9. CASE Confirm
    BY <1>9 DEF Confirm, GivenOk, ClientStep
<1>10. CASE Polled
    BY <1>10 DEF Polled, GivenOk, ClientStep
<1>11. CASE FetchOrders
    BY <1>11 DEF FetchOrders, flowVars, GivenOk, ClientStep
<1>12. CASE FetchFails
    BY <1>12 DEF FetchFails, GivenOk, ClientStep
<1>13. CASE EndFlow
    BY <1>13 DEF EndFlow, GivenOk, ClientStep
<1>14. CASE Abandon
    BY <1>14 DEF Abandon, GivenOk, ClientStep
<1> QED BY <1>2, <1>3, <1>4, <1>5, <1>6, <1>7, <1>8, <1>9, <1>10, <1>11, <1>12, <1>13,
           <1>14 DEF Progress

LEMMA DialogStep == GivenOk /\ [FlowNext]_allVars => [Next]_vars /\ GivenOk'
<1>1. ASSUME GivenOk, UNCHANGED allVars
      PROVE  UNCHANGED vars /\ GivenOk'
    BY <1>1 DEF allVars, flowVars, GivenOk
<1>2. ASSUME GivenOk, BankStep /\ UNCHANGED flowVars
      PROVE  Next /\ GivenOk'
    BY <1>2 DEF flowVars, GivenOk, Next
<1> QED BY <1>1, <1>2, FlowMovesClient DEF FlowNext, Next

\* Whatever initiate and confirm_and_fetch do is a behaviour of the Dialog:
\* they send nothing but through its methods.
THEOREM FlowUsesTheDialog == FlowSpec => Spec
<1>1. FlowInit => Init /\ GivenOk
    BY DEF FlowInit, GivenOk
<1>2. GivenOk /\ [FlowNext]_allVars => [Next]_vars /\ GivenOk'
    BY DialogStep
<1> QED BY <1>1, <1>2, PTL DEF FlowSpec, Spec

\* In a flow, too, no message number is used twice in a dialog and nothing
\* follows its HKEND, although failed openings are replaced by new ones.
THEOREM FlowNumbersItsMessages == FlowSpec => [](NumbersNeverReused /\ EndIsLast)
BY FlowUsesTheDialog, NumbersAreNeverReused, NothingFollowsTheEnd, PTL

\* Every variable of the Dialog keeps its type in a flow.
LEMMA FlowTypes == FlowSpec => []TypeOK
BY FlowUsesTheDialog, TypeCorrect, PTL

-----------------------------------------------------------------------------
(* What the steps of the Dialog do to its typestate, its running method    *)
(* and the device it is.                                                   *)

\* A method that sends.
LEMMA SendEffect ==
    ASSUME TypeOK, NEW call \in Calls, NEW page \in BOOLEAN, NEW did \in Ids,
           NEW num \in Nat \ {0}, NEW hktan \in BOOLEAN, NEW task \in TaskRefs,
           NEW p \in BankParamsType, NEW sid \in Sids,
           Send(call, page, did, num, hktan, task, p, sid)
    PROVE  /\ pending' # NoRequest
           /\ pending'.call = call /\ pending'.sys = sid
           /\ sent' = sent \cup {pending'}
<1>1. pending' \in Requests
    BY SendType
<1>2. pending'.call = call /\ pending'.sys = sid /\ sent' = sent \cup {pending'}
    BY DEF Send
<1> QED BY <1>1, <1>2, NullAssumption

LEMMA SendFromEffect ==
    ASSUME TypeOK, NEW state, NEW call \in Calls, NEW page \in BOOLEAN,
           NEW hktan \in BOOLEAN, NEW task \in TaskRefs,
           SendFrom(state, call, page, hktan, task)
    PROVE  /\ pending' # NoRequest
           /\ pending'.call = call /\ pending'.sys = system_id
           /\ sent' = sent \cup {pending'}
           /\ typestate = state /\ typestate' = state /\ system_id' = system_id
<1>1. /\ dialog_id \in Ids /\ message_number \in Nat \ {0}
      /\ params \in BankParamsType /\ system_id \in Sids
    BY DEF TypeOK, Ids, Sids
<1>2. Send(call, page, dialog_id, message_number, hktan, task, params, system_id)
    BY DEF SendFrom
<1>3. /\ pending' # NoRequest
      /\ pending'.call = call /\ pending'.sys = system_id
      /\ sent' = sent \cup {pending'}
    BY <1>1, <1>2, SendEffect
<1> QED BY <1>3 DEF SendFrom

\* The methods of initiate and confirm_and_fetch that send first.
Sends(call) ==
    /\ pending' # NoRequest
    /\ pending'.call = call /\ pending'.sys = system_id
    /\ sent' = sent \cup {pending'}
    /\ typestate' = typestate /\ system_id' = system_id

LEMMA CallEffects ==
    ASSUME TypeOK
    PROVE  /\ ProbeCall => Sends("probe") /\ typestate = "New"
           /\ SyncCall => Sends("sync") /\ typestate = "New"
           /\ InitCall => Sends("init") /\ typestate = "New"
           /\ SyncedEndCall => Sends("synced_end") /\ typestate = "Synced"
           /\ PollCall => Sends("poll") /\ typestate = "TanPending"
           /\ EndCall => Sends("end") /\ typestate \in {"Open", "TanPending"}
<1>1. challenge \in TaskRefs /\ NoTask \in TaskRefs
    BY DEF TypeOK, TaskRefs
<1>2. {"probe", "sync", "init", "synced_end", "poll", "end"} \subseteq Calls
    BY DEF Calls, OpeningCalls, EndCalls, TanCalls
<1>3. ProbeCall => Sends("probe") /\ typestate = "New"
    BY <1>1, <1>2, SendFromEffect DEF ProbeCall, Sends
<1>4. SyncCall => Sends("sync") /\ typestate = "New"
    BY <1>1, <1>2, SendFromEffect DEF SyncCall, Sends
<1>5. InitCall => Sends("init") /\ typestate = "New"
    BY <1>1, <1>2, SendFromEffect DEF InitCall, Sends
<1>6. SyncedEndCall => Sends("synced_end") /\ typestate = "Synced"
    BY <1>1, <1>2, SendFromEffect DEF SyncedEndCall, Sends
<1>7. PollCall => Sends("poll") /\ typestate = "TanPending"
    BY <1>1, <1>2, SendFromEffect DEF PollCall, Sends
<1>8. EndCall => Sends("end") /\ typestate \in {"Open", "TanPending"}
    BY <1>1, <1>2, SendFromEffect DEF EndCall, Sends
<1> QED BY <1>3, <1>4, <1>5, <1>6, <1>7, <1>8

LEMMA OrderCallEffect ==
    ASSUME TypeOK, NEW op, NEW page \in BOOLEAN, OrderCall(op, page)
    PROVE  Sends(op) /\ typestate = "Open" /\ op \in Operations
<1>1. op \in Calls /\ NoTask \in TaskRefs /\ BundlesHktan(op) \in BOOLEAN
    BY DEF OrderCall, Calls, TaskRefs, BundlesHktan, HktanOrders, OrderNeedsTan
<1>2. SendFrom("Open", op, page, BundlesHktan(op), NoTask) /\ op \in Operations
    BY DEF OrderCall
<1> QED BY <1>1, <1>2, SendFromEffect DEF Sends

\* A method that returns: it sends nothing more.
Returns(state) == typestate' = state /\ pending' = NoRequest /\ sent' = sent

LEMMA ReturnEffects ==
    /\ SyncReturn => Returns("Synced") \/ Returns("none")
    /\ InitReturn => Returns("TanPending") \/ Returns("Open") \/ Returns("none")
    /\ PollReturn => Returns("TanPending") \/ Returns("Open") \/ Returns("none")
    /\ SyncedEndReturn \/ SyncedEndSilently => Returns("none")
    /\ EndReturn \/ EndSilently \/ DropDialog => Returns("none")
    /\ \A op : OrderReturn(op) => Returns("Open")
BY DEF SyncReturn, InitReturn, PollReturn, SyncedEndReturn, SyncedEndSilently, KeepSyncResult,
       EndReturn, EndSilently, DropDialog, OrderReturn, Return, Consumed, Returns

\* init_negotiate after its probe, under the system id sid.
LEMMA NegotiatedInitEffect ==
    ASSUME TypeOK, NEW p \in BankParamsType, NEW sid \in Sids, NegotiatedInit(p, sid)
    PROVE  \/ Returns("none")
           \/ /\ pending' # NoRequest
              /\ pending'.call = "init" /\ pending'.sys = sid
              /\ sent' = sent \cup {pending'}
              /\ typestate' = typestate /\ system_id' = sid
<1>1. CASE NothingNegotiated(p)
    BY <1>1 DEF NegotiatedInit, Consumed, Returns
<1>2. CASE ~NothingNegotiated(p)
    <2>1. "init" \in Calls /\ Unassigned \in Ids /\ NoTask \in TaskRefs
          /\ FirstNumber \in Nat \ {0}
        BY DEF Calls, OpeningCalls, Ids, TaskRefs, FirstNumber
    <2>2. /\ Send("init", FALSE, Unassigned, FirstNumber, TRUE, NoTask, p, sid)
          /\ typestate' = typestate /\ system_id' = sid
        BY <1>2 DEF NegotiatedInit
    <2> QED BY <2>1, <2>2, SendEffect
<1> QED BY <1>1, <1>2

\* The device stays known: an answer can only assign an id, not take it.
LEMMA DeviceStaysKnown ==
    ASSUME TypeOK, answer # NoAnswer, system_id # NoSystemId
    PROVE  IngestSystemId(system_id, answer) # NoSystemId
<1> DEFINE Known == SystemIds \cup {system_id}
<1>1. answer.hisyn \in Seq(SystemIds)
    BY AnswerIsWellFormed DEF TypeOK
<1>2. answer.hisyn \in Seq(Known) /\ system_id \in Known
    BY <1>1
<1>3. LastOr(answer.hisyn, system_id) \in Known
    BY <1>2, LastOrType
<1> QED BY <1>3, SystemIdAssumption DEF IngestSystemId

\* The answer to the probe: init_negotiate ends the probe dialog, or goes on,
\* or gives up.
LEMMA ProbeReturnEffect ==
    ASSUME TypeOK, ProbeReturn
    PROVE  \/ Returns("none")
           \/ /\ pending' # NoRequest
              /\ pending'.call \in {"probe_end", "init"} /\ pending'.sys = system_id'
              /\ sent' = sent \cup {pending'}
              /\ typestate' = typestate
              /\ system_id # NoSystemId => system_id' # NoSystemId
<1> DEFINE id  == ExtractDialogId(dialog_id, answer)
           sid == IngestSystemId(system_id, answer)
           p   == IngestAndNegotiate(params, answer)
<1>1. answer # NoAnswer
    BY DEF ProbeReturn, Answered
<1>2. id \in Ids /\ sid \in Sids /\ p \in BankParamsType
    BY <1>1, LearnType
<1>3. system_id # NoSystemId => sid # NoSystemId
    BY <1>1, DeviceStaysKnown
<1>4. CASE id = Unassigned
    <2>1. NegotiatedInit(p, sid)
        BY <1>4 DEF ProbeReturn
    <2> HIDE DEF id, sid, p
    <2> QED BY <1>2, <1>3, <2>1, NegotiatedInitEffect
<1>5. CASE id # Unassigned
    <2>1. /\ Send("probe_end", FALSE, id, message_number, FALSE, NoTask, p, sid)
          /\ typestate' = typestate /\ system_id' = sid
        BY <1>5 DEF ProbeReturn
    <2>2. "probe_end" \in Calls /\ NoTask \in TaskRefs /\ message_number \in Nat \ {0}
        BY DEF Calls, EndCalls, TaskRefs, TypeOK
    <2> HIDE DEF id, sid, p
    <2> QED BY <1>2, <1>3, <2>1, <2>2, SendEffect
<1> QED BY <1>4, <1>5

LEMMA ProbeEndReturnEffect ==
    ASSUME TypeOK, ProbeEndReturn
    PROVE  \/ Returns("none")
           \/ Sends("init")
<1>1. params \in BankParamsType /\ system_id \in Sids
    BY DEF TypeOK, Sids
<1> QED BY <1>1, NegotiatedInitEffect DEF ProbeEndReturn, Sends

\* A failed request: an order leaves the Dialog as it is, the end of a probe
\* is passed over, everything else drops the Dialog.
LEMMA SendFailsEffect ==
    ASSUME TypeOK, SendFails
    PROVE  \/ pending.call \in KeepsDialog /\ Returns(typestate)
           \/ pending.call = "probe_end" /\ (Returns("none") \/ Sends("init"))
           \/ pending.call \notin KeepsDialog \cup {"probe_end"} /\ Returns("none")
<1>1. params \in BankParamsType /\ system_id \in Sids
    BY DEF TypeOK, Sids
<1>2. "synced_end" \notin KeepsDialog \cup {"probe_end"}
    BY OperationAssumption DEF KeepsDialog, BusinessOrders
<1>3. CASE pending.call \in KeepsDialog /\ Return(typestate, "err") /\ sent' = sent
    BY <1>3 DEF Return, Returns
<1>4. CASE pending.call = "probe_end" /\ NegotiatedInit(params, system_id)
    BY <1>1, <1>4, NegotiatedInitEffect DEF Sends
<1>5. CASE pending.call = "synced_end" /\ KeepSyncResult
    BY <1>2, <1>5 DEF KeepSyncResult, Consumed, Returns
<1>6. CASE /\ pending.call \notin KeepsDialog \cup {"probe_end", "synced_end"}
           /\ Consumed(IF pending.call = "end" THEN "ended" ELSE "err")
           /\ sent' = sent
    BY <1>6 DEF Consumed, Returns
<1> QED BY <1>3, <1>4, <1>5, <1>6 DEF SendFails

\* The bank touches neither the Dialog nor what was sent.
LEMMA BankEffect ==
    ASSUME BankStep
    PROVE  UNCHANGED <<typestate, pending, system_id, sent>>
<1>1. ASSUME NEW q, NEW d, NEW allowed,
             \/ BankSyncs(q, d, allowed) \/ BankAdmitsPin(q, d, allowed)
             \/ BankExempts(q, d, allowed) \/ BankAsksTan(q, d, allowed)
      PROVE  \E p, r : Reply(p, r)
    BY <1>1 DEF BankSyncs, BankAdmitsPin, BankExempts, BankAsksTan
<1>2. ASSUME NEW q, NEW allowed, BankRefuses(q, allowed)
      PROVE  \E p, r : Reply(p, r)
    BY <1>2 DEF BankRefuses
<1>3. ASSUME NEW q,
             \/ BankRejects(q) \/ BankEnds(q) \/ BankStillWaits(q) \/ BankConfirms(q)
             \/ BankServes(q) \/ BankChallenges(q)
      PROVE  \E p, r : Reply(p, r)
    BY <1>3 DEF BankRejects, BankEnds, BankStillWaits, BankConfirms, BankServes,
                BankChallenges
<1>4. PICK q, r : Reply(q, r)
    BY <1>1, <1>2, <1>3 DEF BankStep
<1> QED BY <1>4 DEF Reply, dialogVars

-----------------------------------------------------------------------------
(* Flow and Dialog agree, and the device stays known.                      *)

FlowInv == FlowTracksDialog /\ DeviceInv

LEMMA FlowInvInit == FlowInit => FlowInv
BY SystemIdAssumption
   DEF FlowInit, Init, FlowInv, FlowTracksDialog, DeviceInv, DeviceIsKept, HeldAt, AwaitedAt, Idle

\* The methods that a stage awaits are no others: the names of orders are
\* their own.
LEMMA OrdersAreOther ==
    /\ Operations \cap {"probe", "probe_end", "sync", "init", "synced_end", "poll", "end"} = {}
    /\ KeepsDialog \cap {"probe", "probe_end", "sync", "init", "synced_end", "poll", "end"} = {}
    /\ Operations \subseteq KeepsDialog
BY OperationAssumption DEF KeepsDialog, BusinessOrders

\* Steps that begin a Dialog.
LEMMA BeginKeepsInv ==
    ASSUME TypeOK, FlowInv, SetupFails \/ BeginResume \/ BeginSync \/ BeginInit
    PROVE  FlowInv'
<1> USE DEF FlowInv, FlowTracksDialog, DeviceInv, DeviceIsKept, HeldAt, AwaitedAt,
            Initiating, Holding, Confirming, Over
<1>1. CASE SetupFails
    BY <1>1 DEF SetupFails, vars, FallBack, Idle
<1>2. CASE BeginResume
    BY <1>2 DEF BeginResume, NewDialog, Idle
<1>3. CASE BeginSync
    BY <1>3 DEF BeginSync, NewDialog, Idle
<1>4. CASE BeginInit
    <2>1. given # NoSystemId => RegisteredId # NoSystemId
        BY DEF RegisteredId
    <2> QED BY <1>4, <2>1 DEF BeginInit, NewDialog, Idle
<1> QED BY <1>1, <1>2, <1>3, <1>4

\* A step of initiate: it sends as the Dialog's device, or returns.
LEMMA InitiateKeepsInv ==
    ASSUME TypeOK, FlowInv, Resume \/ Sync \/ Initialise
    PROVE  FlowInv'
<1> USE DEF FlowInv, FlowTracksDialog, DeviceInv, DeviceIsKept, HeldAt, AwaitedAt,
            Initiating, Holding, Confirming, Over, Idle
<1>1. CASE Resume
    <2>1. /\ stage = "resume" /\ typestate = "New" /\ given' = given
          /\ stage' = CASE typestate' = "TanPending" -> "waiting"
                        [] typestate' = "Open"       -> "ready"
                        [] typestate' = "none"       -> "register"
                        [] OTHER                     -> stage
        BY <1>1 DEF Resume, Lands, FallBack
    <2>2. \/ /\ pending' # NoRequest /\ pending'.call \in {"probe", "probe_end", "init"}
             /\ pending'.sys = system_id' /\ sent' = sent \cup {pending'}
             /\ typestate' = "New"
             /\ system_id # NoSystemId => system_id' # NoSystemId
          \/ Returns("none") \/ Returns("TanPending") \/ Returns("Open")
        <3>1. CASE ProbeCall
            BY <2>1, <3>1, CallEffects DEF Sends
        <3>2. CASE ProbeReturn
            BY <2>1, <3>2, ProbeReturnEffect
        <3>3. CASE ProbeEndReturn
            BY <2>1, <3>3, ProbeEndReturnEffect DEF Sends
        <3>4. CASE InitReturn
            BY <3>4, ReturnEffects
        <3>5. CASE SendFails
            <4>1. pending.call \in {"probe", "probe_end", "init"}
                BY <2>1, <3>5 DEF SendFails
            <4> QED BY <2>1, <3>5, <4>1, SendFailsEffect, OrdersAreOther DEF Sends
        <3> QED BY <1>1, <3>1, <3>2, <3>3, <3>4, <3>5 DEF Resume
    <2> QED BY <2>1, <2>2 DEF Returns
<1>2. CASE Sync
    <2>1. /\ stage = "sync" /\ given' = given
          /\ stage' = CASE typestate' # "none" -> stage
                        [] typestate' = "none" /\ outcome' = "ended" -> "reinit"
                        [] OTHER -> "failed"
        BY <1>2 DEF Sync
    <2>2. \/ /\ pending' # NoRequest /\ pending'.call \in {"sync", "synced_end"}
             /\ sent' = sent \cup {pending'}
             /\ typestate' \in {"New", "Synced"}
          \/ Returns("Synced") \/ Returns("none")
        <3>1. CASE SyncCall
            BY <3>1, CallEffects DEF Sends
        <3>2. CASE SyncedEndCall
            BY <3>2, CallEffects DEF Sends
        <3>3. CASE SyncReturn \/ SyncedEndReturn \/ SyncedEndSilently
            BY <3>3, ReturnEffects
        <3>4. CASE SendFails
            <4>1. pending.call \in {"sync", "synced_end"}
                BY <2>1, <3>4 DEF SendFails
            <4> QED BY <3>4, <4>1, SendFailsEffect, OrdersAreOther
        <3> QED BY <1>2, <3>1, <3>2, <3>3, <3>4 DEF Sync
    <2>3. stage' \in {"sync", "reinit", "failed"}
        BY <2>1
    <2> QED BY <2>1, <2>2, <2>3 DEF Returns
<1>3. CASE Initialise
    <2>1. /\ stage = "init" /\ typestate = "New" /\ given' = given
          /\ stage' = CASE typestate' = "TanPending" -> "waiting"
                        [] typestate' = "Open"       -> "ready"
                        [] typestate' = "none"       -> "failed"
                        [] OTHER                     -> stage
        BY <1>3 DEF Initialise, Lands
    <2>2. \/ Sends("init") \/ Returns("none") \/ Returns("TanPending") \/ Returns("Open")
        <3>1. CASE SendFails
            <4>1. pending.call = "init"
                BY <2>1, <3>1 DEF SendFails
            <4> QED BY <3>1, <4>1, SendFailsEffect, OrdersAreOther
        <3> QED BY <1>3, <3>1, CallEffects, ReturnEffects DEF Initialise
    <2> QED BY <2>1, <2>2 DEF Returns, Sends
<1> QED BY <1>1, <1>2, <1>3

\* A step of confirm_and_fetch, or the end of the flow.
LEMMA ConfirmKeepsInv ==
    ASSUME TypeOK, FlowInv,
           Confirm \/ Polled \/ FetchOrders \/ FetchFails \/ EndFlow \/ Abandon
    PROVE  FlowInv'
<1> USE DEF FlowInv, FlowTracksDialog, DeviceInv, DeviceIsKept, HeldAt, AwaitedAt,
            Initiating, Holding, Confirming, Over, Idle
<1>1. CASE Confirm
    <2>1. CASE stage = "waiting" /\ PollCall /\ stage' = "poll" /\ given' = given
        BY <2>1, CallEffects DEF Sends
    <2>2. CASE stage = "ready" /\ stage' = "fetch" /\ UNCHANGED vars /\ given' = given
        BY <2>2 DEF vars
    <2> QED BY <1>1, <2>1, <2>2 DEF Confirm
<1>2. CASE Polled
    <2>1. Returns("TanPending") \/ Returns("Open") \/ Returns("none")
        <3>1. CASE SendFails
            <4>1. pending.call = "poll"
                BY <1>2, <3>1 DEF Polled, SendFails
            <4> QED BY <3>1, <4>1, SendFailsEffect, OrdersAreOther
        <3> QED BY <1>2, <3>1, ReturnEffects DEF Polled
    <2>2. /\ given' = given
          /\ stage' = CASE typestate' = "Open" -> "fetch"
                        [] typestate' = "TanPending" -> IF Parks THEN "waiting" ELSE "lost"
                        [] OTHER -> "failed"
        BY <1>2 DEF Polled
    <2> QED BY <2>1, <2>2 DEF Returns
<1>3. CASE FetchOrders
    <2>1. stage = "fetch" /\ stage' = stage /\ given' = given /\ typestate = "Open"
        BY <1>3 DEF FetchOrders, flowVars
    <2>2. (\E op \in Operations : Sends(op)) \/ Returns("Open")
        <3>1. CASE \E op \in Operations, page \in BOOLEAN : OrderCall(op, page)
            BY <3>1, OrderCallEffect
        <3>2. CASE \E op \in Operations : OrderReturn(op)
            BY <3>2, ReturnEffects
        <3>3. CASE SendFails
            <4>1. pending.call \in Operations
                BY <2>1, <3>3 DEF SendFails
            <4> QED BY <2>1, <3>3, <4>1, SendFailsEffect, OrdersAreOther
        <3> QED BY <1>3, <3>1, <3>2, <3>3 DEF FetchOrders
    <2>3. CASE \E op \in Operations : Sends(op)
        <3>1. PICK op \in Operations : Sends(op)
            BY <2>3
        <3> QED BY <2>1, <3>1, OrdersAreOther DEF Sends
    <2>4. CASE Returns("Open")
        BY <2>1, <2>4 DEF Returns
    <2> QED BY <2>2, <2>3, <2>4
<1>4. CASE FetchFails \/ Abandon
    <2>1. Returns("none") /\ stage' = "failed" /\ given' = given
        BY <1>4, ReturnEffects DEF FetchFails, Abandon
    <2> QED BY <2>1 DEF Returns
<1>5. CASE EndFlow
    <2>1. CASE stage = "fetch" /\ EndCall /\ stage' = "end" /\ given' = given
        BY <2>1, CallEffects DEF Sends
    <2>2. CASE stage = "fetch" /\ EndSilently /\ stage' = "done" /\ given' = given
        BY <2>2, ReturnEffects DEF Returns
    <2>3. CASE stage = "end" /\ (EndReturn \/ SendFails) /\ stage' = "done" /\ given' = given
        <3>1. Returns("none")
            <4>1. pending.call = "end"
                BY <2>3
            <4> QED BY <2>3, <4>1, ReturnEffects, SendFailsEffect, OrdersAreOther
        <3> QED BY <2>3, <3>1 DEF Returns
    <2> QED BY <1>5, <2>1, <2>2, <2>3 DEF EndFlow
<1> QED BY <1>1, <1>2, <1>3, <1>4, <1>5

LEMMA FlowInvStep == TypeOK /\ FlowInv /\ [FlowNext]_allVars => FlowInv'
<1> SUFFICES ASSUME TypeOK, FlowInv, [FlowNext]_allVars
             PROVE  FlowInv'
    OBVIOUS
<1>1. CASE UNCHANGED allVars
    BY <1>1 DEF allVars, vars, flowVars, FlowInv, FlowTracksDialog, DeviceInv, DeviceIsKept,
                HeldAt, AwaitedAt, Initiating, Holding, Confirming, Over, Idle
<1>2. CASE BankStep /\ UNCHANGED flowVars
    <2>1. UNCHANGED <<typestate, pending, system_id, sent, given, stage>>
        BY <1>2, BankEffect DEF flowVars
    <2> QED BY <2>1 DEF FlowInv, FlowTracksDialog, DeviceInv, DeviceIsKept, HeldAt, AwaitedAt,
                        Initiating, Holding, Confirming, Over, Idle
<1> QED BY <1>1, <1>2, BeginKeepsInv, InitiateKeepsInv, ConfirmKeepsInv
    DEF FlowNext, Progress

\* The inductive invariant of a flow holds in every reachable state (FlowInv).
THEOREM FlowInvHolds == FlowSpec => []FlowInv
<1>1. FlowInit => FlowInv
    BY FlowInvInit
<1>2. TypeOK /\ FlowInv /\ [FlowNext]_allVars => FlowInv'
    BY FlowInvStep
<1> QED BY <1>1, <1>2, FlowTypes, PTL DEF FlowSpec

\* A Flow never holds a Dialog of another typestate than its state says, none
\* is left over, and no call answers another's request.
THEOREM FlowAndDialogAgree == FlowSpec => []FlowTracksDialog
<1>1. FlowInv => FlowTracksDialog
    BY DEF FlowInv
<1> QED BY <1>1, FlowInvHolds, PTL

\* A caller with a system id is never an unknown device to the bank, whatever
\* fails on the way.
THEOREM KnownDeviceStaysKnown == FlowSpec => []DeviceIsKept
<1>1. FlowInv => DeviceIsKept
    BY DEF FlowInv, DeviceInv
<1> QED BY <1>1, FlowInvHolds, PTL

-----------------------------------------------------------------------------
(* The Dialog a Flow holds.                                                *)

\* What the flow holds is good for what comes next: a Flow that waits holds a
\* dialog the bank keeps for its TAN, and one that fetches an admitted dialog
\* (HeldDialogIsGood), if answers are readable and the bank says 3956 alone
\* for "still pending".
THEOREM FlowHoldsAGoodDialog ==
    ASSUME ~UnreadableAnswers, PendingCodes \subseteq {"3956"}
    PROVE  FlowSpec => []HeldDialogIsGood
<1>1. FlowTracksDialog /\ TanPendingInStep /\ OpenOnlyIfAdmitted => HeldDialogIsGood
    <2> SUFFICES ASSUME FlowTracksDialog, TanPendingInStep, OpenOnlyIfAdmitted
                 PROVE  HeldDialogIsGood
        OBVIOUS
    <2>1. stage = "waiting" => typestate = "TanPending" /\ Idle
        BY DEF FlowTracksDialog, HeldAt, AwaitedAt
    <2>2. stage \in {"ready", "fetch"} => typestate = "Open"
        BY DEF FlowTracksDialog, HeldAt
    <2> QED BY <2>1, <2>2 DEF HeldDialogIsGood, TanPendingInStep, OpenOnlyIfAdmitted
<1>2. Spec => []OpenOnlyIfAdmitted
    BY OpenMeansAdmitted
<1> QED BY <1>1, <1>2, FlowUsesTheDialog, FlowAndDialogAgree, TanIsAwaitedOnBothSides, PTL

-----------------------------------------------------------------------------
(* A bank that opens nothing.                                              *)

\* While the bank opened nothing no dialog exists for the client either: its
\* typestate is New, and the request under way is an opening.
LEMMA NothingIsInADialog ==
    ASSUME TypeOK, MethodInv, NumberingInv, CountingInv, NothingOpened
    PROVE  /\ dialog_id = Unassigned
           /\ \A q \in sent : q.did = Unassigned
           /\ typestate \notin {"TanPending", "Open"}
           /\ ~Idle => pending.call \in OpeningCalls
<1>1. dialog_id = Unassigned /\ \A q \in sent : q.did = Unassigned
    BY DEF TypeOK, Requests, NumberingInv, IdsIssued, NothingOpened
<1> QED BY <1>1 DEF CountingInv

\* Steps of the client leave the bank alone and send at most one message.
LEMMA AtMostOneSent ==
    ASSUME DialogMoves
    PROVE  /\ bank' = bank
           /\ sent' = sent \/ sent' = sent \cup {pending'}
BY DEF DialogMoves, Begins, NewDialog, GivesUp, Rests, Speaks, EndsProbe, Negotiates, Learns,
       Confirms, Stays, Back, Posts, appVars

\* One more message, at most.
LEMMA OneMore ==
    ASSUME NEW S, NEW T, NEW x, IsFiniteSet(S), T = S \/ T = S \cup {x}
    PROVE  /\ IsFiniteSet(T)
           /\ Cardinality(S) \in Nat /\ Cardinality(T) \in Nat
           /\ Cardinality(T) <= Cardinality(S) + 1
<1>1. IsFiniteSet(T) /\ Cardinality(T) \in {Cardinality(S), Cardinality(S) + 1}
    BY FS_AddElement
<1>2. Cardinality(S) \in Nat /\ Cardinality(T) \in Nat
    BY <1>1, FS_CardinalityType
<1> QED BY <1>1, <1>2

\* An answer that is an error and asks for no TAN leaves no Dialog.
LEMMA ErrorsConsume ==
    ASSUME HasErrors(answer), ~NeedsTanAnswer(answer), InitReturn \/ SyncReturn
    PROVE  /\ Consumed("err") /\ sent' = sent
           /\ InitReturn => Answered("init")
           /\ SyncReturn => Answered("sync")
BY DEF InitReturn, SyncReturn, RequiresTan

\* What the bank does while it opens nothing: it refuses.
LEMMA BankKeepsTries ==
    ASSUME TypeOK, MethodInv, NumberingInv, CountingInv, ~UnreadableAnswers, TriesInv,
           BankStep, UNCHANGED flowVars
    PROVE  TriesInv'
<1>1. PICK q \in net, r \in Answers :
         Reply(q, r) /\ (IssuesId(q, r) \/ Refuses(q, r) \/ GoesOn(q, r))
    BY BankShape DEF BankMoves
<1>2. /\ UNCHANGED <<typestate, pending, sent, stage>>
      /\ answer' = answer \/ answer' = r
    BY <1>1, ReplyRead DEF Blank, flowVars
<1>3. NothingOpened' => NothingOpened /\ Refuses(q, r)
    <2> SUFFICES ASSUME NothingOpened' PROVE NothingOpened /\ Refuses(q, r)
        OBVIOUS
    <2>1. ~IssuesId(q, r)
        BY DEF IssuesId, NothingOpened
    <2>2. \A d \in DialogIds : bank[d].phase = "free"
        BY <1>1, <2>1 DEF Refuses, GoesOn, NothingOpened
    <2>3. q \in sent /\ q.did = Unassigned
        BY <2>2, NothingIsInADialog DEF MethodInv, NothingOpened
    <2> QED BY <1>1, <2>1, <2>2, <2>3, DialogIdAssumption DEF GoesOn, NothingOpened
<1> QED BY <1>2, <1>3 DEF TriesInv, TriesAt, Idle, Refuses, HasErrors, NeedsTanAnswer, AllCodes

\* A step of the flow while the bank opened nothing.
LEMMA BeginKeepsTries ==
    ASSUME NothingOpened, NothingOpened', TriesInv, FlowTracksDialog, MethodInv,
           SetupFails \/ BeginResume \/ BeginSync \/ BeginInit
    PROVE  TriesInv'
<1>0. Cardinality(sent) \in Nat
    BY FS_CardinalityType DEF TriesInv
<1>1. CASE SetupFails
    BY <1>0, <1>1 DEF SetupFails, vars, FallBack, TriesInv, TriesAt, HasErrors, NeedsTanAnswer,
                      AllCodes
<1>2. CASE BeginResume
    <2>1. stage = "start" /\ stage' = "resume" /\ typestate' = "New"
          /\ pending = NoRequest /\ UNCHANGED <<pending, answer, sent>>
        BY <1>2 DEF BeginResume, NewDialog, Idle
    <2> QED BY <1>0, <2>1 DEF TriesInv, TriesAt, Idle, MethodInv
<1>3. CASE BeginSync
    <2>1. stage \in {"start", "register"} /\ stage' = "sync" /\ typestate' = "New"
          /\ pending = NoRequest /\ UNCHANGED <<pending, answer, sent>>
        BY <1>3 DEF BeginSync, NewDialog, Idle
    <2> QED BY <1>0, <2>1 DEF TriesInv, TriesAt, Idle, MethodInv
<1>4. ~BeginInit
    BY DEF BeginInit, TriesInv
<1> QED BY <1>1, <1>2, <1>3, <1>4

\* A request that fails while nothing was opened takes the Dialog with it.
LEMMA FailuresConsume ==
    ASSUME SendFails, pending.call \in OpeningCalls
    PROVE  Consumed("err") /\ sent' = sent
<1>1. pending.call \notin KeepsDialog \cup {"probe_end", "synced_end", "end"}
    BY OperationNames DEF OpeningCalls
<1> QED BY <1>1 DEF SendFails

\* initiate sends a probe and an initialisation to resume; an error of either
\* leads to the registration.
LEMMA ResumeKeepsTries ==
    ASSUME NothingOpened, NothingOpened', TriesInv,
           TypeOK, MethodInv, NumberingInv, CountingInv, Resume
    PROVE  TriesInv'
<1>0. /\ stage = "resume"
      /\ stage' = CASE typestate' = "TanPending" -> "waiting"
                    [] typestate' = "Open"       -> "ready"
                    [] typestate' = "none"       -> "register"
                    [] OTHER                     -> stage
      /\ IsFiniteSet(sent) /\ Cardinality(sent) \in Nat
    BY FS_CardinalityType DEF Resume, Lands, FallBack, TriesInv
<1>1. CASE typestate' = "none" /\ sent' = sent /\ answer' = NoAnswer
    BY <1>0, <1>1 DEF TriesInv, TriesAt
<1>2. CASE ProbeCall
    <2>1. /\ Idle /\ typestate = "New" /\ typestate' = "New" /\ answer' = NoAnswer
          /\ pending' # NoRequest /\ pending'.call = "probe" /\ sent' = sent \cup {pending'}
        BY <1>2, CallEffects DEF ProbeCall, SendFrom, Send, Sends
    <2>2. Cardinality(sent) <= 0
        BY <1>0, <2>1 DEF TriesInv, TriesAt
    <2>3. IsFiniteSet(sent') /\ Cardinality(sent') <= 1
        BY <1>0, <2>1, <2>2, OneMore
    <2> QED BY <1>0, <2>1, <2>3 DEF TriesInv, TriesAt, Idle
<1>3. CASE ProbeReturn
    <2>1. ~Idle /\ pending.call = "probe" /\ typestate = "New"
        BY <1>3 DEF ProbeReturn, Answered, Waiting, Idle, MethodInv, RunsIn, OpeningCalls
    <2>2. Cardinality(sent) <= 1
        BY <1>0, <2>1 DEF TriesInv, TriesAt
    <2>3. CASE GivesUp
        BY <1>1, <2>3 DEF GivesUp, Consumed
    <2>4. CASE Negotiates \/ EndsProbe
        <3>1. /\ typestate' = "New" /\ answer' = NoAnswer
              /\ pending' # NoRequest /\ pending'.call # "probe" /\ sent' = sent \cup {pending'}
            BY <2>1, <2>4 DEF Negotiates, EndsProbe, Posts
        <3>2. IsFiniteSet(sent') /\ Cardinality(sent') <= 2
            BY <1>0, <2>2, <3>1, OneMore
        <3> QED BY <1>0, <3>1, <3>2 DEF TriesInv, TriesAt, Idle
    <2> QED BY <1>3, <2>3, <2>4, ProbeShapes
<1>4. ~ProbeEndReturn
    BY NothingIsInADialog DEF ProbeEndReturn, Answered, Waiting, Idle, OpeningCalls
<1>5. CASE InitReturn
    <2>1. answer # NoAnswer
        BY <1>5 DEF InitReturn, Answered
    <2> QED BY <1>1, <1>5, <2>1, ErrorsConsume DEF TriesInv, Consumed
<1>6. CASE SendFails
    <2>1. pending.call \in OpeningCalls
        BY <1>6, NothingIsInADialog DEF SendFails
    <2> QED BY <1>1, <1>6, <2>1, FailuresConsume DEF Consumed
<1> QED BY <1>2, <1>3, <1>4, <1>5, <1>6 DEF Resume

\* The registration sends one more message: without a dialog sync fails.
LEMMA SyncKeepsTries ==
    ASSUME NothingOpened, NothingOpened', TriesInv,
           TypeOK, MethodInv, NumberingInv, CountingInv, Sync
    PROVE  TriesInv'
<1>0. /\ stage = "sync"
      /\ stage' = CASE typestate' # "none" -> stage
                    [] typestate' = "none" /\ outcome' = "ended" -> "reinit"
                    [] OTHER -> "failed"
      /\ IsFiniteSet(sent) /\ Cardinality(sent) \in Nat /\ typestate # "Synced"
    BY FS_CardinalityType DEF Sync, TriesInv
<1>1. CASE Consumed("err") /\ sent' = sent
    <2>1. typestate' = "none" /\ answer' = NoAnswer /\ stage' = "failed"
        BY <1>0, <1>1 DEF Consumed
    <2> QED BY <1>0, <1>1, <2>1 DEF TriesInv, TriesAt
<1>2. CASE SyncCall
    <2>1. /\ Idle /\ typestate = "New" /\ typestate' = "New" /\ answer' = NoAnswer
          /\ pending' # NoRequest /\ sent' = sent \cup {pending'}
        BY <1>2, CallEffects DEF SyncCall, SendFrom, Send, Sends
    <2>2. Cardinality(sent) <= 2
        BY <1>0, <2>1 DEF TriesInv, TriesAt
    <2>3. IsFiniteSet(sent') /\ Cardinality(sent') <= 3
        BY <1>0, <2>1, <2>2, OneMore
    <2> QED BY <1>0, <2>1, <2>3 DEF TriesInv, TriesAt, Idle
<1>3. CASE SyncReturn
    <2>1. answer # NoAnswer
        BY <1>3 DEF SyncReturn, Answered
    <2> QED BY <1>1, <1>3, <2>1, ErrorsConsume DEF TriesInv
<1>4. ~SyncedEndCall /\ ~SyncedEndReturn /\ ~SyncedEndSilently
    <2>1. ~(~Idle /\ pending.call = "synced_end")
        BY NothingIsInADialog DEF OpeningCalls
    <2> QED BY <1>0, <2>1 DEF SyncedEndCall, SendFrom, SyncedEndReturn, Answered, Waiting, Idle,
                              SyncedEndSilently
<1>5. CASE SendFails
    <2>1. pending.call \in OpeningCalls
        BY <1>5, NothingIsInADialog DEF SendFails
    <2> QED BY <1>1, <1>5, <2>1, FailuresConsume
<1> QED BY <1>2, <1>3, <1>4, <1>5 DEF Sync

\* Nothing else happens to a flow but that it is abandoned.
LEMMA RestKeepsTries ==
    ASSUME NothingOpened, NothingOpened', TriesInv, FlowTracksDialog,
           TypeOK, MethodInv, NumberingInv, CountingInv,
           Initialise \/ Confirm \/ Polled \/ FetchOrders \/ FetchFails \/ EndFlow \/ Abandon
    PROVE  TriesInv'
<1>1. typestate \notin {"TanPending", "Open"} /\ stage # "init"
    BY NothingIsInADialog DEF TriesInv
<1>2. stage \notin {"waiting", "poll", "ready", "fetch", "end"}
    BY <1>1 DEF FlowTracksDialog, HeldAt
<1>3. Abandon
    BY <1>1, <1>2 DEF Initialise, Confirm, Polled, FetchOrders, FetchFails, EndFlow
<1>4. stage' = "failed" /\ typestate' = "none" /\ answer' = NoAnswer /\ sent' = sent
    BY <1>3 DEF Abandon, DropDialog, Consumed
<1>5. TriesAt(stage) <= 3 /\ TriesAt(stage) \in Nat /\ Cardinality(sent) \in Nat
    BY FS_CardinalityType DEF TriesAt, TriesInv
<1> QED BY <1>4, <1>5 DEF TriesInv, TriesAt

LEMMA TriesStep ==
    ASSUME ~UnreadableAnswers, TypeOK, MethodInv, NumberingInv, CountingInv, FlowTracksDialog,
           GivenOk, TriesInv, [FlowNext]_allVars
    PROVE  TriesInv'
<1>1. CASE BankStep /\ UNCHANGED flowVars
    BY <1>1, BankKeepsTries
<1>2. CASE UNCHANGED allVars
    <2>1. UNCHANGED <<typestate, pending, answer, sent, stage, bank>>
        BY <1>2 DEF allVars, vars, flowVars
    <2> QED BY <2>1 DEF TriesInv, TriesAt, NothingOpened, Idle, HasErrors, NeedsTanAnswer,
                        AllCodes
<1>3. CASE \/ SetupFails \/ BeginResume \/ Progress \/ Confirm \/ FetchOrders \/ FetchFails
           \/ EndFlow \/ Abandon
    <2>1. bank' = bank /\ IsFiniteSet(sent')
        <3>1. (ClientStep \/ SendFails) \/ UNCHANGED vars
            BY <1>3, FlowMovesClient
        <3>2. CASE ClientStep \/ SendFails
            BY <3>2, ClientShape, AtMostOneSent, OneMore DEF TriesInv
        <3>3. CASE UNCHANGED vars
            BY <3>3 DEF vars, TriesInv
        <3> QED BY <3>1, <3>2, <3>3
    <2>2. CASE NothingOpened
        <3>1. NothingOpened'
            BY <2>1, <2>2 DEF NothingOpened
        <3> QED BY <1>3, <2>2, <3>1, BeginKeepsTries, ResumeKeepsTries, SyncKeepsTries,
                   RestKeepsTries DEF Progress
    <2>3. CASE ~NothingOpened
        <3>1. ~NothingOpened'
            BY <2>1, <2>3 DEF NothingOpened
        <3> QED BY <2>1, <3>1 DEF TriesInv
    <2> QED BY <2>2, <2>3
<1> QED BY <1>1, <1>2, <1>3 DEF FlowNext

\* However often one call of initiate falls back, a bank that opens no dialog
\* sees at most three signed openings of it (AtMostThreeTries: initiate of
\* workflow.rs), if answers are readable.
THEOREM ThreeTriesAtMost ==
    ASSUME ~UnreadableAnswers
    PROVE  FlowSpec => []AtMostThreeTries
<1>1. FlowInit => TriesInv /\ GivenOk
    <2>1. IsFiniteSet({}) /\ Cardinality({}) = 0
        BY FS_EmptySet
    <2> QED BY <2>1 DEF FlowInit, Init, TriesInv, TriesAt, GivenOk
<1>2. /\ TypeOK /\ MethodInv /\ NumberingInv /\ CountingInv
      /\ FlowTracksDialog /\ GivenOk /\ TriesInv /\ [FlowNext]_allVars
      => TriesInv' /\ GivenOk'
    BY TriesStep, DialogStep
<1>3. TriesInv => AtMostThreeTries
    <2> SUFFICES ASSUME TriesInv, NothingOpened
                 PROVE  Cardinality(Openings) <= 3
        BY DEF AtMostThreeTries
    <2>1. TriesAt(stage) \in 0..3 /\ Cardinality(sent) \in Nat /\ Cardinality(sent) <= TriesAt(stage)
        BY FS_CardinalityType DEF TriesInv, TriesAt
    <2>2. IsFiniteSet(Openings) /\ Cardinality(Openings) <= Cardinality(sent)
        BY FS_Subset DEF TriesInv, Openings
    <2>3. Cardinality(Openings) \in Nat
        BY <2>2, FS_CardinalityType
    <2> QED BY <2>1, <2>2, <2>3
<1>4. Spec => [](TypeOK /\ MethodInv /\ NumberingInv /\ CountingInv)
    BY StreamHolds
<1> QED BY <1>1, <1>2, <1>3, <1>4, FlowUsesTheDialog, FlowAndDialogAgree, PTL DEF FlowSpec
=============================================================================
