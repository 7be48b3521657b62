------------------------- MODULE FinTSDialogProofs -------------------------
(***************************************************************************)
(* Theorems about FinTSDialog, for every set of ids, functions, accounts   *)
(* and answers and every bound: types, the shapes of steps, methods run in *)
(* turn, numbers are never reused and leave no gap, nothing follows HKEND. *)
(***************************************************************************)
EXTENDS FinTSDialogInv, TLAPS

-----------------------------------------------------------------------------
(* The parameter caches of BankParams: every operation on them keeps their *)
(* type, whatever the bank answers.                                        *)

\* The part of an answer that ingest_response and select_security_function
\* read has its type.
WellFormed(r) ==
    /\ r.hibpa \in Seq(Nat) /\ r.hiupa \in Seq(Nat)
    /\ r.hitans \in Seq(TanMethods)
    /\ r.hipins \in PinRules
    /\ r.hiupd \in Seq(Accounts)
    /\ r.params \in SUBSET (STRING \X Nat)
    /\ r.allowed \in Seq(SecurityFunctions)

\* The last element of a sequence, or the default, is of their common type.
LEMMA LastOrType ==
    ASSUME NEW S, NEW s \in Seq(S), NEW default \in S
    PROVE  LastOr(s, default) \in S
<1>1. CASE s = <<>>
    BY <1>1 DEF LastOr
<1>2. CASE s # <<>>
    <2>1. Len(s) \in 1..Len(s)
        BY <1>2
    <2> QED BY <1>2, <2>1 DEF LastOr
<1> QED BY <1>1, <1>2

\* A Dialog starts with empty caches of the right type.
LEMMA NewParamsType == NewParams \in BankParamsType
BY PinOnlyAssumption DEF NewParams, BankParamsType, PinRules, NoRules

LEMMA ExtendType ==
    ASSUME NEW old \in PinRules, NEW new \in PinRules
    PROVE  Extend(old, new) \in PinRules
BY DEF Extend, PinRules

\* ingest_response keeps the type of the caches.
LEMMA IngestResponseType ==
    ASSUME NEW p \in BankParamsType, NEW r, WellFormed(r)
    PROVE  IngestResponse(p, r) \in BankParamsType
<1>1. LastOr(r.hibpa, p.bpd_version) \in Nat /\ LastOr(r.hiupa, p.upd_version) \in Nat
    BY LastOrType DEF WellFormed, BankParamsType
<1>2. Extend(p.operation_tan_required, r.hipins) \in PinRules
    BY ExtendType DEF WellFormed, BankParamsType
<1>3. /\ p.tan_methods \o r.hitans \in Seq(TanMethods)
      /\ p.accounts_from_upd \o r.hiupd \in Seq(Accounts)
    BY DEF WellFormed, BankParamsType
<1>4. p.bpd_segments \cup r.params \in SUBSET (STRING \X Nat)
    BY DEF WellFormed, BankParamsType
<1> QED BY <1>1, <1>2, <1>3, <1>4 DEF IngestResponse, WellFormed, BankParamsType

\* The function select_security_function chooses is a listed one, whichever of
\* equally good ones it is.
LEMMA SelectSecurityFunctionType ==
    ASSUME NEW p \in BankParamsType
    PROVE  SelectSecurityFunction(p) \in BankParamsType
<1>1. CASE PreferenceAllowed(p)
    <2>1. p.preferred \in SecurityFunctions
        BY <1>1 DEF PreferenceAllowed, BankParamsType
    <2> QED BY <1>1, <2>1 DEF SelectSecurityFunction, BankParamsType
<1>2. CASE ~PreferenceAllowed(p) /\ BestAllowed(p) = {}
    BY <1>2 DEF SelectSecurityFunction
<1>3. CASE ~PreferenceAllowed(p) /\ BestAllowed(p) # {}
    <2>1. PICK i : i = CHOOSE j \in BestAllowed(p) : TRUE
        OBVIOUS
    <2>2. i \in 1..Len(p.allowed)
        BY <1>3, <2>1 DEF BestAllowed
    <2>3. p.allowed \in Seq(SecurityFunctions)
        BY DEF BankParamsType
    <2>4. p.allowed[i] \in SecurityFunctions
        BY <2>2, <2>3
    <2>5. SelectSecurityFunction(p) = [p EXCEPT !.selected = p.allowed[i]]
        BY <1>3, <2>1 DEF SelectSecurityFunction
    <2> QED BY <2>4, <2>5 DEF BankParamsType
<1> QED BY <1>1, <1>2, <1>3

LEMMA IngestAndNegotiateType ==
    ASSUME NEW p \in BankParamsType, NEW r, WellFormed(r)
    PROVE  IngestAndNegotiate(p, r) \in BankParamsType
BY IngestResponseType, SelectSecurityFunctionType DEF IngestAndNegotiate

-----------------------------------------------------------------------------
(* Types of requests and answers.                                          *)

Ids == DialogIds \cup {Unassigned}
Sids == SystemIds \cup {NoSystemId}
TaskRefs == Tasks \cup {NoTask}

LEMMA AnswerIsWellFormed ==
    ASSUME NEW r \in Answers
    PROVE  /\ WellFormed(r) /\ r.id \in Ids /\ r.hitan \in TaskRefs
           /\ r.hisyn \in Seq(SystemIds) /\ r.codes \in SUBSET Codes
BY DEF Answers, WellFormed, Ids, TaskRefs

LEMMA PlainAnswerType ==
    ASSUME NEW id \in Ids, NEW codes \in SUBSET Codes
    PROVE  PlainAnswer(id, codes) \in Answers
BY DEF PlainAnswer, Answers, Ids, PinRules, NoRules

\* An answer that also carries a challenge, or a system id.
LEMMA ChallengeAnswerType ==
    ASSUME NEW r \in Answers, NEW t \in Tasks
    PROVE  /\ [r EXCEPT !.hitan = t] \in Answers
           /\ [r EXCEPT !.hitan = t].id = r.id
BY DEF Answers

LEMMA SyncAnswerType ==
    ASSUME NEW r \in Answers, NEW s \in SystemIds
    PROVE  /\ [r EXCEPT !.hisyn = <<s>>] \in Answers
           /\ [r EXCEPT !.hisyn = <<s>>].id = r.id
<1>1. <<s>> \in Seq(SystemIds)
    OBVIOUS
<1> QED BY <1>1 DEF Answers

LEMMA OpeningAnswerType ==
    ASSUME NEW q \in Requests, NEW id \in Ids, NEW codes \in SUBSET Codes,
           NEW allowed \in AllowedLists
    PROVE  OpeningAnswer(q, id, codes, allowed) \in Answers
<1>1. PlainAnswer(id, codes) \in Answers
    BY PlainAnswerType
<1>2. <<Bpd.version>> \in Seq(Nat) /\ <<Upd.read>> \in Seq(Nat)
    BY BankDataAssumption
<1>3. allowed \in Seq(SecurityFunctions)
    BY AllowedAssumption
<1> QED BY <1>1, <1>2, <1>3, BankDataAssumption DEF OpeningAnswer, Answers

LEMMA ReadingsType ==
    ASSUME NEW r \in Answers
    PROVE  Readings(r) \subseteq Answers
<1>1. {} \in SUBSET Codes /\ Unassigned \in Ids /\ r.id \in Ids
    BY AnswerIsWellFormed DEF Ids
<1> QED BY <1>1, PlainAnswerType DEF Readings

-----------------------------------------------------------------------------
(* The building blocks of the actions keep the types.                      *)

LEMMA SendType ==
    ASSUME TypeOK, NEW call \in Calls, NEW page \in BOOLEAN, NEW did \in Ids,
           NEW num \in Nat \ {0}, NEW hktan \in BOOLEAN, NEW task \in TaskRefs,
           NEW p \in BankParamsType, NEW sid \in Sids,
           Send(call, page, did, num, hktan, task, p, sid)
    PROVE  /\ pending' \in Requests
           /\ answer' = NoAnswer
           /\ message_number' \in Nat \ {0}
           /\ net' \in SUBSET Requests
           /\ sent' \in SUBSET Requests
<1>1. /\ p.selected \in SecurityFunctions
      /\ p.bpd_version \in Nat /\ p.upd_version \in Nat
    BY DEF BankParamsType
<1>2. serial \in Nat /\ num \in Nat
    BY DEF TypeOK
<1> DEFINE q == [obj |-> serial, call |-> call, page |-> page, did |-> did,
                 num |-> num, hktan |-> hktan, task |-> task,
                 fn |-> p.selected, sys |-> sid,
                 bpd |-> p.bpd_version, upd |-> p.upd_version]
<1>3. q \in Requests
    BY <1>1, <1>2 DEF Requests, Ids, Sids, TaskRefs
<1>4. /\ pending' = q /\ answer' = NoAnswer /\ message_number' = num + 1
      /\ net' = net \cup {q} /\ sent' = sent \cup {q}
    BY DEF Send, NextNumber
<1> QED BY <1>3, <1>4 DEF TypeOK

LEMMA SendFromType ==
    ASSUME TypeOK, NEW state, NEW call \in Calls, NEW page \in BOOLEAN,
           NEW hktan \in BOOLEAN, NEW task \in TaskRefs,
           SendFrom(state, call, page, hktan, task)
    PROVE  TypeOK'
<1>1. /\ dialog_id \in Ids /\ message_number \in Nat \ {0}
      /\ params \in BankParamsType /\ system_id \in Sids
    BY DEF TypeOK, Ids, Sids
<1>2. Send(call, page, dialog_id, message_number, hktan, task, params, system_id)
    BY DEF SendFrom
<1>3. /\ pending' \in Requests /\ answer' = NoAnswer
      /\ message_number' \in Nat \ {0}
      /\ net' \in SUBSET Requests /\ sent' \in SUBSET Requests
    BY <1>1, <1>2, SendType
<1> QED BY <1>3 DEF TypeOK, SendFrom, appVars

\* What Consumed and Return leave behind.
LEMMA ConsumedType ==
    ASSUME TypeOK, NEW result \in Outcomes, Consumed(result),
           stored' \in [system_id : Sids, params : BankParamsType],
           net' \in SUBSET Requests, sent' \in SUBSET Requests,
           UNCHANGED <<serial, bank>>
    PROVE  TypeOK'
BY NewParamsType DEF TypeOK, Consumed, FirstNumber, Sids

LEMMA ReturnType ==
    ASSUME TypeOK, NEW state \in {"none", "New", "Synced", "TanPending", "Open"},
           NEW result \in Outcomes, Return(state, result),
           dialog_id' \in Ids, system_id' \in Sids, params' \in BankParamsType,
           challenge' \in TaskRefs, UNCHANGED <<stored, serial, net, bank, sent>>
    PROVE  TypeOK'
BY DEF TypeOK, Return, Ids, Sids, TaskRefs

LEMMA LearnType ==
    ASSUME TypeOK, answer # NoAnswer
    PROVE  /\ answer \in Answers
           /\ WellFormed(answer)
           /\ answer.hitan \in TaskRefs
           /\ ExtractDialogId(dialog_id, answer) \in Ids
           /\ IngestSystemId(system_id, answer) \in Sids
           /\ IngestResponse(params, answer) \in BankParamsType
           /\ IngestAndNegotiate(params, answer) \in BankParamsType
           /\ SelectSecurityFunction(IngestResponse(params, answer)) \in BankParamsType
<1>1. answer \in Answers /\ params \in BankParamsType
    BY DEF TypeOK
<1>2. /\ WellFormed(answer) /\ answer.id \in Ids /\ answer.hitan \in TaskRefs
      /\ answer.hisyn \in Seq(SystemIds)
    BY <1>1, AnswerIsWellFormed
<1>3. ExtractDialogId(dialog_id, answer) \in Ids
    BY <1>2 DEF TypeOK, ExtractDialogId, Ids
<1>4. IngestSystemId(system_id, answer) \in Sids
    <2>1. answer.hisyn \in Seq(Sids) /\ system_id \in Sids
        BY <1>2 DEF TypeOK, Sids
    <2> QED BY <2>1, LastOrType DEF IngestSystemId
<1> QED BY <1>1, <1>2, <1>3, <1>4, IngestResponseType, IngestAndNegotiateType,
           SelectSecurityFunctionType

-----------------------------------------------------------------------------
(* One lemma per group of actions.                                         *)

LEMMA InitType == Init => TypeOK
BY NewParamsType, NullAssumption
   DEF Init, TypeOK, FirstNumber, Outcomes, BankDialogs

LEMMA NewDialogType ==
    ASSUME TypeOK, NEW sid \in Sids, NEW p \in BankParamsType,
           NEW preferred \in Preferences, NewDialog(sid, p, preferred)
    PROVE  TypeOK'
<1>1. [p EXCEPT !.preferred = preferred] \in BankParamsType
    BY AllowedAssumption DEF BankParamsType
<1> QED BY <1>1 DEF TypeOK, NewDialog, FirstNumber, Sids, Outcomes

LEMMA CallTypes ==
    ASSUME TypeOK,
           \/ SyncCall \/ InitCall \/ InitNoTanCall \/ ProbeCall
           \/ SyncedEndCall \/ EndCall \/ PollCall \/ SubmitTanCall
           \/ PollDecoupledTanCall
    PROVE  TypeOK'
<1>1. challenge \in TaskRefs /\ NoTask \in TaskRefs
    BY DEF TypeOK, TaskRefs
<1>2. /\ {"sync", "init", "init_no_tan", "probe", "synced_end", "end", "poll",
          "submit_tan", "poll_decoupled_tan"} \subseteq Calls
    BY DEF Calls, OpeningCalls, EndCalls, TanCalls
<1>3. CASE SyncCall
    BY <1>1, <1>2, <1>3, SendFromType DEF SyncCall
<1>4. CASE InitCall
    BY <1>1, <1>2, <1>4, SendFromType DEF InitCall
<1>5. CASE InitNoTanCall
    BY <1>1, <1>2, <1>5, SendFromType DEF InitNoTanCall
<1>6. CASE ProbeCall
    BY <1>1, <1>2, <1>6, SendFromType DEF ProbeCall
<1>7. CASE SyncedEndCall
    BY <1>1, <1>2, <1>7, SendFromType DEF SyncedEndCall
<1>8. CASE EndCall
    BY <1>1, <1>2, <1>8, SendFromType DEF EndCall
<1>9. CASE PollCall
    BY <1>1, <1>2, <1>9, SendFromType DEF PollCall
<1>10. CASE SubmitTanCall
    BY <1>1, <1>2, <1>10, SendFromType DEF SubmitTanCall
<1>11. CASE PollDecoupledTanCall
    BY <1>1, <1>2, <1>11, SendFromType DEF PollDecoupledTanCall
<1> QED BY <1>3, <1>4, <1>5, <1>6, <1>7, <1>8, <1>9, <1>10, <1>11

LEMMA OrderCallType ==
    ASSUME TypeOK, NEW op, NEW page \in BOOLEAN, OrderCall(op, page)
    PROVE  TypeOK'
<1>1. op \in Calls /\ NoTask \in TaskRefs /\ BundlesHktan(op) \in BOOLEAN
    BY DEF OrderCall, Calls, TaskRefs, BundlesHktan, HktanOrders, OrderNeedsTan
<1>2. SendFrom("Open", op, page, BundlesHktan(op), NoTask)
    BY DEF OrderCall
<1> QED BY <1>1, <1>2, SendFromType

\* The methods that open a dialog or answer a challenge.
LEMMA ReturnTypes ==
    ASSUME TypeOK,
           \/ SyncReturn \/ InitReturn \/ InitNoTanReturn \/ PollReturn
           \/ SubmitTanReturn \/ PollDecoupledTanReturn
    PROVE  TypeOK'
<1> DEFINE here == {"none", "New", "Synced", "TanPending", "Open"}
<1>1. answer # NoAnswer
    BY DEF SyncReturn, InitReturn, InitNoTanReturn, PollReturn, SubmitTanReturn,
           PollDecoupledTanReturn, Answered
<1>2. /\ ExtractDialogId(dialog_id, answer) \in Ids
      /\ IngestSystemId(system_id, answer) \in Sids
      /\ IngestResponse(params, answer) \in BankParamsType
      /\ IngestAndNegotiate(params, answer) \in BankParamsType
      /\ SelectSecurityFunction(IngestResponse(params, answer)) \in BankParamsType
      /\ answer.hitan \in TaskRefs
    BY <1>1, LearnType
<1>3. UNCHANGED <<stored, serial, net, bank, sent>>
    BY DEF SyncReturn, InitReturn, InitNoTanReturn, PollReturn, SubmitTanReturn,
           PollDecoupledTanReturn
<1>4. /\ "err" \in Outcomes /\ "synced" \in Outcomes /\ "tan_required" \in Outcomes
      /\ "opened" \in Outcomes /\ "pending" \in Outcomes /\ "confirmed" \in Outcomes
    BY DEF Outcomes
<1>5. /\ stored \in [system_id : Sids, params : BankParamsType]
      /\ net \in SUBSET Requests /\ sent \in SUBSET Requests
      /\ dialog_id \in Ids /\ system_id \in Sids /\ params \in BankParamsType
      /\ challenge \in TaskRefs /\ NoTask \in TaskRefs
    BY DEF TypeOK, Sids, Ids, TaskRefs
<1>6. CASE Consumed("err")
    BY <1>3, <1>4, <1>5, <1>6, ConsumedType
<1>7. CASE ~Consumed("err")
    <2>1. PICK state \in here, result \in Outcomes : Return(state, result)
        BY <1>4, <1>7 DEF SyncReturn, InitReturn, InitNoTanReturn, PollReturn,
                          SubmitTanReturn, PollDecoupledTanReturn
    <2>2. dialog_id' \in Ids /\ system_id' \in Sids /\ params' \in BankParamsType
        BY <1>2, <1>5, <1>7 DEF SyncReturn, InitReturn, InitNoTanReturn, PollReturn,
              SubmitTanReturn, PollDecoupledTanReturn, Learn, Ingest
    <2>3. challenge' \in TaskRefs
        BY <1>2, <1>5, <1>7 DEF SyncReturn, InitReturn, InitNoTanReturn, PollReturn,
              SubmitTanReturn, PollDecoupledTanReturn
    <2> QED BY <1>3, <2>1, <2>2, <2>3, ReturnType
<1> QED BY <1>6, <1>7

LEMMA NegotiatedInitType ==
    ASSUME TypeOK, NEW p \in BankParamsType, NEW sid \in Sids,
           NegotiatedInit(p, sid), UNCHANGED <<stored, serial, bank>>
    PROVE  TypeOK'
<1>1. "err" \in Outcomes /\ "init" \in Calls /\ Unassigned \in Ids /\ NoTask \in TaskRefs
      /\ FirstNumber \in Nat \ {0}
    BY DEF Outcomes, Calls, OpeningCalls, Ids, TaskRefs, FirstNumber
<1>2. CASE NothingNegotiated(p)
    <2>1. Consumed("err") /\ UNCHANGED <<net, sent>>
        BY <1>2 DEF NegotiatedInit
    <2>2. /\ stored' \in [system_id : Sids, params : BankParamsType]
          /\ net' \in SUBSET Requests /\ sent' \in SUBSET Requests
        BY <2>1 DEF TypeOK, Sids
    <2> QED BY <1>1, <2>1, <2>2, ConsumedType
<1>3. CASE ~NothingNegotiated(p)
    <2>1. Send("init", FALSE, Unassigned, FirstNumber, TRUE, NoTask, p, sid)
        BY <1>3 DEF NegotiatedInit
    <2>2. /\ pending' \in Requests /\ answer' = NoAnswer
          /\ message_number' \in Nat \ {0}
          /\ net' \in SUBSET Requests /\ sent' \in SUBSET Requests
        BY <1>1, <2>1, SendType
    <2>3. /\ dialog_id' = Unassigned /\ system_id' = sid /\ params' = p
          /\ UNCHANGED <<typestate, outcome, challenge>>
        BY <1>3 DEF NegotiatedInit
    <2> QED BY <2>2, <2>3 DEF TypeOK, Sids
<1> QED BY <1>2, <1>3

LEMMA ProbeTypes ==
    ASSUME TypeOK, ProbeReturn \/ ProbeEndReturn
    PROVE  TypeOK'
<1>1. CASE ProbeEndReturn
    <2>1. params \in BankParamsType /\ system_id \in Sids
        BY DEF TypeOK, Sids
    <2> QED BY <1>1, <2>1, NegotiatedInitType DEF ProbeEndReturn
<1>2. CASE ProbeReturn
    <2> DEFINE id  == ExtractDialogId(dialog_id, answer)
               sid == IngestSystemId(system_id, answer)
               p   == IngestAndNegotiate(params, answer)
    <2>1. id \in Ids /\ sid \in Sids /\ p \in BankParamsType
        BY <1>2, LearnType DEF ProbeReturn, Answered
    <2>2. UNCHANGED <<stored, serial, bank>>
        BY <1>2 DEF ProbeReturn
    <2>3. CASE id = Unassigned
        <3>1. NegotiatedInit(p, sid)
            BY <1>2, <2>3 DEF ProbeReturn
        <3> QED BY <2>1, <2>2, <3>1, NegotiatedInitType
    <2>4. CASE id # Unassigned
        <3>1. /\ dialog_id' = id /\ system_id' = sid /\ params' = p
              /\ Send("probe_end", FALSE, id, message_number, FALSE, NoTask, p, sid)
              /\ UNCHANGED <<typestate, outcome, challenge>>
            BY <1>2, <2>4 DEF ProbeReturn
        <3>2. "probe_end" \in Calls /\ NoTask \in TaskRefs /\ message_number \in Nat \ {0}
            BY DEF Calls, EndCalls, TaskRefs, TypeOK
        <3>3. /\ pending' \in Requests /\ answer' = NoAnswer
              /\ message_number' \in Nat \ {0}
              /\ net' \in SUBSET Requests /\ sent' \in SUBSET Requests
            BY <2>1, <3>1, <3>2, SendType
        <3> QED BY <2>1, <2>2, <3>1, <3>3 DEF TypeOK, Sids, Ids
    <2> QED BY <2>3, <2>4
<1> QED BY <1>1, <1>2

\* The methods that end a dialog, and the loss of a Dialog.
LEMMA EndTypes ==
    ASSUME TypeOK,
           \/ DropDialog \/ SyncedEndReturn \/ SyncedEndSilently
           \/ EndReturn \/ EndSilently
    PROVE  TypeOK'
<1>1. PICK result \in Outcomes : Consumed(result)
    BY DEF DropDialog, SyncedEndReturn, SyncedEndSilently, KeepSyncResult, EndReturn,
           EndSilently, Outcomes
<1>2. UNCHANGED <<serial, net, bank, sent>>
    BY DEF DropDialog, SyncedEndReturn, SyncedEndSilently, KeepSyncResult, EndReturn,
           EndSilently
<1>3. stored' \in [system_id : Sids, params : BankParamsType]
    BY DEF DropDialog, SyncedEndReturn, SyncedEndSilently, KeepSyncResult, EndReturn,
           EndSilently, TypeOK, Sids
<1> QED BY <1>1, <1>2, <1>3, ConsumedType DEF TypeOK

LEMMA OrderTypes ==
    ASSUME TypeOK, NEW op, OrderNotBuilt(op) \/ OrderReturn(op)
    PROVE  TypeOK'
<1>1. CASE OrderNotBuilt(op)
    BY <1>1 DEF OrderNotBuilt, TypeOK, dialogVars, appVars, Outcomes
<1>2. CASE OrderReturn(op)
    <2>1. answer.hitan \in TaskRefs
        BY <1>2, LearnType DEF OrderReturn, Answered
    <2>2. OrderResult(op, answer) \in Outcomes
        BY DEF OrderResult, Outcomes
    <2> QED BY <1>2, <2>1, <2>2 DEF OrderReturn, Return, TypeOK, TaskRefs
<1> QED BY <1>1, <1>2

LEMMA SendFailsType ==
    ASSUME TypeOK, SendFails
    PROVE  TypeOK'
<1> DEFINE storeType == [system_id : Sids, params : BankParamsType]
<1>1. "err" \in Outcomes /\ "ended" \in Outcomes
    BY DEF Outcomes
<1>2. /\ stored \in storeType /\ net \in SUBSET Requests /\ sent \in SUBSET Requests
      /\ system_id \in Sids /\ params \in BankParamsType
    BY DEF TypeOK, Sids
<1>3. CASE /\ Return(typestate, "err")
           /\ UNCHANGED <<dialog_id, system_id, params, challenge>>
           /\ UNCHANGED <<stored, serial, net, bank, sent>>
    BY <1>1, <1>3 DEF Return, TypeOK
<1>4. CASE NegotiatedInit(params, system_id) /\ UNCHANGED <<stored, serial, bank>>
    BY <1>2, <1>4, NegotiatedInitType
<1>5. CASE KeepSyncResult
    BY <1>1, <1>2, <1>5, ConsumedType DEF KeepSyncResult, Sids
<1>6. CASE /\ Consumed("ended") \/ Consumed("err")
           /\ UNCHANGED <<stored, serial, net, bank, sent>>
    BY <1>1, <1>2, <1>6, ConsumedType
<1> QED BY <1>3, <1>4, <1>5, <1>6 DEF SendFails

LEMMA ReplyType ==
    ASSUME TypeOK, NEW q \in net, NEW r \in Answers, Reply(q, r),
           bank' \in [DialogIds -> BankDialogs]
    PROVE  TypeOK'
<1>1. answer' \in Answers \cup {NoAnswer}
    BY ReadingsType DEF Reply, TypeOK
<1> QED BY <1>1 DEF Reply, TypeOK, dialogVars, appVars

LEMMA EntersType ==
    ASSUME TypeOK, NEW d \in DialogIds, Enters(d, "sync") \/ Enters(d, "pin")
           \/ Enters(d, "open") \/ Enters(d, "tan") \/ Enters(d, "ended")
    PROVE  bank' \in [DialogIds -> BankDialogs]
BY DEF Enters, TypeOK, BankDialogs

\* The answers of the bank that open a dialog.
LEMMA BankOpensType ==
    ASSUME TypeOK, NEW q \in net, NEW d \in DialogIds, NEW allowed \in AllowedLists,
           \/ BankSyncs(q, d, allowed) \/ BankAdmitsPin(q, d, allowed)
           \/ BankExempts(q, d, allowed) \/ BankAsksTan(q, d, allowed)
    PROVE  TypeOK'
<1>1. q \in Requests /\ d \in Ids /\ Unassigned \in Ids
    BY DEF TypeOK, Ids
<1>2. {"0020"} \in SUBSET Codes /\ {"0030"} \in SUBSET Codes /\ {"3955"} \in SUBSET Codes
      /\ {"0020", "3076"} \in SUBSET Codes /\ "init" \in Tasks
    BY DEF Codes, Tasks
<1>3. CASE BankSyncs(q, d, allowed)
    <2>1. bank' \in [DialogIds -> BankDialogs]
        BY <1>3, EntersType DEF BankSyncs
    <2>2. PICK r \in Answers : Reply(q, r)
        BY <1>1, <1>2, <1>3, OpeningAnswerType, SyncAnswerType DEF BankSyncs
    <2> QED BY <2>1, <2>2, ReplyType
<1>4. CASE BankAdmitsPin(q, d, allowed)
    BY <1>1, <1>2, <1>4, EntersType, OpeningAnswerType, ReplyType DEF BankAdmitsPin
<1>5. CASE BankExempts(q, d, allowed)
    BY <1>1, <1>2, <1>5, EntersType, OpeningAnswerType, ReplyType DEF BankExempts
<1>6. CASE BankAsksTan(q, d, allowed)
    <2>1. bank' \in [DialogIds -> BankDialogs]
        BY <1>6, EntersType DEF BankAsksTan
    <2>2. PICK r \in Answers : Reply(q, r)
        BY <1>1, <1>2, <1>6, OpeningAnswerType, ChallengeAnswerType DEF BankAsksTan
    <2> QED BY <2>1, <2>2, ReplyType
<1> QED BY <1>3, <1>4, <1>5, <1>6

LEMMA BankRefusesType ==
    ASSUME TypeOK, NEW q \in net, NEW allowed \in AllowedLists, BankRefuses(q, allowed)
    PROVE  TypeOK'
<1>1. q \in Requests /\ Unassigned \in Ids /\ {"9110"} \in SUBSET Codes
    BY DEF TypeOK, Ids, Codes
<1> QED BY <1>1, OpeningAnswerType, ReplyType DEF BankRefuses, TypeOK

\* The answers of the bank inside a dialog.
LEMMA BankAnswersType ==
    ASSUME TypeOK, NEW q \in net,
           \/ BankRejects(q) \/ BankEnds(q) \/ BankStillWaits(q) \/ BankConfirms(q)
           \/ BankServes(q) \/ BankChallenges(q)
    PROVE  TypeOK'
<1>1. q.did \in DialogIds /\ q.did \in Ids
    BY DEF TypeOK, Requests, Ids, BankRejects, BankEnds, BankStillWaits, BankConfirms,
           WantsTan, BankServes, BankChallenges
<1>2. bank' \in [DialogIds -> BankDialogs]
    <2>1. CASE BankRejects(q)
        BY <1>1, <2>1, EntersType DEF BankRejects, TypeOK
    <2>2. CASE BankEnds(q)
        BY <1>1, <2>2, EntersType DEF BankEnds
    <2>3. CASE BankStillWaits(q)
        BY <2>3 DEF BankStillWaits, TypeOK
    <2>4. CASE BankConfirms(q) /\ q.task = "init"
        BY <1>1, <2>4, EntersType DEF BankConfirms
    <2>5. CASE BankConfirms(q) /\ q.task # "init"
        BY <1>1, <2>5 DEF BankConfirms, TypeOK, BankDialogs
    <2>6. CASE BankServes(q)
        BY <1>1, <2>6 DEF BankServes, TypeOK, BankDialogs
    <2>7. CASE BankChallenges(q)
        BY <1>1, <2>7 DEF BankChallenges, TypeOK, BankDialogs
    <2> QED BY <2>1, <2>2, <2>3, <2>4, <2>5, <2>6, <2>7
<1>3. PICK r \in Answers : Reply(q, r)
    <2>1. /\ \A c \in Codes : {c} \in SUBSET Codes
          /\ "9010" \in Codes /\ "9800" \in Codes /\ "0100" \in Codes /\ "0020" \in Codes
          /\ "0030" \in Codes /\ "3955" \in Codes /\ PendingCodes \subseteq Codes
          /\ {"0020", "3040"} \in SUBSET Codes /\ {"0030", "3076"} \in SUBSET Codes
          /\ "order" \in Tasks
        BY PendingAssumption DEF Codes, Tasks
    <2>2. CASE BankRejects(q) \/ BankEnds(q) \/ BankStillWaits(q) \/ BankConfirms(q)
        BY <1>1, <2>1, <2>2, PlainAnswerType
           DEF BankRejects, BankEnds, BankStillWaits, BankConfirms
    <2>3. CASE BankServes(q)
        BY <1>1, <2>1, <2>3, PlainAnswerType, ChallengeAnswerType DEF BankServes
    <2>4. CASE BankChallenges(q)
        BY <1>1, <2>1, <2>4, PlainAnswerType, ChallengeAnswerType DEF BankChallenges
    <2> QED BY <2>2, <2>3, <2>4
<1> QED BY <1>2, <1>3, ReplyType

-----------------------------------------------------------------------------
(* Type correctness.                                                       *)

LEMMA TypeStep == TypeOK /\ [Next]_vars => TypeOK'
<1> SUFFICES ASSUME TypeOK, [Next]_vars
             PROVE  TypeOK'
    OBVIOUS
<1>1. CASE ClientStep
    <2>1. ASSUME NEW sid \in SavedIds \cup {NoSystemId, stored.system_id},
                 NEW preferred \in Preferences,
                 \/ NewDialog(sid, NewParams, preferred)
                 \/ NewDialog(sid, stored.params, preferred)
          PROVE  TypeOK'
        <3>1. /\ sid \in Sids
              /\ NewParams \in BankParamsType /\ stored.params \in BankParamsType
            BY NewParamsType, SystemIdAssumption DEF TypeOK, Sids
        <3> QED BY <2>1, <3>1, NewDialogType
    <2>2. ASSUME NEW op \in Operations,
                 OrderCall(op, FALSE) \/ OrderCall(op, TRUE) \/ OrderNotBuilt(op)
                 \/ OrderReturn(op)
          PROVE  TypeOK'
        BY <2>2, OrderCallType, OrderTypes
    <2>3. CASE \/ SyncCall \/ InitCall \/ InitNoTanCall \/ ProbeCall
               \/ SyncedEndCall \/ EndCall \/ PollCall \/ SubmitTanCall
               \/ PollDecoupledTanCall
        BY <2>3, CallTypes
    <2>4. CASE \/ SyncReturn \/ InitReturn \/ InitNoTanReturn \/ PollReturn
               \/ SubmitTanReturn \/ PollDecoupledTanReturn
        BY <2>4, ReturnTypes
    <2>5. CASE ProbeReturn \/ ProbeEndReturn
        BY <2>5, ProbeTypes
    <2>6. CASE \/ DropDialog \/ SyncedEndReturn \/ SyncedEndSilently
               \/ EndReturn \/ EndSilently
        BY <2>6, EndTypes
    <2> QED BY <1>1, <2>1, <2>2, <2>3, <2>4, <2>5, <2>6 DEF ClientStep
<1>2. CASE SendFails
    BY <1>2, SendFailsType
<1>3. CASE BankStep
    <2>1. ASSUME NEW q \in net, NEW d \in DialogIds, NEW allowed \in AllowedLists,
                 \/ BankSyncs(q, d, allowed) \/ BankAdmitsPin(q, d, allowed)
                 \/ BankExempts(q, d, allowed) \/ BankAsksTan(q, d, allowed)
          PROVE  TypeOK'
        BY <2>1, BankOpensType
    <2>2. ASSUME NEW q \in net, NEW allowed \in AllowedLists, BankRefuses(q, allowed)
          PROVE  TypeOK'
        BY <2>2, BankRefusesType
    <2>3. ASSUME NEW q \in net,
                 \/ BankRejects(q) \/ BankEnds(q) \/ BankStillWaits(q)
                 \/ BankConfirms(q) \/ BankServes(q) \/ BankChallenges(q)
          PROVE  TypeOK'
        BY <2>3, BankAnswersType
    <2> QED BY <1>3, <2>1, <2>2, <2>3 DEF BankStep
<1>4. CASE UNCHANGED vars
    BY <1>4 DEF vars, TypeOK
<1> QED BY <1>1, <1>2, <1>3, <1>4 DEF Next

\* Every reachable state of the client, the network and the bank is typed,
\* whatever the bank answers and whatever fails (TypeOK).
THEOREM TypeCorrect == Spec => []TypeOK
<1>1. Init => TypeOK
    BY InitType
<1>2. TypeOK /\ [Next]_vars => TypeOK'
    BY TypeStep
<1> QED BY <1>1, <1>2, PTL DEF Spec

-----------------------------------------------------------------------------
(* The shapes of steps: what a step of the client may do to the Dialog, and*)
(* what a step of the bank may answer.                                     *)

\* A request of the current Dialog is sent in dialog did under number num.
Posts(call, did, num, p, sid) ==
    /\ pending' \in Requests /\ pending' # NoRequest
    /\ pending'.obj = serial /\ pending'.call = call
    /\ pending'.did = did /\ pending'.num = num
    /\ pending'.fn = p.selected /\ pending'.sys = sid
    /\ pending'.bpd = p.bpd_version /\ pending'.upd = p.upd_version
    /\ answer' = NoAnswer
    /\ message_number' = num + 1
    /\ net' = net \cup {pending'} /\ sent' = sent \cup {pending'}

\* A method starts: its request goes out in the dialog the Dialog is in.
Speaks(call) ==
    /\ Idle /\ call \in Calls /\ typestate \in RunsIn(call)
    /\ call \in EndCalls => dialog_id # Unassigned
    /\ call \in TanCalls => pending'.task = challenge
    /\ Posts(call, dialog_id, message_number, params, system_id)
    /\ UNCHANGED <<typestate, dialog_id, system_id, params, bank>> /\ UNCHANGED appVars

\* init_negotiate goes on: it ends its probe dialog, or initialises another.
EndsProbe ==
    /\ Answered("probe")
    /\ dialog_id' = ExtractDialogId(dialog_id, answer) /\ dialog_id' # Unassigned
    /\ system_id' = IngestSystemId(system_id, answer)
    /\ params' = IngestAndNegotiate(params, answer)
    /\ Posts("probe_end", dialog_id', message_number, params', system_id')
    /\ UNCHANGED <<typestate, bank>> /\ UNCHANGED appVars

Negotiates ==
    /\ \/ /\ Answered("probe")
          /\ system_id' = IngestSystemId(system_id, answer)
          /\ params' = IngestAndNegotiate(params, answer)
       \/ Waiting("probe_end") /\ UNCHANGED <<system_id, params>>
    /\ ~NothingNegotiated(params')
    /\ dialog_id' = Unassigned
    /\ Posts("init", Unassigned, FirstNumber, params', system_id')
    /\ UNCHANGED <<typestate, bank>> /\ UNCHANGED appVars

\* A method returns with the Dialog in typestate state.
Back(state) ==
    /\ ~Idle
    /\ typestate' = state
    /\ pending' = NoRequest /\ answer' = NoAnswer
    /\ UNCHANGED <<message_number, stored, serial, net, bank, sent>>

\* The answer to an opening request is taken for a success.
Learns ==
    /\ dialog_id' = ExtractDialogId(dialog_id, answer)
    /\ system_id' = IngestSystemId(system_id, answer)
    /\ \/ /\ Answered("sync") /\ Back("Synced") /\ challenge' = challenge
          /\ params' = SelectSecurityFunction(IngestResponse(params, answer))
       \/ /\ Answered("init") /\ RequiresTan(answer) /\ Back("TanPending")
          /\ challenge' = answer.hitan
          /\ params' = IngestAndNegotiate(params, answer)
       \/ /\ Answered("init") /\ ~RequiresTan(answer) /\ ~HasErrors(answer)
          /\ Back("Open") /\ challenge' = challenge
          /\ params' = IngestAndNegotiate(params, answer)
       \/ /\ Answered("init_no_tan") /\ ~HasErrors(answer)
          /\ Back("Open") /\ challenge' = challenge
          /\ params' = IngestResponse(params, answer)

\* A TAN counts as confirmed.
Confirms ==
    /\ ~Idle /\ answer # NoAnswer /\ pending.call \in TanCalls
    /\ Back("Open")
    /\ challenge' = NoTask /\ dialog_id' = dialog_id
    /\ system_id' = IngestSystemId(system_id, answer)
    /\ params' = IngestResponse(params, answer)

\* A method gives the Dialog back as it was.
Stays ==
    /\ Back(typestate)
    /\ UNCHANGED <<dialog_id, system_id, params>>
    /\ pending.call \notin EndCalls
    /\ \/ typestate = "Open"
       \/ Answered("poll") /\ IsDecoupledPending(answer) /\ challenge' = challenge

\* A Dialog is created, or lost, or nothing happens to it.
Begins ==
    \E sid \in Sids, p \in {NewParams, stored.params}, preferred \in Preferences :
        NewDialog(sid, p, preferred)

GivesUp ==
    /\ \E result : Consumed(result)
    /\ \/ stored' = stored
       \/ typestate = "Synced" /\ stored' = [system_id |-> system_id, params |-> params]
    /\ UNCHANGED <<serial, net, bank, sent>>

Rests ==
    /\ UNCHANGED <<pending, answer, net, bank, sent>>
    /\ UNCHANGED dialogVars /\ UNCHANGED appVars

LEMMA PostsRequest ==
    ASSUME TypeOK, NEW call \in Calls, NEW page \in BOOLEAN, NEW did \in Ids,
           NEW num \in Nat \ {0}, NEW hktan \in BOOLEAN, NEW task \in TaskRefs,
           NEW p \in BankParamsType, NEW sid \in Sids,
           Send(call, page, did, num, hktan, task, p, sid)
    PROVE  Posts(call, did, num, p, sid) /\ pending'.task = task
<1>1. pending' \in Requests /\ pending' # NoRequest
    BY SendType, NullAssumption
<1>2. PICK q : /\ q = [obj |-> serial, call |-> call, page |-> page, did |-> did,
                       num |-> num, hktan |-> hktan, task |-> task,
                       fn |-> p.selected, sys |-> sid,
                       bpd |-> p.bpd_version, upd |-> p.upd_version]
               /\ pending' = q /\ net' = net \cup {q} /\ sent' = sent \cup {q}
               /\ answer' = NoAnswer /\ message_number' = num + 1
    BY DEF Send, NextNumber
<1> QED BY <1>1, <1>2 DEF Posts

LEMMA SpeaksFrom ==
    ASSUME TypeOK, NEW call \in Calls, NEW state \in RunsIn(call), NEW page \in BOOLEAN,
           NEW hktan \in BOOLEAN, NEW task \in TaskRefs,
           SendFrom(state, call, page, hktan, task),
           call \in TanCalls => task = challenge,
           call \in EndCalls => dialog_id # Unassigned
    PROVE  Speaks(call)
<1>1. /\ dialog_id \in Ids /\ message_number \in Nat \ {0}
      /\ params \in BankParamsType /\ system_id \in Sids
    BY DEF TypeOK, Ids, Sids
<1>2. /\ Send(call, page, dialog_id, message_number, hktan, task, params, system_id)
      /\ typestate \in RunsIn(call) /\ Idle
      /\ UNCHANGED <<typestate, dialog_id, system_id, params, bank>> /\ UNCHANGED appVars
    BY DEF SendFrom
<1>3. Posts(call, dialog_id, message_number, params, system_id) /\ pending'.task = task
    BY <1>1, <1>2, PostsRequest
<1> QED BY <1>2, <1>3 DEF Speaks

\* The names of the business orders are no method's.
LEMMA OperationNames ==
    /\ \A op \in Operations :
          /\ op \in Calls /\ RunsIn(op) = {"Open"}
          /\ op \notin OpeningCalls \cup EndCalls \cup TanCalls
    /\ KeepsDialog \cap (OpeningCalls \cup EndCalls \cup {"poll", "submit_tan"}) = {}
    /\ \A call \in KeepsDialog : RunsIn(call) = {"Open"}
BY OperationAssumption
   DEF Calls, RunsIn, OpeningCalls, EndCalls, TanCalls, KeepsDialog, BusinessOrders

LEMMA CallShapes ==
    ASSUME TypeOK,
           \/ SyncCall \/ InitCall \/ InitNoTanCall \/ ProbeCall
           \/ SyncedEndCall \/ EndCall \/ PollCall \/ SubmitTanCall
           \/ PollDecoupledTanCall
    PROVE  \E call \in Calls : Speaks(call)
<1>1. challenge \in TaskRefs /\ NoTask \in TaskRefs
    BY DEF TypeOK, TaskRefs
<1>2. /\ {"sync", "init", "init_no_tan", "probe", "synced_end", "end", "poll",
          "submit_tan", "poll_decoupled_tan"} \subseteq Calls
      /\ \A call \in {"sync", "init", "init_no_tan", "probe"} :
            "New" \in RunsIn(call) /\ call \notin EndCalls \cup TanCalls
      /\ "Synced" \in RunsIn("synced_end") /\ "Open" \in RunsIn("poll_decoupled_tan")
      /\ "TanPending" \in RunsIn("poll") /\ "TanPending" \in RunsIn("submit_tan")
      /\ RunsIn("end") = {"Open", "TanPending"}
      /\ {"synced_end", "end"} \cap TanCalls = {}
      /\ {"poll", "submit_tan", "poll_decoupled_tan"} \cap EndCalls = {}
    BY DEF Calls, OpeningCalls, EndCalls, TanCalls, RunsIn
<1>3. CASE SyncCall
    BY <1>1, <1>2, <1>3, SpeaksFrom DEF SyncCall
<1>4. CASE InitCall
    BY <1>1, <1>2, <1>4, SpeaksFrom DEF InitCall
<1>5. CASE InitNoTanCall
    BY <1>1, <1>2, <1>5, SpeaksFrom DEF InitNoTanCall
<1>6. CASE ProbeCall
    BY <1>1, <1>2, <1>6, SpeaksFrom DEF ProbeCall
<1>7. CASE SyncedEndCall
    BY <1>1, <1>2, <1>7, SpeaksFrom DEF SyncedEndCall
<1>8. CASE EndCall
    BY <1>1, <1>2, <1>8, SpeaksFrom DEF EndCall
<1>9. CASE PollCall
    BY <1>1, <1>2, <1>9, SpeaksFrom DEF PollCall
<1>10. CASE SubmitTanCall
    BY <1>1, <1>2, <1>10, SpeaksFrom DEF SubmitTanCall
<1>11. CASE PollDecoupledTanCall
    BY <1>1, <1>2, <1>11, SpeaksFrom DEF PollDecoupledTanCall
<1> QED BY <1>3, <1>4, <1>5, <1>6, <1>7, <1>8, <1>9, <1>10, <1>11

LEMMA OrderShapes ==
    ASSUME TypeOK, MethodInv, NEW op \in Operations, NEW page \in BOOLEAN,
           OrderCall(op, page) \/ OrderNotBuilt(op) \/ OrderReturn(op)
    PROVE  Speaks(op) \/ Rests \/ Stays
<1>1. CASE OrderCall(op, page)
    <2>1. op \in Calls /\ NoTask \in TaskRefs /\ BundlesHktan(op) \in BOOLEAN
          /\ RunsIn(op) = {"Open"} /\ op \notin EndCalls \cup TanCalls
        BY OperationNames DEF TaskRefs, BundlesHktan, HktanOrders, OrderNeedsTan
    <2>2. SendFrom("Open", op, page, BundlesHktan(op), NoTask)
        BY <1>1 DEF OrderCall
    <2> QED BY <2>1, <2>2, SpeaksFrom
<1>2. CASE OrderNotBuilt(op)
    BY <1>2 DEF OrderNotBuilt, Rests
<1>3. CASE OrderReturn(op)
    <2>1. ~Idle /\ pending.call = op /\ answer # NoAnswer
        BY <1>3 DEF OrderReturn, Answered, Waiting, Idle
    <2>2. typestate = "Open" /\ op \notin EndCalls
        BY <2>1, OperationNames DEF MethodInv
    <2>3. Return("Open", OrderResult(op, answer))
          /\ UNCHANGED <<dialog_id, system_id, params, stored, serial, net, bank, sent>>
        BY <1>3 DEF OrderReturn
    <2> QED BY <2>1, <2>2, <2>3 DEF Return, Stays, Back
<1> QED BY <1>1, <1>2, <1>3

LEMMA ReturnShapes ==
    ASSUME TypeOK, MethodInv,
           \/ SyncReturn \/ InitReturn \/ InitNoTanReturn \/ PollReturn
           \/ SubmitTanReturn \/ PollDecoupledTanReturn
    PROVE  GivesUp \/ Learns \/ Confirms \/ Stays
<1>1. /\ ~Idle /\ answer # NoAnswer
      /\ UNCHANGED <<stored, serial, net, bank, sent>>
    BY DEF SyncReturn, InitReturn, InitNoTanReturn, PollReturn, SubmitTanReturn,
           PollDecoupledTanReturn, Answered, Waiting, Idle
<1>2. CASE Consumed("err")
    BY <1>1, <1>2 DEF GivesUp
<1>3. CASE SyncReturn /\ ~Consumed("err")
    BY <1>1, <1>3 DEF SyncReturn, Learn, Return, Learns, Back
<1>4. CASE InitReturn /\ ~Consumed("err")
    BY <1>1, <1>4 DEF InitReturn, Learn, Return, Learns, Back
<1>5. CASE InitNoTanReturn /\ ~Consumed("err")
    BY <1>1, <1>5 DEF InitNoTanReturn, Learn, Return, Learns, Back
<1>6. CASE PollReturn /\ ~Consumed("err")
    <2>1. /\ pending.call = "poll" /\ "poll" \in TanCalls /\ "poll" \notin EndCalls
          /\ Answered("poll")
        BY <1>6 DEF PollReturn, Answered, Waiting, TanCalls, EndCalls
    <2>2. typestate = "TanPending"
        BY <1>1, <2>1 DEF MethodInv, RunsIn, OpeningCalls
    <2> QED BY <1>1, <1>6, <2>1, <2>2 DEF PollReturn, Ingest, Return, Confirms, Stays, Back
<1>7. CASE SubmitTanReturn /\ ~Consumed("err")
    <2>1. pending.call = "submit_tan" /\ "submit_tan" \in TanCalls
        BY <1>7 DEF SubmitTanReturn, Answered, Waiting, TanCalls
    <2> QED BY <1>1, <1>7, <2>1 DEF SubmitTanReturn, Ingest, Return, Confirms, Back
<1>8. CASE PollDecoupledTanReturn /\ ~Consumed("err")
    <2>1. /\ pending.call = "poll_decoupled_tan" /\ "poll_decoupled_tan" \in TanCalls
          /\ "poll_decoupled_tan" \notin EndCalls
        BY <1>8 DEF PollDecoupledTanReturn, Answered, Waiting, TanCalls, EndCalls
    <2>2. typestate = "Open"
        BY <1>1, <2>1, OperationNames DEF MethodInv, KeepsDialog
    <2> QED BY <1>1, <1>8, <2>1, <2>2
            DEF PollDecoupledTanReturn, Ingest, Return, Confirms, Stays, Back
<1> QED BY <1>2, <1>3, <1>4, <1>5, <1>6, <1>7, <1>8

LEMMA NegotiatedInitShape ==
    ASSUME TypeOK, NEW p \in BankParamsType, NEW sid \in Sids, NegotiatedInit(p, sid),
           UNCHANGED <<stored, serial, bank>>,
           \/ /\ Answered("probe")
              /\ sid = IngestSystemId(system_id, answer)
              /\ p = IngestAndNegotiate(params, answer)
           \/ Waiting("probe_end") /\ sid = system_id /\ p = params
    PROVE  GivesUp \/ Negotiates
<1>1. CASE NothingNegotiated(p)
    BY <1>1 DEF NegotiatedInit, GivesUp
<1>2. CASE ~NothingNegotiated(p)
    <2>1. "init" \in Calls /\ Unassigned \in Ids /\ NoTask \in TaskRefs
          /\ FirstNumber \in Nat \ {0}
        BY DEF Calls, OpeningCalls, Ids, TaskRefs, FirstNumber
    <2>2. /\ dialog_id' = Unassigned /\ system_id' = sid /\ params' = p
          /\ Send("init", FALSE, Unassigned, FirstNumber, TRUE, NoTask, p, sid)
          /\ UNCHANGED <<typestate, challenge>>
        BY <1>2 DEF NegotiatedInit
    <2>3. Posts("init", Unassigned, FirstNumber, p, sid)
        BY <2>1, <2>2, PostsRequest
    <2> QED BY <1>2, <2>2, <2>3 DEF Negotiates, appVars
<1> QED BY <1>1, <1>2

LEMMA ProbeShapes ==
    ASSUME TypeOK, MethodInv, ProbeReturn \/ ProbeEndReturn
    PROVE  GivesUp \/ Negotiates \/ EndsProbe
<1>1. CASE ProbeEndReturn
    <2>1. params \in BankParamsType /\ system_id \in Sids
        BY DEF TypeOK, Sids
    <2>2. Waiting("probe_end") /\ NegotiatedInit(params, system_id)
          /\ UNCHANGED <<stored, serial, bank>>
        BY <1>1 DEF ProbeEndReturn, Answered
    <2> QED BY <2>1, <2>2, NegotiatedInitShape
<1>2. CASE ProbeReturn
    <2> DEFINE id  == ExtractDialogId(dialog_id, answer)
               sid == IngestSystemId(system_id, answer)
               p   == IngestAndNegotiate(params, answer)
    <2>1. Answered("probe") /\ answer # NoAnswer /\ UNCHANGED <<stored, serial, bank>>
        BY <1>2 DEF ProbeReturn, Answered
    <2>2. id \in Ids /\ sid \in Sids /\ p \in BankParamsType
        BY <2>1, LearnType
    <2>3. CASE id = Unassigned
        <3>1. NegotiatedInit(p, sid)
            BY <1>2, <2>3 DEF ProbeReturn
        <3>2. PICK q, s : q = p /\ s = sid
            OBVIOUS
        <3>3. NegotiatedInit(q, s)
            BY <3>1, <3>2
        <3> QED BY <2>1, <2>2, <3>2, <3>3, NegotiatedInitShape
    <2>4. CASE id # Unassigned
        <3>1. /\ dialog_id' = id /\ system_id' = sid /\ params' = p
              /\ Send("probe_end", FALSE, id, message_number, FALSE, NoTask, p, sid)
              /\ UNCHANGED <<typestate, challenge>>
            BY <1>2, <2>4 DEF ProbeReturn
        <3>2. "probe_end" \in Calls /\ NoTask \in TaskRefs /\ message_number \in Nat \ {0}
            BY DEF Calls, EndCalls, TaskRefs, TypeOK
        <3> HIDE DEF id, sid, p
        <3>3. Posts("probe_end", id, message_number, p, sid)
            BY <2>2, <3>1, <3>2, PostsRequest
        <3> USE DEF id, sid, p
        <3> QED BY <2>1, <2>4, <3>1, <3>3 DEF EndsProbe, appVars
    <2> QED BY <2>3, <2>4
<1> QED BY <1>1, <1>2

LEMMA EndShapes ==
    ASSUME TypeOK, MethodInv,
           \/ DropDialog \/ SyncedEndReturn \/ SyncedEndSilently
           \/ EndReturn \/ EndSilently
    PROVE  GivesUp
<1>1. SyncedEndReturn => typestate = "Synced"
    BY DEF SyncedEndReturn, Answered, Waiting, Idle, MethodInv, RunsIn, OpeningCalls
<1> QED BY <1>1 DEF DropDialog, SyncedEndReturn, SyncedEndSilently, KeepSyncResult,
                    EndReturn, EndSilently, GivesUp

LEMMA SendFailsShape ==
    ASSUME TypeOK, MethodInv, SendFails
    PROVE  GivesUp \/ Negotiates \/ Stays
<1>1. ~Idle
    BY DEF SendFails
<1>2. CASE /\ pending.call \in KeepsDialog /\ Return(typestate, "err")
           /\ UNCHANGED <<dialog_id, system_id, params, challenge>>
           /\ UNCHANGED <<stored, serial, net, bank, sent>>
    <2>1. typestate = "Open" /\ pending.call \notin EndCalls
        BY <1>1, <1>2, OperationNames DEF MethodInv
    <2> QED BY <1>1, <1>2, <2>1 DEF Return, Stays, Back
<1>3. CASE /\ pending.call = "probe_end" /\ NegotiatedInit(params, system_id)
           /\ UNCHANGED <<stored, serial, bank>>
    <2>1. params \in BankParamsType /\ system_id \in Sids
        BY DEF TypeOK, Sids
    <2> QED BY <1>1, <1>3, <2>1, NegotiatedInitShape DEF Waiting, Idle
<1>4. CASE pending.call = "synced_end" /\ KeepSyncResult
    <2>1. typestate = "Synced"
        BY <1>1, <1>4 DEF MethodInv, RunsIn, OpeningCalls
    <2> QED BY <1>4, <2>1 DEF KeepSyncResult, GivesUp
<1>5. CASE /\ \E result : Consumed(result)
           /\ UNCHANGED <<stored, serial, net, bank, sent>>
    BY <1>5 DEF GivesUp
<1> QED BY <1>2, <1>3, <1>4, <1>5 DEF SendFails

\* What a step of the client, or a failed request, does to the Dialog.
DialogMoves ==
    \/ Begins \/ GivesUp \/ Rests
    \/ \E call \in Calls : Speaks(call)
    \/ EndsProbe \/ Negotiates
    \/ Learns \/ Confirms \/ Stays

LEMMA ClientShape ==
    ASSUME TypeOK, MethodInv, ClientStep \/ SendFails
    PROVE  DialogMoves
<1>1. ASSUME NEW sid \in SavedIds \cup {NoSystemId, stored.system_id},
             NEW preferred \in Preferences,
             \/ NewDialog(sid, NewParams, preferred)
             \/ NewDialog(sid, stored.params, preferred)
      PROVE  Begins
    <2>1. sid \in Sids
        BY SystemIdAssumption DEF TypeOK, Sids
    <2> QED BY <1>1, <2>1 DEF Begins
<1>2. ASSUME NEW op \in Operations,
             OrderCall(op, FALSE) \/ OrderCall(op, TRUE) \/ OrderNotBuilt(op)
             \/ OrderReturn(op)
      PROVE  DialogMoves
    <2>1. op \in Calls
        BY OperationNames
    <2> QED BY <1>2, <2>1, OrderShapes DEF DialogMoves
<1>3. CASE \/ SyncCall \/ InitCall \/ InitNoTanCall \/ ProbeCall
           \/ SyncedEndCall \/ EndCall \/ PollCall \/ SubmitTanCall
           \/ PollDecoupledTanCall
    BY <1>3, CallShapes DEF DialogMoves
<1>4. CASE \/ SyncReturn \/ InitReturn \/ InitNoTanReturn \/ PollReturn
           \/ SubmitTanReturn \/ PollDecoupledTanReturn
    BY <1>4, ReturnShapes DEF DialogMoves
<1>5. CASE ProbeReturn \/ ProbeEndReturn
    BY <1>5, ProbeShapes DEF DialogMoves
<1>6. CASE \/ DropDialog \/ SyncedEndReturn \/ SyncedEndSilently
           \/ EndReturn \/ EndSilently
    BY <1>6, EndShapes DEF DialogMoves
<1>7. CASE SendFails
    BY <1>7, SendFailsShape DEF DialogMoves
<1> QED BY <1>1, <1>2, <1>3, <1>4, <1>5, <1>6, <1>7 DEF ClientStep, DialogMoves

\* An answer brings the bank's parameters whole, and only to a client that
\* announced another version.
TellsBpd(q, r) == BringsNoBpd(r) \/ (q.bpd # Bpd.version /\ BringsBpd(r))

\* The answer to an opening request issues a dialog id, or refuses one.
IssuesId(q, r) ==
    /\ q.did = Unassigned /\ q.call \in OpeningCalls
    /\ r.id \in DialogIds
    /\ bank[r.id].phase = "free" /\ bank'[r.id].phase # "free"
    /\ \A d \in DialogIds \ {r.id} : bank'[d] = bank[d]
    /\ q.call = "init" /\ RequiresTan(r) => r.hitan = "init" /\ bank'[r.id].phase = "tan"
    /\ q.call = "sync" \/ r.hisyn = <<>>
    /\ TellsBpd(q, r)

Refuses(q, r) ==
    /\ q.did = Unassigned
    /\ r.id = Unassigned /\ r.hisyn = <<>>
    /\ HasErrors(r) /\ ~NeedsTanAnswer(r)
    /\ bank' = bank
    /\ TellsBpd(q, r)

\* An answer in a dialog changes no other dialog, and 3956 nothing at all.
GoesOn(q, r) ==
    /\ q.did \in DialogIds
    /\ r.id = q.did /\ r.hisyn = <<>>
    /\ \A d \in DialogIds \ {q.did} : bank'[d] = bank[d]
    /\ bank[q.did].phase # "free" => bank'[q.did].phase # "free"
    /\ q.call \in Operations \/ r.hitan = NoTask
    /\ q.call \in TanCalls /\ IsDecoupledPending(r) => WantsTan(q) /\ bank' = bank
    /\ TellsBpd(q, r)

\* What the bank answers to request q.
BankMoves ==
    \E q \in net, r \in Answers :
        /\ Reply(q, r)
        /\ IssuesId(q, r) \/ Refuses(q, r) \/ GoesOn(q, r)

LEMMA OpeningAnswerFields ==
    ASSUME NEW q, NEW id, NEW codes, NEW allowed, NEW r,
           r = OpeningAnswer(q, id, codes, allowed)
    PROVE  /\ r.id = id /\ r.codes = codes
           /\ r.hitan = NoTask /\ r.hisyn = <<>>
           /\ TellsBpd(q, r)
BY DEF OpeningAnswer, PlainAnswer, TellsBpd, BringsNoBpd, BringsBpd

LEMMA PlainAnswerFields ==
    ASSUME NEW q, NEW id, NEW codes, NEW r, r = PlainAnswer(id, codes)
    PROVE  /\ r.id = id /\ r.codes = codes
           /\ r.hitan = NoTask /\ r.hisyn = <<>>
           /\ TellsBpd(q, r) /\ BringsNoBpd(r)
BY DEF PlainAnswer, TellsBpd, BringsNoBpd, BringsBpd

LEMMA BankOpensShape ==
    ASSUME TypeOK, NEW q \in net, NEW d \in DialogIds, NEW allowed \in AllowedLists,
           \/ BankSyncs(q, d, allowed) \/ BankAdmitsPin(q, d, allowed)
           \/ BankExempts(q, d, allowed) \/ BankAsksTan(q, d, allowed)
    PROVE  BankMoves
<1>1. q \in Requests /\ d \in Ids
    BY DEF TypeOK, Ids
<1>2. {"0020"} \in SUBSET Codes /\ {"0030"} \in SUBSET Codes /\ {"3955"} \in SUBSET Codes
      /\ {"0020", "3076"} \in SUBSET Codes /\ "init" \in Tasks
    BY DEF Codes, Tasks
<1>3. /\ q.did = Unassigned /\ q.call \in OpeningCalls /\ bank[d].phase = "free"
    BY DEF BankSyncs, BankAdmitsPin, BankExempts, BankAsksTan, CanOpen, OpeningCalls
<1>4. bank'[d].phase # "free" /\ \A e \in DialogIds \ {d} : bank'[e] = bank[e]
    BY DEF BankSyncs, BankAdmitsPin, BankExempts, BankAsksTan, Enters, TypeOK, BankDialogs
<1>5. CASE BankSyncs(q, d, allowed)
    <2>1. q.call = "sync"
        BY <1>5 DEF BankSyncs, CanOpen
    <2>2. CASE \E s \in SystemIds :
                 Reply(q, [OpeningAnswer(q, d, {"0020"}, allowed) EXCEPT !.hisyn = <<s>>])
        <3>0. PICK s \in SystemIds :
                 Reply(q, [OpeningAnswer(q, d, {"0020"}, allowed) EXCEPT !.hisyn = <<s>>])
            BY <2>2
        <3>1. PICK r0 : /\ r0 = OpeningAnswer(q, d, {"0020"}, allowed)
                        /\ Reply(q, [r0 EXCEPT !.hisyn = <<s>>])
            BY <3>0
        <3>2. r0 \in Answers /\ r0.id = d /\ TellsBpd(q, r0)
            BY <1>1, <1>2, <3>1, OpeningAnswerType, OpeningAnswerFields
        <3>3. PICK r \in Answers : r = [r0 EXCEPT !.hisyn = <<s>>]
            BY <3>2, SyncAnswerType
        <3>4. r.id = d /\ TellsBpd(q, r)
            BY <3>2, <3>3 DEF TellsBpd, BringsNoBpd, BringsBpd, Answers
        <3>5. IssuesId(q, r)
            BY <1>3, <1>4, <2>1, <3>4 DEF IssuesId
        <3> QED BY <3>1, <3>3, <3>5 DEF BankMoves
    <2>3. CASE Reply(q, OpeningAnswer(q, d, {"0030"}, allowed))
        <3>1. PICK r : r = OpeningAnswer(q, d, {"0030"}, allowed)
            OBVIOUS
        <3>2. r \in Answers /\ r.id = d /\ TellsBpd(q, r)
            BY <1>1, <1>2, <3>1, OpeningAnswerType, OpeningAnswerFields
        <3>3. IssuesId(q, r)
            BY <1>3, <1>4, <2>1, <3>2 DEF IssuesId
        <3> QED BY <2>3, <3>1, <3>2, <3>3 DEF BankMoves
    <2> QED BY <1>5, <2>2, <2>3 DEF BankSyncs
<1>6. CASE BankAdmitsPin(q, d, allowed) \/ BankExempts(q, d, allowed)
    <2>1. PICK codes \in {{"0020"}, {"0020", "3076"}} :
            Reply(q, OpeningAnswer(q, d, codes, allowed))
        BY <1>6 DEF BankAdmitsPin, BankExempts
    <2>2. PICK r : r = OpeningAnswer(q, d, codes, allowed)
        OBVIOUS
    <2>3. /\ r \in Answers /\ r.id = d /\ r.hitan = NoTask /\ r.hisyn = <<>>
          /\ TellsBpd(q, r)
        BY <1>1, <1>2, <2>2, OpeningAnswerType, OpeningAnswerFields
    <2>4. IssuesId(q, r)
        BY <1>3, <1>4, <2>3 DEF IssuesId, RequiresTan, HasTanChallenge
    <2> QED BY <2>1, <2>2, <2>3, <2>4 DEF BankMoves
<1>7. CASE BankAsksTan(q, d, allowed)
    <2>0. PICK c \in {"0030", "3955"} :
            Reply(q, [OpeningAnswer(q, d, {c}, allowed) EXCEPT !.hitan = "init"])
        BY <1>7 DEF BankAsksTan
    <2>1. PICK r0 : /\ r0 = OpeningAnswer(q, d, {c}, allowed)
                    /\ Reply(q, [r0 EXCEPT !.hitan = "init"])
        BY <2>0
    <2>2. r0 \in Answers /\ r0.id = d /\ r0.hisyn = <<>> /\ TellsBpd(q, r0)
        BY <1>1, <1>2, <2>1, OpeningAnswerType, OpeningAnswerFields
    <2>3. PICK r \in Answers : r = [r0 EXCEPT !.hitan = "init"]
        BY <1>2, <2>2, ChallengeAnswerType
    <2>4. r.id = d /\ r.hitan = "init" /\ r.hisyn = <<>> /\ TellsBpd(q, r)
        BY <2>2, <2>3 DEF TellsBpd, BringsNoBpd, BringsBpd, Answers
    <2>5. bank'[d].phase = "tan"
        BY <1>7 DEF BankAsksTan, Enters, TypeOK, BankDialogs
    <2>6. IssuesId(q, r)
        BY <1>3, <1>4, <2>4, <2>5 DEF IssuesId
    <2> QED BY <2>1, <2>3, <2>6 DEF BankMoves
<1> QED BY <1>5, <1>6, <1>7

LEMMA BankRefusesShape ==
    ASSUME TypeOK, NEW q \in net, NEW allowed \in AllowedLists, BankRefuses(q, allowed)
    PROVE  BankMoves
<1>1. q \in Requests /\ Unassigned \in Ids /\ {"9110"} \in SUBSET Codes
    BY DEF TypeOK, Ids, Codes
<1>2. PICK r : r = OpeningAnswer(q, Unassigned, {"9110"}, allowed)
    OBVIOUS
<1>3. /\ r \in Answers /\ r.id = Unassigned /\ r.codes = {"9110"} /\ r.hisyn = <<>>
      /\ TellsBpd(q, r)
    BY <1>1, <1>2, OpeningAnswerType, OpeningAnswerFields
<1>4. HasErrors(r) /\ ~NeedsTanAnswer(r)
    BY <1>3 DEF HasErrors, NeedsTanAnswer, AllCodes, ErrorCodes
<1>5. Reply(q, r) /\ q.did = Unassigned /\ bank' = bank
    BY <1>2 DEF BankRefuses
<1>6. Refuses(q, r)
    BY <1>3, <1>4, <1>5 DEF Refuses
<1> QED BY <1>3, <1>5, <1>6 DEF BankMoves

LEMMA BankAnswersShape ==
    ASSUME TypeOK, NEW q \in net,
           \/ BankRejects(q) \/ BankEnds(q) \/ BankStillWaits(q) \/ BankConfirms(q)
           \/ BankServes(q) \/ BankChallenges(q)
    PROVE  BankMoves
<1>1. q.did \in DialogIds /\ q.did \in Ids
    BY DEF TypeOK, Requests, Ids, BankRejects, BankEnds, BankStillWaits, BankConfirms,
           WantsTan, BankServes, BankChallenges
<1>2. /\ \A c \in Codes : {c} \in SUBSET Codes
      /\ "9010" \in Codes /\ "9800" \in Codes /\ "0100" \in Codes /\ "0020" \in Codes
      /\ "0030" \in Codes /\ "3955" \in Codes /\ PendingCodes \subseteq Codes
      /\ {"0020", "3040"} \in SUBSET Codes /\ {"0030", "3076"} \in SUBSET Codes
      /\ "order" \in Tasks
    BY PendingAssumption DEF Codes, Tasks
<1>3. /\ \A d \in DialogIds \ {q.did} : bank'[d] = bank[d]
      /\ bank[q.did].phase # "free" => bank'[q.did].phase # "free"
    <2>1. CASE bank' = bank
        BY <2>1
    <2>2. CASE \E phase \in {"open", "ended"} : Enters(q.did, phase)
        BY <1>1, <2>2 DEF Enters, TypeOK, BankDialogs
    <2>3. CASE \E order \in {"none", "wanted", "released"} :
                  bank' = [bank EXCEPT ![q.did].order = order]
        BY <1>1, <2>3 DEF TypeOK, BankDialogs
    <2> QED BY <2>1, <2>2, <2>3 DEF BankRejects, BankEnds, BankStillWaits, BankConfirms,
                                    BankServes, BankChallenges
\* The answers without a challenge.
<1>4. ASSUME NEW codes \in SUBSET Codes, Reply(q, PlainAnswer(q.did, codes)),
             "3956" \notin codes \/ (q.call \in TanCalls => WantsTan(q) /\ bank' = bank)
      PROVE  BankMoves
    <2>1. PICK r : r = PlainAnswer(q.did, codes)
        OBVIOUS
    <2>2. /\ r \in Answers /\ r.id = q.did /\ r.codes = codes
          /\ r.hitan = NoTask /\ r.hisyn = <<>> /\ TellsBpd(q, r)
        BY <1>1, <2>1, PlainAnswerType, PlainAnswerFields
    <2>3. GoesOn(q, r)
        BY <1>1, <1>3, <1>4, <2>2 DEF GoesOn, IsDecoupledPending, AllCodes
    <2> QED BY <1>4, <2>1, <2>2, <2>3 DEF BankMoves
\* Those with a challenge, to an order.
<1>5. ASSUME NEW codes \in SUBSET Codes, "3956" \notin codes, q.call \in Operations,
             Reply(q, [PlainAnswer(q.did, codes) EXCEPT !.hitan = "order"])
      PROVE  BankMoves
    <2>1. PICK r0 : r0 = PlainAnswer(q.did, codes)
        OBVIOUS
    <2>2. r0 \in Answers /\ r0.id = q.did /\ r0.codes = codes /\ r0.hisyn = <<>>
          /\ TellsBpd(q, r0)
        BY <1>1, <2>1, PlainAnswerType, PlainAnswerFields
    <2>3. PICK r \in Answers : r = [r0 EXCEPT !.hitan = "order"]
        BY <1>2, <2>2, ChallengeAnswerType
    <2>4. r.id = q.did /\ r.codes = codes /\ r.hisyn = <<>> /\ TellsBpd(q, r)
        BY <2>2, <2>3 DEF TellsBpd, BringsNoBpd, BringsBpd, Answers
    <2>5. GoesOn(q, r)
        BY <1>1, <1>3, <1>5, <2>4 DEF GoesOn, IsDecoupledPending, AllCodes
    <2> QED BY <1>5, <2>1, <2>3, <2>5 DEF BankMoves
<1>6. CASE BankRejects(q) \/ BankEnds(q) \/ BankConfirms(q)
    BY <1>2, <1>4, <1>6 DEF BankRejects, BankEnds, BankConfirms
<1>7. CASE BankStillWaits(q)
    BY <1>2, <1>4, <1>7 DEF BankStillWaits
<1>8. CASE BankServes(q)
    BY <1>2, <1>4, <1>5, <1>8 DEF BankServes
<1>9. CASE BankChallenges(q)
    BY <1>2, <1>5, <1>9 DEF BankChallenges
<1> QED BY <1>6, <1>7, <1>8, <1>9

LEMMA BankShape ==
    ASSUME TypeOK, BankStep
    PROVE  BankMoves
BY BankOpensShape, BankRefusesShape, BankAnswersShape DEF BankStep

\* An answer that lost its segments asks for nothing and brings nothing.
Blank(s, r) ==
    /\ UnreadableAnswers
    /\ s.id \in {r.id, Unassigned} /\ s.codes = {}
    /\ s.hitan = NoTask /\ s.hisyn = <<>>
    /\ BringsNoBpd(s)

\* The client reads the bank's answer to its request, or what is left of it.
LEMMA ReplyRead ==
    ASSUME TypeOK, NEW q \in net, NEW r, Reply(q, r)
    PROVE  /\ UNCHANGED <<typestate, dialog_id, message_number, system_id, params,
                          pending, challenge, stored, serial, sent>>
           /\ net' = net \ {q}
           /\ q # pending => answer' = answer
           /\ q = pending => ~Idle /\ (answer' = r \/ Blank(answer', r))
<1>1. UNCHANGED <<typestate, dialog_id, message_number, system_id, params,
                  pending, challenge, stored, serial, sent>> /\ net' = net \ {q}
    BY DEF Reply, dialogVars, appVars
<1>2. CASE q # pending
    BY <1>1, <1>2 DEF Reply
<1>3. CASE q = pending
    <2>1. ~Idle
        BY <1>3, NullAssumption DEF Idle, TypeOK
    <2>2. answer' \in Readings(r)
        BY <1>3 DEF Reply
    <2>3. answer' = r \/ (UnreadableAnswers /\ \E id \in {r.id, Unassigned} : answer' = PlainAnswer(id, {}))
        BY <2>2 DEF Readings
    <2> QED BY <1>1, <1>3, <2>1, <2>3, PlainAnswerFields DEF Blank
<1> QED BY <1>1, <1>2, <1>3

-----------------------------------------------------------------------------
(* The suspended method.                                                   *)

LEMMA MethodInit == Init => MethodInv
BY DEF Init, MethodInv, Idle

LEMMA MethodStep == TypeOK /\ MethodInv /\ [Next]_vars => MethodInv'
<1> SUFFICES ASSUME TypeOK, MethodInv, [Next]_vars
             PROVE  MethodInv'
    OBVIOUS
<1>0. serial \in Nat /\ \A q \in sent : q.obj \in Nat
    BY DEF TypeOK, Requests
<1>1. CASE Begins \/ GivesUp \/ Rests
    BY <1>0, <1>1 DEF Begins, NewDialog, GivesUp, Consumed, Rests, dialogVars, appVars,
                      MethodInv, Idle
<1>2. CASE \E call \in Calls : Speaks(call)
    BY <1>2, <1>0 DEF Speaks, Posts, appVars, MethodInv, Idle
<1>3. CASE EndsProbe \/ Negotiates
    <2>1. pending.call \in {"probe", "probe_end"} /\ ~Idle
        BY <1>3 DEF EndsProbe, Negotiates, Answered, Waiting, Idle
    <2>2. typestate = "New" /\ RunsIn("init") = {"New"} /\ RunsIn("probe_end") = {"New"}
        BY <2>1 DEF MethodInv, RunsIn, OpeningCalls
    <2> QED BY <1>0, <1>3, <2>2 DEF EndsProbe, Negotiates, Posts, appVars, MethodInv, Idle
<1>4. CASE Learns \/ Confirms \/ Stays
    BY <1>4 DEF Learns, Confirms, Stays, Back, MethodInv, Idle
<1>5. CASE BankStep
    <2>1. PICK q \in net, r \in Answers : Reply(q, r)
        BY <1>5, BankShape DEF BankMoves
    <2> QED BY <2>1, ReplyRead DEF MethodInv, Idle
<1>6. CASE UNCHANGED vars
    BY <1>6 DEF vars, MethodInv, Idle
<1> QED BY <1>1, <1>2, <1>3, <1>4, <1>5, <1>6, ClientShape DEF Next, DialogMoves

\* A method runs only in its typestate and awaits only the answer to its own
\* request, for every step the Dialog and the bank can take.
THEOREM MethodsRunInTurn == Spec => []MethodInv
<1>1. Init => MethodInv
    BY MethodInit
<1>2. TypeOK /\ MethodInv /\ [Next]_vars => MethodInv'
    BY MethodStep
<1> QED BY <1>1, <1>2, TypeCorrect, PTL DEF Spec

-----------------------------------------------------------------------------
(* Message numbers are never reused in a dialog and nothing follows its    *)
(* end: NumberingInv is inductive, even when answers can lose their        *)
(* segments.                                                               *)

\* A request sent in dialog did keeps the invariant when did is a dialog
\* without an end whose past lies below the request's number.
LEMMA SendKeepsNumbering ==
    ASSUME TypeOK, NumberingInv,
           NEW call, NEW page, NEW did \in Ids, NEW num \in Nat \ {0}, NEW hktan,
           NEW task, NEW p, NEW sid,
           Send(call, page, did, num, hktan, task, p, sid),
           dialog_id' = did, bank' = bank,
           did # Unassigned =>
              /\ bank[did].phase # "free"
              /\ \A q \in sent : q.did = did => q.num < num /\ q.call \notin EndCalls,
           pending' # NoRequest
    PROVE  NumberingInv'
<1> DEFINE new == pending'
<1>1. /\ sent' = sent \cup {new} /\ new.did = did /\ new.num = num /\ new.call = call
      /\ answer' = NoAnswer /\ message_number' = num + 1
    BY DEF Send, NextNumber
<1>2. \A q \in sent : q.num \in Nat
    BY DEF TypeOK, Requests
<1>3. (Idle \/ pending.did = dialog_id)' /\ AnswerNames' /\ IdsIssued'
    BY <1>1 DEF Idle, AnswerNames, IdsIssued, NumberingInv
<1>4. NumberAhead'
    BY <1>1, <1>2 DEF NumberAhead
<1>5. NotYetEnded'
    BY <1>1 DEF NotYetEnded
<1>6. NumbersNeverReused'
    BY <1>1, <1>2 DEF NumbersNeverReused, NumberingInv
<1>7. EndIsLast'
    <2> SUFFICES ASSUME NEW q \in sent', NEW r \in sent', q.did # Unassigned,
                        q.did = r.did, q.call \in EndCalls
                 PROVE  r.num <= q.num
        BY DEF EndIsLast
    <2>1. CASE q \in sent /\ r \in sent
        BY <2>1 DEF EndIsLast, NumberingInv
    <2>2. CASE q = new
        BY <1>1, <1>2, <2>2
    <2>3. CASE q \in sent /\ r = new
        BY <1>1, <2>3
    <2> QED BY <1>1, <2>1, <2>2, <2>3
<1> QED BY <1>3, <1>4, <1>5, <1>6, <1>7 DEF NumberingInv

LEMMA ConsumedKeepsNumbering ==
    ASSUME NumberingInv, NEW result, Consumed(result), UNCHANGED <<bank, sent>>
    PROVE  NumberingInv'
BY DEF NumberingInv, Consumed, Idle, AnswerNames, IdsIssued, NumberAhead, NotYetEnded,
       NumbersNeverReused, EndIsLast

\* A dialog id taken from the answer: it was issued, its past lies below the
\* next number, and it was not ended.
LEMMA ExtractedId ==
    ASSUME TypeOK, NumberingInv, answer # NoAnswer, pending.call \notin EndCalls,
           NEW id, id = ExtractDialogId(dialog_id, answer), id # Unassigned
    PROVE  /\ bank[id].phase # "free"
           /\ \A q \in sent : q.did = id => q.num < message_number /\ q.call \notin EndCalls
<1>1. CASE id = dialog_id
    BY <1>1 DEF NumberingInv, IdsIssued, NumberAhead, NotYetEnded
<1>2. CASE id # dialog_id
    BY <1>2 DEF NumberingInv, AnswerNames, ExtractDialogId
<1> QED BY <1>1, <1>2

\* A method that returns without having ended the dialog.
LEMMA ReturnKeepsNumbering ==
    ASSUME TypeOK, NumberingInv, ~Idle, pending.call \notin EndCalls,
           NEW state, NEW result, Return(state, result), UNCHANGED <<bank, sent>>,
           \/ dialog_id' = dialog_id
           \/ answer # NoAnswer /\ dialog_id' = ExtractDialogId(dialog_id, answer)
    PROVE  NumberingInv'
<1>1. dialog_id' # Unassigned =>
        /\ bank[dialog_id'].phase # "free"
        /\ \A q \in sent :
              q.did = dialog_id' => q.num < message_number /\ q.call \notin EndCalls
    <2>1. CASE dialog_id' = dialog_id
        BY <2>1 DEF NumberingInv, IdsIssued, NumberAhead, NotYetEnded
    <2>2. CASE answer # NoAnswer /\ dialog_id' = ExtractDialogId(dialog_id, answer)
        BY <2>2, ExtractedId
    <2> QED BY <2>1, <2>2
<1>2. pending' = NoRequest /\ answer' = NoAnswer /\ message_number' = message_number
    BY DEF Return
<1>3. (Idle \/ pending.did = dialog_id)' /\ AnswerNames'
    BY <1>2 DEF Idle, AnswerNames
<1>4. IdsIssued' /\ NumberAhead' /\ NotYetEnded'
    BY <1>1, <1>2 DEF NumberingInv, IdsIssued, NumberAhead, NotYetEnded
<1>5. NumbersNeverReused' /\ EndIsLast'
    BY DEF NumberingInv, NumbersNeverReused, EndIsLast
<1> QED BY <1>3, <1>4, <1>5 DEF NumberingInv

\* An answer of the bank keeps the invariant when it names no dialog, that of
\* the request, or one it has just issued.
LEMMA ReplyKeepsNumbering ==
    ASSUME TypeOK, NumberingInv, NEW q \in net, NEW r \in Answers, Reply(q, r),
           \A d \in DialogIds : bank[d].phase # "free" => bank'[d].phase # "free",
           \/ r.id \in {Unassigned, q.did}
           \/ /\ r.id \in DialogIds
              /\ bank[r.id].phase = "free" /\ bank'[r.id].phase # "free"
    PROVE  NumberingInv'
<1>1. UNCHANGED <<dialog_id, message_number, pending, sent>>
    BY DEF Reply, dialogVars
<1>2. /\ \A m \in sent : m.did \in Ids
      /\ dialog_id \in Ids
    BY DEF TypeOK, Requests, Ids
<1>3. IdsIssued'
    BY <1>1, <1>2 DEF NumberingInv, IdsIssued, Ids
<1>4. AnswerNames'
    <2>1. CASE q # pending
        <3>1. answer' = answer
            BY <2>1 DEF Reply
        <3>2. answer # NoAnswer => answer.id \in Ids
            BY AnswerIsWellFormed DEF TypeOK
        <3> QED BY <1>1, <3>1, <3>2 DEF NumberingInv, AnswerNames, Idle, Ids
    <2>2. CASE q = pending
        <3>1. ~Idle'
            BY <1>1, <2>2, NullAssumption DEF Idle, TypeOK
        <3>2. answer'.id \in {Unassigned, r.id}
            BY <2>2 DEF Reply, Readings, PlainAnswer
        <3>3. bank[r.id].phase = "free" /\ r.id \in DialogIds => \A m \in sent : m.did # r.id
            BY DialogIdAssumption DEF NumberingInv, IdsIssued
        <3> QED BY <1>1, <2>2, <3>1, <3>2, <3>3 DEF AnswerNames
    <2> QED BY <2>1, <2>2
<1>5. (Idle \/ pending.did = dialog_id)' /\ NumberAhead' /\ NotYetEnded'
      /\ NumbersNeverReused' /\ EndIsLast'
    BY <1>1 DEF NumberingInv, Idle, NumberAhead, NotYetEnded, NumbersNeverReused, EndIsLast
<1> QED BY <1>3, <1>4, <1>5 DEF NumberingInv

-----------------------------------------------------------------------------
(* The actions.                                                            *)

LEMMA SendFromKeepsNumbering ==
    ASSUME TypeOK, NumberingInv, NEW state, NEW call \in Calls, NEW page \in BOOLEAN,
           NEW hktan \in BOOLEAN, NEW task \in TaskRefs,
           SendFrom(state, call, page, hktan, task)
    PROVE  NumberingInv'
<1>1. /\ dialog_id \in Ids /\ message_number \in Nat \ {0}
      /\ Send(call, page, dialog_id, message_number, hktan, task, params, system_id)
      /\ dialog_id' = dialog_id /\ bank' = bank /\ Idle
    BY DEF SendFrom, TypeOK, Ids
<1>2. dialog_id # Unassigned =>
        /\ bank[dialog_id].phase # "free"
        /\ \A q \in sent :
              q.did = dialog_id => q.num < message_number /\ q.call \notin EndCalls
    <2>1. \A q \in sent : q # pending
        BY <1>1, NullAssumption DEF Idle, TypeOK
    <2> QED BY <2>1 DEF NumberingInv, IdsIssued, NumberAhead, NotYetEnded
<1>3. pending' # NoRequest
    <2>1. pending' \in Requests
        BY <1>1, SendFromType DEF TypeOK, SendFrom, Send, Requests, Ids, Sids,
              TaskRefs, BankParamsType
    <2> QED BY <2>1, NullAssumption
<1> QED BY <1>1, <1>2, <1>3, SendKeepsNumbering

LEMMA CallsKeepNumbering ==
    ASSUME TypeOK, NumberingInv,
           \/ SyncCall \/ InitCall \/ InitNoTanCall \/ ProbeCall
           \/ SyncedEndCall \/ EndCall \/ PollCall \/ SubmitTanCall
           \/ PollDecoupledTanCall
    PROVE  NumberingInv'
<1>1. challenge \in TaskRefs /\ NoTask \in TaskRefs
    BY DEF TypeOK, TaskRefs
<1>2. {"sync", "init", "init_no_tan", "probe", "synced_end", "end", "poll",
       "submit_tan", "poll_decoupled_tan"} \subseteq Calls
    BY DEF Calls, OpeningCalls, EndCalls, TanCalls
<1>3. CASE SyncCall
    BY <1>1, <1>2, <1>3, SendFromKeepsNumbering DEF SyncCall
<1>4. CASE InitCall
    BY <1>1, <1>2, <1>4, SendFromKeepsNumbering DEF InitCall
<1>5. CASE InitNoTanCall
    BY <1>1, <1>2, <1>5, SendFromKeepsNumbering DEF InitNoTanCall
<1>6. CASE ProbeCall
    BY <1>1, <1>2, <1>6, SendFromKeepsNumbering DEF ProbeCall
<1>7. CASE SyncedEndCall
    BY <1>1, <1>2, <1>7, SendFromKeepsNumbering DEF SyncedEndCall
<1>8. CASE EndCall
    BY <1>1, <1>2, <1>8, SendFromKeepsNumbering DEF EndCall
<1>9. CASE PollCall
    BY <1>1, <1>2, <1>9, SendFromKeepsNumbering DEF PollCall
<1>10. CASE SubmitTanCall
    BY <1>1, <1>2, <1>10, SendFromKeepsNumbering DEF SubmitTanCall
<1>11. CASE PollDecoupledTanCall
    BY <1>1, <1>2, <1>11, SendFromKeepsNumbering DEF PollDecoupledTanCall
<1> QED BY <1>3, <1>4, <1>5, <1>6, <1>7, <1>8, <1>9, <1>10, <1>11

LEMMA OrdersKeepNumbering ==
    ASSUME TypeOK, NumberingInv, NEW op \in Operations, NEW page \in BOOLEAN,
           OrderCall(op, page) \/ OrderNotBuilt(op) \/ OrderReturn(op)
    PROVE  NumberingInv'
<1>1. CASE OrderCall(op, page)
    <2>1. op \in Calls /\ NoTask \in TaskRefs /\ BundlesHktan(op) \in BOOLEAN
        BY DEF Calls, TaskRefs, BundlesHktan, HktanOrders, OrderNeedsTan
    <2> QED BY <1>1, <2>1, SendFromKeepsNumbering DEF OrderCall
<1>2. CASE OrderNotBuilt(op)
    BY <1>2 DEF OrderNotBuilt, dialogVars, NumberingInv, Idle, AnswerNames, IdsIssued,
                NumberAhead, NotYetEnded, NumbersNeverReused, EndIsLast
<1>3. CASE OrderReturn(op)
    <2>1. ~Idle /\ pending.call \notin EndCalls
        BY <1>3, OperationAssumption
           DEF OrderReturn, Answered, Waiting, Idle, BusinessOrders, EndCalls
    <2> QED BY <1>3, <2>1, ReturnKeepsNumbering DEF OrderReturn
<1> QED BY <1>1, <1>2, <1>3

LEMMA ReturnsKeepNumbering ==
    ASSUME TypeOK, NumberingInv,
           \/ SyncReturn \/ InitReturn \/ InitNoTanReturn \/ PollReturn
           \/ SubmitTanReturn \/ PollDecoupledTanReturn
    PROVE  NumberingInv'
<1>1. /\ ~Idle /\ pending.call \notin EndCalls /\ answer # NoAnswer
      /\ UNCHANGED <<bank, sent>>
    BY DEF SyncReturn, InitReturn, InitNoTanReturn, PollReturn, SubmitTanReturn,
           PollDecoupledTanReturn, Answered, Waiting, Idle, EndCalls
<1>2. CASE Consumed("err")
    BY <1>1, <1>2, ConsumedKeepsNumbering
<1>3. CASE ~Consumed("err")
    <2>1. PICK state, result : Return(state, result)
        BY <1>3 DEF SyncReturn, InitReturn, InitNoTanReturn, PollReturn,
                    SubmitTanReturn, PollDecoupledTanReturn
    <2>2. \/ dialog_id' = dialog_id
          \/ dialog_id' = ExtractDialogId(dialog_id, answer)
        BY <1>3 DEF SyncReturn, InitReturn, InitNoTanReturn, PollReturn,
                    SubmitTanReturn, PollDecoupledTanReturn, Learn, Ingest
    <2> QED BY <1>1, <2>1, <2>2, ReturnKeepsNumbering
<1> QED BY <1>2, <1>3

LEMMA NegotiatedInitKeepsNumbering ==
    ASSUME TypeOK, NumberingInv, NEW p \in BankParamsType, NEW sid \in Sids,
           NegotiatedInit(p, sid), UNCHANGED bank
    PROVE  NumberingInv'
<1>1. CASE NothingNegotiated(p)
    BY <1>1, ConsumedKeepsNumbering DEF NegotiatedInit
<1>2. CASE ~NothingNegotiated(p)
    <2>1. /\ Send("init", FALSE, Unassigned, FirstNumber, TRUE, NoTask, p, sid)
          /\ dialog_id' = Unassigned
        BY <1>2 DEF NegotiatedInit
    <2>2. /\ "init" \in Calls /\ Unassigned \in Ids /\ NoTask \in TaskRefs
          /\ FirstNumber \in Nat \ {0}
        BY DEF Calls, OpeningCalls, Ids, TaskRefs, FirstNumber
    <2>3. pending' # NoRequest
        BY <2>1, <2>2, SendType, NullAssumption
    <2> QED BY <2>1, <2>2, <2>3, SendKeepsNumbering
<1> QED BY <1>1, <1>2

LEMMA ProbesKeepNumbering ==
    ASSUME TypeOK, NumberingInv, ProbeReturn \/ ProbeEndReturn
    PROVE  NumberingInv'
<1>1. CASE ProbeEndReturn
    <2>1. params \in BankParamsType /\ system_id \in Sids
        BY DEF TypeOK, Sids
    <2> QED BY <1>1, <2>1, NegotiatedInitKeepsNumbering DEF ProbeEndReturn
<1>2. CASE ProbeReturn
    <2> DEFINE id  == ExtractDialogId(dialog_id, answer)
               sid == IngestSystemId(system_id, answer)
               p   == IngestAndNegotiate(params, answer)
    <2>1. /\ answer # NoAnswer /\ pending.call \notin EndCalls /\ bank' = bank
        BY <1>2 DEF ProbeReturn, Answered, Waiting, EndCalls
    <2>2. id \in Ids /\ sid \in Sids /\ p \in BankParamsType
        BY <2>1, LearnType
    <2>3. CASE id = Unassigned
        <3>1. NegotiatedInit(p, sid)
            BY <1>2, <2>3 DEF ProbeReturn
        <3> QED BY <2>1, <2>2, <3>1, NegotiatedInitKeepsNumbering
    <2>4. CASE id # Unassigned
        <3>1. /\ dialog_id' = id
              /\ Send("probe_end", FALSE, id, message_number, FALSE, NoTask, p, sid)
            BY <1>2, <2>4 DEF ProbeReturn
        <3>2. "probe_end" \in Calls /\ NoTask \in TaskRefs /\ message_number \in Nat \ {0}
            BY DEF Calls, EndCalls, TaskRefs, TypeOK
        <3>3. pending' # NoRequest
            BY <2>2, <3>1, <3>2, SendType, NullAssumption
        <3>4. /\ bank[id].phase # "free"
              /\ \A q \in sent : q.did = id => q.num < message_number /\ q.call \notin EndCalls
            BY <2>1, <2>4, ExtractedId
        <3> QED BY <2>1, <2>2, <3>1, <3>2, <3>3, <3>4, SendKeepsNumbering
    <2> QED BY <2>3, <2>4
<1> QED BY <1>1, <1>2

LEMMA EndsKeepNumbering ==
    ASSUME TypeOK, NumberingInv,
           \/ DropDialog \/ SyncedEndReturn \/ SyncedEndSilently
           \/ EndReturn \/ EndSilently
    PROVE  NumberingInv'
<1>1. PICK result : Consumed(result)
    BY DEF DropDialog, SyncedEndReturn, SyncedEndSilently, KeepSyncResult, EndReturn,
           EndSilently
<1>2. UNCHANGED <<bank, sent>>
    BY DEF DropDialog, SyncedEndReturn, SyncedEndSilently, KeepSyncResult, EndReturn,
           EndSilently
<1> QED BY <1>1, <1>2, ConsumedKeepsNumbering

LEMMA SendFailsKeepsNumbering ==
    ASSUME TypeOK, NumberingInv, SendFails
    PROVE  NumberingInv'
<1>1. ~Idle
    BY DEF SendFails
<1>2. CASE /\ pending.call \in KeepsDialog /\ Return(typestate, "err")
           /\ UNCHANGED <<dialog_id, bank, sent>>
    <2>1. pending.call \notin EndCalls
        BY <1>2, OperationAssumption DEF KeepsDialog, BusinessOrders, EndCalls
    <2> QED BY <1>1, <1>2, <2>1, ReturnKeepsNumbering
<1>3. CASE NegotiatedInit(params, system_id) /\ UNCHANGED bank
    <2>1. params \in BankParamsType /\ system_id \in Sids
        BY DEF TypeOK, Sids
    <2> QED BY <1>3, <2>1, NegotiatedInitKeepsNumbering
<1>4. CASE (\E result : Consumed(result)) /\ UNCHANGED <<bank, sent>>
    BY <1>4, ConsumedKeepsNumbering
<1> QED BY <1>2, <1>3, <1>4 DEF SendFails, KeepSyncResult

LEMMA NewDialogKeepsNumbering ==
    ASSUME NumberingInv, NEW sid, NEW p, NEW preferred, NewDialog(sid, p, preferred)
    PROVE  NumberingInv'
BY DEF NewDialog, NumberingInv, Idle, AnswerNames, IdsIssued, NumberAhead, NotYetEnded,
       NumbersNeverReused, EndIsLast

\* Issuing an id, or moving a dialog on, leaves no dialog free that was not.
LEMMA EntersKeepsIssued ==
    ASSUME TypeOK, NEW e \in DialogIds, Enters(e, "sync") \/ Enters(e, "pin")
           \/ Enters(e, "open") \/ Enters(e, "tan") \/ Enters(e, "ended")
    PROVE  /\ bank'[e].phase # "free"
           /\ \A d \in DialogIds : bank[d].phase # "free" => bank'[d].phase # "free"
BY DEF Enters, TypeOK, BankDialogs

LEMMA AnswerIds ==
    ASSUME NEW q, NEW id, NEW codes, NEW allowed
    PROVE  /\ PlainAnswer(id, codes).id = id
           /\ OpeningAnswer(q, id, codes, allowed).id = id
BY DEF PlainAnswer, OpeningAnswer

LEMMA BankOpensKeepsNumbering ==
    ASSUME TypeOK, NumberingInv, NEW q \in net, NEW d \in DialogIds,
           NEW allowed \in AllowedLists,
           \/ BankSyncs(q, d, allowed) \/ BankAdmitsPin(q, d, allowed)
           \/ BankExempts(q, d, allowed) \/ BankAsksTan(q, d, allowed)
    PROVE  NumberingInv'
<1>1. q \in Requests /\ d \in Ids
    BY DEF TypeOK, Ids
<1>2. /\ bank[d].phase = "free" /\ bank'[d].phase # "free"
      /\ \A e \in DialogIds : bank[e].phase # "free" => bank'[e].phase # "free"
    BY EntersKeepsIssued DEF BankSyncs, BankAdmitsPin, BankExempts, BankAsksTan, CanOpen
<1>3. {"0020"} \in SUBSET Codes /\ {"0030"} \in SUBSET Codes /\ {"3955"} \in SUBSET Codes
      /\ {"0020", "3076"} \in SUBSET Codes /\ "init" \in Tasks
    BY DEF Codes, Tasks
<1>4. PICK r \in Answers : Reply(q, r) /\ r.id = d
    <2>1. CASE BankSyncs(q, d, allowed)
        <3>1. PICK r0 : r0 = OpeningAnswer(q, d, {"0020"}, allowed)
            OBVIOUS
        <3>2. r0 \in Answers /\ r0.id = d
            BY <1>1, <1>3, <3>1, OpeningAnswerType, AnswerIds
        <3>3. \/ \E s \in SystemIds : Reply(q, [r0 EXCEPT !.hisyn = <<s>>])
              \/ Reply(q, OpeningAnswer(q, d, {"0030"}, allowed))
            BY <2>1, <3>1 DEF BankSyncs
        <3>4. CASE \E s \in SystemIds : Reply(q, [r0 EXCEPT !.hisyn = <<s>>])
            BY <3>2, <3>4, SyncAnswerType
        <3>5. CASE Reply(q, OpeningAnswer(q, d, {"0030"}, allowed))
            BY <1>1, <1>3, <3>5, OpeningAnswerType, AnswerIds
        <3> QED BY <3>3, <3>4, <3>5
    <2>2. CASE BankAdmitsPin(q, d, allowed)
        BY <1>1, <1>3, <2>2, OpeningAnswerType, AnswerIds DEF BankAdmitsPin
    <2>3. CASE BankExempts(q, d, allowed)
        BY <1>1, <1>3, <2>3, OpeningAnswerType, AnswerIds DEF BankExempts
    <2>4. CASE BankAsksTan(q, d, allowed)
        <3>0. PICK c \in {"0030", "3955"} :
                Reply(q, [OpeningAnswer(q, d, {c}, allowed) EXCEPT !.hitan = "init"])
            BY <2>4 DEF BankAsksTan
        <3>1. PICK r0 : r0 = OpeningAnswer(q, d, {c}, allowed) /\ Reply(q, [r0 EXCEPT !.hitan = "init"])
            BY <3>0
        <3>2. r0 \in Answers /\ r0.id = d
            BY <1>1, <1>3, <3>1, OpeningAnswerType, AnswerIds
        <3> QED BY <1>3, <3>1, <3>2, ChallengeAnswerType
    <2> QED BY <2>1, <2>2, <2>3, <2>4
<1> QED BY <1>2, <1>4, ReplyKeepsNumbering

LEMMA BankRefusesKeepsNumbering ==
    ASSUME TypeOK, NumberingInv, NEW q \in net, NEW allowed \in AllowedLists,
           BankRefuses(q, allowed)
    PROVE  NumberingInv'
<1>1. q \in Requests /\ Unassigned \in Ids /\ {"9110"} \in SUBSET Codes
    BY DEF TypeOK, Ids, Codes
<1>2. PICK r \in Answers : Reply(q, r) /\ r.id = Unassigned
    BY <1>1, OpeningAnswerType, AnswerIds DEF BankRefuses
<1> QED BY <1>2, ReplyKeepsNumbering DEF BankRefuses

LEMMA BankAnswersKeepNumbering ==
    ASSUME TypeOK, NumberingInv, NEW q \in net,
           \/ BankRejects(q) \/ BankEnds(q) \/ BankStillWaits(q) \/ BankConfirms(q)
           \/ BankServes(q) \/ BankChallenges(q)
    PROVE  NumberingInv'
<1>1. q.did \in DialogIds /\ q.did \in Ids
    BY DEF TypeOK, Requests, Ids, BankRejects, BankEnds, BankStillWaits, BankConfirms,
           WantsTan, BankServes, BankChallenges
<1>2. \A d \in DialogIds : bank[d].phase # "free" => bank'[d].phase # "free"
    <2>1. CASE BankRejects(q)
        BY <1>1, <2>1, EntersKeepsIssued DEF BankRejects
    <2>2. CASE BankEnds(q)
        BY <1>1, <2>2, EntersKeepsIssued DEF BankEnds
    <2>3. CASE BankStillWaits(q)
        BY <2>3 DEF BankStillWaits
    <2>4. CASE BankConfirms(q) /\ q.task = "init"
        BY <1>1, <2>4, EntersKeepsIssued DEF BankConfirms
    <2>5. CASE BankConfirms(q) /\ q.task # "init"
        BY <1>1, <2>5 DEF BankConfirms, TypeOK, BankDialogs
    <2>6. CASE BankServes(q)
        BY <1>1, <2>6 DEF BankServes, TypeOK, BankDialogs
    <2>7. CASE BankChallenges(q)
        BY <1>1, <2>7 DEF BankChallenges, TypeOK, BankDialogs
    <2> QED BY <2>1, <2>2, <2>3, <2>4, <2>5, <2>6, <2>7
<1>3. PICK r \in Answers : Reply(q, r) /\ r.id = q.did
    <2>1. /\ \A c \in Codes : {c} \in SUBSET Codes
          /\ "9010" \in Codes /\ "9800" \in Codes /\ "0100" \in Codes /\ "0020" \in Codes
          /\ "0030" \in Codes /\ "3955" \in Codes /\ PendingCodes \subseteq Codes
          /\ {"0020", "3040"} \in SUBSET Codes /\ {"0030", "3076"} \in SUBSET Codes
          /\ "order" \in Tasks
        BY PendingAssumption DEF Codes, Tasks
    <2>2. CASE BankRejects(q) \/ BankEnds(q) \/ BankStillWaits(q) \/ BankConfirms(q)
        BY <1>1, <2>1, <2>2, PlainAnswerType, AnswerIds
           DEF BankRejects, BankEnds, BankStillWaits, BankConfirms
    <2>3. CASE BankServes(q)
        <3>1. PICK r0 : r0 = PlainAnswer(q.did, {"0030", "3076"})
            OBVIOUS
        <3>2. r0 \in Answers /\ r0.id = q.did
            BY <1>1, <2>1, <3>1, PlainAnswerType, AnswerIds
        <3>3. \/ Reply(q, PlainAnswer(q.did, {"0020"}))
              \/ Reply(q, PlainAnswer(q.did, {"0020", "3040"}))
              \/ Reply(q, [r0 EXCEPT !.hitan = "order"])
            BY <2>3, <3>1 DEF BankServes
        <3>4. CASE Reply(q, PlainAnswer(q.did, {"0020"}))
            BY <1>1, <2>1, <3>4, PlainAnswerType, AnswerIds
        <3>5. CASE Reply(q, PlainAnswer(q.did, {"0020", "3040"}))
            BY <1>1, <2>1, <3>5, PlainAnswerType, AnswerIds
        <3>6. CASE Reply(q, [r0 EXCEPT !.hitan = "order"])
            BY <2>1, <3>2, <3>6, ChallengeAnswerType
        <3> QED BY <3>3, <3>4, <3>5, <3>6
    <2>4. CASE BankChallenges(q)
        <3>0. PICK c \in {"0030", "3955"} :
                Reply(q, [PlainAnswer(q.did, {c}) EXCEPT !.hitan = "order"])
            BY <2>4 DEF BankChallenges
        <3>1. PICK r0 : r0 = PlainAnswer(q.did, {c}) /\ Reply(q, [r0 EXCEPT !.hitan = "order"])
            BY <3>0
        <3>2. r0 \in Answers /\ r0.id = q.did
            BY <1>1, <2>1, <3>1, PlainAnswerType, AnswerIds
        <3> QED BY <2>1, <3>1, <3>2, ChallengeAnswerType
    <2> QED BY <2>2, <2>3, <2>4
<1> QED BY <1>2, <1>3, ReplyKeepsNumbering

-----------------------------------------------------------------------------
(* Theorems.                                                               *)

LEMMA NumberingInit == Init => NumberingInv
BY DEF Init, NumberingInv, Idle, AnswerNames, IdsIssued, NumberAhead, NotYetEnded,
       NumbersNeverReused, EndIsLast

LEMMA NumberingStep == TypeOK /\ NumberingInv /\ [Next]_vars => NumberingInv'
<1> SUFFICES ASSUME TypeOK, NumberingInv, [Next]_vars
             PROVE  NumberingInv'
    OBVIOUS
<1>1. CASE ClientStep
    <2>1. ASSUME NEW sid, NEW p, NEW preferred, NewDialog(sid, p, preferred)
          PROVE  NumberingInv'
        BY <2>1, NewDialogKeepsNumbering
    <2>2. ASSUME NEW op \in Operations,
                 OrderCall(op, FALSE) \/ OrderCall(op, TRUE) \/ OrderNotBuilt(op)
                 \/ OrderReturn(op)
          PROVE  NumberingInv'
        BY <2>2, OrdersKeepNumbering
    <2>3. CASE \/ SyncCall \/ InitCall \/ InitNoTanCall \/ ProbeCall
               \/ SyncedEndCall \/ EndCall \/ PollCall \/ SubmitTanCall
               \/ PollDecoupledTanCall
        BY <2>3, CallsKeepNumbering
    <2>4. CASE \/ SyncReturn \/ InitReturn \/ InitNoTanReturn \/ PollReturn
               \/ SubmitTanReturn \/ PollDecoupledTanReturn
        BY <2>4, ReturnsKeepNumbering
    <2>5. CASE ProbeReturn \/ ProbeEndReturn
        BY <2>5, ProbesKeepNumbering
    <2>6. CASE \/ DropDialog \/ SyncedEndReturn \/ SyncedEndSilently
               \/ EndReturn \/ EndSilently
        BY <2>6, EndsKeepNumbering
    <2> QED BY <1>1, <2>1, <2>2, <2>3, <2>4, <2>5, <2>6 DEF ClientStep
<1>2. CASE SendFails
    BY <1>2, SendFailsKeepsNumbering
<1>3. CASE BankStep
    <2>1. ASSUME NEW q \in net, NEW d \in DialogIds, NEW allowed \in AllowedLists,
                 \/ BankSyncs(q, d, allowed) \/ BankAdmitsPin(q, d, allowed)
                 \/ BankExempts(q, d, allowed) \/ BankAsksTan(q, d, allowed)
          PROVE  NumberingInv'
        BY <2>1, BankOpensKeepsNumbering
    <2>2. ASSUME NEW q \in net, NEW allowed \in AllowedLists, BankRefuses(q, allowed)
          PROVE  NumberingInv'
        BY <2>2, BankRefusesKeepsNumbering
    <2>3. ASSUME NEW q \in net,
                 \/ BankRejects(q) \/ BankEnds(q) \/ BankStillWaits(q)
                 \/ BankConfirms(q) \/ BankServes(q) \/ BankChallenges(q)
          PROVE  NumberingInv'
        BY <2>3, BankAnswersKeepNumbering
    <2> QED BY <1>3, <2>1, <2>2, <2>3 DEF BankStep
<1>4. CASE UNCHANGED vars
    BY <1>4 DEF vars, NumberingInv, Idle, AnswerNames, IdsIssued, NumberAhead,
                NotYetEnded, NumbersNeverReused, EndIsLast
<1> QED BY <1>1, <1>2, <1>3, <1>4 DEF Next

\* The inductive invariant holds in every reachable state (NumberingInv).
THEOREM NumberingHolds == Spec => []NumberingInv
<1>1. Init => NumberingInv
    BY NumberingInit
<1>2. TypeOK /\ NumberingInv /\ [Next]_vars => NumberingInv'
    BY NumberingStep
<1> QED BY <1>1, <1>2, TypeCorrect, PTL DEF Spec

\* No message number is ever used twice in a dialog, however requests fail and
\* whatever becomes of the answers (NumbersNeverReused).
THEOREM NumbersAreNeverReused == Spec => []NumbersNeverReused
<1>1. NumberingInv => NumbersNeverReused
    BY DEF NumberingInv
<1> QED BY <1>1, NumberingHolds, PTL

\* Nothing is ever sent in a dialog after its HKEND (EndIsLast).
THEOREM NothingFollowsTheEnd == Spec => []EndIsLast
<1>1. NumberingInv => EndIsLast
    BY DEF NumberingInv
<1> QED BY <1>1, NumberingHolds, PTL

-----------------------------------------------------------------------------
(* Numbers leave no gap, and each Dialog leads a Conversation.             *)

LEMMA CountingInit == Init => CountingInv
BY DEF Init, FirstNumber, CountingInv, NumberedConsecutively, NumbersNeverReused, Idle, Answered,
       Waiting

\* A request continues the numbers of its dialog or opens one with 1.
LEMMA PostKeepsCount ==
    ASSUME TypeOK, NumberedConsecutively, NumbersNeverReused',
           NEW call, NEW did, NEW num, NEW p, NEW sid, Posts(call, did, num, p, sid),
           IF did = Unassigned
           THEN num = 1 /\ call \in OpeningCalls
           ELSE num = 2 \/ \E r \in sent : r.did = did /\ r.num = num - 1
    PROVE  NumberedConsecutively'
BY DEF Posts, NumberedConsecutively

\* A method that starts outside any dialog opens one; the others go on in
\* theirs.
LEMMA SpeaksInTurn ==
    ASSUME CountingInv, NEW call \in Calls, Speaks(call)
    PROVE  /\ call \in OpeningCalls <=> dialog_id = Unassigned
           /\ dialog_id = Unassigned => message_number = 1
<1>1. CASE typestate = "New"
    <2>1. dialog_id = Unassigned /\ message_number = 1
        BY <1>1 DEF CountingInv, Speaks
    <2>2. call \in OpeningCalls
        BY <1>1, <2>1 DEF Speaks, RunsIn, OpeningCalls, EndCalls
    <2> QED BY <2>1, <2>2
<1>2. CASE typestate # "New"
    <2>1. call \notin OpeningCalls /\ dialog_id # Unassigned
        BY <1>2 DEF Speaks, RunsIn, OpeningCalls, EndCalls, CountingInv
    <2> QED BY <2>1
<1> QED BY <1>1, <1>2

LEMMA DialogKeepsCounting ==
    ASSUME TypeOK, MethodInv, CountingInv, NumbersNeverReused', DialogMoves
    PROVE  CountingInv'
<1>0. message_number \in Nat \ {0}
    BY DEF TypeOK
<1>1. CASE Begins
    BY <1>1 DEF Begins, NewDialog, FirstNumber, CountingInv, NumberedConsecutively, Idle,
                Answered, Waiting
<1>2. CASE GivesUp
    BY <1>2 DEF GivesUp, Consumed, FirstNumber, CountingInv, NumberedConsecutively, Idle,
                Answered, Waiting
<1>3. CASE Rests
    BY <1>3 DEF Rests, dialogVars, appVars, CountingInv, NumberedConsecutively, Idle, Answered,
                Waiting, RequiresTan, HasErrors, NeedsTanAnswer, HasTanChallenge, AllCodes
<1>4. ASSUME NEW call \in Calls, Speaks(call)
      PROVE  CountingInv'
    <2>1. /\ call \in OpeningCalls <=> dialog_id = Unassigned
          /\ dialog_id = Unassigned => message_number = 1
        BY <1>4, SpeaksInTurn
    <2>2. /\ Posts(call, dialog_id, message_number, params, system_id)
          /\ UNCHANGED <<typestate, dialog_id>>
        BY <1>4 DEF Speaks
    <2>3. NumberedConsecutively'
        BY <2>1, <2>2, PostKeepsCount DEF CountingInv
    <2>4. /\ pending' # NoRequest /\ pending'.call = call /\ pending'.did = dialog_id
          /\ pending'.num = message_number /\ message_number' = message_number + 1
          /\ answer' = NoAnswer /\ pending' \in sent'
        BY <2>2 DEF Posts
    <2>5. pending'.num = message_number' - 1
        BY <1>0, <2>4
    <2> QED BY <1>0, <2>1, <2>2, <2>3, <2>4, <2>5 DEF CountingInv, Idle, Answered
<1>5. CASE EndsProbe
    <2>1. ~Idle /\ pending.call = "probe" /\ "probe" \in OpeningCalls
        BY <1>5 DEF EndsProbe, Answered, Waiting, Idle, OpeningCalls
    <2>2. message_number = 2 /\ typestate = "New"
        BY <2>1 DEF CountingInv, MethodInv, RunsIn
    <2>3. /\ Posts("probe_end", dialog_id', 2, params', system_id')
          /\ dialog_id' # Unassigned /\ typestate' = "New"
        BY <1>5, <2>2 DEF EndsProbe
    <2>4. NumberedConsecutively'
        BY <2>3, PostKeepsCount DEF CountingInv
    <2>5. /\ pending' # NoRequest /\ pending'.call = "probe_end" /\ pending'.did = dialog_id'
          /\ pending'.num = message_number' - 1
          /\ answer' = NoAnswer /\ pending' \in sent'
        BY <2>3 DEF Posts
    <2> QED BY <2>3, <2>4, <2>5 DEF CountingInv, Idle, Answered, OpeningCalls
<1>6. CASE Negotiates
    <2>1. /\ Posts("init", Unassigned, 1, params', system_id')
          /\ dialog_id' = Unassigned /\ typestate' = typestate
        BY <1>6 DEF Negotiates, FirstNumber
    <2>2. typestate = "New"
        BY <1>6 DEF Negotiates, Answered, Waiting, MethodInv, RunsIn, OpeningCalls, Idle
    <2>3. NumberedConsecutively'
        BY <2>1, PostKeepsCount DEF CountingInv, OpeningCalls
    <2>4. pending' # NoRequest /\ pending'.call = "init" /\ answer' = NoAnswer
          /\ message_number' = 2
        BY <2>1 DEF Posts
    <2> QED BY <2>1, <2>2, <2>3, <2>4 DEF CountingInv, Idle, Answered, OpeningCalls
<1>7. CASE Learns
    <2>1. ~Idle /\ pending.call \in {"sync", "init", "init_no_tan"}
        BY <1>7 DEF Learns, Back, Answered, Waiting
    <2>2. dialog_id = Unassigned /\ message_number = 2
        BY <2>1 DEF CountingInv, OpeningCalls
    <2>3. /\ pending' = NoRequest /\ message_number' = 2 /\ sent' = sent
          /\ typestate' \in {"Synced", "TanPending", "Open"}
        BY <1>7, <2>2 DEF Learns, Back
    <2>4. typestate' # "Synced" => dialog_id' # Unassigned
        BY <1>7 DEF Learns, Back, ExtractDialogId, CountingInv
    <2> QED BY <2>3, <2>4 DEF CountingInv, NumberedConsecutively, Idle, Answered, Waiting
<1>8. CASE Confirms
    <2>1. /\ ~Idle /\ pending.call \notin OpeningCalls /\ dialog_id' = dialog_id
          /\ typestate' = "Open" /\ pending' = NoRequest
          /\ UNCHANGED <<message_number, sent>>
        BY <1>8 DEF Confirms, Back, TanCalls, OpeningCalls
    <2> QED BY <2>1 DEF CountingInv, NumberedConsecutively, Idle, Answered, Waiting
<1>9. CASE Stays
    <2>1. /\ pending' = NoRequest /\ UNCHANGED <<typestate, dialog_id, message_number, sent>>
        BY <1>9 DEF Stays, Back
    <2>2. typestate \in {"Open", "TanPending"}
        BY <1>9 DEF Stays, Answered, Waiting, MethodInv, Idle, RunsIn, OpeningCalls
    <2> QED BY <2>1, <2>2 DEF CountingInv, NumberedConsecutively, Idle, Answered, Waiting
<1> QED BY <1>1, <1>2, <1>3, <1>4, <1>5, <1>6, <1>7, <1>8, <1>9 DEF DialogMoves

\* An opening is answered with a new dialog id or with an error.
LEMMA BankKeepsCounting ==
    ASSUME ~UnreadableAnswers, TypeOK, MethodInv, CountingInv, NumbersNeverReused', BankStep
    PROVE  CountingInv'
<1>1. PICK q \in net, r \in Answers :
         Reply(q, r) /\ (IssuesId(q, r) \/ Refuses(q, r) \/ GoesOn(q, r))
    BY BankShape DEF BankMoves
<1>2. /\ UNCHANGED <<typestate, dialog_id, message_number, pending, sent>>
      /\ q # pending => answer' = answer
      /\ q = pending => ~Idle /\ answer' = r
    BY <1>1, ReplyRead DEF Blank
<1>3. (/\ Answered("init") \/ Answered("init_no_tan") =>
             HasErrors(answer) \/ answer.id # Unassigned
       /\ Answered("init") /\ RequiresTan(answer) => answer.id # Unassigned)'
    <2>1. CASE q # pending
        BY <1>2, <2>1 DEF CountingInv, Answered, Waiting, HasErrors, RequiresTan, NeedsTanAnswer,
                          HasTanChallenge, AllCodes
    <2>2. CASE q = pending
        <3> SUFFICES ASSUME Waiting("init") \/ Waiting("init_no_tan")
                     PROVE  /\ HasErrors(r) \/ r.id # Unassigned
                            /\ RequiresTan(r) => r.id # Unassigned
            BY <1>2, <2>2 DEF Answered, Waiting, HasErrors, RequiresTan, NeedsTanAnswer,
                              HasTanChallenge, AllCodes
        <3>1. q.did = Unassigned
            BY <2>2 DEF Waiting, Idle, MethodInv, CountingInv, OpeningCalls
        <3> QED BY <1>1, <3>1, DialogIdAssumption DEF IssuesId, Refuses, GoesOn, RequiresTan
    <2> QED BY <2>1, <2>2
<1> QED BY <1>2, <1>3 DEF CountingInv, NumberedConsecutively, Idle

LEMMA CountingStep ==
    ASSUME ~UnreadableAnswers, TypeOK, MethodInv, NumberingInv, CountingInv, [Next]_vars
    PROVE  CountingInv'
<1>1. NumbersNeverReused'
    BY NumberingStep DEF NumberingInv
<1>2. CASE UNCHANGED vars
    BY <1>2 DEF vars, CountingInv, NumberedConsecutively, NumbersNeverReused, Idle, Answered,
                Waiting, RequiresTan, HasErrors, NeedsTanAnswer, HasTanChallenge, AllCodes
<1> QED BY <1>1, <1>2, ClientShape, DialogKeepsCounting, BankKeepsCounting DEF Next

\* What is known of the message stream of a client whose answers are readable
\* (NumberingInv, MethodInv, CountingInv).
LEMMA StreamHolds ==
    ASSUME ~UnreadableAnswers
    PROVE  Spec => [](TypeOK /\ MethodInv /\ NumberingInv /\ CountingInv)
<1>1. Init => CountingInv
    BY CountingInit
<1>2. TypeOK /\ MethodInv /\ NumberingInv /\ CountingInv /\ [Next]_vars => CountingInv'
    BY CountingStep
<1> QED BY <1>1, <1>2, TypeCorrect, MethodsRunInTurn, NumberingHolds, PTL DEF Spec

\* The numbers of a dialog start with 1 and leave no gap, whatever fails
\* between two messages (NumberedConsecutively: send_segments), if answers
\* reach the client readable.
THEOREM NumbersLeaveNoGap ==
    ASSUME ~UnreadableAnswers
    PROVE  Spec => []NumberedConsecutively
<1>1. CountingInv => NumberedConsecutively
    BY DEF CountingInv
<1> QED BY <1>1, StreamHolds, PTL

\* What is seen of a request.
LEMMA PostedWire ==
    ASSUME NEW call, NEW did, NEW num, NEW p, NEW sid, Posts(call, did, num, p, sid)
    PROVE  {<<q.did, q.num>> : q \in sent'} = {<<q.did, q.num>> : q \in sent} \cup {<<did, num>>}
BY DEF Posts

LEMMA DialogConverses ==
    ASSUME TypeOK, MethodInv, NumberingInv, CountingInv, DialogMoves
    PROVE  [C!Next]_(C!vars)
<1> USE DEF C!Next, C!vars
<1>1. CASE Begins
    BY <1>1 DEF Begins, NewDialog, FirstNumber, Idle, C!Forget
<1>2. CASE GivesUp
    BY <1>2 DEF GivesUp, Consumed, FirstNumber, C!Forget
<1>3. CASE Rests
    BY <1>3 DEF Rests, dialogVars
<1>4. ASSUME NEW call \in Calls, Speaks(call)
      PROVE  C!Begin \/ C!Say
    <2>1. /\ call \in OpeningCalls <=> dialog_id = Unassigned
          /\ dialog_id = Unassigned => message_number = 1
        BY <1>4, SpeaksInTurn
    <2>2. /\ Posts(call, dialog_id, message_number, params, system_id)
          /\ pending = NoRequest /\ dialog_id' = dialog_id
        BY <1>4 DEF Speaks, Idle
    <2>3. {<<q.did, q.num>> : q \in sent'}
          = {<<q.did, q.num>> : q \in sent} \cup {<<dialog_id, message_number>>}
        BY <2>2, PostedWire
    <2>4. /\ pending' # NoRequest /\ pending'.call = call
          /\ message_number' = message_number + 1
        BY <2>2 DEF Posts
    <2>5. CASE dialog_id = Unassigned
        <3>1. call \notin EndCalls
            BY <2>1, <2>5 DEF OpeningCalls, EndCalls
        <3> QED BY <2>1, <2>2, <2>3, <2>4, <2>5, <3>1 DEF C!Begin
    <2>6. CASE dialog_id # Unassigned
        <3>1. dialog_id \in DialogIds
            BY <2>6 DEF TypeOK
        <3> QED BY <2>2, <2>3, <2>4, <3>1 DEF C!Say, C!Names
    <2> QED BY <2>5, <2>6
<1>5. ASSUME answer # NoAnswer, pending.call \in OpeningCalls,
             NEW id, id = ExtractDialogId(dialog_id, answer), id # Unassigned
      PROVE  id \in DialogIds /\ C!Names(id)
    <2>1. ~Idle /\ answer \in Answers /\ pending.did = dialog_id /\ dialog_id \in Ids
        BY <1>5 DEF MethodInv, TypeOK, Ids
    <2>2. id \in DialogIds
        BY <1>5, <2>1, AnswerIsWellFormed DEF ExtractDialogId, Ids
    <2>3. CASE id = dialog_id
        BY <2>2, <2>3 DEF C!Names
    <2>4. CASE id # dialog_id
        <3>1. id = answer.id
            BY <1>5, <2>4 DEF ExtractDialogId
        <3>2. \A q \in sent : q.did # id
            BY <1>5, <2>1, <2>4, <3>1 DEF NumberingInv, AnswerNames
        <3>3. dialog_id = Unassigned
            BY <1>5, <2>1 DEF CountingInv
        <3> QED BY <2>2, <3>2, <3>3 DEF C!Names
    <2> QED BY <2>3, <2>4
<1>6. CASE EndsProbe
    <2>1. /\ answer # NoAnswer /\ pending.call \in OpeningCalls \ EndCalls
          /\ dialog_id' = ExtractDialogId(dialog_id, answer) /\ dialog_id' # Unassigned
          /\ Posts("probe_end", dialog_id', message_number, params', system_id')
        BY <1>6 DEF EndsProbe, Answered, Waiting, EndCalls, OpeningCalls
    <2>2. dialog_id' \in DialogIds /\ C!Names(dialog_id')
        BY <1>5, <2>1
    <2>3. {<<q.did, q.num>> : q \in sent'}
          = {<<q.did, q.num>> : q \in sent} \cup {<<dialog_id', message_number>>}
        BY <2>1, PostedWire
    <2>4. pending' # NoRequest /\ message_number' = message_number + 1
        BY <2>1 DEF Posts
    <2> QED BY <2>1, <2>2, <2>3, <2>4 DEF C!Say
<1>7. CASE Negotiates
    <2>1. dialog_id' = Unassigned /\ Posts("init", Unassigned, 1, params', system_id')
        BY <1>7 DEF Negotiates, FirstNumber
    <2>2. {<<q.did, q.num>> : q \in sent'}
          = {<<q.did, q.num>> : q \in sent} \cup {<<Unassigned, 1>>}
        BY <2>1, PostedWire
    <2>3. message_number' = 2 /\ pending'.call \notin EndCalls
        BY <2>1 DEF Posts, EndCalls
    <2> QED BY <2>1, <2>2, <2>3 DEF C!Begin
<1>8. CASE Learns
    <2>1. /\ answer # NoAnswer /\ pending.call \in OpeningCalls \ EndCalls
          /\ dialog_id' = ExtractDialogId(dialog_id, answer)
          /\ pending' = NoRequest /\ UNCHANGED <<message_number, sent>>
        BY <1>8 DEF Learns, Back, Answered, Waiting, EndCalls, OpeningCalls
    <2>2. CASE dialog_id' = dialog_id
        BY <2>1, <2>2
    <2>3. CASE dialog_id' # dialog_id
        <3>1. dialog_id' \in DialogIds /\ C!Names(dialog_id')
            <4>1. dialog_id' # Unassigned
                BY <2>1, <2>3 DEF ExtractDialogId
            <4> QED BY <1>5, <2>1, <4>1
        <3> QED BY <2>1, <3>1 DEF C!Adopt
    <2> QED BY <2>2, <2>3
<1>9. CASE Confirms \/ Stays
    <2>1. /\ pending.call \notin EndCalls /\ pending' = NoRequest
          /\ UNCHANGED <<dialog_id, message_number, sent>>
        BY <1>9 DEF Confirms, Stays, Back, TanCalls, EndCalls
    <2> QED BY <2>1
<1> QED BY <1>1, <1>2, <1>3, <1>4, <1>6, <1>7, <1>8, <1>9 DEF DialogMoves

LEMMA StepConverses ==
    TypeOK /\ MethodInv /\ NumberingInv /\ CountingInv /\ [Next]_vars => [C!Next]_(C!vars)
<1>1. ASSUME TypeOK, BankStep
      PROVE  UNCHANGED C!vars
    <2>1. PICK q \in net, r \in Answers : Reply(q, r)
        BY <1>1, BankShape DEF BankMoves
    <2>2. UNCHANGED <<dialog_id, message_number, pending, sent>>
        BY <1>1, <2>1, ReplyRead
    <2> QED BY <2>2 DEF C!vars
<1>2. UNCHANGED vars => UNCHANGED C!vars
    BY DEF vars, C!vars
<1> QED BY <1>1, <1>2, ClientShape, DialogConverses DEF Next

\* Seen from the bank, a client leads one Conversation after another: it opens
\* with message 1, adopts an id no message carried before, counts on without a
\* gap, ends once, and every other step of it is silent (LeadsConversations).
THEOREM ClientsLeadConversations ==
    ASSUME ~UnreadableAnswers
    PROVE  Spec => LeadsConversations
<1>1. Init => C!Init
    BY DEF Init, FirstNumber, C!Init
<1>2. TypeOK /\ MethodInv /\ NumberingInv /\ CountingInv /\ [Next]_vars => [C!Next]_(C!vars)
    BY StepConverses
<1> QED BY <1>1, <1>2, StreamHolds, PTL DEF Spec, LeadsConversations, C!Spec
=============================================================================
