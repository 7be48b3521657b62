--------------------------- MODULE OpeningProofs ---------------------------
(***************************************************************************)
(* How a dialog is opened: the TAN of the initialisation is waited for on  *)
(* both sides (TanInv), a negotiation ends in an initialisation that fits  *)
(* its probe (NegotiationInv), the function a dialog is signed with is one *)
(* the bank allows (SelectionInv), and the bank's parameters are learned   *)
(* once (LearningInv).  All four are inductive, for every bank.  A Dialog  *)
(* is Open only in dialogs the bank admitted: AdmissionInv is inductive    *)
(* for a bank that says 3956 while a TAN is not confirmed, and for answers *)
(* that keep their segments.                                               *)
(***************************************************************************)
EXTENDS FinTSDialogProofs, FiniteSetTheorems

-----------------------------------------------------------------------------
(* The TAN of the initialisation.                                          *)

\* A dialog that waits for its TAN goes on waiting while no request is on its
\* way there.
LEMMA WaitingIsKept ==
    ASSUME TypeOK, NEW q \in net, NEW r, Reply(q, r),
           IssuesId(q, r) \/ Refuses(q, r) \/ GoesOn(q, r),
           NEW d, IsWaiting(d)
    PROVE  IsWaiting(d)'
<1>1. net' = net \ {q}
    BY ReplyRead
<1>2. q.did # d /\ d \in DialogIds /\ bank[d].phase = "tan"
    BY DEF IsWaiting
<1>3. bank'[d] = bank[d]
    BY <1>2 DEF IssuesId, Refuses, GoesOn
<1> QED BY <1>1, <1>2, <1>3 DEF IsWaiting

LEMMA TanInit == Init => TanInv
BY DEF Init, TanInv, Waiting, Answered

LEMMA BankKeepsTan ==
    ASSUME TypeOK, MethodInv, NumberingInv, TanInv, BankStep
    PROVE  TanInv'
<1>1. PICK q \in net, r \in Answers :
         Reply(q, r) /\ (IssuesId(q, r) \/ Refuses(q, r) \/ GoesOn(q, r))
    BY BankShape DEF BankMoves
<1>2. /\ UNCHANGED <<typestate, dialog_id, pending, challenge>>
      /\ net' = net \ {q}
      /\ q # pending => answer' = answer
      /\ q = pending => ~Idle /\ (answer' = r \/ Blank(answer', r))
    BY <1>1, ReplyRead
<1>3. \A d : IsWaiting(d) => IsWaiting(d)'
    BY <1>1, WaitingIsKept
<1>4. (typestate = "TanPending" =>
          /\ challenge = "init"
          /\ dialog_id \in DialogIds
          /\ Idle => IsWaiting(dialog_id)
          /\ \A m \in net : m.did = dialog_id => m = pending)'
    BY <1>2, <1>3 DEF TanInv, Idle
<1>5. (Waiting("poll") => pending.task = "init")'
    BY <1>2 DEF TanInv, Waiting
<1>6. (Answered("init") /\ RequiresTan(answer) => answer.hitan = "init" /\ IsWaiting(answer.id))'
    <2>1. CASE q # pending
        BY <1>2, <1>3, <2>1 DEF TanInv, Answered, Waiting, RequiresTan, NeedsTanAnswer,
                                AllCodes, HasTanChallenge
    <2>2. CASE q = pending
        <3> SUFFICES ASSUME Waiting("init")', RequiresTan(answer')
                     PROVE  answer'.hitan = "init" /\ IsWaiting(answer.id)'
            BY DEF Answered, RequiresTan, NeedsTanAnswer, AllCodes, HasTanChallenge
        <3>1. q.call = "init" /\ q.call \notin Operations
            BY <1>2, <2>2, OperationNames DEF Waiting, OpeningCalls
        <3>2. answer' = r
            BY <1>2, <2>2 DEF Blank, RequiresTan, NeedsTanAnswer, AllCodes
        <3>3. IssuesId(q, r)
            BY <1>1, <3>1, <3>2 DEF Refuses, GoesOn, RequiresTan, HasTanChallenge
        <3>4. r.hitan = "init" /\ bank'[r.id].phase = "tan" /\ r.id \in DialogIds
              /\ bank[r.id].phase = "free"
            BY <3>1, <3>2, <3>3 DEF IssuesId
        <3>5. \A m \in net : m.did # r.id
            BY <3>4, DialogIdAssumption DEF MethodInv, NumberingInv, IdsIssued
        <3> QED BY <1>2, <3>2, <3>4, <3>5 DEF IsWaiting
    <2> QED BY <2>1, <2>2
<1>7. (Answered("poll") /\ IsDecoupledPending(answer) => IsWaiting(dialog_id))'
    <2>1. CASE q # pending
        BY <1>2, <1>3, <2>1 DEF TanInv, Answered, Waiting, IsDecoupledPending, AllCodes
    <2>2. CASE q = pending
        <3> SUFFICES ASSUME Waiting("poll")', IsDecoupledPending(answer')
                     PROVE  IsWaiting(dialog_id)'
            BY DEF Answered, IsDecoupledPending, AllCodes
        <3>1. q.call = "poll" /\ q.call \in TanCalls /\ Waiting("poll") /\ ~Idle
            BY <1>2, <2>2 DEF Waiting, TanCalls
        <3>2. typestate = "TanPending" /\ q.did = dialog_id
            BY <2>2, <3>1 DEF MethodInv, RunsIn, OpeningCalls
        <3>3. answer' = r
            BY <1>2, <2>2 DEF Blank, IsDecoupledPending, AllCodes
        <3>4. q.did # Unassigned /\ q.did \in DialogIds /\ q.task = "init"
            BY <2>2, <3>1, <3>2, DialogIdAssumption DEF TanInv
        <3>5. bank' = bank /\ WantsTan(q)
            BY <1>1, <3>1, <3>3, <3>4 DEF IssuesId, Refuses, GoesOn
        <3>6. bank[q.did].phase = "tan"
            BY <3>4, <3>5 DEF WantsTan
        <3> QED BY <1>2, <2>2, <3>2, <3>4, <3>5, <3>6 DEF IsWaiting, TanInv
    <2> QED BY <2>1, <2>2
<1> QED BY <1>4, <1>5, <1>6, <1>7 DEF TanInv

LEMMA DialogKeepsTan ==
    ASSUME TypeOK, MethodInv, TanInv, DialogMoves
    PROVE  TanInv'
<1>1. CASE Begins \/ GivesUp
    BY <1>1 DEF Begins, NewDialog, GivesUp, Consumed, TanInv, Idle, Waiting, Answered
<1>2. CASE Rests
    BY <1>2 DEF Rests, dialogVars, appVars, TanInv, Idle, Waiting, Answered, IsWaiting,
                RequiresTan, NeedsTanAnswer, HasTanChallenge, IsDecoupledPending, AllCodes
<1>3. ASSUME NEW call \in Calls, Speaks(call)
      PROVE  TanInv'
    <2>1. /\ UNCHANGED <<typestate, dialog_id, bank, challenge>> /\ Idle
          /\ pending' # NoRequest /\ pending'.call = call /\ answer' = NoAnswer
          /\ net' = net \cup {pending'} /\ typestate \in RunsIn(call)
          /\ call \in TanCalls => pending'.task = challenge
        BY <1>3 DEF Speaks, Posts, appVars
    <2>2. call = "poll" => typestate = "TanPending" /\ call \in TanCalls
        BY <2>1 DEF RunsIn, TanCalls, OpeningCalls
    <2> QED BY <2>1, <2>2 DEF TanInv, Idle, Waiting, Answered, IsWaiting
<1>4. CASE EndsProbe \/ Negotiates
    <2>1. ~Idle /\ pending.call \in {"probe", "probe_end"}
        BY <1>4 DEF EndsProbe, Negotiates, Answered, Waiting, Idle
    <2>2. typestate = "New"
        BY <2>1 DEF MethodInv, RunsIn, OpeningCalls
    <2>3. typestate' = "New" /\ pending'.call \in {"probe_end", "init"} /\ answer' = NoAnswer
        BY <1>4, <2>2 DEF EndsProbe, Negotiates, Posts
    <2> QED BY <2>3 DEF TanInv, Waiting, Answered
<1>5. CASE Learns
    <2>1. CASE typestate' = "TanPending"
        <3>1. /\ Answered("init") /\ RequiresTan(answer) /\ challenge' = answer.hitan
              /\ pending' = NoRequest /\ UNCHANGED <<net, bank>>
              /\ dialog_id' = ExtractDialogId(dialog_id, answer)
            BY <1>5, <2>1 DEF Learns, Back
        <3>2. answer.hitan = "init" /\ IsWaiting(answer.id)
            BY <3>1 DEF TanInv
        <3>3. dialog_id' = answer.id
            BY <3>1, <3>2, DialogIdAssumption DEF ExtractDialogId, IsWaiting
        <3> QED BY <3>1, <3>2, <3>3 DEF TanInv, IsWaiting, Waiting, Answered
    <2>2. CASE typestate' # "TanPending"
        <3>1. pending' = NoRequest
            BY <1>5 DEF Learns, Back
        <3> QED BY <2>2, <3>1 DEF TanInv, Waiting, Answered
    <2> QED BY <2>1, <2>2
<1>6. CASE Confirms
    BY <1>6 DEF Confirms, Back, TanInv, Waiting, Answered
<1>7. CASE Stays
    <2>1. /\ typestate' = typestate /\ pending' = NoRequest
          /\ UNCHANGED <<dialog_id, net, bank>>
          /\ \/ typestate = "Open"
             \/ IsWaiting(dialog_id) /\ challenge' = challenge
        BY <1>7 DEF Stays, Back, TanInv
    <2> QED BY <2>1 DEF TanInv, IsWaiting, Waiting, Answered
<1> QED BY <1>1, <1>2, <1>3, <1>4, <1>5, <1>6, <1>7 DEF DialogMoves

LEMMA TanStep == TypeOK /\ MethodInv /\ NumberingInv /\ TanInv /\ [Next]_vars => TanInv'
<1>1. ASSUME TanInv, UNCHANGED vars
      PROVE  TanInv'
    BY <1>1 DEF vars, TanInv, Idle, Waiting, Answered, IsWaiting, RequiresTan,
                NeedsTanAnswer, HasTanChallenge, IsDecoupledPending, AllCodes
<1> QED BY <1>1, ClientShape, DialogKeepsTan, BankKeepsTan DEF Next

\* The inductive invariant of the TAN of the initialisation holds in every
\* reachable state (TanInv).
LEMMA TanHolds == Spec => []TanInv
<1>1. Init => TanInv
    BY TanInit
<1>2. TypeOK /\ MethodInv /\ NumberingInv /\ TanInv /\ [Next]_vars => TanInv'
    BY TanStep
<1> QED BY <1>1, <1>2, TypeCorrect, MethodsRunInTurn, NumberingHolds, PTL DEF Spec

\* A Dialog<TanPending> is never held for a dialog the bank no longer keeps
\* waiting for that TAN, whatever is lost, late or unreadable
\* (TanPendingInStep: what init and poll conclude from an answer).
THEOREM TanIsAwaitedOnBothSides == Spec => []TanPendingInStep
<1>1. TanInv => TanPendingInStep
    BY DEF TanInv, TanPendingInStep, IsWaiting
<1> QED BY <1>1, TanHolds, PTL

-----------------------------------------------------------------------------
(* The negotiation.                                                        *)

LEMMA NegotiationInit == Init => NegotiationInv
BY DEF Init, NegotiationInv, NegotiationIsSound, Waiting, Answered

\* A request that is no initialisation and no probe disturbs no negotiation;
\* an initialisation must fit the probes of its Dialog.
LEMMA PostKeepsSound ==
    ASSUME NegotiationIsSound, NEW call, NEW did, NEW num, NEW p, NEW sid,
           Posts(call, did, num, p, sid),
           call = "probe" => \A q \in sent : q.obj = serial => q.call # "init",
           call = "init" =>
              \A q \in sent : q.obj = serial /\ q.call = "probe" =>
                  p.selected # PinOnly /\ sid = q.sys /\ did = Unassigned
    PROVE  NegotiationIsSound'
BY DEF Posts, NegotiationIsSound

LEMMA DialogKeepsNegotiation ==
    ASSUME TypeOK, MethodInv, NegotiationInv, DialogMoves
    PROVE  NegotiationInv'
<1>1. CASE Begins
    <2>1. /\ serial' = serial + 1 /\ sent' = sent /\ pending' = NoRequest
        BY <1>1 DEF Begins, NewDialog, Idle
    <2>2. \A q \in sent : q.obj \in Nat /\ q.obj <= serial /\ serial \in Nat
        BY DEF TypeOK, Requests, MethodInv
    <2>3. \A q \in sent' : q.obj # serial'
        BY <2>1, <2>2
    <2> QED BY <2>1, <2>3 DEF NegotiationInv, NegotiationIsSound, Waiting, Answered
<1>2. CASE GivesUp
    BY <1>2 DEF GivesUp, Consumed, NegotiationInv, NegotiationIsSound, Waiting, Answered
<1>3. CASE Rests
    BY <1>3 DEF Rests, dialogVars, appVars, NegotiationInv, NegotiationIsSound, Idle, Waiting,
                Answered
<1>4. ASSUME NEW call \in Calls, Speaks(call)
      PROVE  NegotiationInv'
    <2>1. /\ UNCHANGED <<typestate, system_id, serial>> /\ Idle /\ typestate \in RunsIn(call)
          /\ Posts(call, dialog_id, message_number, params, system_id)
        BY <1>4 DEF Speaks, appVars
    <2>2. call \in {"probe", "probe_end", "init"} => typestate = "New"
        BY <2>1 DEF RunsIn, OpeningCalls
    <2>3. call \in {"probe", "probe_end", "init"} => \A q \in sent : q.obj # serial
        BY <2>1, <2>2 DEF NegotiationInv
    <2>4. NegotiationIsSound'
        BY <2>1, <2>3, PostKeepsSound DEF NegotiationInv
    <2>5. /\ pending'.call = call /\ pending'.sys = system_id /\ answer' = NoAnswer
          /\ pending' # NoRequest /\ sent' = sent \cup {pending'}
        BY <2>1 DEF Posts
    <2> QED BY <2>1, <2>3, <2>4, <2>5 DEF NegotiationInv, Idle, Waiting, Answered
<1>5. CASE EndsProbe
    <2>1. /\ Answered("probe") /\ Waiting("probe") /\ UNCHANGED <<typestate, serial>>
          /\ system_id' = IngestSystemId(system_id, answer)
          /\ Posts("probe_end", dialog_id', message_number, params', system_id')
        BY <1>5 DEF EndsProbe, Answered, appVars
    <2>2. system_id' = system_id
        BY <2>1 DEF NegotiationInv, IngestSystemId, LastOr
    <2>3. NegotiationIsSound'
        BY <2>1, PostKeepsSound DEF NegotiationInv
    <2> QED BY <2>1, <2>2, <2>3 DEF NegotiationInv, Posts, Idle, Waiting, Answered
<1>6. CASE Negotiates
    <2>1. /\ Waiting("probe") \/ Waiting("probe_end")
          /\ UNCHANGED <<typestate, serial>>
          /\ system_id' = system_id /\ ~NothingNegotiated(params')
          /\ Posts("init", Unassigned, FirstNumber, params', system_id')
        BY <1>6 DEF Negotiates, Answered, appVars, NegotiationInv, IngestSystemId, LastOr
    <2>2. params'.selected # PinOnly
        BY <2>1 DEF NothingNegotiated
    <2>3. NegotiationIsSound'
        BY <2>1, <2>2, PostKeepsSound DEF NegotiationInv
    <2> QED BY <2>1, <2>3 DEF NegotiationInv, Posts, Idle, Waiting, Answered
<1>7. CASE Learns \/ Confirms \/ Stays
    <2>1. pending' = NoRequest /\ sent' = sent
        BY <1>7 DEF Learns, Confirms, Stays, Back
    <2>2. typestate' # "New"
        <3>1. CASE Stays /\ typestate # "Open"
            BY <3>1 DEF Stays, Back, Answered, Waiting, MethodInv, Idle, RunsIn, OpeningCalls
        <3> QED BY <1>7, <3>1 DEF Learns, Confirms, Stays, Back
    <2> QED BY <2>1, <2>2 DEF NegotiationInv, NegotiationIsSound, Waiting, Answered
<1> QED BY <1>1, <1>2, <1>3, <1>4, <1>5, <1>6, <1>7 DEF DialogMoves

LEMMA BankKeepsNegotiation ==
    ASSUME TypeOK, MethodInv, NegotiationInv, BankStep
    PROVE  NegotiationInv'
<1>1. PICK q \in net, r \in Answers :
         Reply(q, r) /\ (IssuesId(q, r) \/ Refuses(q, r) \/ GoesOn(q, r))
    BY BankShape DEF BankMoves
<1>2. /\ UNCHANGED <<typestate, system_id, pending, serial, sent>>
      /\ q # pending => answer' = answer
      /\ q = pending => answer' = r \/ Blank(answer', r)
    BY <1>1, ReplyRead
<1>3. (Answered("probe") => answer.hisyn = <<>>)'
    BY <1>1, <1>2 DEF NegotiationInv, Answered, Waiting, IssuesId, Refuses, GoesOn, Blank
<1> QED BY <1>2, <1>3 DEF NegotiationInv, NegotiationIsSound, Idle, Waiting

LEMMA NegotiationStep ==
    TypeOK /\ MethodInv /\ NegotiationInv /\ [Next]_vars => NegotiationInv'
<1>1. ASSUME NegotiationInv, UNCHANGED vars
      PROVE  NegotiationInv'
    BY <1>1 DEF vars, NegotiationInv, NegotiationIsSound, Idle, Waiting, Answered
<1> QED BY <1>1, ClientShape, DialogKeepsNegotiation, BankKeepsNegotiation DEF Next

\* An initialisation that follows a probe is signed with a negotiated function
\* under the system id of the probe, and outside any dialog
\* (NegotiationIsSound: init_negotiate).
THEOREM NegotiationFitsItsProbe == Spec => []NegotiationIsSound
<1>1. Init => NegotiationInv
    BY NegotiationInit
<1>2. TypeOK /\ MethodInv /\ NegotiationInv /\ [Next]_vars => NegotiationInv'
    BY NegotiationStep
<1>3. NegotiationInv => NegotiationIsSound
    BY DEF NegotiationInv
<1> QED BY <1>1, <1>2, <1>3, TypeCorrect, MethodsRunInTurn, PTL DEF Spec

-----------------------------------------------------------------------------
(* The selected security function.                                         *)

\* A set of natural numbers up to n has a largest element.
LEMMA LargestExists ==
    ASSUME NEW n \in Nat, NEW T \in SUBSET (0..n), T # {}
    PROVE  \E i \in T : \A j \in T : j <= i
<1> DEFINE U    == {n - i : i \in T}
           Less == OpToRel(<, Nat)
<1>1. U \subseteq Nat /\ U # {}
    <2>1. \A i \in T : i \in 0..n /\ n - i \in Nat
        OBVIOUS
    <2>2. U \subseteq Nat
        BY <2>1
    <2>3. PICK i \in T : TRUE
        OBVIOUS
    <2>4. n - i \in U
        BY <2>3
    <2> QED BY <2>2, <2>4
<1>2. IsWellFoundedOn(Less, Nat)
    BY NatLessThanWellFounded
<1>3. \A x, y \in Nat : y < x => <<y, x>> \in Less
    BY DEF OpToRel
<1>4. PICK x \in U : \A y \in U : ~(<<y, x>> \in Less)
    <2> HIDE DEF U, Less
    <2> QED BY <1>1, <1>2, WFMin
<1>5. \A y \in U : x <= y
    <2> HIDE DEF U, Less
    <2>1. x \in Nat /\ \A y \in U : y \in Nat /\ ~(y < x)
        BY <1>1, <1>3, <1>4
    <2> QED BY <2>1
<1>6. PICK i \in T : x = n - i
    BY <1>4
<1>7. \A j \in T : n - i <= n - j
    BY <1>5, <1>6
<1> QED BY <1>6, <1>7

\* The bank lists a function other than the PIN alone.
Candidates(p) == {i \in 1..Len(p.allowed) : p.allowed[i] # PinOnly}

\* max_by_key finds a best candidate whenever there is a candidate.
LEMMA BestExists ==
    ASSUME NEW p \in BankParamsType
    PROVE  BestAllowed(p) # {} <=> Candidates(p) # {}
<1>1. BestAllowed(p) \subseteq Candidates(p)
    BY DEF BestAllowed, Candidates
<1>2. ASSUME Candidates(p) # {}
      PROVE  BestAllowed(p) # {}
    <2> DEFINE rank(i) == Rank(p, p.allowed[i])
               Ranked(k) == {i \in Candidates(p) : rank(i) = k}
    <2>1. \A i \in Candidates(p) : rank(i) \in 0..2
        BY DEF Rank
    <2>2. PICK k \in 0..2 : Ranked(k) # {} /\ \A i \in Candidates(p) : rank(i) <= k
        <3>1. CASE Ranked(2) # {}
            BY <2>1, <3>1
        <3>2. CASE Ranked(2) = {} /\ Ranked(1) # {}
            BY <2>1, <3>2
        <3>3. CASE Ranked(2) = {} /\ Ranked(1) = {}
            BY <1>2, <2>1, <3>3
        <3> QED BY <3>1, <3>2, <3>3
    <2>3. Len(p.allowed) \in Nat
        BY DEF BankParamsType
    <2>4. Ranked(k) \subseteq 0..Len(p.allowed)
        BY <2>3 DEF Candidates
    <2>5. PICK i \in Ranked(k) : \A j \in Ranked(k) : j <= i
        BY <2>2, <2>3, <2>4, LargestExists
    <2>6. \A j \in Candidates(p) : rank(j) < rank(i) \/ (rank(j) = rank(i) /\ j <= i)
        BY <2>1, <2>2, <2>5
    <2>7. i \in BestAllowed(p)
        BY <2>5, <2>6 DEF BestAllowed, Candidates
    <2> QED BY <2>7
<1> QED BY <1>1, <1>2

\* What select_security_function leaves is an allowed function.
LEMMA SelectedIsBest ==
    ASSUME NEW p \in BankParamsType
    PROVE  SelectedIsAllowed(SelectSecurityFunction(p))
<1>1. CASE PreferenceAllowed(p)
    <2>1. PICK i \in 1..Len(p.allowed) : p.allowed[i] = p.preferred
        BY <1>1 DEF PreferenceAllowed
    <2>2. PICK s : s = SelectSecurityFunction(p)
        OBVIOUS
    <2>3. s.allowed = p.allowed /\ s.selected = p.preferred
        BY <1>1, <2>2 DEF SelectSecurityFunction, BankParamsType
    <2> QED BY <2>1, <2>2, <2>3 DEF SelectedIsAllowed
<1>2. CASE ~PreferenceAllowed(p) /\ BestAllowed(p) = {}
    BY <1>2 DEF SelectSecurityFunction, SelectedIsAllowed
<1>3. CASE ~PreferenceAllowed(p) /\ BestAllowed(p) # {}
    <2>1. PICK i : i = CHOOSE j \in BestAllowed(p) : TRUE
        OBVIOUS
    <2>2. i \in 1..Len(p.allowed)
        BY <1>3, <2>1 DEF BestAllowed
    <2>3. PICK s : s = SelectSecurityFunction(p)
        OBVIOUS
    <2>4. s.allowed = p.allowed /\ s.selected = p.allowed[i]
        BY <1>3, <2>1, <2>3 DEF SelectSecurityFunction, BankParamsType
    <2> QED BY <2>2, <2>3, <2>4 DEF SelectedIsAllowed
<1> QED BY <1>1, <1>2, <1>3

\* New TAN methods may change the ranking, but not that the selected function
\* is allowed.
LEMMA SelectionSurvives ==
    ASSUME NEW p \in BankParamsType, NEW s \in BankParamsType,
           s.allowed = p.allowed, s.selected = p.selected, SelectedIsAllowed(p)
    PROVE  SelectedIsAllowed(s)
<1>1. Candidates(s) = Candidates(p)
    BY DEF Candidates
<1> QED BY <1>1, BestExists DEF SelectedIsAllowed

\* What init and init_negotiate make of an answer.
LEMMA NegotiatedIsAllowed ==
    ASSUME NEW p \in BankParamsType, NEW r \in Answers, SelectedIsAllowed(p)
    PROVE  SelectedIsAllowed(IngestAndNegotiate(p, r))
<1>1. PICK s : s = IngestResponse(p, r)
    OBVIOUS
<1>2. s \in BankParamsType
    BY <1>1, AnswerIsWellFormed, IngestResponseType
<1>3. CASE r.allowed = <<>>
    <2>1. s.allowed = p.allowed /\ s.selected = p.selected
        BY <1>1, <1>3 DEF IngestResponse, BankParamsType
    <2> QED BY <1>1, <1>2, <1>3, <2>1, SelectionSurvives DEF IngestAndNegotiate
<1>4. CASE r.allowed # <<>>
    BY <1>1, <1>2, <1>4, SelectedIsBest DEF IngestAndNegotiate
<1> QED BY <1>3, <1>4

LEMMA SelectionInit == Init => SelectionInv
<1>1. Candidates(NewParams) = {}
    BY DEF Candidates, NewParams
<1>2. SelectedIsAllowed(NewParams)
    BY <1>1, NewParamsType, BestExists DEF SelectedIsAllowed
<1> QED BY <1>2 DEF Init, SelectionInv, Waiting

LEMMA DialogKeepsSelection ==
    ASSUME TypeOK, MethodInv, SelectionInv, DialogMoves
    PROVE  SelectionInv'
<1>0. params \in BankParamsType /\ stored.params \in BankParamsType
    BY DEF TypeOK
<1>1. CASE Begins
    <2>1. PICK sid \in Sids, p \in {NewParams, stored.params}, preferred \in Preferences :
            NewDialog(sid, p, preferred)
        BY <1>1 DEF Begins
    <2>2. p \in BankParamsType /\ SelectedIsAllowed(p)
        <3>1. Candidates(NewParams) = {}
            BY DEF Candidates, NewParams
        <3> QED BY <1>0, <3>1, NewParamsType, BestExists DEF SelectionInv, SelectedIsAllowed
    <2>3. PICK s : s = [p EXCEPT !.preferred = preferred]
        OBVIOUS
    <2>4. s \in BankParamsType /\ s.allowed = p.allowed /\ s.selected = p.selected
        BY <2>2, <2>3, AllowedAssumption DEF BankParamsType
    <2>5. SelectedIsAllowed(s)
        BY <2>2, <2>4, SelectionSurvives
    <2>6. params' = s /\ pending' = NoRequest /\ stored' = stored
        BY <2>1, <2>3 DEF NewDialog, Idle
    <2> QED BY <2>5, <2>6 DEF SelectionInv, Waiting
<1>2. CASE GivesUp
    BY <1>2 DEF GivesUp, Consumed, SelectionInv, Waiting
<1>3. CASE Rests
    BY <1>3 DEF Rests, dialogVars, appVars, SelectionInv, Waiting
<1>4. ASSUME NEW call \in Calls, Speaks(call)
      PROVE  SelectionInv'
    BY <1>4 DEF Speaks, Posts, appVars, SelectionInv, Waiting
<1>5. CASE EndsProbe \/ Negotiates
    <2>1. ~Idle /\ pending.call \in {"probe", "probe_end"}
        BY <1>5 DEF EndsProbe, Negotiates, Answered, Waiting, Idle
    <2>2. typestate = "New" /\ SelectedIsAllowed(params)
        BY <2>1 DEF MethodInv, RunsIn, OpeningCalls, SelectionInv
    <2>3. params' = params \/ (answer \in Answers /\ params' = IngestAndNegotiate(params, answer))
        BY <1>5 DEF EndsProbe, Negotiates, Answered, TypeOK
    <2>4. SelectedIsAllowed(params')
        BY <1>0, <2>2, <2>3, NegotiatedIsAllowed
    <2>5. /\ UNCHANGED stored
          /\ pending'.call = "init" => pending'.fn = params'.selected
        BY <1>5 DEF EndsProbe, Negotiates, Posts, appVars
    <2> QED BY <2>4, <2>5 DEF SelectionInv, Waiting
<1>6. CASE Learns
    <2>1. pending' = NoRequest /\ stored' = stored
        BY <1>6 DEF Learns, Back
    <2>2. CASE typestate' = "Synced"
        <3>1. answer # NoAnswer
              /\ params' = SelectSecurityFunction(IngestResponse(params, answer))
            BY <1>6, <2>2 DEF Learns, Back, Answered
        <3>2. IngestResponse(params, answer) \in BankParamsType
            BY <3>1, LearnType
        <3> QED BY <2>1, <3>1, <3>2, SelectedIsBest DEF SelectionInv, Waiting
    <2>3. CASE typestate' # "Synced"
        <3>1. typestate' \in {"TanPending", "Open"}
            BY <1>6, <2>3 DEF Learns, Back
        <3> QED BY <2>1, <3>1 DEF SelectionInv, Waiting
    <2> QED BY <2>2, <2>3
<1>7. CASE Confirms \/ Stays
    BY <1>7 DEF Confirms, Stays, Back, SelectionInv, Waiting
<1> QED BY <1>1, <1>2, <1>3, <1>4, <1>5, <1>6, <1>7 DEF DialogMoves

LEMMA SelectionStep ==
    TypeOK /\ MethodInv /\ SelectionInv /\ [Next]_vars => SelectionInv'
<1>1. ASSUME SelectionInv, BankStep, TypeOK
      PROVE  SelectionInv'
    <2>1. PICK q \in net, r \in Answers : Reply(q, r)
        BY <1>1, BankShape DEF BankMoves
    <2> QED BY <1>1, <2>1, ReplyRead DEF SelectionInv, Waiting
<1>2. ASSUME SelectionInv, UNCHANGED vars
      PROVE  SelectionInv'
    BY <1>2 DEF vars, SelectionInv, Waiting
<1> QED BY <1>1, <1>2, ClientShape, DialogKeepsSelection DEF Next

\* An initialisation is signed with a function of the last list the bank sent,
\* although later answers change how the functions rank
\* (SignedAsAllowed: select_security_function).
THEOREM DialogsAreSignedAsAllowed == Spec => []SignedAsAllowed
<1>1. Init => SelectionInv
    BY SelectionInit
<1>2. TypeOK /\ MethodInv /\ SelectionInv /\ [Next]_vars => SelectionInv'
    BY SelectionStep
<1>3. MethodInv /\ SelectionInv => SignedAsAllowed
    <2> SUFFICES ASSUME MethodInv, SelectionInv, Waiting("init")
                 PROVE  SelectedIsAllowed(params) /\ pending.fn = params.selected
        BY DEF SignedAsAllowed, SelectedIsAllowed
    <2>1. typestate = "New"
        BY DEF Waiting, MethodInv, RunsIn, OpeningCalls, Idle
    <2> QED BY <2>1 DEF SelectionInv
<1> QED BY <1>1, <1>2, <1>3, TypeCorrect, MethodsRunInTurn, PTL DEF Spec

-----------------------------------------------------------------------------
(* The parameters of the bank in the caches.                               *)

\* Caches that agree in what they have of the bank's parameters.
SameBpd(p, s) ==
    /\ s.bpd_version = p.bpd_version /\ s.tan_methods = p.tan_methods
    /\ s.operation_tan_required = p.operation_tan_required
    /\ s.bpd_segments = p.bpd_segments

\* select_security_function changes the selected function alone.
LEMMA SelectionKeepsBpd ==
    ASSUME NEW p \in BankParamsType
    PROVE  SameBpd(p, SelectSecurityFunction(p))
BY DEF SelectSecurityFunction, SameBpd, BankParamsType

LEMMA SameIsWhole ==
    ASSUME NEW p, NEW s, SameBpd(p, s), BpdIsWhole(p)
    PROVE  BpdIsWhole(s)
BY DEF SameBpd, BpdIsWhole

LEMMA AppendedToNothing ==
    ASSUME NEW S, NEW s \in Seq(S)
    PROVE  <<>> \o s = s
<1>1. <<>> \in Seq(S)
    OBVIOUS
<1>2. PICK t : t = <<>> \o s
    OBVIOUS
<1>3. t \in Seq(S) /\ Len(t) = Len(s) /\ \A i \in 1..Len(s) : t[i] = s[i]
    BY <1>1, <1>2
<1> QED BY <1>2, <1>3

\* HashMap::extend with nothing, and of nothing.
LEMMA ExtendedByNothing ==
    ASSUME NEW rules \in PinRules
    PROVE  Extend(rules, NoRules) = rules /\ Extend(NoRules, rules) = rules
<1>1. \A op \in BusinessOrders : Extend(rules, NoRules)[op] = rules[op]
    BY DEF Extend, NoRules
<1>2. \A op \in BusinessOrders : Extend(NoRules, rules)[op] = rules[op]
    BY DEF Extend, NoRules, PinRules
<1> QED BY <1>1, <1>2 DEF Extend, PinRules

\* ingest_response adds the parameters to nothing, or nothing to them.
LEMMA IngestLearnsOnce ==
    ASSUME NEW p \in BankParamsType, NEW r \in Answers, BpdIsWhole(p),
           BringsNoBpd(r) \/ (p.bpd_version # Bpd.version /\ BringsBpd(r))
    PROVE  BpdIsWhole(IngestResponse(p, r))
<1>1. PICK s : s = IngestResponse(p, r)
    OBVIOUS
<1>2. /\ s.bpd_version = LastOr(r.hibpa, p.bpd_version)
      /\ s.tan_methods = p.tan_methods \o r.hitans
      /\ s.operation_tan_required = Extend(p.operation_tan_required, r.hipins)
      /\ s.bpd_segments = p.bpd_segments \cup r.params
    BY <1>1 DEF IngestResponse, BankParamsType
<1>3. /\ p.tan_methods \in Seq(TanMethods) /\ p.operation_tan_required \in PinRules
      /\ Bpd.methods \in Seq(TanMethods) /\ Bpd.pins \in PinRules
    BY BankDataAssumption DEF BankParamsType
<1>4. CASE BringsNoBpd(r)
    <2>1. LastOr(r.hibpa, p.bpd_version) = p.bpd_version
        BY <1>4 DEF LastOr, BringsNoBpd
    <2>2. p.tan_methods \o r.hitans = p.tan_methods
        BY <1>3, <1>4 DEF BringsNoBpd
    <2>3. Extend(p.operation_tan_required, r.hipins) = p.operation_tan_required
        BY <1>3, <1>4, ExtendedByNothing DEF BringsNoBpd
    <2>4. p.bpd_segments \cup r.params = p.bpd_segments
        BY <1>4 DEF BringsNoBpd
    <2> QED BY <1>1, <1>2, <2>1, <2>2, <2>3, <2>4 DEF BpdIsWhole
<1>5. CASE p.bpd_version # Bpd.version /\ BringsBpd(r)
    <2>1. LastOr(r.hibpa, p.bpd_version) = Bpd.version
        BY <1>5 DEF LastOr, BringsBpd
    <2>2. p.tan_methods \o r.hitans = Bpd.methods
        BY <1>3, <1>5, AppendedToNothing DEF BringsBpd, BpdIsWhole
    <2>3. Extend(p.operation_tan_required, r.hipins) = Bpd.pins
        BY <1>3, <1>5, ExtendedByNothing DEF BringsBpd, BpdIsWhole
    <2>4. p.bpd_segments \cup r.params = Bpd.params
        BY <1>5 DEF BringsBpd, BpdIsWhole
    <2> QED BY <1>1, <1>2, <2>1, <2>2, <2>3, <2>4 DEF BpdIsWhole
<1> QED BY <1>4, <1>5

LEMMA EveryIngestLearnsOnce ==
    ASSUME NEW p \in BankParamsType, NEW r \in Answers, BpdIsWhole(p),
           BringsNoBpd(r) \/ (p.bpd_version # Bpd.version /\ BringsBpd(r))
    PROVE  /\ BpdIsWhole(SelectSecurityFunction(IngestResponse(p, r)))
           /\ BpdIsWhole(IngestAndNegotiate(p, r))
<1>1. PICK s : s = IngestResponse(p, r)
    OBVIOUS
<1>2. s \in BankParamsType /\ BpdIsWhole(s)
    BY <1>1, AnswerIsWellFormed, IngestResponseType, IngestLearnsOnce
<1>3. BpdIsWhole(SelectSecurityFunction(s))
    BY <1>2, SelectionKeepsBpd, SameIsWhole
<1> QED BY <1>1, <1>2, <1>3 DEF IngestAndNegotiate

LEMMA NewCachesAreWhole ==
    ASSUME Bpd.version # 0
    PROVE  BpdIsWhole(NewParams)
BY DEF BpdIsWhole, NewParams

LEMMA DialogKeepsLearning ==
    ASSUME Bpd.version # 0, TypeOK, LearningInv, DialogMoves
    PROVE  LearningInv'
<1>0. /\ params \in BankParamsType /\ BpdIsWhole(params)
      /\ stored.params \in BankParamsType /\ BpdIsWhole(stored.params)
    BY DEF TypeOK, LearningInv, LearnedOnce
<1>1. CASE Begins
    <2>1. PICK sid \in Sids, p \in {NewParams, stored.params}, preferred \in Preferences :
            NewDialog(sid, p, preferred)
        BY <1>1 DEF Begins
    <2>2. p \in BankParamsType /\ BpdIsWhole(p)
        BY <1>0, NewParamsType, NewCachesAreWhole
    <2>3. params' = [p EXCEPT !.preferred = preferred] /\ pending' = NoRequest /\ stored' = stored
        BY <2>1 DEF NewDialog, Idle
    <2>4. SameBpd(p, params')
        BY <2>2, <2>3 DEF SameBpd, BankParamsType
    <2> QED BY <1>0, <2>2, <2>3, <2>4, SameIsWhole DEF LearningInv, LearnedOnce, Idle
<1>2. CASE GivesUp
    BY <1>0, <1>2, NewCachesAreWhole
    DEF GivesUp, Consumed, LearningInv, LearnedOnce, Idle, BpdIsWhole
<1>3. CASE Rests
    BY <1>3 DEF Rests, dialogVars, appVars, LearningInv, LearnedOnce, BpdIsWhole, Idle
<1>4. ASSUME NEW call \in Calls, Speaks(call)
      PROVE  LearningInv'
    BY <1>4 DEF Speaks, Posts, appVars, LearningInv, LearnedOnce, BpdIsWhole, Idle
<1>5. ASSUME ~Idle, answer # NoAnswer
      PROVE  /\ answer \in Answers /\ BpdIsWhole(IngestResponse(params, answer))
             /\ BpdIsWhole(IngestAndNegotiate(params, answer))
             /\ BpdIsWhole(SelectSecurityFunction(IngestResponse(params, answer)))
    <2>1. /\ answer \in Answers
          /\ BringsNoBpd(answer) \/ (params.bpd_version # Bpd.version /\ BringsBpd(answer))
        BY <1>5 DEF TypeOK, LearningInv
    <2> QED BY <1>0, <2>1, IngestLearnsOnce, EveryIngestLearnsOnce
<1>6. CASE EndsProbe \/ Negotiates
    <2>1. \/ params' = params
          \/ /\ ~Idle /\ answer # NoAnswer
             /\ params' = IngestAndNegotiate(params, answer)
        BY <1>6 DEF EndsProbe, Negotiates, Answered, Waiting, Idle
    <2>2. BpdIsWhole(params)'
        BY <1>0, <1>5, <2>1 DEF BpdIsWhole
    <2>3. stored' = stored /\ answer' = NoAnswer /\ pending'.bpd = params'.bpd_version
        BY <1>6 DEF EndsProbe, Negotiates, Posts, appVars
    <2> QED BY <1>0, <2>2, <2>3 DEF LearningInv, LearnedOnce, BpdIsWhole
<1>7. CASE Learns \/ Confirms
    <2>1. ~Idle /\ answer # NoAnswer /\ pending' = NoRequest /\ stored' = stored
        BY <1>7 DEF Learns, Confirms, Back, Answered
    <2>2. \/ params' = IngestResponse(params, answer)
          \/ params' = IngestAndNegotiate(params, answer)
          \/ params' = SelectSecurityFunction(IngestResponse(params, answer))
        BY <1>7 DEF Learns, Confirms
    <2>3. BpdIsWhole(params)'
        BY <1>5, <2>1, <2>2 DEF BpdIsWhole
    <2> QED BY <1>0, <2>1, <2>3 DEF LearningInv, LearnedOnce, BpdIsWhole, Idle
<1>8. CASE Stays
    BY <1>8 DEF Stays, Back, LearningInv, LearnedOnce, BpdIsWhole, Idle
<1> QED BY <1>1, <1>2, <1>3, <1>4, <1>6, <1>7, <1>8 DEF DialogMoves

LEMMA BankKeepsLearning ==
    ASSUME TypeOK, LearningInv, BankStep
    PROVE  LearningInv'
<1>1. PICK q \in net, r \in Answers :
         Reply(q, r) /\ (IssuesId(q, r) \/ Refuses(q, r) \/ GoesOn(q, r))
    BY BankShape DEF BankMoves
<1>2. /\ UNCHANGED <<params, pending, stored>>
      /\ q # pending => answer' = answer
      /\ q = pending => ~Idle /\ (answer' = r \/ Blank(answer', r))
    BY <1>1, ReplyRead
<1>3. TellsBpd(q, r)
    BY <1>1 DEF IssuesId, Refuses, GoesOn
<1>4. q = pending => TellsBpd(pending, answer')
    BY <1>2, <1>3 DEF Blank, TellsBpd
<1>5. LearnedOnce'
    BY <1>2 DEF LearningInv, LearnedOnce, BpdIsWhole
<1> QED BY <1>2, <1>4, <1>5 DEF LearningInv, TellsBpd, Idle

LEMMA LearningStep ==
    ASSUME Bpd.version # 0
    PROVE  TypeOK /\ LearningInv /\ MethodInv /\ [Next]_vars => LearningInv'
<1>1. ASSUME LearningInv, UNCHANGED vars
      PROVE  LearningInv'
    BY <1>1 DEF vars, LearningInv, LearnedOnce, BpdIsWhole, Idle
<1> QED BY <1>1, ClientShape, DialogKeepsLearning, BankKeepsLearning DEF Next

\* The bank's parameters are in the caches whole and once, or not at all,
\* however many dialogs share the caches and whichever answers are lost or
\* unreadable: at every bank that numbers its parameters from 1, because 0 is
\* what a client without any announces (LearnedOnce: HKVVB, ingest_response).
THEOREM ListsAreLearnedOnce ==
    ASSUME Bpd.version # 0
    PROVE  Spec => []LearnedOnce
<1>1. Init => LearningInv
    BY NewCachesAreWhole DEF Init, LearningInv, LearnedOnce, Idle
<1>2. TypeOK /\ MethodInv /\ LearningInv /\ [Next]_vars => LearningInv'
    BY LearningStep
<1>3. LearningInv => LearnedOnce
    BY DEF LearningInv
<1> QED BY <1>1, <1>2, <1>3, TypeCorrect, MethodsRunInTurn, PTL DEF Spec

-----------------------------------------------------------------------------
(* Admission.                                                              *)

\* A request keeps the invariant when an order is sent in an admitted dialog
\* only and the Dialog is not Open with another id.
LEMMA SendKeepsAdmission ==
    ASSUME AdmissionInv,
           NEW call, NEW page, NEW did, NEW num, NEW hktan, NEW task, NEW p, NEW sid,
           Send(call, page, did, num, hktan, task, p, sid),
           dialog_id' = did, typestate' = typestate, bank' = bank,
           typestate = "Open" => did = dialog_id,
           call \in KeepsDialog => typestate = "Open",
           call \in OpeningCalls \cup {"probe_end"} => typestate = "New"
    PROVE  AdmissionInv'
<1> DEFINE new == pending'
<1>1. /\ sent' = sent \cup {new} /\ new.did = did /\ new.call = call
      /\ answer' = NoAnswer
    BY DEF Send
<1>2. \A d : Admitted(d)' = Admitted(d)
    BY DEF Admitted
<1>3. OpenOnlyIfAdmitted'
    BY <1>1, <1>2 DEF AdmissionInv, OpenOnlyIfAdmitted, KeepsDialog
<1> QED BY <1>1, <1>3 DEF AdmissionInv, Idle

LEMMA ConsumedKeepsAdmission ==
    ASSUME AdmissionInv, NEW result, Consumed(result), UNCHANGED <<bank, sent>>
    PROVE  AdmissionInv'
BY DEF AdmissionInv, Consumed, Idle, OpenOnlyIfAdmitted, Admitted

\* A method returns an Open Dialog only for an admitted dialog id.
LEMMA ReturnKeepsAdmission ==
    ASSUME AdmissionInv, NEW state, NEW result, Return(state, result),
           UNCHANGED <<bank, sent>>, state = "Open" => Admitted(dialog_id')
    PROVE  AdmissionInv'
BY DEF AdmissionInv, Return, Idle, OpenOnlyIfAdmitted, Admitted

\* An answer keeps the invariant when the bank takes no admission back and
\* supports what the client may conclude from it.
LEMMA ReplyKeepsAdmission ==
    ASSUME TypeOK, AdmissionInv, ~UnreadableAnswers,
           NEW q \in net, NEW r \in Answers, Reply(q, r),
           \A d \in DialogIds : bank[d].auth => bank'[d].auth,
           \A d \in DialogIds : bank'[d].phase \in {"pin", "open"} => bank'[d].auth,
           Supports(q, r)'
    PROVE  AdmissionInv'
<1>1. UNCHANGED <<typestate, dialog_id, pending, sent>>
    BY DEF Reply, dialogVars
<1>2. \A d : Admitted(d) => Admitted(d)'
    BY DEF Admitted
<1>3. OpenOnlyIfAdmitted'
    BY <1>1, <1>2 DEF AdmissionInv, OpenOnlyIfAdmitted
<1>4. (~Idle /\ answer # NoAnswer => Supports(pending, answer))'
    <2>1. CASE q # pending
        <3>1. answer' = answer
            BY <2>1 DEF Reply
        <3> QED BY <1>1, <1>2, <3>1 DEF AdmissionInv, Supports, Idle, HasErrors, RequiresTan,
                    IsDecoupledPending, NeedsTanAnswer, HasTanChallenge, AllCodes
    <2>2. CASE q = pending
        <3>1. answer' = r /\ pending' = q
            BY <1>1, <2>2, UnreadableAssumption DEF Reply, Readings
        <3> QED BY <3>1 DEF Supports
    <2> QED BY <2>1, <2>2
<1> QED BY <1>1, <1>3, <1>4 DEF AdmissionInv, Idle

-----------------------------------------------------------------------------
(* The client.                                                             *)

LEMMA SendFromKeepsAdmission ==
    ASSUME AdmissionInv, NEW state, NEW call, NEW page, NEW hktan, NEW task,
           SendFrom(state, call, page, hktan, task),
           call \in KeepsDialog => state = "Open",
           call \in OpeningCalls \cup {"probe_end"} => state = "New"
    PROVE  AdmissionInv'
<1>1. /\ Send(call, page, dialog_id, message_number, hktan, task, params, system_id)
      /\ typestate = state
      /\ UNCHANGED <<typestate, dialog_id, bank>>
    BY DEF SendFrom
<1> QED BY <1>1, SendKeepsAdmission

LEMMA CallsKeepAdmission ==
    ASSUME AdmissionInv,
           \/ SyncCall \/ InitCall \/ InitNoTanCall \/ ProbeCall
           \/ SyncedEndCall \/ EndCall \/ PollCall \/ SubmitTanCall
           \/ PollDecoupledTanCall
    PROVE  AdmissionInv'
<1>1. /\ {"sync", "init", "init_no_tan", "probe", "synced_end", "end", "poll",
          "submit_tan"} \cap KeepsDialog = {}
      /\ {"synced_end", "end", "poll", "submit_tan", "poll_decoupled_tan"}
             \cap (OpeningCalls \cup {"probe_end"}) = {}
    BY OperationAssumption DEF KeepsDialog, BusinessOrders, OpeningCalls
<1>2. CASE SyncCall
    BY <1>1, <1>2, SendFromKeepsAdmission DEF SyncCall
<1>3. CASE InitCall
    BY <1>1, <1>3, SendFromKeepsAdmission DEF InitCall
<1>4. CASE InitNoTanCall
    BY <1>1, <1>4, SendFromKeepsAdmission DEF InitNoTanCall
<1>5. CASE ProbeCall
    BY <1>1, <1>5, SendFromKeepsAdmission DEF ProbeCall
<1>6. CASE SyncedEndCall
    BY <1>1, <1>6, SendFromKeepsAdmission DEF SyncedEndCall
<1>7. CASE EndCall
    BY <1>1, <1>7, SendFromKeepsAdmission DEF EndCall
<1>8. CASE PollCall
    BY <1>1, <1>8, SendFromKeepsAdmission DEF PollCall
<1>9. CASE SubmitTanCall
    BY <1>1, <1>9, SendFromKeepsAdmission DEF SubmitTanCall
<1>10. CASE PollDecoupledTanCall
    BY <1>1, <1>10, SendFromKeepsAdmission DEF PollDecoupledTanCall
<1> QED BY <1>2, <1>3, <1>4, <1>5, <1>6, <1>7, <1>8, <1>9, <1>10

LEMMA OrdersKeepAdmission ==
    ASSUME AdmissionInv, NEW op \in Operations, NEW page,
           OrderCall(op, page) \/ OrderNotBuilt(op) \/ OrderReturn(op)
    PROVE  AdmissionInv'
<1>1. CASE OrderCall(op, page)
    <2>1. op \in KeepsDialog /\ op \notin OpeningCalls \cup {"probe_end"}
        BY OperationAssumption DEF KeepsDialog, BusinessOrders, OpeningCalls
    <2> QED BY <1>1, <2>1, SendFromKeepsAdmission DEF OrderCall
<1>2. CASE OrderNotBuilt(op)
    BY <1>2 DEF OrderNotBuilt, dialogVars, AdmissionInv, Idle, OpenOnlyIfAdmitted,
                Admitted, Supports, RequiresTan, HasErrors, IsDecoupledPending, AllCodes,
                NeedsTanAnswer, HasTanChallenge
<1>3. CASE OrderReturn(op)
    <2>1. Admitted(dialog_id) /\ dialog_id' = dialog_id /\ bank' = bank
        BY <1>3 DEF OrderReturn, Answered, Waiting, Idle, AdmissionInv, KeepsDialog,
                    OpenOnlyIfAdmitted
    <2> QED BY <1>3, <2>1, ReturnKeepsAdmission DEF OrderReturn, Admitted
<1> QED BY <1>1, <1>2, <1>3

LEMMA ReturnsKeepAdmission ==
    ASSUME TypeOK, AdmissionInv,
           \/ SyncReturn \/ InitReturn \/ InitNoTanReturn \/ PollReturn
           \/ SubmitTanReturn \/ PollDecoupledTanReturn
    PROVE  AdmissionInv'
<1>1. /\ ~Idle /\ answer # NoAnswer /\ UNCHANGED <<bank, sent>>
      /\ Supports(pending, answer) /\ pending.did = dialog_id
    BY DEF SyncReturn, InitReturn, InitNoTanReturn, PollReturn, SubmitTanReturn,
           PollDecoupledTanReturn, Answered, Waiting, Idle, AdmissionInv
<1>2. \A d : Admitted(d)' = Admitted(d)
    BY <1>1 DEF Admitted
<1>3. Admitted(answer.id) => ExtractDialogId(dialog_id, answer) = answer.id
    BY DialogIdAssumption DEF Admitted, ExtractDialogId
<1>4. CASE Consumed("err")
    BY <1>1, <1>4, ConsumedKeepsAdmission
<1>5. CASE SyncReturn /\ ~Consumed("err")
    BY <1>1, <1>5, ReturnKeepsAdmission DEF SyncReturn
<1>6. CASE InitReturn /\ ~Consumed("err")
    <2>1. CASE RequiresTan(answer)
        BY <1>1, <1>6, <2>1, ReturnKeepsAdmission DEF InitReturn
    <2>2. CASE ~RequiresTan(answer)
        <3>1. ~HasErrors(answer) /\ pending.call = "init"
            BY <1>6, <2>2 DEF InitReturn, Answered, Waiting
        <3>2. Admitted(answer.id)
            BY <1>1, <2>2, <3>1 DEF Supports
        <3>3. Return("Open", "opened") /\ dialog_id' = answer.id
            BY <1>3, <1>6, <2>2, <3>1, <3>2 DEF InitReturn, Learn
        <3> QED BY <1>1, <1>2, <3>2, <3>3, ReturnKeepsAdmission
    <2> QED BY <2>1, <2>2
<1>7. CASE InitNoTanReturn /\ ~Consumed("err")
    <2>1. ~HasErrors(answer) /\ pending.call = "init_no_tan"
        BY <1>7 DEF InitNoTanReturn, Answered, Waiting
    <2>2. Admitted(answer.id)
        BY <1>1, <2>1 DEF Supports
    <2>3. Return("Open", "opened") /\ dialog_id' = answer.id
        BY <1>3, <1>7, <2>1, <2>2 DEF InitNoTanReturn, Learn
    <2> QED BY <1>1, <1>2, <2>2, <2>3, ReturnKeepsAdmission
<1>8. CASE PollReturn /\ ~Consumed("err")
    <2>1. CASE IsDecoupledPending(answer)
        BY <1>1, <1>8, <2>1, ReturnKeepsAdmission DEF PollReturn
    <2>2. CASE ~IsDecoupledPending(answer)
        <3>1. ~HasErrors(answer) /\ pending.call = "poll"
            BY <1>8, <2>2 DEF PollReturn, Answered, Waiting
        <3>2. Admitted(dialog_id)
            BY <1>1, <2>2, <3>1 DEF Supports
        <3>3. Return("Open", "confirmed") /\ dialog_id' = dialog_id
            BY <1>8, <2>2, <3>1 DEF PollReturn, Ingest
        <3> QED BY <1>1, <1>2, <3>2, <3>3, ReturnKeepsAdmission
    <2> QED BY <2>1, <2>2
<1>9. CASE SubmitTanReturn /\ ~Consumed("err")
    <2>1. ~HasErrors(answer) /\ pending.call = "submit_tan"
        BY <1>9 DEF SubmitTanReturn, Answered, Waiting
    <2>2. Admitted(dialog_id)
        BY <1>1, <2>1 DEF Supports
    <2>3. Return("Open", "confirmed") /\ dialog_id' = dialog_id
        BY <1>9, <2>1 DEF SubmitTanReturn, Ingest
    <2> QED BY <1>1, <1>2, <2>2, <2>3, ReturnKeepsAdmission
<1>10. CASE PollDecoupledTanReturn
    <2>1. Admitted(dialog_id)
        BY <1>10 DEF PollDecoupledTanReturn, Answered, Waiting, Idle, AdmissionInv,
                     KeepsDialog, OpenOnlyIfAdmitted
    <2>2. PICK result : Return("Open", result)
        BY <1>10 DEF PollDecoupledTanReturn
    <2>3. dialog_id' = dialog_id
        BY <1>10 DEF PollDecoupledTanReturn, Ingest
    <2> QED BY <1>1, <1>2, <2>1, <2>2, <2>3, ReturnKeepsAdmission
<1> QED BY <1>4, <1>5, <1>6, <1>7, <1>8, <1>9, <1>10

LEMMA NegotiatedInitKeepsAdmission ==
    ASSUME AdmissionInv, NEW p, NEW sid, NegotiatedInit(p, sid), UNCHANGED bank,
           typestate = "New"
    PROVE  AdmissionInv'
<1>1. CASE NothingNegotiated(p)
    BY <1>1, ConsumedKeepsAdmission DEF NegotiatedInit
<1>2. CASE ~NothingNegotiated(p)
    <2>1. /\ Send("init", FALSE, Unassigned, FirstNumber, TRUE, NoTask, p, sid)
          /\ dialog_id' = Unassigned /\ typestate' = typestate
        BY <1>2 DEF NegotiatedInit
    <2>2. "init" \notin KeepsDialog
        BY OperationAssumption DEF KeepsDialog, BusinessOrders
    <2> QED BY <2>1, <2>2, SendKeepsAdmission
<1> QED BY <1>1, <1>2

LEMMA ProbesKeepAdmission ==
    ASSUME AdmissionInv, ProbeReturn \/ ProbeEndReturn
    PROVE  AdmissionInv'
<1>1. typestate = "New"
    BY DEF ProbeReturn, ProbeEndReturn, Answered, Waiting, Idle, AdmissionInv, OpeningCalls
<1>2. CASE ProbeEndReturn
    BY <1>1, <1>2, NegotiatedInitKeepsAdmission DEF ProbeEndReturn
<1>3. CASE ProbeReturn
    <2> DEFINE id  == ExtractDialogId(dialog_id, answer)
               sid == IngestSystemId(system_id, answer)
               p   == IngestAndNegotiate(params, answer)
    <2>1. CASE id = Unassigned
        <3>1. NegotiatedInit(p, sid) /\ UNCHANGED bank
            BY <1>3, <2>1 DEF ProbeReturn
        <3> QED BY <1>1, <3>1, NegotiatedInitKeepsAdmission
    <2>2. CASE id # Unassigned
        <3>1. /\ dialog_id' = id /\ UNCHANGED <<typestate, bank>>
              /\ Send("probe_end", FALSE, id, message_number, FALSE, NoTask, p, sid)
            BY <1>3, <2>2 DEF ProbeReturn
        <3>2. "probe_end" \notin KeepsDialog
            BY OperationAssumption DEF KeepsDialog, BusinessOrders
        <3> QED BY <1>1, <3>1, <3>2, SendKeepsAdmission
    <2> QED BY <2>1, <2>2
<1> QED BY <1>2, <1>3

LEMMA EndsKeepAdmission ==
    ASSUME AdmissionInv,
           \/ DropDialog \/ SyncedEndReturn \/ SyncedEndSilently
           \/ EndReturn \/ EndSilently
    PROVE  AdmissionInv'
<1>1. PICK result : Consumed(result)
    BY DEF DropDialog, SyncedEndReturn, SyncedEndSilently, KeepSyncResult, EndReturn,
           EndSilently
<1>2. UNCHANGED <<bank, sent>>
    BY DEF DropDialog, SyncedEndReturn, SyncedEndSilently, KeepSyncResult, EndReturn,
           EndSilently
<1> QED BY <1>1, <1>2, ConsumedKeepsAdmission

LEMMA SendFailsKeepsAdmission ==
    ASSUME AdmissionInv, SendFails
    PROVE  AdmissionInv'
<1>1. ~Idle
    BY DEF SendFails
<1>2. CASE /\ pending.call \in KeepsDialog /\ Return(typestate, "err")
           /\ UNCHANGED <<dialog_id, bank, sent>>
    BY <1>1, <1>2, ReturnKeepsAdmission DEF AdmissionInv, OpenOnlyIfAdmitted, Admitted
<1>3. CASE pending.call = "probe_end" /\ NegotiatedInit(params, system_id) /\ UNCHANGED bank
    BY <1>1, <1>3, NegotiatedInitKeepsAdmission DEF AdmissionInv
<1>4. CASE (\E result : Consumed(result)) /\ UNCHANGED <<bank, sent>>
    BY <1>4, ConsumedKeepsAdmission
<1> QED BY <1>2, <1>3, <1>4 DEF SendFails, KeepSyncResult

LEMMA NewDialogKeepsAdmission ==
    ASSUME AdmissionInv, NEW sid, NEW p, NEW preferred, NewDialog(sid, p, preferred)
    PROVE  AdmissionInv'
BY DEF NewDialog, AdmissionInv, Idle, OpenOnlyIfAdmitted, Admitted

-----------------------------------------------------------------------------
(* The bank.                                                               *)

\* No step of the bank takes an admission back, and every dialog that serves
\* orders was admitted.
AdmissionsKept ==
    /\ \A d \in DialogIds : bank[d].auth => bank'[d].auth
    /\ \A d \in DialogIds : bank'[d].phase \in {"pin", "open"} => bank'[d].auth

LEMMA EntersKeepsAdmissions ==
    ASSUME TypeOK, AdmissionInv, NEW d \in DialogIds,
           NEW phase \in {"sync", "pin", "tan", "open", "ended"}, Enters(d, phase)
    PROVE  /\ AdmissionsKept
           /\ phase \in {"pin", "open"} => bank'[d].auth
BY DEF Enters, TypeOK, BankDialogs, AdmissionInv, AdmissionsKept

LEMMA AnswerCodes ==
    ASSUME NEW q, NEW id, NEW codes, NEW allowed
    PROVE  /\ PlainAnswer(id, codes).codes = codes
           /\ OpeningAnswer(q, id, codes, allowed).codes = codes
           /\ OpeningAnswer(q, id, codes, allowed).id = id
BY DEF PlainAnswer, OpeningAnswer

LEMMA BankOpensKeepsAdmission ==
    ASSUME TypeOK, AdmissionInv, ~UnreadableAnswers,
           NEW q \in net, NEW d \in DialogIds, NEW allowed \in AllowedLists,
           \/ BankSyncs(q, d, allowed) \/ BankAdmitsPin(q, d, allowed)
           \/ BankExempts(q, d, allowed) \/ BankAsksTan(q, d, allowed)
    PROVE  AdmissionInv'
<1>1. q \in Requests /\ d \in Ids
    BY DEF TypeOK, Ids
<1>2. {"0020"} \in SUBSET Codes /\ {"0030"} \in SUBSET Codes /\ {"3955"} \in SUBSET Codes
      /\ {"0020", "3076"} \in SUBSET Codes /\ "init" \in Tasks
    BY DEF Codes, Tasks
<1>3. CASE BankSyncs(q, d, allowed)
    <2>1. PICK r \in Answers : Reply(q, r)
        BY <1>1, <1>2, <1>3, OpeningAnswerType, SyncAnswerType DEF BankSyncs
    <2>2. AdmissionsKept /\ q.call = "sync"
        BY <1>3, EntersKeepsAdmissions DEF BankSyncs, CanOpen
    <2> QED BY <2>1, <2>2, ReplyKeepsAdmission DEF Supports, AdmissionsKept
<1>4. CASE BankAdmitsPin(q, d, allowed) \/ BankExempts(q, d, allowed)
    <2>1. AdmissionsKept /\ bank'[d].auth /\ q.call \in {"probe", "init_no_tan", "init"}
        BY <1>4, EntersKeepsAdmissions DEF BankAdmitsPin, BankExempts, CanOpen
    <2>2. PICK r \in Answers : Reply(q, r) /\ r.id = d
        BY <1>1, <1>2, <1>4, OpeningAnswerType, AnswerCodes DEF BankAdmitsPin, BankExempts
    <2> QED BY <2>1, <2>2, ReplyKeepsAdmission DEF Supports, Admitted, AdmissionsKept
<1>5. CASE BankAsksTan(q, d, allowed)
    <2>0. PICK c \in {"0030", "3955"} :
            Reply(q, [OpeningAnswer(q, d, {c}, allowed) EXCEPT !.hitan = "init"])
        BY <1>5 DEF BankAsksTan
    <2>1. PICK r0 : r0 = OpeningAnswer(q, d, {c}, allowed) /\ Reply(q, [r0 EXCEPT !.hitan = "init"])
        BY <2>0
    <2>2. r0 \in Answers /\ r0.codes = {c}
        BY <1>1, <1>2, <2>1, OpeningAnswerType, AnswerCodes
    <2>3. PICK r \in Answers : Reply(q, r) /\ r.codes = {c} /\ r.hitan = "init"
        <3>1. [r0 EXCEPT !.hitan = "init"] \in Answers
            BY <1>2, <2>2, ChallengeAnswerType
        <3> QED BY <2>1, <2>2, <3>1 DEF Answers
    <2>4. RequiresTan(r)
        BY <2>3 DEF RequiresTan, NeedsTanAnswer, HasTanChallenge, AllCodes, NoTask
    <2>5. AdmissionsKept /\ q.call = "init"
        BY <1>5, EntersKeepsAdmissions DEF BankAsksTan, CanOpen
    <2> QED BY <2>3, <2>4, <2>5, ReplyKeepsAdmission DEF Supports, AdmissionsKept
<1> QED BY <1>3, <1>4, <1>5

LEMMA BankRefusesKeepsAdmission ==
    ASSUME TypeOK, AdmissionInv, ~UnreadableAnswers,
           NEW q \in net, NEW allowed \in AllowedLists, BankRefuses(q, allowed)
    PROVE  AdmissionInv'
<1>1. q \in Requests /\ Unassigned \in Ids /\ {"9110"} \in SUBSET Codes
    BY DEF TypeOK, Ids, Codes
<1>2. PICK r \in Answers : Reply(q, r) /\ r.codes = {"9110"}
    BY <1>1, OpeningAnswerType, AnswerCodes DEF BankRefuses
<1>3. HasErrors(r)
    BY <1>2 DEF HasErrors, AllCodes, ErrorCodes
<1>4. AdmissionsKept
    BY DEF BankRefuses, AdmissionInv, AdmissionsKept
<1> QED BY <1>2, <1>3, <1>4, ReplyKeepsAdmission DEF Supports, AdmissionsKept

LEMMA BankAnswersKeepAdmission ==
    ASSUME TypeOK, AdmissionInv, ~UnreadableAnswers, PendingCodes \subseteq {"3956"},
           NEW q \in net,
           \/ BankRejects(q) \/ BankEnds(q) \/ BankStillWaits(q) \/ BankConfirms(q)
           \/ BankServes(q) \/ BankChallenges(q)
    PROVE  AdmissionInv'
<1>1. q.did \in DialogIds /\ q.did \in Ids
    BY DEF TypeOK, Requests, Ids, BankRejects, BankEnds, BankStillWaits, BankConfirms,
           WantsTan, BankServes, BankChallenges
<1>2. /\ \A c \in Codes : {c} \in SUBSET Codes
      /\ "9010" \in Codes /\ "9800" \in Codes /\ "0100" \in Codes /\ "0020" \in Codes
      /\ "0030" \in Codes /\ "3955" \in Codes /\ PendingCodes \subseteq Codes
      /\ {"0020", "3040"} \in SUBSET Codes /\ {"0030", "3076"} \in SUBSET Codes
      /\ "order" \in Tasks
    BY PendingAssumption DEF Codes, Tasks
<1>3. \A op \in Operations : op \notin {"init", "init_no_tan", "poll", "submit_tan"}
    BY OperationAssumption DEF BusinessOrders
<1>4. CASE BankRejects(q)
    <2>1. AdmissionsKept
        <3>1. CASE UNCHANGED bank
            BY <3>1 DEF AdmissionInv, AdmissionsKept
        <3>2. CASE Enters(q.did, "ended")
            BY <1>1, <3>2, EntersKeepsAdmissions
        <3> QED BY <1>4, <3>1, <3>2 DEF BankRejects
    <2>2. PICK c \in {"9010", "9800"} : Reply(q, PlainAnswer(q.did, {c}))
        BY <1>4 DEF BankRejects
    <2>3. PICK r \in Answers : Reply(q, r) /\ r.codes = {c}
        <3>1. PICK r0 : r0 = PlainAnswer(q.did, {c})
            OBVIOUS
        <3>2. r0 \in Answers /\ r0.codes = {c}
            BY <1>1, <1>2, <3>1, PlainAnswerType DEF PlainAnswer
        <3> QED BY <2>2, <3>1, <3>2
    <2>4. HasErrors(r)
        BY <2>3 DEF HasErrors, AllCodes, ErrorCodes
    <2> QED BY <2>1, <2>3, <2>4, ReplyKeepsAdmission DEF Supports, AdmissionsKept
<1>5. CASE BankEnds(q)
    <2>1. AdmissionsKept /\ q.call \in EndCalls
        BY <1>1, <1>5, EntersKeepsAdmissions DEF BankEnds
    <2>2. PICK r \in Answers : Reply(q, r)
        BY <1>1, <1>2, <1>5, PlainAnswerType DEF BankEnds
    <2> QED BY <2>1, <2>2, ReplyKeepsAdmission DEF Supports, EndCalls, AdmissionsKept
<1>6. CASE BankStillWaits(q)
    <2>1. AdmissionsKept /\ q.call \in TanCalls /\ q.call # "submit_tan"
        BY <1>6 DEF BankStillWaits, WantsTan, AdmissionInv, AdmissionsKept
    <2>2. PICK r \in Answers : Reply(q, r) /\ r.codes = {"3956"}
        <3>1. Reply(q, PlainAnswer(q.did, {"3956"}))
            BY <1>6 DEF BankStillWaits
        <3>2. {"3956"} \in SUBSET Codes
            BY DEF Codes
        <3>3. PICK r0 : r0 = PlainAnswer(q.did, {"3956"})
            OBVIOUS
        <3>4. r0 \in Answers /\ r0.codes = {"3956"}
            BY <1>1, <3>2, <3>3, PlainAnswerType DEF PlainAnswer
        <3> QED BY <3>1, <3>3, <3>4
    <2>3. IsDecoupledPending(r)
        BY <2>2 DEF IsDecoupledPending, AllCodes
    <2> QED BY <2>1, <2>2, <2>3, ReplyKeepsAdmission DEF Supports, TanCalls, AdmissionsKept
<1>7. CASE BankConfirms(q)
    <2>1. AdmissionsKept /\ bank'[q.did].auth
        <3>1. CASE q.task = "init"
            BY <1>1, <1>7, <3>1, EntersKeepsAdmissions DEF BankConfirms
        <3>2. CASE q.task # "init"
            <4>1. bank[q.did].phase = "open" /\ bank' = [bank EXCEPT ![q.did].order = "released"]
                BY <1>7, <3>2 DEF BankConfirms, WantsTan
            <4> QED BY <1>1, <4>1 DEF TypeOK, BankDialogs, AdmissionInv, AdmissionsKept
        <3> QED BY <3>1, <3>2
    <2>2. PICK r \in Answers : Reply(q, r)
        BY <1>1, <1>2, <1>7, PlainAnswerType DEF BankConfirms
    <2>3. Admitted(q.did)' /\ q.call \in TanCalls
        BY <1>1, <1>7, <2>1 DEF Admitted, BankConfirms, WantsTan
    <2> QED BY <2>1, <2>2, <2>3, ReplyKeepsAdmission DEF Supports, TanCalls, AdmissionsKept
<1>8. CASE BankServes(q)
    <2>1. AdmissionsKept /\ q.call \in Operations
        BY <1>1, <1>8 DEF BankServes, TypeOK, BankDialogs, AdmissionInv, AdmissionsKept
    <2>2. PICK r \in Answers : Reply(q, r)
        BY <1>1, <1>2, <1>8, PlainAnswerType, ChallengeAnswerType DEF BankServes
    <2> QED BY <1>3, <2>1, <2>2, ReplyKeepsAdmission DEF Supports, AdmissionsKept
<1>9. CASE BankChallenges(q)
    <2>1. AdmissionsKept /\ q.call \in Operations
        BY <1>1, <1>9 DEF BankChallenges, TypeOK, BankDialogs, AdmissionInv, AdmissionsKept
    <2>2. PICK r \in Answers : Reply(q, r)
        BY <1>1, <1>2, <1>9, PlainAnswerType, ChallengeAnswerType DEF BankChallenges
    <2> QED BY <1>3, <2>1, <2>2, ReplyKeepsAdmission DEF Supports, AdmissionsKept
<1> QED BY <1>4, <1>5, <1>6, <1>7, <1>8, <1>9

-----------------------------------------------------------------------------
(* Theorems.                                                               *)

LEMMA AdmissionInit == Init => AdmissionInv
BY DEF Init, AdmissionInv, Idle, OpenOnlyIfAdmitted

LEMMA AdmissionStep ==
    ASSUME ~UnreadableAnswers, PendingCodes \subseteq {"3956"},
           TypeOK, AdmissionInv, [Next]_vars
    PROVE  AdmissionInv'
<1>1. CASE ClientStep
    <2>1. ASSUME NEW sid, NEW p, NEW preferred, NewDialog(sid, p, preferred)
          PROVE  AdmissionInv'
        BY <2>1, NewDialogKeepsAdmission
    <2>2. ASSUME NEW op \in Operations,
                 OrderCall(op, FALSE) \/ OrderCall(op, TRUE) \/ OrderNotBuilt(op)
                 \/ OrderReturn(op)
          PROVE  AdmissionInv'
        BY <2>2, OrdersKeepAdmission
    <2>3. CASE \/ SyncCall \/ InitCall \/ InitNoTanCall \/ ProbeCall
               \/ SyncedEndCall \/ EndCall \/ PollCall \/ SubmitTanCall
               \/ PollDecoupledTanCall
        BY <2>3, CallsKeepAdmission
    <2>4. CASE \/ SyncReturn \/ InitReturn \/ InitNoTanReturn \/ PollReturn
               \/ SubmitTanReturn \/ PollDecoupledTanReturn
        BY <2>4, ReturnsKeepAdmission
    <2>5. CASE ProbeReturn \/ ProbeEndReturn
        BY <2>5, ProbesKeepAdmission
    <2>6. CASE \/ DropDialog \/ SyncedEndReturn \/ SyncedEndSilently
               \/ EndReturn \/ EndSilently
        BY <2>6, EndsKeepAdmission
    <2> QED BY <1>1, <2>1, <2>2, <2>3, <2>4, <2>5, <2>6 DEF ClientStep
<1>2. CASE SendFails
    BY <1>2, SendFailsKeepsAdmission
<1>3. CASE BankStep
    <2>1. ASSUME NEW q \in net, NEW d \in DialogIds, NEW allowed \in AllowedLists,
                 \/ BankSyncs(q, d, allowed) \/ BankAdmitsPin(q, d, allowed)
                 \/ BankExempts(q, d, allowed) \/ BankAsksTan(q, d, allowed)
          PROVE  AdmissionInv'
        BY <2>1, BankOpensKeepsAdmission
    <2>2. ASSUME NEW q \in net, NEW allowed \in AllowedLists, BankRefuses(q, allowed)
          PROVE  AdmissionInv'
        BY <2>2, BankRefusesKeepsAdmission
    <2>3. ASSUME NEW q \in net,
                 \/ BankRejects(q) \/ BankEnds(q) \/ BankStillWaits(q)
                 \/ BankConfirms(q) \/ BankServes(q) \/ BankChallenges(q)
          PROVE  AdmissionInv'
        BY <2>3, BankAnswersKeepAdmission
    <2> QED BY <1>3, <2>1, <2>2, <2>3 DEF BankStep
<1>4. CASE UNCHANGED vars
    BY <1>4 DEF vars, AdmissionInv, Idle, OpenOnlyIfAdmitted, Admitted, Supports,
                RequiresTan, HasErrors, IsDecoupledPending, AllCodes, NeedsTanAnswer,
                HasTanChallenge
<1> QED BY <1>1, <1>2, <1>3, <1>4 DEF Next

\* The inductive invariant holds in every reachable state (AdmissionInv), for
\* a bank that says 3956 until a TAN is confirmed and answers that keep their
\* segments.
THEOREM AdmissionHolds ==
    ASSUME ~UnreadableAnswers, PendingCodes \subseteq {"3956"}
    PROVE  Spec => []AdmissionInv
<1>1. Init => AdmissionInv
    BY AdmissionInit
<1>2. TypeOK /\ AdmissionInv /\ [Next]_vars => AdmissionInv'
    BY AdmissionStep
<1> QED BY <1>1, <1>2, TypeCorrect, PTL DEF Spec

\* Under the same two assumptions a Dialog is Open, and sends orders, only in
\* a dialog the bank admitted (OpenOnlyIfAdmitted: what init, init_no_tan, poll
\* and submit_tan conclude from an answer).
THEOREM OpenMeansAdmitted ==
    ASSUME ~UnreadableAnswers, PendingCodes \subseteq {"3956"}
    PROVE  Spec => []OpenOnlyIfAdmitted
<1>1. AdmissionInv => OpenOnlyIfAdmitted
    BY DEF AdmissionInv
<1> QED BY <1>1, AdmissionHolds, PTL
=============================================================================
