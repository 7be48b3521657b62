--------------------------- MODULE MockServerProofs --------------------------
(***************************************************************************)
(* Theorems about MockServer, for any number of clients, messages and      *)
(* restarts: no dialog and no system id ever belongs to two clients, and   *)
(* the server's count of a dialog agrees with its client's.                *)
(***************************************************************************)
EXTENDS MockServer, TLAPS, FiniteSetTheorems

-----------------------------------------------------------------------------
(* Types.                                                                  *)

\* What the steps of a client do to requests, answers and its own state.
LEMMA SendTypes ==
    ASSUME MockTypeOK, NEW c \in Clients, NEW kind \in {"open", "order", "end"},
           NEW dialog \in Ids \cup {Unassigned}, NEW number \in Nat,
           NEW sync \in BOOLEAN, NEW pin \in BOOLEAN, NEW steady \in BOOLEAN,
           Send(c, kind, dialog, number, sync, pin, steady)
    PROVE  MockTypeOK'
<1>1. client[c].serial + 1 \in Nat /\ number + 1 \in Nat
    BY DEF MockTypeOK, ClientStates
<1>2. requests' \subseteq Requests
    BY <1>1 DEF Send, MockTypeOK, Requests
<1>3. client' \in [Clients -> ClientStates]
    <2>1. client[c] \in ClientStates /\ client \in [Clients -> ClientStates]
        BY DEF MockTypeOK
    <2>2. [client[c] EXCEPT !.dialog = dialog, !.number = number + 1,
                            !.serial = client[c].serial + 1,
                            !.waiting = client[c].serial + 1,
                            !.kind = kind, !.steady = steady] \in ClientStates
        BY <1>1, <2>1 DEF ClientStates
    <2> QED BY <2>1, <2>2 DEF Send
<1>4. UNCHANGED <<epoch, dialogs, dialog_counter, system_counter, systems, answers>>
    BY DEF Send, serverVars
<1> QED BY <1>2, <1>3, <1>4 DEF MockTypeOK

LEMMA ReceiveTypes ==
    ASSUME MockTypeOK, NEW c \in Clients, Receive(c)
    PROVE  MockTypeOK'
<1>1. PICK a \in answers :
          /\ answers' = answers \ {a}
          /\ client' = [client EXCEPT ![c] =
                [@ EXCEPT !.waiting = 0,
                          !.dialog = DialogAfter(c, a),
                          !.system = IF a.system = None THEN client[c].system ELSE a.system]]
          /\ UNCHANGED <<serverVars, requests>>
    BY DEF Receive
<1>2. client[c] \in ClientStates /\ a \in Answers
    BY DEF MockTypeOK
<1>3. DialogAfter(c, a) \in Ids \cup {Unassigned}
    BY <1>2 DEF DialogAfter, ClientStates, Answers
<1>4. client' \in [Clients -> ClientStates]
    BY <1>1, <1>2, <1>3 DEF MockTypeOK, ClientStates, Answers
<1> QED BY <1>1, <1>4 DEF MockTypeOK, serverVars

LEMMA HandleTypes ==
    ASSUME MockTypeOK, NEW r \in requests, Handle(r)
    PROVE  MockTypeOK'
<1> DEFINE isNew == DialogNamed(r) = Unassigned
           d == IF isNew THEN NewDialogId ELSE DialogNamed(r)
<1>1. r \in Requests /\ client[r.client] \in ClientStates
    BY DEF MockTypeOK, Requests
<1>2. d \in Ids
    BY <1>1 DEF DialogNamed, NewDialogId, Ids, Requests, MockTypeOK
<1>3. CountOf(d) + 1 \in Nat
    BY DEF CountOf, MockTypeOK
<1>4. DOMAIN dialogs' \subseteq Ids /\ \A e \in DOMAIN dialogs' : dialogs'[e] \in Nat
    BY <1>2, <1>3 DEF Handle, Counted, MockTypeOK
<1>5. NewSystemId \in Ids
    BY DEF NewSystemId, Ids, MockTypeOK
<1>6. AnswersWith(r, d) \subseteq Answers
    BY <1>1, <1>2, <1>3, <1>5 DEF AnswersWith, AnswerNumber, Answers, Requests, MockTypeOK
<1>7. dialog_counter' \in Nat /\ system_counter' \in Nat
    BY DEF Handle, MockTypeOK
<1>8. systems' \subseteq Ids
    BY <1>5 DEF Handle, MockTypeOK
<1>9. answers' \subseteq Answers /\ requests' \subseteq Requests
    BY <1>6 DEF Handle, MockTypeOK
<1>10. epoch' = epoch /\ client' = client
    BY DEF Handle
<1> QED BY <1>4, <1>7, <1>8, <1>9, <1>10 DEF MockTypeOK

\* The counters, ids, requests and answers of the server and what the clients
\* know are what they are meant to be.
THEOREM MockTypeCorrect == Spec => []MockTypeOK
<1>1. Init => MockTypeOK
    BY DEF Init, MockTypeOK, ClientStates
<1>2. MockTypeOK /\ [Next]_mockVars => MockTypeOK'
    <2> SUFFICES ASSUME MockTypeOK, [Next]_mockVars PROVE MockTypeOK'
        OBVIOUS
    <2>1. CASE UNCHANGED mockVars
        BY <2>1 DEF mockVars, serverVars, MockTypeOK
    <2>2. ASSUME NEW c \in Clients, OpenDialog(c) PROVE MockTypeOK'
        <3>1. PICK o \in Openings : Send(c, "open", Unassigned, 1, o[1], o[2], TRUE)
            BY <2>2 DEF OpenDialog
        <3>2. o[1] \in BOOLEAN /\ o[2] \in BOOLEAN
            BY OpeningsAssumption
        <3> QED BY <3>1, <3>2, SendTypes
    <2>3. ASSUME NEW c \in Clients, SendOrder(c) \/ SendEnd(c) PROVE MockTypeOK'
        <3>1. client[c] \in ClientStates
            BY DEF MockTypeOK
        <3>2. /\ client[c].dialog \in Ids \cup {Unassigned}
              /\ client[c].number \in Nat /\ client[c].steady \in BOOLEAN
            BY <3>1 DEF ClientStates
        <3>3. CASE SendOrder(c)
            BY <3>2, <3>3, SendTypes DEF SendOrder
        <3>4. CASE SendEnd(c)
            BY <3>2, <3>4, SendTypes DEF SendEnd
        <3> QED BY <2>3, <3>3, <3>4
    <2>4. ASSUME NEW c \in Clients, GiveUp(c) PROVE MockTypeOK'
        <3>1. client' \in [Clients -> ClientStates]
            <4>1. client[c] \in ClientStates /\ client[c].dialog \in Ids \cup {Unassigned}
                BY DEF MockTypeOK, ClientStates
            <4>2. DEFINE left == IF client[c].kind = "order" THEN client[c].dialog
                                 ELSE Unassigned
            <4>3. left \in Ids \cup {Unassigned}
                BY <4>1
            <4> HIDE DEF left
            <4>4. [client[c] EXCEPT !.waiting = 0, !.dialog = left, !.steady = FALSE]
                     \in ClientStates
                BY <4>1, <4>3 DEF ClientStates
            <4>5. client' = [client EXCEPT ![c] =
                                [client[c] EXCEPT !.waiting = 0, !.dialog = left,
                                                  !.steady = FALSE]]
                BY <2>4 DEF GiveUp, MockTypeOK, left
            <4> QED BY <4>4, <4>5 DEF MockTypeOK
        <3> QED BY <2>4, <3>1 DEF GiveUp, MockTypeOK, serverVars
    <2>5. ASSUME NEW r \in requests, Drop(r) PROVE MockTypeOK'
        BY <2>5 DEF Drop, MockTypeOK, serverVars
    <2>6. CASE Restart
        <3>1. client' \in [Clients -> ClientStates]
            BY <2>6 DEF Restart, MockTypeOK, ClientStates
        <3> QED BY <2>6, <3>1 DEF Restart, MockTypeOK
    <2> QED BY <2>1, <2>2, <2>3, <2>4, <2>5, <2>6, ReceiveTypes, HandleTypes DEF Next
<1> QED BY <1>1, <1>2, PTL DEF Spec

-----------------------------------------------------------------------------
(* Dialogs.  A client holds a dialog that it is in, that a request of it   *)
(* names, or that an answer brings.                                        *)

HeldDialogs(c) ==
    ({client[c].dialog}
        \cup {r.dialog : r \in {x \in requests : x.client = c}}
        \cup {a.dialog : a \in {x \in answers : x.client = c}}) \ {Unassigned}

\* An id has been given out: by an earlier server, or up to the counter.
IsIssued(id, counter) == id[1] < epoch \/ (id[1] = epoch /\ id[2] <= counter)

DialogsInv ==
    \A c \in Clients : \A d \in HeldDialogs(c) :
        /\ IsIssued(d, dialog_counter)
        /\ \A e \in Clients : d \in HeldDialogs(e) => c = e

\* A step that brings no new dialog to a client keeps the invariant.
LEMMA NothingNew ==
    ASSUME DialogsInv,
           \A c \in Clients : HeldDialogs(c)' \subseteq HeldDialogs(c),
           \A c \in Clients : \A d \in HeldDialogs(c) :
              IsIssued(d, dialog_counter) => IsIssued(d, dialog_counter)'
    PROVE  DialogsInv'
BY DEF DialogsInv

LEMMA SendKeepsDialogs ==
    ASSUME MockTypeOK, DialogsInv, NEW c \in Clients,
           NEW kind, NEW number, NEW sync, NEW pin, NEW steady,
           Send(c, kind, client[c].dialog, number, sync, pin, steady)
    PROVE  DialogsInv'
<1>1. ASSUME NEW e \in Clients PROVE HeldDialogs(e)' \subseteq HeldDialogs(e)
    <2>1. client'[e].dialog = client[e].dialog
        BY DEF Send, MockTypeOK, ClientStates
    <2>2. \A r \in requests' : r \in requests \/ (r.client = c /\ r.dialog = client[c].dialog)
        BY DEF Send
    <2>3. answers' = answers
        BY DEF Send
    <2> QED BY <2>1, <2>2, <2>3 DEF HeldDialogs
<1>2. epoch' = epoch /\ dialog_counter' = dialog_counter
    BY DEF Send, serverVars
<1> QED BY <1>1, <1>2, NothingNew DEF IsIssued

LEMMA ReceiveKeepsDialogs ==
    ASSUME MockTypeOK, DialogsInv, NEW c \in Clients, Receive(c)
    PROVE  DialogsInv'
<1>1. PICK a \in answers :
          /\ a.client = c
          /\ answers' = answers \ {a}
          /\ client' = [client EXCEPT ![c] =
                [@ EXCEPT !.waiting = 0,
                          !.dialog = DialogAfter(c, a),
                          !.system = IF a.system = None THEN client[c].system ELSE a.system]]
          /\ UNCHANGED <<serverVars, requests>>
    BY DEF Receive
<1>2. DialogAfter(c, a) \in {a.dialog, client[c].dialog, Unassigned}
    BY DEF DialogAfter, MockTypeOK, ClientStates
<1>3. ASSUME NEW e \in Clients PROVE HeldDialogs(e)' \subseteq HeldDialogs(e)
    <2>1. CASE e = c
        <3>1. client'[c].dialog = DialogAfter(c, a)
            BY <1>1 DEF MockTypeOK, ClientStates
        <3> QED BY <1>1, <1>2, <2>1, <3>1 DEF HeldDialogs
    <2>2. CASE e # c
        <3>1. client'[e] = client[e]
            BY <1>1, <2>2 DEF MockTypeOK
        <3> QED BY <1>1, <3>1 DEF HeldDialogs
    <2> QED BY <2>1, <2>2
<1>4. epoch' = epoch /\ dialog_counter' = dialog_counter
    BY <1>1 DEF serverVars
<1> QED BY <1>3, <1>4, NothingNew DEF IsIssued

LEMMA GiveUpKeepsDialogs ==
    ASSUME MockTypeOK, DialogsInv, NEW c \in Clients, GiveUp(c)
    PROVE  DialogsInv'
<1>1. ASSUME NEW e \in Clients PROVE HeldDialogs(e)' \subseteq HeldDialogs(e)
    <2>1. client'[e].dialog \in {client[e].dialog, Unassigned}
        BY DEF GiveUp, MockTypeOK, ClientStates
    <2>2. answers' \subseteq answers /\ requests' = requests
        BY DEF GiveUp
    <2> QED BY <2>1, <2>2 DEF HeldDialogs
<1>2. epoch' = epoch /\ dialog_counter' = dialog_counter
    BY DEF GiveUp, serverVars
<1> QED BY <1>1, <1>2, NothingNew DEF IsIssued

\* A handled request brings its dialog to its client: the one it named, which
\* the client held, or one that no server has given out.
LEMMA HandleKeepsDialogs ==
    ASSUME MockTypeOK, DialogsInv, NEW r \in requests, Handle(r)
    PROVE  DialogsInv'
<1> DEFINE isNew == DialogNamed(r) = Unassigned
<1>1. PICK d : d = IF isNew THEN NewDialogId ELSE DialogNamed(r)
    OBVIOUS
<1>2. /\ requests' = requests \ {r}
      /\ answers' = AnswersWith(r, d)
      /\ dialog_counter' = IF isNew THEN dialog_counter + 1 ELSE dialog_counter
      /\ epoch' = epoch /\ client' = client
    BY <1>1 DEF Handle
<1>3. r.client \in Clients
    BY DEF MockTypeOK, Requests
<1>4. \A a \in answers' : a \in answers \/ (a.client = r.client /\ a.dialog = d)
    BY <1>2 DEF AnswersWith
<1>5. ASSUME NEW e \in Clients
      PROVE  HeldDialogs(e)' \subseteq
                HeldDialogs(e) \cup (IF e = r.client THEN {d} ELSE {})
    BY <1>2, <1>4 DEF HeldDialogs
<1>6. CASE isNew
    <2>1. \A e \in Clients : d \notin HeldDialogs(e)
        <3>1. ~IsIssued(d, dialog_counter)
            BY <1>1, <1>6 DEF IsIssued, NewDialogId, MockTypeOK
        <3> QED BY <3>1 DEF DialogsInv
    <2>2. IsIssued(d, dialog_counter)'
        BY <1>1, <1>2, <1>6 DEF IsIssued, NewDialogId, MockTypeOK
    <2>3. \A e \in Clients : \A x \in HeldDialogs(e) : IsIssued(x, dialog_counter)'
        BY <1>2, <1>6 DEF DialogsInv, IsIssued, MockTypeOK, HeldDialogs, Ids,
                          ClientStates, Requests, Answers
    <2> QED BY <1>3, <1>5, <2>1, <2>2, <2>3 DEF DialogsInv
<1>7. CASE ~isNew
    <2>1. d \in HeldDialogs(r.client)
        BY <1>1, <1>3, <1>7 DEF HeldDialogs, DialogNamed
    <2>2. \A e \in Clients : HeldDialogs(e)' \subseteq HeldDialogs(e)
        BY <1>5, <2>1
    <2> QED BY <1>2, <1>7, <2>2, NothingNew DEF IsIssued
<1> QED BY <1>6, <1>7

LEMMA RestartKeepsDialogs ==
    ASSUME MockTypeOK, DialogsInv, Restart
    PROVE  DialogsInv'
<1>1. ASSUME NEW e \in Clients PROVE HeldDialogs(e)' \subseteq HeldDialogs(e)
    <2>1. client'[e].dialog = client[e].dialog
        BY DEF Restart, MockTypeOK, ClientStates
    <2> QED BY <2>1 DEF Restart, HeldDialogs
<1>2. \A e \in Clients : \A d \in HeldDialogs(e) :
          IsIssued(d, dialog_counter) => IsIssued(d, dialog_counter)'
    BY DEF Restart, IsIssued, MockTypeOK, HeldDialogs, Ids, ClientStates, Requests, Answers
<1> QED BY <1>1, <1>2, NothingNew

LEMMA DialogsHold == Spec => []DialogsInv
<1>1. Init => DialogsInv
    BY DEF Init, DialogsInv, HeldDialogs
<1>2. MockTypeOK /\ DialogsInv /\ [Next]_mockVars => DialogsInv'
    <2> SUFFICES ASSUME MockTypeOK, DialogsInv, [Next]_mockVars PROVE DialogsInv'
        OBVIOUS
    <2>1. CASE UNCHANGED mockVars
        BY <2>1 DEF mockVars, serverVars, DialogsInv, HeldDialogs, IsIssued
    <2>2. ASSUME NEW c \in Clients, OpenDialog(c) PROVE DialogsInv'
        <3>1. PICK o \in Openings :
                  Send(c, "open", client[c].dialog, 1, o[1], o[2], TRUE)
            BY <2>2 DEF OpenDialog
        <3> QED BY <3>1, SendKeepsDialogs
    <2>3. ASSUME NEW c \in Clients, SendOrder(c) \/ SendEnd(c) PROVE DialogsInv'
        BY <2>3, SendKeepsDialogs DEF SendOrder, SendEnd
    <2>4. ASSUME NEW r \in requests, Drop(r) PROVE DialogsInv'
        <3>1. \A c \in Clients : HeldDialogs(c)' \subseteq HeldDialogs(c)
            BY <2>4 DEF Drop, HeldDialogs
        <3> QED BY <2>4, <3>1, NothingNew DEF Drop, serverVars, IsIssued
    <2> QED BY <2>1, <2>2, <2>3, <2>4, ReceiveKeepsDialogs, GiveUpKeepsDialogs,
               HandleKeepsDialogs, RestartKeepsDialogs DEF Next
<1> QED BY <1>1, <1>2, MockTypeCorrect, PTL DEF Spec

\* No dialog is ever shared: the ids are told apart by prefix and counter, the
\* counter is read and written behind one lock, and a dialog that is not known
\* is only created under the name its client was given before.
THEOREM DialogsAreNotShared == Spec => []NoSharedDialog
<1>1. DialogsInv => NoSharedDialog
    BY DEF DialogsInv, NoSharedDialog, HeldDialogs
<1> QED BY <1>1, DialogsHold, PTL

-----------------------------------------------------------------------------
(* System ids.  A client holds the id it was given last and those that     *)
(* answers bring.                                                          *)

HeldSystems(c) ==
    ({client[c].system} \cup {a.system : a \in {x \in answers : x.client = c}}) \ {None}

SystemsInv ==
    \A c \in Clients : \A s \in HeldSystems(c) :
        /\ IsIssued(s, system_counter)
        /\ \A e \in Clients : s \in HeldSystems(e) => c = e

LEMMA NoNewSystem ==
    ASSUME SystemsInv,
           \A c \in Clients : HeldSystems(c)' \subseteq HeldSystems(c),
           epoch' = epoch, system_counter' = system_counter
    PROVE  SystemsInv'
BY DEF SystemsInv, IsIssued

LEMMA ClientsKeepSystems ==
    ASSUME MockTypeOK, SystemsInv, NEW c \in Clients,
           OpenDialog(c) \/ SendOrder(c) \/ SendEnd(c) \/ Receive(c) \/ GiveUp(c)
    PROVE  SystemsInv'
<1>1. epoch' = epoch /\ system_counter' = system_counter
    BY DEF OpenDialog, SendOrder, SendEnd, Send, Receive, GiveUp, serverVars
<1>2. ASSUME NEW e \in Clients PROVE HeldSystems(e)' \subseteq HeldSystems(e)
    <2>1. CASE OpenDialog(c) \/ SendOrder(c) \/ SendEnd(c)
        <3>1. ASSUME NEW kind, NEW dialog, NEW number, NEW sync, NEW pin, NEW steady,
                     Send(c, kind, dialog, number, sync, pin, steady)
              PROVE  client'[e].system = client[e].system /\ answers' = answers
            BY <3>1 DEF Send, MockTypeOK, ClientStates
        <3>2. client'[e].system = client[e].system /\ answers' = answers
            BY <2>1, <3>1 DEF OpenDialog, SendOrder, SendEnd
        <3> QED BY <3>2 DEF HeldSystems
    <2>2. CASE Receive(c)
        <3>1. PICK a \in answers :
                  /\ a.client = c
                  /\ answers' = answers \ {a}
                  /\ client' = [client EXCEPT ![c] =
                        [@ EXCEPT !.waiting = 0,
                                  !.dialog = DialogAfter(c, a),
                                  !.system = IF a.system = None THEN client[c].system
                                             ELSE a.system]]
            BY <2>2 DEF Receive
        <3>2. client'[e].system =
                  IF e = c /\ a.system # None THEN a.system ELSE client[e].system
            BY <3>1 DEF MockTypeOK, ClientStates
        <3> QED BY <3>1, <3>2 DEF HeldSystems
    <2>3. CASE GiveUp(c)
        <3>1. client'[e].system = client[e].system /\ answers' \subseteq answers
            BY <2>3 DEF GiveUp, MockTypeOK, ClientStates
        <3> QED BY <3>1 DEF HeldSystems
    <2> QED BY <2>1, <2>2, <2>3
<1> QED BY <1>1, <1>2, NoNewSystem

LEMMA HandleKeepsSystems ==
    ASSUME MockTypeOK, SystemsInv, NEW r \in requests, Handle(r)
    PROVE  SystemsInv'
<1>1. PICK s : s = NewSystemId
    OBVIOUS
<1>2. PICK d : answers' = AnswersWith(r, d)
    BY DEF Handle
<1>3. r.client \in Clients
    BY DEF MockTypeOK, Requests
<1>4. ASSUME NEW e \in Clients
      PROVE  HeldSystems(e)' \subseteq
                HeldSystems(e) \cup
                    (IF e = r.client /\ IsSynchronized(r) THEN {s} ELSE {})
    <2>1. \A a \in answers' :
              \/ a \in answers
              \/ a.client = r.client
                 /\ a.system = IF IsSynchronized(r) THEN NewSystemId ELSE None
        BY <1>2 DEF AnswersWith
    <2>2. client' = client
        BY DEF Handle
    <2>3. CASE IsSynchronized(r) /\ e = r.client
        BY <1>1, <2>1, <2>2, <2>3 DEF HeldSystems
    <2>4. CASE ~(IsSynchronized(r) /\ e = r.client)
        BY <2>1, <2>2, <2>4 DEF HeldSystems
    <2> QED BY <2>3, <2>4
<1>5. epoch' = epoch
    BY DEF Handle
<1>6. CASE IsSynchronized(r)
    <2>1. system_counter' = system_counter + 1
        BY <1>6 DEF Handle
    <2>2. \A e \in Clients : s \notin HeldSystems(e)
        <3>1. ~IsIssued(s, system_counter)
            BY <1>1 DEF IsIssued, NewSystemId, MockTypeOK
        <3> QED BY <3>1 DEF SystemsInv
    <2>3. IsIssued(s, system_counter)'
        BY <1>1, <1>5, <2>1 DEF IsIssued, NewSystemId, MockTypeOK
    <2>4. \A e \in Clients : \A x \in HeldSystems(e) : IsIssued(x, system_counter)'
        BY <1>5, <2>1 DEF SystemsInv, IsIssued, MockTypeOK, HeldSystems, Ids,
                          ClientStates, Answers
    <2> QED BY <1>3, <1>4, <2>2, <2>3, <2>4 DEF SystemsInv
<1>7. CASE ~IsSynchronized(r)
    <2>1. system_counter' = system_counter
        BY <1>7 DEF Handle
    <2>2. \A e \in Clients : HeldSystems(e)' \subseteq HeldSystems(e)
        BY <1>4, <1>7
    <2> QED BY <1>5, <2>1, <2>2, NoNewSystem
<1> QED BY <1>6, <1>7

LEMMA RestartKeepsSystems ==
    ASSUME MockTypeOK, SystemsInv, Restart
    PROVE  SystemsInv'
<1>1. ASSUME NEW e \in Clients PROVE HeldSystems(e)' \subseteq HeldSystems(e)
    <2>1. client'[e].system = client[e].system
        BY DEF Restart, MockTypeOK, ClientStates
    <2> QED BY <2>1 DEF Restart, HeldSystems
<1>2. \A e \in Clients : \A x \in HeldSystems(e) : IsIssued(x, system_counter)'
    BY DEF Restart, SystemsInv, IsIssued, MockTypeOK, HeldSystems, Ids, ClientStates, Answers
<1> QED BY <1>1, <1>2 DEF SystemsInv

\* No system id is ever given to two clients: what has been given out stays
\* behind the counter of its server, and an answer that is lost takes its id
\* with it.
THEOREM SystemsAreNotShared == Spec => []NoSharedSystem
<1>1. Init => SystemsInv
    BY DEF Init, SystemsInv, HeldSystems
<1>2. MockTypeOK /\ SystemsInv /\ [Next]_mockVars => SystemsInv'
    <2> SUFFICES ASSUME MockTypeOK, SystemsInv, [Next]_mockVars PROVE SystemsInv'
        OBVIOUS
    <2>1. CASE UNCHANGED mockVars
        BY <2>1 DEF mockVars, serverVars, SystemsInv, HeldSystems, IsIssued
    <2>2. ASSUME NEW r \in requests, Drop(r) PROVE SystemsInv'
        BY <2>2, NoNewSystem DEF Drop, serverVars, HeldSystems
    <2> QED BY <2>1, <2>2, ClientsKeepSystems, HandleKeepsSystems, RestartKeepsSystems
            DEF Next
<1>3. SystemsInv => NoSharedSystem
    BY DEF SystemsInv, NoSharedSystem, HeldSystems
<1> QED BY <1>1, <1>2, <1>3, MockTypeCorrect, PTL DEF Spec

-----------------------------------------------------------------------------
(* Who waits for what.  A client waits for its last message or for none,   *)
(* that message is asleep or answered but not both, and a message that is  *)
(* waited for names the dialog its client is in.                           *)

AwaitInv ==
    /\ \A c \in Clients :
          /\ client[c].waiting \in {0, client[c].serial}
          /\ client[c].number # 0
          /\ client[c].waiting # 0 =>
                IF client[c].kind = "open"
                THEN client[c].dialog = Unassigned /\ client[c].number = 2
                ELSE client[c].dialog # Unassigned
    /\ \A r \in requests :
          /\ r.serial # 0 /\ r.serial <= client[r.client].serial
          /\ r.serial = client[r.client].waiting => r.dialog = client[r.client].dialog
          /\ \A s \in requests : r.client = s.client /\ r.serial = s.serial => r = s
    /\ \A a \in answers :
          /\ a.serial # 0 /\ a.serial = client[a.client].waiting
          /\ \A r \in requests : r.client = a.client => r.serial # a.serial
          /\ \A b \in answers : a.client = b.client => a = b

\* What a client does when it sends r.
Posts(c, r) ==
    /\ client[c].waiting = 0
    /\ r \in Requests
    /\ r.client = c /\ r.serial = client[c].serial + 1 /\ r.dialog = client[c].dialog
    /\ IF r.kind = "open"
       THEN r.dialog = Unassigned /\ r.number = 1
       ELSE /\ r.dialog # Unassigned /\ r.number = client[c].number
            /\ client'[c].steady = client[c].steady
    /\ client'[c].dialog = r.dialog /\ client'[c].number = r.number + 1
    /\ client'[c].serial = r.serial /\ client'[c].waiting = r.serial
    /\ client'[c].kind = r.kind /\ client'[c].utf8 = client[c].utf8
    /\ \A e \in Clients \ {c} : client'[e] = client[e]
    /\ requests' = requests \cup {r}
    /\ UNCHANGED <<serverVars, answers>>

LEMMA SendPosts ==
    ASSUME MockTypeOK, NEW c \in Clients, NEW kind \in {"open", "order", "end"},
           NEW number \in Nat, NEW sync \in BOOLEAN, NEW pin \in BOOLEAN,
           NEW steady \in BOOLEAN,
           client[c].waiting = 0,
           IF kind = "open" THEN client[c].dialog = Unassigned /\ number = 1
           ELSE /\ client[c].dialog # Unassigned /\ number = client[c].number
                /\ steady = client[c].steady,
           Send(c, kind, client[c].dialog, number, sync, pin, steady)
    PROVE  \E r : Posts(c, r)
<1> DEFINE r == [client |-> c, serial |-> client[c].serial + 1, dialog |-> client[c].dialog,
                 number |-> number, kind |-> kind, sync |-> sync, pin |-> pin]
<1>1. client[c] \in ClientStates
    BY DEF MockTypeOK
<1>2. r \in Requests
    BY <1>1 DEF Requests, ClientStates
<1>3. /\ client'[c] = [client[c] EXCEPT !.dialog = client[c].dialog, !.number = number + 1,
                          !.serial = client[c].serial + 1,
                          !.waiting = client[c].serial + 1,
                          !.kind = kind, !.steady = steady]
      /\ \A e \in Clients \ {c} : client'[e] = client[e]
    BY DEF Send, MockTypeOK
<1>4. /\ client'[c].dialog = r.dialog /\ client'[c].number = r.number + 1
      /\ client'[c].serial = r.serial /\ client'[c].waiting = r.serial
      /\ client'[c].kind = r.kind /\ client'[c].utf8 = client[c].utf8
      /\ client'[c].steady = steady
    BY <1>1, <1>3 DEF ClientStates
<1>5. requests' = requests \cup {r} /\ UNCHANGED <<serverVars, answers>>
    BY DEF Send
<1>6. Posts(c, r)
    BY <1>2, <1>3, <1>4, <1>5 DEF Posts
<1> QED BY <1>6

LEMMA ClientPosts ==
    ASSUME MockTypeOK, NEW c \in Clients, OpenDialog(c) \/ SendOrder(c) \/ SendEnd(c)
    PROVE  \E r : Posts(c, r)
<1>1. client[c].waiting = 0
    BY DEF OpenDialog, SendOrder, SendEnd, IsIdle
<1>2. client[c].number \in Nat /\ client[c].steady \in BOOLEAN
    BY DEF MockTypeOK, ClientStates
<1>3. CASE OpenDialog(c)
    <2>1. PICK o \in Openings :
              Send(c, "open", client[c].dialog, 1, o[1], o[2], TRUE)
        BY <1>3 DEF OpenDialog
    <2>2. o[1] \in BOOLEAN /\ o[2] \in BOOLEAN
        BY OpeningsAssumption
    <2>3. client[c].dialog = Unassigned
        BY <1>3 DEF OpenDialog
    <2> QED BY <1>1, <2>1, <2>2, <2>3, SendPosts
<1>4. CASE SendOrder(c)
    BY <1>1, <1>2, <1>4, SendPosts DEF SendOrder
<1>5. CASE SendEnd(c)
    BY <1>1, <1>2, <1>5, SendPosts DEF SendEnd
<1> QED BY <1>3, <1>4, <1>5

\* What a client does when a is the answer it receives.
Takes(c, a) ==
    /\ a \in answers /\ a.client = c /\ a.serial = client[c].waiting
    /\ answers' = answers \ {a}
    /\ client'[c].dialog = DialogAfter(c, a) /\ client'[c].waiting = 0
    /\ client'[c].number = client[c].number /\ client'[c].serial = client[c].serial
    /\ client'[c].kind = client[c].kind /\ client'[c].utf8 = client[c].utf8
    /\ client'[c].steady = client[c].steady
    /\ \A e \in Clients \ {c} : client'[e] = client[e]
    /\ UNCHANGED <<serverVars, requests>>

LEMMA ReceiveTakes ==
    ASSUME MockTypeOK, NEW c \in Clients, Receive(c)
    PROVE  \E a : Takes(c, a)
<1>1. PICK a \in answers :
          /\ a.client = c /\ a.serial = client[c].waiting
          /\ answers' = answers \ {a}
          /\ client' = [client EXCEPT ![c] =
                [@ EXCEPT !.waiting = 0,
                          !.dialog = DialogAfter(c, a),
                          !.system = IF a.system = None THEN client[c].system ELSE a.system]]
          /\ UNCHANGED <<serverVars, requests>>
    BY DEF Receive
<1>2. Takes(c, a)
    BY <1>1 DEF Takes, MockTypeOK, ClientStates
<1> QED BY <1>2

\* What a client does when it gives up.
LeavesOff(c) ==
    /\ client[c].waiting # 0
    /\ client'[c].dialog = IF client[c].kind = "order" THEN client[c].dialog ELSE Unassigned
    /\ client'[c].waiting = 0 /\ client'[c].steady = FALSE
    /\ client'[c].number = client[c].number /\ client'[c].serial = client[c].serial
    /\ client'[c].kind = client[c].kind /\ client'[c].utf8 = client[c].utf8
    /\ \A e \in Clients \ {c} : client'[e] = client[e]
    /\ answers' = {a \in answers : a.client # c}
    /\ UNCHANGED <<serverVars, requests>>

LEMMA GiveUpLeavesOff ==
    ASSUME MockTypeOK, NEW c \in Clients, GiveUp(c)
    PROVE  LeavesOff(c)
BY DEF GiveUp, LeavesOff, MockTypeOK, ClientStates

LEMMA PostKeepsAwait ==
    ASSUME MockTypeOK, AwaitInv, NEW c \in Clients, NEW r, Posts(c, r)
    PROVE  AwaitInv'
<1>1. client[c].serial \in Nat /\ client[c].number \in Nat
    BY DEF MockTypeOK, ClientStates
<1>2. requests \subseteq Requests /\ answers \subseteq Answers
    BY DEF MockTypeOK
<1>3. \A e \in Clients : e # c => client'[e] = client[e]
    BY DEF Posts
<1>4. \A a \in answers : a.client # c
    BY DEF AwaitInv, Posts
<1>5. \A s \in requests : s.client = c => s.serial <= client[c].serial
    BY DEF AwaitInv
<1>6. \A s \in requests : s.client = c => s.serial < r.serial
    BY <1>1, <1>2, <1>5 DEF Posts, Requests
<1>7. r.serial # 0 /\ r.number + 1 # 0 /\ r.serial \in Nat
    BY <1>1 DEF Posts, Requests
<1>8. ASSUME NEW e \in Clients
      PROVE  /\ client'[e].waiting \in {0, client'[e].serial}
             /\ client'[e].number # 0
             /\ client'[e].waiting # 0 =>
                   IF client'[e].kind = "open"
                   THEN client'[e].dialog = Unassigned /\ client'[e].number = 2
                   ELSE client'[e].dialog # Unassigned
    <2>1. CASE e = c
        BY <1>1, <1>7, <2>1 DEF Posts
    <2>2. CASE e # c
        BY <1>3, <2>2 DEF AwaitInv
    <2> QED BY <2>1, <2>2
<1>9. ASSUME NEW s \in requests'
      PROVE  /\ s.serial # 0 /\ s.serial <= client'[s.client].serial
             /\ s.serial = client'[s.client].waiting => s.dialog = client'[s.client].dialog
             /\ \A t \in requests' : s.client = t.client /\ s.serial = t.serial => s = t
    <2>1. CASE s = r
        BY <1>6, <1>7, <2>1 DEF Posts
    <2>2. CASE s \in requests
        <3>1. s.client \in Clients /\ s.serial \in Nat
            BY <1>2, <2>2 DEF Requests
        <3>2. s.client = c => s.serial # r.serial /\ s.serial <= r.serial
            BY <1>6, <1>7, <2>2, <3>1
        <3>3. \A t \in requests' : s.client = t.client /\ s.serial = t.serial => s = t
            BY <2>2, <3>2 DEF AwaitInv, Posts
        <3>4. CASE s.client = c
            BY <2>2, <3>2, <3>3, <3>4 DEF AwaitInv, Posts
        <3>5. CASE s.client # c
            BY <1>3, <2>2, <3>1, <3>3, <3>5 DEF AwaitInv
        <3> QED BY <3>4, <3>5
    <2> QED BY <2>1, <2>2 DEF Posts
<1>10. ASSUME NEW a \in answers'
       PROVE  /\ a.serial # 0 /\ a.serial = client'[a.client].waiting
              /\ \A s \in requests' : s.client = a.client => s.serial # a.serial
              /\ \A b \in answers' : a.client = b.client => a = b
    <2>1. a \in answers /\ answers' = answers
        BY DEF Posts
    <2>2. a.client \in Clients /\ a.client # c /\ client'[a.client] = client[a.client]
        BY <1>2, <1>3, <1>4, <2>1 DEF Answers
    <2> QED BY <2>1, <2>2 DEF AwaitInv, Posts
<1> QED BY <1>8, <1>9, <1>10 DEF AwaitInv

LEMMA TakeKeepsAwait ==
    ASSUME MockTypeOK, AwaitInv, NEW c \in Clients, NEW a, Takes(c, a)
    PROVE  AwaitInv'
<1>1. \A e \in Clients : e # c => client'[e] = client[e]
    BY DEF Takes
<1>2. requests \subseteq Requests /\ answers \subseteq Answers /\ requests' = requests
    BY DEF MockTypeOK, Takes
<1>3. ASSUME NEW e \in Clients
      PROVE  /\ client'[e].waiting \in {0, client'[e].serial}
             /\ client'[e].number # 0
             /\ client'[e].waiting # 0 =>
                   IF client'[e].kind = "open"
                   THEN client'[e].dialog = Unassigned /\ client'[e].number = 2
                   ELSE client'[e].dialog # Unassigned
    BY <1>1 DEF AwaitInv, Takes
<1>4. ASSUME NEW s \in requests'
      PROVE  /\ s.serial # 0 /\ s.serial <= client'[s.client].serial
             /\ s.serial = client'[s.client].waiting => s.dialog = client'[s.client].dialog
             /\ \A t \in requests' : s.client = t.client /\ s.serial = t.serial => s = t
    <2>1. s \in requests /\ s.client \in Clients
        BY <1>2 DEF Requests
    <2> QED BY <1>1, <1>2, <2>1 DEF AwaitInv, Takes
<1>5. ASSUME NEW b \in answers'
      PROVE  /\ b.serial # 0 /\ b.serial = client'[b.client].waiting
             /\ \A s \in requests' : s.client = b.client => s.serial # b.serial
             /\ \A x \in answers' : b.client = x.client => b = x
    <2>1. b \in answers /\ b.client \in Clients /\ b.client # c
        BY <1>2 DEF Takes, Answers, AwaitInv
    <2> QED BY <1>1, <1>2, <2>1 DEF AwaitInv, Takes
<1> QED BY <1>3, <1>4, <1>5 DEF AwaitInv

LEMMA LeaveKeepsAwait ==
    ASSUME MockTypeOK, AwaitInv, NEW c \in Clients, LeavesOff(c)
    PROVE  AwaitInv'
<1>1. \A e \in Clients : e # c => client'[e] = client[e]
    BY DEF LeavesOff
<1>2. requests \subseteq Requests /\ answers \subseteq Answers /\ requests' = requests
    BY DEF MockTypeOK, LeavesOff
<1>3. ASSUME NEW e \in Clients
      PROVE  /\ client'[e].waiting \in {0, client'[e].serial}
             /\ client'[e].number # 0
             /\ client'[e].waiting # 0 =>
                   IF client'[e].kind = "open"
                   THEN client'[e].dialog = Unassigned /\ client'[e].number = 2
                   ELSE client'[e].dialog # Unassigned
    BY <1>1 DEF AwaitInv, LeavesOff
<1>4. ASSUME NEW s \in requests'
      PROVE  /\ s.serial # 0 /\ s.serial <= client'[s.client].serial
             /\ s.serial = client'[s.client].waiting => s.dialog = client'[s.client].dialog
             /\ \A t \in requests' : s.client = t.client /\ s.serial = t.serial => s = t
    <2>1. s \in requests /\ s.client \in Clients
        BY <1>2 DEF Requests
    <2> QED BY <1>1, <1>2, <2>1 DEF AwaitInv, LeavesOff
<1>5. ASSUME NEW b \in answers'
      PROVE  /\ b.serial # 0 /\ b.serial = client'[b.client].waiting
             /\ \A s \in requests' : s.client = b.client => s.serial # b.serial
             /\ \A x \in answers' : b.client = x.client => b = x
    <2>1. b \in answers /\ b.client \in Clients /\ b.client # c
        BY <1>2 DEF LeavesOff, Answers
    <2> QED BY <1>1, <1>2, <2>1 DEF AwaitInv, LeavesOff
<1> QED BY <1>3, <1>4, <1>5 DEF AwaitInv

\* What the server does with r: counts it in the dialog d, and answers it with
\* a unless its client has left.
Serves(r, d) ==
    /\ requests' = requests \ {r}
    /\ dialogs' = Counted(d) /\ answers' = AnswersWith(r, d)
    /\ epoch' = epoch /\ client' = client
    /\ IF DialogNamed(r) = Unassigned
       THEN d = NewDialogId /\ dialog_counter' = dialog_counter + 1
       ELSE d = DialogNamed(r) /\ dialog_counter' = dialog_counter

LEMMA HandleServes ==
    ASSUME NEW r \in requests, Handle(r)
    PROVE  \E d : Serves(r, d)
<1>1. PICK d : d = IF DialogNamed(r) = Unassigned THEN NewDialogId ELSE DialogNamed(r)
    OBVIOUS
<1>2. Serves(r, d)
    BY <1>1 DEF Handle, Serves
<1> QED BY <1>2

LEMMA ServeKeepsAwait ==
    ASSUME MockTypeOK, AwaitInv, NEW r \in requests, NEW d, Serves(r, d)
    PROVE  AwaitInv'
<1>1. client' = client /\ requests' = requests \ {r}
    BY DEF Serves
<1>2. \A a \in answers' : a \in answers \/
          (a.client = r.client /\ a.serial = r.serial /\ client[r.client].waiting = r.serial)
    BY DEF Serves, AnswersWith
<1>3. \A a, b \in answers' : a \notin answers /\ b \notin answers => a = b
    BY DEF Serves, AnswersWith
<1>4. \A a \in answers : a.client = r.client => client[r.client].waiting # r.serial
    BY DEF AwaitInv
<1>5. ASSUME NEW a \in answers'
      PROVE  /\ a.serial # 0 /\ a.serial = client[a.client].waiting
             /\ \A s \in requests \ {r} : s.client = a.client => s.serial # a.serial
             /\ \A b \in answers' : a.client = b.client => a = b
    <2>1. CASE a \in answers
        BY <1>2, <1>4, <2>1 DEF AwaitInv
    <2>2. CASE a \notin answers
        <3>1. a.client = r.client /\ a.serial = r.serial /\ client[r.client].waiting = r.serial
            BY <1>2, <2>2
        <3>2. a.serial # 0 /\ a.serial = client[a.client].waiting
            BY <3>1 DEF AwaitInv
        <3>3. \A s \in requests \ {r} : s.client = a.client => s.serial # a.serial
            BY <3>1 DEF AwaitInv
        <3>4. \A b \in answers' : a.client = b.client => a = b
            BY <1>3, <1>4, <2>2, <3>1
        <3> QED BY <3>2, <3>3, <3>4
    <2> QED BY <2>1, <2>2
<1> QED BY <1>1, <1>5 DEF AwaitInv

LEMMA AwaitHolds == Spec => []AwaitInv
<1>1. Init => AwaitInv
    BY DEF Init, AwaitInv
<1>2. MockTypeOK /\ AwaitInv /\ [Next]_mockVars => AwaitInv'
    <2> SUFFICES ASSUME MockTypeOK, AwaitInv, [Next]_mockVars PROVE AwaitInv'
        OBVIOUS
    <2>1. CASE UNCHANGED mockVars
        BY <2>1 DEF mockVars, serverVars, AwaitInv
    <2>2. ASSUME NEW c \in Clients,
                 OpenDialog(c) \/ SendOrder(c) \/ SendEnd(c) \/ Receive(c) \/ GiveUp(c)
          PROVE  AwaitInv'
        BY <2>2, ClientPosts, PostKeepsAwait, ReceiveTakes, TakeKeepsAwait,
           GiveUpLeavesOff, LeaveKeepsAwait
    <2>3. ASSUME NEW r \in requests, Handle(r) PROVE AwaitInv'
        BY <2>3, HandleServes, ServeKeepsAwait
    <2>4. ASSUME NEW r \in requests, Drop(r) PROVE AwaitInv'
        BY <2>4 DEF Drop, AwaitInv
    <2>5. CASE Restart
        <3>1. requests' = {} /\ answers' = answers
            BY <2>5 DEF Restart
        <3>2. \A c \in Clients :
                  /\ client'[c].waiting = client[c].waiting
                  /\ client'[c].serial = client[c].serial
                  /\ client'[c].number = client[c].number
                  /\ client'[c].kind = client[c].kind
                  /\ client'[c].dialog = client[c].dialog
            BY <2>5 DEF Restart, MockTypeOK, ClientStates
        <3>3. \A a \in answers : a.client \in Clients
            BY DEF MockTypeOK, Answers
        <3> QED BY <3>1, <3>2, <3>3 DEF AwaitInv
    <2> QED BY <2>1, <2>2, <2>3, <2>4, <2>5 DEF Next
<1> QED BY <1>1, <1>2, MockTypeCorrect, PTL DEF Spec

-----------------------------------------------------------------------------
(* Counts.  What the server has counted of a dialog and what is still to   *)
(* be counted stays below the number of its client's next message; while   *)
(* nothing goes wrong it is the number of the last one.                    *)

Sleeping(d) == {r \in requests : r.dialog = d}
Load(d) == CountOf(d) + Cardinality(Sleeping(d))

DialogIsCounted(c) ==
    client[c].utf8 /\ client[c].dialog # Unassigned =>
        /\ Load(client[c].dialog) < client[c].number
        /\ client[c].steady =>
              /\ Load(client[c].dialog) = client[c].number - 1
              /\ \A r \in Sleeping(client[c].dialog) : r.serial = client[c].waiting

\* An answer to an opening brings a dialog in which nothing else has happened.
AnswerIsCounted(a) ==
    client[a.client].utf8 =>
        /\ client[a.client].kind = "open" =>
              /\ Sleeping(a.dialog) = {} /\ CountOf(a.dialog) <= 1
              /\ client[a.client].steady => CountOf(a.dialog) = 1
        /\ client[a.client].steady => a.number = client[a.client].number - 1

CountsInv ==
    /\ IsFiniteSet(requests)
    /\ \A d \in DOMAIN dialogs : IsIssued(d, dialog_counter)
    /\ \A c \in Clients : DialogIsCounted(c)
    /\ \A a \in answers : AnswerIsCounted(a)

LEMMA LoadType ==
    ASSUME MockTypeOK, IsFiniteSet(requests), NEW d
    PROVE  /\ IsFiniteSet(Sleeping(d)) /\ Cardinality(Sleeping(d)) \in Nat
           /\ CountOf(d) \in Nat /\ Load(d) \in Nat
<1>1. Sleeping(d) \subseteq requests
    BY DEF Sleeping
<1>2. IsFiniteSet(Sleeping(d)) /\ Cardinality(Sleeping(d)) \in Nat
    BY <1>1, FS_Subset, FS_CardinalityType
<1>3. CountOf(d) \in Nat
    BY DEF CountOf, MockTypeOK
<1> QED BY <1>2, <1>3 DEF Load

LEMMA SleepingGrows ==
    ASSUME IsFiniteSet(requests), NEW r, r \notin requests, requests' = requests \cup {r}
    PROVE  /\ IsFiniteSet(requests)'
           /\ \A d : /\ d # r.dialog => Sleeping(d)' = Sleeping(d)
                     /\ d = r.dialog =>
                           /\ Sleeping(d)' = Sleeping(d) \cup {r}
                           /\ Cardinality(Sleeping(d))' = Cardinality(Sleeping(d)) + 1
<1>1. IsFiniteSet(requests)'
    BY FS_AddElement
<1>2. ASSUME NEW d, d # r.dialog PROVE Sleeping(d)' = Sleeping(d)
    BY <1>2 DEF Sleeping
<1>3. ASSUME NEW d, d = r.dialog
      PROVE  /\ Sleeping(d)' = Sleeping(d) \cup {r}
             /\ Cardinality(Sleeping(d))' = Cardinality(Sleeping(d)) + 1
    <2>1. Sleeping(d)' = Sleeping(d) \cup {r} /\ r \notin Sleeping(d)
        BY <1>3 DEF Sleeping
    <2>2. IsFiniteSet(Sleeping(d))
        BY FS_Subset DEF Sleeping
    <2> QED BY <2>1, <2>2, FS_AddElement
<1> QED BY <1>1, <1>2, <1>3

LEMMA SleepingShrinks ==
    ASSUME IsFiniteSet(requests), NEW r \in requests, requests' = requests \ {r}
    PROVE  /\ IsFiniteSet(requests)'
           /\ \A d : /\ d # r.dialog => Sleeping(d)' = Sleeping(d)
                     /\ d = r.dialog =>
                           /\ Sleeping(d)' = Sleeping(d) \ {r}
                           /\ Cardinality(Sleeping(d))' = Cardinality(Sleeping(d)) - 1
<1>1. IsFiniteSet(requests)'
    BY FS_Subset
<1>2. ASSUME NEW d, d # r.dialog PROVE Sleeping(d)' = Sleeping(d)
    BY <1>2 DEF Sleeping
<1>3. ASSUME NEW d, d = r.dialog
      PROVE  /\ Sleeping(d)' = Sleeping(d) \ {r}
             /\ Cardinality(Sleeping(d))' = Cardinality(Sleeping(d)) - 1
    <2>1. Sleeping(d)' = Sleeping(d) \ {r} /\ r \in Sleeping(d)
        BY <1>3 DEF Sleeping
    <2>2. IsFiniteSet(Sleeping(d))
        BY FS_Subset DEF Sleeping
    <2> QED BY <2>1, <2>2, FS_RemoveElement
<1> QED BY <1>1, <1>2, <1>3

\* The requests and the answers of a dialog that a client is in are its own.
LEMMA DialogIsOwn ==
    ASSUME MockTypeOK, DialogsInv, NEW c \in Clients, NEW d, d # Unassigned,
           d \in HeldDialogs(c)
    PROVE  /\ \A r \in requests : r.dialog = d => r.client = c
           /\ \A a \in answers : a.dialog = d => a.client = c
           /\ IsIssued(d, dialog_counter)
<1>1. \A r \in requests : r.dialog = d => r.client \in Clients /\ d \in HeldDialogs(r.client)
    BY DEF HeldDialogs, MockTypeOK, Requests
<1>2. \A a \in answers : a.dialog = d => a.client \in Clients /\ d \in HeldDialogs(a.client)
    BY DEF HeldDialogs, MockTypeOK, Answers
<1> QED BY <1>1, <1>2 DEF DialogsInv

LEMMA AnswerBringsItsOwn ==
    ASSUME MockTypeOK, DialogsInv, NEW a \in answers
    PROVE  /\ a.client \in Clients /\ a.dialog # Unassigned
           /\ a.dialog \in HeldDialogs(a.client)
<1>1. a \in Answers
    BY DEF MockTypeOK
<1> QED BY <1>1, IdAssumption DEF Answers, HeldDialogs, Ids

LEMMA PostKeepsCounts ==
    ASSUME MockTypeOK, DialogsInv, AwaitInv, CountsInv, NEW c \in Clients, NEW r, Posts(c, r)
    PROVE  CountsInv'
<1>1. requests \subseteq Requests /\ answers \subseteq Answers /\ client[c] \in ClientStates
    BY DEF MockTypeOK
<1>2. r \notin requests
    <2>1. client[c].serial \in Nat
        BY <1>1 DEF ClientStates
    <2> QED BY <2>1 DEF AwaitInv, Posts
<1>3. IsFiniteSet(requests)'
    BY <1>2, SleepingGrows DEF CountsInv, Posts
<1>4. /\ dialogs' = dialogs /\ dialog_counter' = dialog_counter /\ epoch' = epoch
      /\ \A d : CountOf(d)' = CountOf(d)
    BY DEF Posts, serverVars, CountOf
<1>5. \A e \in Clients : e # c => client'[e] = client[e]
    BY DEF Posts
<1>6. ASSUME NEW d, d # r.dialog PROVE Sleeping(d)' = Sleeping(d) /\ Load(d)' = Load(d)
    BY <1>2, <1>4, <1>6, SleepingGrows DEF CountsInv, Posts, Load
<1>7. ASSUME NEW e \in Clients PROVE DialogIsCounted(e)'
    <2>1. CASE e # c
        <3>1. SUFFICES ASSUME client[e].dialog # Unassigned PROVE DialogIsCounted(e)'
            BY <1>5, <2>1 DEF DialogIsCounted
        <3>2. client[e].dialog # r.dialog
            BY <2>1, <3>1 DEF Posts, DialogsInv, HeldDialogs
        <3> QED BY <1>5, <1>6, <2>1, <3>2 DEF DialogIsCounted, CountsInv
    <2>2. CASE e = c
        <3>1. CASE r.kind = "open"
            BY <2>2, <3>1 DEF Posts, DialogIsCounted
        <3>2. CASE r.kind # "open"
            <4>0. PICK d : d = client[c].dialog
                OBVIOUS
            <4>1. /\ r.dialog = d /\ client'[c].dialog = d /\ d # Unassigned
                  /\ client'[c].number = client[c].number + 1
                  /\ client'[c].utf8 = client[c].utf8 /\ client'[c].steady = client[c].steady
                  /\ client'[c].waiting = r.serial /\ client[c].waiting = 0
                BY <3>2, <4>0 DEF Posts
            <4>2. SUFFICES ASSUME client[c].utf8 PROVE DialogIsCounted(c)'
                BY <2>2, <4>1 DEF DialogIsCounted
            <4>3. Sleeping(d)' = Sleeping(d) \cup {r} /\ Load(d)' = Load(d) + 1
                <5>1. /\ Sleeping(d)' = Sleeping(d) \cup {r}
                      /\ Cardinality(Sleeping(d))' = Cardinality(Sleeping(d)) + 1
                    BY <1>2, <4>1, SleepingGrows DEF CountsInv, Posts
                <5>2. CountOf(d) \in Nat /\ Cardinality(Sleeping(d)) \in Nat
                    BY LoadType DEF CountsInv
                <5> QED BY <1>4, <5>1, <5>2 DEF Load
            <4>4. Load(d) \in Nat /\ client[c].number \in Nat
                BY <1>1, LoadType DEF CountsInv, ClientStates
            <4>5. DialogIsCounted(c)
                BY DEF CountsInv
            <4>6. \A s \in Sleeping(d) : s.serial # 0
                BY DEF AwaitInv, Sleeping
            <4>7. client[c].steady => \A s \in Sleeping(d)' : s.serial = r.serial
                BY <4>0, <4>1, <4>2, <4>3, <4>5, <4>6 DEF DialogIsCounted
            <4>8. /\ Load(d)' < client'[c].number
                  /\ client[c].steady => Load(d)' = client'[c].number - 1
                BY <4>0, <4>1, <4>2, <4>3, <4>4, <4>5 DEF DialogIsCounted
            <4> QED BY <4>1, <4>7, <4>8 DEF DialogIsCounted
        <3> QED BY <3>1, <3>2
    <2> QED BY <2>1, <2>2
<1>8. ASSUME NEW a \in answers' PROVE AnswerIsCounted(a)'
    <2>1. a \in answers
        BY DEF Posts
    <2>2. a.client \in Clients /\ a.client # c
        BY <1>1, <2>1 DEF Answers, AwaitInv, Posts
    <2>3. a.dialog # r.dialog
        <3>1. a.dialog # Unassigned /\ a.dialog \in HeldDialogs(a.client)
            BY <2>1, AnswerBringsItsOwn
        <3>2. r.dialog # Unassigned => r.dialog \in HeldDialogs(c)
            BY DEF Posts, HeldDialogs
        <3> QED BY <2>2, <3>1, <3>2 DEF DialogsInv
    <2> QED BY <1>4, <1>5, <1>6, <2>1, <2>2, <2>3 DEF AnswerIsCounted, CountsInv
<1> QED BY <1>3, <1>4, <1>7, <1>8 DEF CountsInv, IsIssued

\* When nothing changes but one client and the answers.
LEMMA CountsUntouched ==
    ASSUME MockTypeOK, CountsInv, NEW c \in Clients,
           UNCHANGED <<serverVars, requests>>, answers' \subseteq answers,
           \A e \in Clients \ {c} : client'[e] = client[e],
           \A a \in answers' : a.client # c,
           DialogIsCounted(c)'
    PROVE  CountsInv'
<1>1. /\ dialogs' = dialogs /\ dialog_counter' = dialog_counter /\ epoch' = epoch
      /\ \A d : /\ CountOf(d)' = CountOf(d) /\ Sleeping(d)' = Sleeping(d)
                /\ Load(d)' = Load(d)
    BY DEF serverVars, CountOf, Sleeping, Load
<1>2. ASSUME NEW e \in Clients PROVE DialogIsCounted(e)'
    <2>1. CASE e # c
        BY <1>1, <2>1 DEF CountsInv, DialogIsCounted
    <2> QED BY <2>1
<1>3. ASSUME NEW a \in answers' PROVE AnswerIsCounted(a)'
    <2>1. a \in answers /\ a.client \in Clients /\ a.client # c
        BY DEF MockTypeOK, Answers
    <2> QED BY <1>1, <2>1 DEF CountsInv, AnswerIsCounted
<1> QED BY <1>1, <1>2, <1>3 DEF CountsInv, IsIssued

LEMMA TakeKeepsCounts ==
    ASSUME MockTypeOK, DialogsInv, AwaitInv, CountsInv, NEW c \in Clients, NEW a, Takes(c, a)
    PROVE  CountsInv'
<1>1. \A b \in answers' : b.client # c
    BY DEF Takes, AwaitInv
<1>2. /\ client[c].waiting # 0 /\ client[c].number \in Nat /\ a \in Answers
      /\ client[c].kind \in {"open", "order", "end"}
    BY DEF Takes, AwaitInv, MockTypeOK, ClientStates
<1>3. PICK d : d = DialogAfter(c, a)
    OBVIOUS
<1>4. client'[c].dialog = d
    BY <1>3 DEF Takes
<1>5. /\ Sleeping(d)' = Sleeping(d) /\ CountOf(d)' = CountOf(d) /\ Load(d)' = Load(d)
    BY DEF Takes, serverVars, CountOf, Sleeping, Load
<1>6. SUFFICES ASSUME client[c].utf8, d # Unassigned
               PROVE  /\ Load(d) < client[c].number
                      /\ client[c].steady =>
                            /\ Load(d) = client[c].number - 1 /\ Sleeping(d) = {}
    <2>1. SUFFICES DialogIsCounted(c)'
        BY <1>1, CountsUntouched DEF Takes
    <2>2. SUFFICES ASSUME client[c].utf8, d # Unassigned PROVE DialogIsCounted(c)'
        BY <1>4 DEF DialogIsCounted, Takes
    <2> QED BY <1>4, <1>5, <1>6, <2>2 DEF DialogIsCounted, Takes
<1>7. CASE client[c].kind = "open"
    <2>1. d = a.dialog /\ a.client = c /\ a \in answers
        BY <1>3, <1>6, <1>7 DEF DialogAfter, Takes
    <2>2. client[c].number = 2
        BY <1>2, <1>7 DEF AwaitInv
    <2>3. /\ Sleeping(d) = {} /\ CountOf(d) <= 1
          /\ client[c].steady => CountOf(d) = 1
        BY <1>6, <1>7, <2>1 DEF CountsInv, AnswerIsCounted
    <2>4. Load(d) = CountOf(d) /\ CountOf(d) \in Nat
        BY <2>3, FS_EmptySet, LoadType DEF Load, CountsInv
    <2> QED BY <2>2, <2>3, <2>4
<1>8. CASE client[c].kind # "open"
    <2>1. d = client[c].dialog
        BY <1>2, <1>3, <1>6, <1>8 DEF DialogAfter
    <2>2. \A r \in Sleeping(d) : r.client = c /\ r.serial # client[c].waiting
        <3>1. d \in HeldDialogs(c)
            BY <1>6, <2>1 DEF HeldDialogs
        <3> QED BY <1>6, <3>1, DialogIsOwn DEF Sleeping, AwaitInv, Takes
    <2> QED BY <1>6, <2>1, <2>2 DEF CountsInv, DialogIsCounted
<1> QED BY <1>7, <1>8

LEMMA LeaveKeepsCounts ==
    ASSUME MockTypeOK, CountsInv, NEW c \in Clients, LeavesOff(c)
    PROVE  CountsInv'
<1>1. PICK d : d = client'[c].dialog
    OBVIOUS
<1>2. Load(d)' = Load(d)
    BY DEF LeavesOff, serverVars, CountOf, Sleeping, Load
<1>3. DialogIsCounted(c)'
    BY <1>1, <1>2 DEF LeavesOff, CountsInv, DialogIsCounted
<1> QED BY <1>3, CountsUntouched DEF LeavesOff

\* A request that is dropped is one that nobody waits for.
LEMMA DropKeepsCounts ==
    ASSUME MockTypeOK, DialogsInv, CountsInv, NEW r \in requests, Drop(r)
    PROVE  CountsInv'
<1>1. requests' = requests \ {r} /\ client' = client /\ answers' = answers
    BY DEF Drop
<1>2. /\ dialogs' = dialogs /\ dialog_counter' = dialog_counter /\ epoch' = epoch
      /\ \A d : CountOf(d)' = CountOf(d)
    BY DEF Drop, serverVars, CountOf
<1>3. IsFiniteSet(requests)'
    BY <1>1, SleepingShrinks DEF CountsInv
<1>4. \A d : d # r.dialog => Sleeping(d)' = Sleeping(d) /\ Load(d)' = Load(d)
    BY <1>1, <1>2, SleepingShrinks DEF CountsInv, Load
<1>5. /\ Sleeping(r.dialog)' = Sleeping(r.dialog) \ {r}
      /\ Load(r.dialog)' = Load(r.dialog) - 1 /\ Load(r.dialog) \in Nat
    <2>1. PICK d : d = r.dialog
        OBVIOUS
    <2>2. /\ Sleeping(d)' = Sleeping(d) \ {r}
          /\ Cardinality(Sleeping(d))' = Cardinality(Sleeping(d)) - 1
        BY <1>1, <2>1, SleepingShrinks DEF CountsInv
    <2>3. CountOf(d) \in Nat /\ Cardinality(Sleeping(d)) \in Nat /\ Load(d) \in Nat
        BY LoadType DEF CountsInv
    <2>4. Load(d)' = Load(d) - 1
        BY <1>2, <2>2, <2>3 DEF Load
    <2> QED BY <2>1, <2>2, <2>3, <2>4
<1>6. ASSUME NEW e \in Clients PROVE DialogIsCounted(e)'
    <2>1. CASE client[e].dialog # r.dialog
        BY <1>1, <1>4, <2>1 DEF CountsInv, DialogIsCounted
    <2>2. CASE client[e].dialog = r.dialog
        <3>1. SUFFICES ASSUME client[e].utf8, client[e].dialog # Unassigned
                       PROVE  ~client[e].steady /\ Load(r.dialog)' < client[e].number
            BY <1>1, <2>2 DEF DialogIsCounted
        <3>2. client[e].number \in Nat
            BY DEF MockTypeOK, ClientStates
        <3>3. r.client = e
            <4>1. client[e].dialog \in HeldDialogs(e)
                BY <3>1 DEF HeldDialogs
            <4> QED BY <2>2, <3>1, <4>1, DialogIsOwn
        <3>4. r \in Sleeping(client[e].dialog) /\ r.serial # client[e].waiting
            BY <2>2, <3>3 DEF Sleeping, Drop
        <3> QED BY <1>5, <2>2, <3>1, <3>2, <3>4 DEF CountsInv, DialogIsCounted
    <2> QED BY <2>1, <2>2
<1>7. ASSUME NEW a \in answers' PROVE AnswerIsCounted(a)'
    <2>1. a \in answers /\ AnswerIsCounted(a)
        BY <1>1 DEF CountsInv
    <2>2. CASE a.dialog # r.dialog
        BY <1>1, <1>2, <1>4, <2>1, <2>2 DEF AnswerIsCounted
    <2>3. CASE a.dialog = r.dialog
        <3>1. Sleeping(a.dialog) # {}
            BY <2>3 DEF Sleeping
        <3> QED BY <1>1, <2>1, <3>1 DEF AnswerIsCounted
    <2> QED BY <2>2, <2>3
<1> QED BY <1>2, <1>3, <1>6, <1>7 DEF CountsInv, IsIssued

\* What serving r adds to the counts and to the answers.
LEMMA ServeCounts ==
    ASSUME MockTypeOK, NEW r \in requests, NEW d, Serves(r, d)
    PROVE  /\ CountOf(d)' = CountOf(d) + 1
           /\ \A x : x # d => CountOf(x)' = CountOf(x)
           /\ DOMAIN dialogs' = DOMAIN dialogs \cup {d}
           /\ \A a \in answers' :
                 \/ a \in answers
                 \/ /\ a.client = r.client /\ client[r.client].waiting = r.serial
                    /\ a.dialog = d /\ a.number = CountOf(d) + 1
<1>1. /\ DOMAIN dialogs' = DOMAIN dialogs \cup {d}
      /\ dialogs'[d] = CountOf(d) + 1
      /\ \A x \in DOMAIN dialogs : x # d => dialogs'[x] = dialogs[x]
    BY DEF Serves, Counted
<1>2. CountOf(d)' = CountOf(d) + 1
    <2>1. PICK n : n = CountOf(d) + 1
        OBVIOUS
    <2> QED BY <1>1, <2>1 DEF CountOf
<1>3. \A x : x # d => CountOf(x)' = CountOf(x)
    BY <1>1 DEF CountOf
<1>4. \A a \in answers' :
          \/ a \in answers
          \/ /\ a.client = r.client /\ client[r.client].waiting = r.serial
             /\ a.dialog = d /\ a.number = CountOf(d) + 1
    BY DEF Serves, AnswersWith, AnswerNumber
<1> QED BY <1>1, <1>2, <1>3, <1>4

\* A request that names no dialog gets one that nobody has.
LEMMA NewKeepsCounts ==
    ASSUME MockTypeOK, DialogsInv, AwaitInv, CountsInv, NEW r \in requests, NEW d,
           Serves(r, d), DialogNamed(r) = Unassigned
    PROVE  CountsInv'
<1>1. /\ requests' = requests \ {r} /\ client' = client /\ epoch' = epoch
      /\ dialog_counter' = dialog_counter + 1 /\ d = NewDialogId
    BY DEF Serves
<1>2. r.client \in Clients /\ r.serial # 0
    BY DEF MockTypeOK, Requests, AwaitInv
<1>3. ~IsIssued(d, dialog_counter) /\ IsIssued(d, dialog_counter)'
    BY <1>1 DEF IsIssued, NewDialogId, MockTypeOK
<1>4. d \notin DOMAIN dialogs /\ CountOf(d) = 0 /\ \A e \in Clients : d \notin HeldDialogs(e)
    BY <1>3 DEF CountsInv, DialogsInv, CountOf
<1>5. IsFiniteSet(requests)'
    BY <1>1, SleepingShrinks DEF CountsInv
<1>6. \A x \in DOMAIN dialogs' : IsIssued(x, dialog_counter)'
    <2>1. \A x \in DOMAIN dialogs : IsIssued(x, dialog_counter)'
        BY <1>1 DEF CountsInv, IsIssued, MockTypeOK, Ids
    <2>2. DOMAIN dialogs' = DOMAIN dialogs \cup {d}
        BY ServeCounts
    <2>3. IsIssued(d, dialog_counter)'
        BY <1>3
    <2> QED BY <2>1, <2>2, <2>3
<1>7. ASSUME NEW e \in Clients, NEW x \in HeldDialogs(e), client[e].utf8
      PROVE  CountOf(x)' = CountOf(x) /\ Sleeping(x)' = Sleeping(x) /\ Load(x)' = Load(x)
    <2>1. x # Unassigned /\ x # d
        BY <1>4 DEF HeldDialogs
    <2>2. x # r.dialog
        BY <1>7, <2>1, DialogIsOwn DEF DialogNamed
    <2>3. CountOf(x)' = CountOf(x)
        BY <2>1, ServeCounts
    <2>4. Sleeping(x)' = Sleeping(x)
        BY <1>1, <2>2, SleepingShrinks DEF CountsInv
    <2> QED BY <2>3, <2>4 DEF Load
<1>8. ASSUME NEW e \in Clients PROVE DialogIsCounted(e)'
    <2>1. SUFFICES ASSUME client[e].utf8, client[e].dialog # Unassigned
                   PROVE  DialogIsCounted(e)'
        BY <1>1 DEF DialogIsCounted
    <2>2. client[e].dialog \in HeldDialogs(e)
        BY <2>1 DEF HeldDialogs
    <2> QED BY <1>1, <1>7, <2>1, <2>2 DEF CountsInv, DialogIsCounted
<1>9. ASSUME NEW a \in answers', client[a.client].utf8 PROVE AnswerIsCounted(a)'
    <2>1. CASE a \in answers
        <3>1. a.client \in Clients /\ a.dialog \in HeldDialogs(a.client)
            BY <2>1, AnswerBringsItsOwn
        <3> QED BY <1>1, <1>7, <1>9, <2>1, <3>1 DEF CountsInv, AnswerIsCounted
    <2>2. CASE a \notin answers
        <3>1. /\ a.client = r.client /\ client[r.client].waiting = r.serial
              /\ a.dialog = d /\ a.number = 1
            <4>1. /\ a.client = r.client /\ client[r.client].waiting = r.serial
                  /\ a.dialog = d /\ a.number = CountOf(d) + 1
                BY <2>2, ServeCounts
            <4> QED BY <1>4, <4>1
        <3>2. client[r.client].dialog = Unassigned
            <4>1. r.dialog = Unassigned
                BY <1>9, <3>1 DEF DialogNamed
            <4>2. r.dialog = client[r.client].dialog
                BY <3>1 DEF AwaitInv
            <4> QED BY <4>1, <4>2
        <3>3. client[r.client].kind = "open" /\ client[r.client].number = 2
            BY <1>2, <3>1, <3>2 DEF AwaitInv
        <3>4. CountOf(d)' = 1
            <4>1. CountOf(d)' = CountOf(d) + 1
                BY ServeCounts
            <4> QED BY <1>4, <4>1
        <3>5. Sleeping(d)' = {}
            <4>1. \A s \in requests : s.dialog # d
                <5>1. d # Unassigned
                    BY <1>1, IdAssumption DEF NewDialogId, MockTypeOK
                <5> QED BY <1>4, <5>1 DEF HeldDialogs, MockTypeOK, Requests
            <4> QED BY <1>1, <4>1 DEF Sleeping
        <3> QED BY <1>1, <3>1, <3>3, <3>4, <3>5 DEF AnswerIsCounted
    <2> QED BY <2>1, <2>2
<1>10. \A a \in answers' : AnswerIsCounted(a)'
    BY <1>1, <1>9 DEF AnswerIsCounted
<1> QED BY <1>5, <1>6, <1>8, <1>10 DEF CountsInv

\* A request that names a dialog moves from those to count to those counted.
LEMMA NamedKeepsCounts ==
    ASSUME MockTypeOK, DialogsInv, AwaitInv, CountsInv, NEW r \in requests, NEW d,
           Serves(r, d), DialogNamed(r) # Unassigned
    PROVE  CountsInv'
<1>1. /\ requests' = requests \ {r} /\ client' = client /\ epoch' = epoch
      /\ dialog_counter' = dialog_counter
      /\ d = r.dialog /\ d # Unassigned /\ client[r.client].utf8
    BY DEF Serves, DialogNamed
<1>2. r.client \in Clients /\ r.serial # 0 /\ d \in HeldDialogs(r.client)
    BY <1>1 DEF MockTypeOK, Requests, AwaitInv, HeldDialogs
<1>3. IsFiniteSet(requests)'
    BY <1>1, SleepingShrinks DEF CountsInv
<1>4. \A x \in DOMAIN dialogs' : IsIssued(x, dialog_counter)'
    <2>1. \A x : IsIssued(x, dialog_counter)' <=> IsIssued(x, dialog_counter)
        BY <1>1 DEF IsIssued
    <2>2. IsIssued(d, dialog_counter)
        BY <1>2 DEF DialogsInv
    <2>3. DOMAIN dialogs' = DOMAIN dialogs \cup {d}
        BY ServeCounts
    <2> QED BY <2>1, <2>2, <2>3 DEF CountsInv
<1>5. ASSUME NEW x
      PROVE  /\ Load(x)' = Load(x) /\ Sleeping(x)' \subseteq Sleeping(x)
             /\ x # d => CountOf(x)' = CountOf(x) /\ Sleeping(x)' = Sleeping(x)
    <2>1. CASE x = d
        <3>1. /\ CountOf(x)' = CountOf(x) + 1
              /\ Sleeping(x)' = Sleeping(x) \ {r}
              /\ Cardinality(Sleeping(x))' = Cardinality(Sleeping(x)) - 1
            BY <1>1, <2>1, SleepingShrinks, ServeCounts DEF CountsInv
        <3>2. CountOf(x) \in Nat /\ Cardinality(Sleeping(x)) \in Nat
            BY LoadType DEF CountsInv
        <3>3. Load(x)' = Load(x)
            BY <3>1, <3>2 DEF Load
        <3> QED BY <2>1, <3>1, <3>3
    <2>2. CASE x # d
        BY <1>1, <2>2, SleepingShrinks, ServeCounts DEF CountsInv, Load
    <2> QED BY <2>1, <2>2
<1>6. ASSUME NEW e \in Clients PROVE DialogIsCounted(e)'
    <2>1. PICK x : x = client[e].dialog
        OBVIOUS
    <2> QED BY <1>1, <1>5, <2>1 DEF CountsInv, DialogIsCounted
<1>7. ASSUME NEW a \in answers', client[a.client].utf8 PROVE AnswerIsCounted(a)'
    <2>1. CASE a \in answers
        <3>1. AnswerIsCounted(a)
            BY <2>1 DEF CountsInv
        <3>2. CASE a.dialog = d
            <4>1. Sleeping(a.dialog) # {}
                BY <1>1, <3>2 DEF Sleeping
            <4> QED BY <1>1, <1>7, <3>1, <4>1 DEF AnswerIsCounted
        <3>3. CASE a.dialog # d
            BY <1>1, <1>5, <3>1, <3>3 DEF AnswerIsCounted
        <3> QED BY <3>2, <3>3
    <2>2. CASE a \notin answers
        <3> DEFINE c == r.client
        <3>1. /\ a.client = c /\ client[c].waiting = r.serial
              /\ a.dialog = d /\ a.number = CountOf(d) + 1
            BY <2>2, ServeCounts
        <3>2. client[c].dialog = d
            BY <1>1, <3>1 DEF AwaitInv
        <3>3. client[c].kind # "open"
            BY <1>1, <1>2, <3>1, <3>2 DEF AwaitInv
        <3>4. ASSUME client[c].steady PROVE a.number = client[c].number - 1
            <4>1. /\ Load(d) = client[c].number - 1
                  /\ \A s \in Sleeping(d) : s.serial = r.serial
                BY <1>1, <1>2, <3>1, <3>2, <3>4 DEF CountsInv, DialogIsCounted
            <4>2. \A s \in Sleeping(d) : s.client = c
                BY <1>1, <1>2, DialogIsOwn DEF Sleeping
            <4>3. Sleeping(d) = {r}
                BY <1>1, <4>1, <4>2 DEF Sleeping, AwaitInv
            <4>4. Load(d) = CountOf(d) + 1
                BY <4>3, FS_Singleton DEF Load
            <4> QED BY <3>1, <4>1, <4>4
        <3> QED BY <1>1, <3>1, <3>3, <3>4 DEF AnswerIsCounted
    <2> QED BY <2>1, <2>2
<1>8. \A a \in answers' : AnswerIsCounted(a)'
    BY <1>1, <1>7 DEF AnswerIsCounted
<1> QED BY <1>3, <1>4, <1>6, <1>8 DEF CountsInv

\* A server that starts anew knows no dialog and has counted nothing.
LEMMA RestartKeepsCounts ==
    ASSUME MockTypeOK, AwaitInv, CountsInv, Restart
    PROVE  CountsInv'
<1>1. dialogs' = [d \in {} |-> 0] /\ requests' = {} /\ answers' = answers
    BY DEF Restart
<1>2. /\ IsFiniteSet(requests)'
      /\ \A d : /\ Sleeping(d)' = {} /\ CountOf(d)' = 0 /\ Load(d)' = 0
    BY <1>1, FS_EmptySet DEF Sleeping, CountOf, Load
<1>3. \A c \in Clients : /\ client'[c].steady = FALSE
                         /\ client'[c].number = client[c].number
                         /\ client'[c].number \in Nat \ {0}
                         /\ client'[c].dialog = client[c].dialog
    BY DEF Restart, MockTypeOK, ClientStates, AwaitInv
<1>4. ASSUME NEW c \in Clients PROVE DialogIsCounted(c)'
    <2>1. PICK d : d = client'[c].dialog
        OBVIOUS
    <2> QED BY <1>2, <1>3, <2>1 DEF DialogIsCounted
<1>5. ASSUME NEW a \in answers' PROVE AnswerIsCounted(a)'
    <2>1. a.client \in Clients
        BY <1>1 DEF MockTypeOK, Answers
    <2> QED BY <1>2, <1>3, <2>1 DEF AnswerIsCounted
<1>6. \A d \in DOMAIN dialogs' : IsIssued(d, dialog_counter)'
    BY <1>1
<1> QED BY <1>2, <1>4, <1>5, <1>6 DEF CountsInv

\* The count of the server and the number of its client stay in step, over
\* retries and restarts and whatever the others do: what is counted and what
\* still sleeps is together below the number of the next message, and exactly
\* the number of the last one while nothing was given up.
THEOREM CountsOfServerAndClientAgree == Spec => []CountsAgree
<1>1. Init => CountsInv
    BY FS_EmptySet DEF Init, CountsInv, DialogIsCounted
<1>2. MockTypeOK /\ DialogsInv /\ AwaitInv /\ CountsInv /\ [Next]_mockVars => CountsInv'
    <2> SUFFICES ASSUME MockTypeOK, DialogsInv, AwaitInv, CountsInv, [Next]_mockVars
                 PROVE  CountsInv'
        OBVIOUS
    <2>1. CASE UNCHANGED mockVars
        BY <2>1 DEF mockVars, serverVars, CountsInv, IsIssued, DialogIsCounted,
                    AnswerIsCounted, Load, Sleeping, CountOf
    <2>2. ASSUME NEW c \in Clients,
                 OpenDialog(c) \/ SendOrder(c) \/ SendEnd(c) \/ Receive(c) \/ GiveUp(c)
          PROVE  CountsInv'
        BY <2>2, ClientPosts, PostKeepsCounts, ReceiveTakes, TakeKeepsCounts,
           GiveUpLeavesOff, LeaveKeepsCounts
    <2>3. ASSUME NEW r \in requests, Handle(r) PROVE CountsInv'
        BY <2>3, HandleServes, NewKeepsCounts, NamedKeepsCounts
    <2> QED BY <2>1, <2>2, <2>3, DropKeepsCounts, RestartKeepsCounts DEF Next
<1>3. MockTypeOK /\ CountsInv => CountsAgree
    <2> SUFFICES ASSUME MockTypeOK, CountsInv PROVE CountsAgree
        OBVIOUS
    <2>1. ASSUME NEW c \in Clients, client[c].utf8, client[c].dialog \in DOMAIN dialogs
          PROVE  dialogs[client[c].dialog] < client[c].number
        <3> DEFINE d == client[c].dialog
        <3>1. d # Unassigned
            BY <2>1, IdAssumption DEF MockTypeOK, Ids
        <3>2. Load(d) < client[c].number
            BY <2>1, <3>1 DEF CountsInv, DialogIsCounted
        <3>3. CountOf(d) \in Nat /\ Cardinality(Sleeping(d)) \in Nat
            BY LoadType DEF CountsInv
        <3>4. client[c].number \in Nat /\ dialogs[d] = CountOf(d)
            BY <2>1 DEF MockTypeOK, ClientStates, CountOf
        <3> QED BY <3>2, <3>3, <3>4 DEF Load
    <2>2. ASSUME NEW a \in answers, client[a.client].steady, client[a.client].utf8
          PROVE  a.number = client[a.client].number - 1
        BY <2>2 DEF CountsInv, AnswerIsCounted
    <2> QED BY <2>1, <2>2 DEF CountsAgree
<1> QED BY <1>1, <1>2, <1>3, MockTypeCorrect, DialogsHold, AwaitHolds, PTL DEF Spec
=============================================================================
