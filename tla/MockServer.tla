----------------------------- MODULE MockServer -----------------------------
(***************************************************************************)
(* The mock bank as a server (bin/server.rs): its requests sleep for the   *)
(* simulated latency while the lock on the state is free, and are then     *)
(* handled one at a time, in any order.  It is used by dialogs             *)
(* (protocol.rs), which may give a request up, and it may be restarted.    *)
(* What the answers say is the matter of ServerText.                       *)
(***************************************************************************)
EXTENDS Integers, FiniteSets

CONSTANTS
    Clients,
    Umlauts,       \* clients whose user name may have an umlaut
    Openings,      \* pairs of BOOLEAN: with HKSYN, with the right PIN
    Unassigned,    \* the dialog "0"
    None,          \* no system id
    MaxMessages,   \* bound on the messages of each client
    MaxRestarts    \* bound on the restarts of the server

ASSUME ClientsAssumption == Umlauts \subseteq Clients
ASSUME OpeningsAssumption == Openings \subseteq BOOLEAN \X BOOLEAN
ASSUME IdAssumption == Unassigned \notin Nat \X Nat /\ None \notin Nat \X Nat
ASSUME BoundAssumption == MaxMessages \in [Clients -> Nat] /\ MaxRestarts \in Nat

VARIABLES
    epoch,            \* which random prefixes the server has drawn
    dialogs,          \* the dialogs it knows: id -> message_count
    dialog_counter,
    system_counter,
    systems,          \* the system ids it has given out
    requests,         \* the requests that sleep
    answers,          \* the answers on their way
    client            \* per client: dialog, number of the next message, ...

serverVars == <<epoch, dialogs, dialog_counter, system_counter, systems>>
mockVars == <<serverVars, requests, answers, client>>

Ids == Nat \X Nat

\* kind: "open" with or without HKSYN and with a right or wrong PIN, "order",
\* "end".
Requests ==
    [client : Clients, serial : Nat, dialog : Ids \cup {Unassigned}, number : Nat,
     kind : {"open", "order", "end"}, sync : BOOLEAN, pin : BOOLEAN]
Answers ==
    [client : Clients, serial : Nat, dialog : Ids, number : Nat, ok : BOOLEAN,
     system : Ids \cup {None}]

\* serial numbers a client's messages, waiting is that of the message it
\* waits for or 0, kind the kind of that message; utf8: its messages, written
\* in ISO-8859-1, are UTF-8 too; steady: since the dialog was begun nothing was
\* given up and the server was not restarted.
ClientStates ==
    [dialog : Ids \cup {Unassigned}, number : Nat, serial : Nat, waiting : Nat,
     kind : {"open", "order", "end"}, system : Ids \cup {None}, steady : BOOLEAN,
     utf8 : BOOLEAN]

Init ==
    /\ epoch = 0
    /\ dialogs = [d \in {} |-> 0]
    /\ dialog_counter = 0 /\ system_counter = 0
    /\ systems = {}
    /\ requests = {} /\ answers = {}
    /\ \E ascii \in SUBSET Umlauts :
          client = [c \in Clients |->
                      [dialog |-> Unassigned, number |-> 1, serial |-> 0, waiting |-> 0,
                       kind |-> "end", system |-> None, steady |-> FALSE,
                       utf8 |-> c \notin Umlauts \/ c \in ascii]]

----------------------------------------------------------------------------
\* The clients.

IsIdle(c) == client[c].waiting = 0 /\ client[c].serial < MaxMessages[c]

Send(c, kind, dialog, number, sync, pin, steady) ==
    /\ requests' = requests \cup
          {[client |-> c, serial |-> client[c].serial + 1, dialog |-> dialog,
            number |-> number, kind |-> kind, sync |-> sync, pin |-> pin]}
    /\ client' = [client EXCEPT ![c] =
          [@ EXCEPT !.dialog = dialog, !.number = number + 1,
                    !.serial = client[c].serial + 1,
                    !.waiting = client[c].serial + 1,
                    !.kind = kind, !.steady = steady]]
    /\ UNCHANGED <<serverVars, answers>>

\* sync, init and the probe begin a dialog with message 1 of dialog "0".
OpenDialog(c) ==
    /\ IsIdle(c)
    /\ client[c].dialog = Unassigned
    /\ \E o \in Openings : Send(c, "open", Unassigned, 1, o[1], o[2], TRUE)

SendOrder(c) ==
    /\ IsIdle(c)
    /\ client[c].dialog # Unassigned
    /\ Send(c, "order", client[c].dialog, client[c].number, FALSE, TRUE, client[c].steady)

\* send_end: whatever happens to it, the dialog is left.
SendEnd(c) ==
    /\ IsIdle(c)
    /\ client[c].dialog # Unassigned
    /\ Send(c, "end", client[c].dialog, client[c].number, FALSE, TRUE, client[c].steady)

\* The dialog a client has when the message it waits for is answered by a.
DialogAfter(c, a) ==
    CASE client[c].kind = "open"  -> IF a.ok THEN a.dialog ELSE Unassigned
      [] client[c].kind = "order" -> client[c].dialog
      [] client[c].kind = "end"   -> Unassigned

\* A refused opening ends the dialog at the client only.
Receive(c) ==
    \E a \in answers :
        /\ a.client = c /\ a.serial = client[c].waiting
        /\ answers' = answers \ {a}
        /\ client' = [client EXCEPT ![c] =
              [@ EXCEPT !.waiting = 0,
                        !.dialog = DialogAfter(c, a),
                        !.system = IF a.system = None THEN client[c].system ELSE a.system]]
        /\ UNCHANGED <<serverVars, requests>>

\* The request fails, or nothing has come for too long.  A dialog that is open
\* is kept, one that was being opened or ended is not.
GiveUp(c) ==
    /\ client[c].waiting # 0
    /\ client' = [client EXCEPT ![c] =
          [@ EXCEPT !.waiting = 0,
                    !.dialog = IF client[c].kind = "order" THEN client[c].dialog ELSE Unassigned,
                    !.steady = FALSE]]
    /\ answers' = {a \in answers : a.client # c}
    /\ UNCHANGED <<serverVars, requests>>

----------------------------------------------------------------------------
\* The server.

\* extract_dialog_id: what is no UTF-8 has no dialog, and counts as "0".
DialogNamed(r) == IF client[r.client].utf8 THEN r.dialog ELSE Unassigned

\* The prefix is drawn anew by every start of the server.
NewDialogIdFixedPrefix == <<0, dialog_counter + 1>>
NewDialogId == <<epoch, dialog_counter + 1>>
NewSystemIdFixedPrefix == <<0, system_counter + 1>>
NewSystemId == <<epoch, system_counter + 1>>

\* A dialog that is not known is created with no messages.
CountOfFromOne(d) == IF d \in DOMAIN dialogs THEN dialogs[d] ELSE 1
CountOf(d) == IF d \in DOMAIN dialogs THEN dialogs[d] ELSE 0
Counted(d) ==
    [e \in DOMAIN dialogs \cup {d} |-> IF e = d THEN CountOf(d) + 1 ELSE dialogs[e]]

\* make_answer gives out a system id after the check of the PIN.
IsSynchronized(r) == r.sync /\ r.pin

\* The number of the answer is the count of its dialog.
AnswerNumberBefore(d) == CountOf(d)
AnswerNumber(d) == CountOf(d) + 1

\* A client that has given up has closed its connection.
AnswersWithAsked(r, d) ==
    IF client[r.client].waiting # r.serial THEN answers
    ELSE answers \cup
            {[client |-> r.client, serial |-> r.serial, dialog |-> DialogNamed(r),
              number |-> AnswerNumber(d), ok |-> r.pin,
              system |-> IF IsSynchronized(r) THEN NewSystemId ELSE None]}
AnswersWith(r, d) ==
    IF client[r.client].waiting # r.serial THEN answers
    ELSE answers \cup
            {[client |-> r.client, serial |-> r.serial, dialog |-> d,
              number |-> AnswerNumber(d), ok |-> r.pin,
              system |-> IF IsSynchronized(r) THEN NewSystemId ELSE None]}

\* handle_fints_request behind the second lock: nothing comes in between.
HandleKnown(r) ==
    /\ r \in requests
    /\ requests' = requests \ {r}
    /\ LET isNew == DialogNamed(r) = Unassigned
           d == IF isNew THEN NewDialogId ELSE DialogNamed(r)
       IN  /\ isNew \/ d \in DOMAIN dialogs
           /\ dialog_counter' = IF isNew THEN dialog_counter + 1 ELSE dialog_counter
           /\ dialogs' = Counted(d)
           /\ answers' = AnswersWith(r, d)
    /\ IF IsSynchronized(r)
       THEN /\ system_counter' = system_counter + 1
            /\ systems' = systems \cup {NewSystemId}
       ELSE UNCHANGED <<system_counter, systems>>
    /\ UNCHANGED <<epoch, client>>
Handle(r) ==
    /\ r \in requests
    /\ requests' = requests \ {r}
    /\ LET isNew == DialogNamed(r) = Unassigned
           d == IF isNew THEN NewDialogId ELSE DialogNamed(r)
       IN  /\ dialog_counter' = IF isNew THEN dialog_counter + 1 ELSE dialog_counter
           /\ dialogs' = Counted(d)
           /\ answers' = AnswersWith(r, d)
    /\ IF IsSynchronized(r)
       THEN /\ system_counter' = system_counter + 1
            /\ systems' = systems \cup {NewSystemId}
       ELSE UNCHANGED <<system_counter, systems>>
    /\ UNCHANGED <<epoch, client>>

\* The handler of a connection that the client has closed may be dropped.
Drop(r) ==
    /\ r \in requests
    /\ client[r.client].waiting # r.serial
    /\ requests' = requests \ {r}
    /\ UNCHANGED <<serverVars, answers, client>>

\* All that is in memory is lost, and so are the requests.
Restart ==
    /\ epoch < MaxRestarts
    /\ epoch' = epoch + 1
    /\ dialogs' = [d \in {} |-> 0]
    /\ dialog_counter' = 0 /\ system_counter' = 0
    /\ systems' = {}
    /\ requests' = {}
    /\ client' = [c \in Clients |-> [client[c] EXCEPT !.steady = FALSE]]
    /\ UNCHANGED answers

Next ==
    \/ \E c \in Clients :
          OpenDialog(c) \/ SendOrder(c) \/ SendEnd(c) \/ Receive(c) \/ GiveUp(c)
    \/ \E r \in requests : Handle(r) \/ Drop(r)
    \/ Restart

\* A request does not sleep forever, and the lock is free again after every
\* request; an answer arrives or the connection fails; a lost request fails.
IsLost(c) ==
    /\ client[c].waiting # 0
    /\ \A r \in requests : ~(r.client = c /\ r.serial = client[c].waiting)
    /\ \A a \in answers : ~(a.client = c /\ a.serial = client[c].waiting)
Fairness ==
    \A c \in Clients :
        /\ WF_mockVars(\E r \in requests :
                          r.client = c /\ r.serial = client[c].waiting /\ Handle(r))
        /\ WF_mockVars(Receive(c))
        /\ WF_mockVars(IsLost(c) /\ GiveUp(c))

Spec == Init /\ [][Next]_mockVars /\ Fairness

----------------------------------------------------------------------------

MockTypeOK ==
    /\ epoch \in Nat /\ dialog_counter \in Nat /\ system_counter \in Nat
    /\ DOMAIN dialogs \subseteq Ids
    /\ \A d \in DOMAIN dialogs : dialogs[d] \in Nat
    /\ systems \subseteq Ids
    /\ requests \subseteq Requests
    /\ answers \subseteq Answers
    /\ client \in [Clients -> ClientStates]

\* Two clients are never in one dialog, in whatever order their requests wake
\* up, and not after a restart either, when the counters begin again while
\* dialogs of the old server are still in use.
NoSharedDialog ==
    \A c, e \in Clients :
        (c # e /\ client[c].dialog # Unassigned) => client[c].dialog # client[e].dialog

\* No system id is given to two clients, over restarts too: it is what a
\* device is recognized by.
NoSharedSystem ==
    \A c, e \in Clients :
        (c # e /\ client[c].system # None) => client[c].system # client[e].system

\* The server's count is never ahead of the client, retries and restarts
\* included: no message is counted twice, or in another's dialog.  And the
\* answers of a dialog are numbered as its messages are, as long as nothing was
\* given up: the requests of others that are handled in between do not disturb
\* the count.
CountsAgree ==
    /\ \A c \in Clients :
          (client[c].utf8 /\ client[c].dialog \in DOMAIN dialogs) =>
              dialogs[client[c].dialog] < client[c].number
    /\ \A a \in answers :
          (client[a.client].steady /\ client[a.client].utf8) =>
              a.number = client[a.client].number - 1

\* No client waits forever.
EveryoneIsAnswered ==
    \A c \in Clients : client[c].waiting # 0 ~> client[c].waiting = 0
=============================================================================
