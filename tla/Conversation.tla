---------------------------- MODULE Conversation ----------------------------
(***************************************************************************)
(* What the bank may expect of one client's message stream: the abstract   *)
(* specification of FinTSDialog (protocol.rs, the `dialog_id` and          *)
(* `message_number` of every Dialog<S>).                                   *)
(*                                                                         *)
(* The client holds at most one conversation.  It opens one with message   *)
(* 1, adopts the dialog id the bank gives, which no message carried        *)
(* before, numbers its further messages consecutively, says goodbye once   *)
(* and nothing after it, and may forget the conversation at any time.      *)
(***************************************************************************)
EXTENDS Naturals

CONSTANTS
    DialogIds,     \* dialog ids the bank can issue
    Unassigned     \* the dialog id of a message outside any dialog

VARIABLES
    current,       \* the dialog id of the conversation
    next,          \* the number of its next message
    over,          \* it was ended by the client
    wire           \* every message sent, as <<dialog id, number>>

vars == <<current, next, over, wire>>

Init ==
    /\ current = Unassigned
    /\ next = 1
    /\ over = FALSE
    /\ wire = {}

\* A conversation begins, whatever became of the one before.
Begin ==
    /\ current' = Unassigned
    /\ next' = 2
    /\ over' = FALSE
    /\ wire' = wire \cup {<<Unassigned, 1>>}

\* The id of the conversation, or a new one for a conversation without.
Names(d) ==
    \/ d = current
    \/ /\ current = Unassigned
       /\ d \in DialogIds
       /\ \A m \in wire : m[1] # d

Adopt ==
    /\ \E d \in DialogIds : Names(d) /\ current' = d
    /\ ~over
    /\ UNCHANGED <<next, over, wire>>

\* A message of the conversation, the last one or not.
Say ==
    /\ ~over
    /\ \E d \in DialogIds :
          /\ Names(d)
          /\ current' = d
          /\ wire' = wire \cup {<<d, next>>}
    /\ next' = next + 1
    /\ over' \in BOOLEAN

Forget ==
    /\ current' = Unassigned
    /\ next' = 1
    /\ over' = FALSE
    /\ UNCHANGED wire

Next == Begin \/ Adopt \/ Say \/ Forget

Spec == Init /\ [][Next]_vars
=============================================================================
