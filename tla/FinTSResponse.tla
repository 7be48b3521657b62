--------------------------- MODULE FinTSResponse ---------------------------
(***************************************************************************)
(* What the client reads from one answer of the bank (protocol.rs,         *)
(* `Response`).  An answer is a record:                                    *)
(*                                                                         *)
(*   id      the dialog id of the answer's HNHBK                           *)
(*   codes   the response codes of HIRMG and HIRMS together; every code    *)
(*           the client does not tell apart is represented by one of its   *)
(*           class ("9010" stands for every error but a wrong PIN)         *)
(*   hitan   the task reference of HITAN, NoTask when there is no HITAN    *)
(*   hibpa, hiupa   the versions of the HIBPA / HIUPA segments, in order   *)
(*   hitans  the TAN methods the HITANS segments list, in order            *)
(*   hipins  what HIPINS says of each order: "tan", "pin", "unlisted"      *)
(*   hiupd   the accounts the HIUPD segments list, in order                *)
(*   params  the other BPD parameter segments, pairs <<type, version>>     *)
(*   hisyn   the system ids of the HISYN segments, in order                *)
(*   allowed the security functions of the codes 3920, in order            *)
(*                                                                         *)
(* Texts, and the order of segments of different types, are left out: no   *)
(* decision of the client depends on them.                                 *)
(***************************************************************************)
EXTENDS Integers, Sequences

CONSTANT
    Unassigned    \* the dialog id "0" of a message outside any dialog

\* The task references a bank hands out in one dialog: one for its
\* initialisation, one for an order.
Tasks == {"init", "order"}
NoTask == "none"

Codes == {"0020", "0030", "0100", "3040", "3076", "3955", "3956",
          "9010", "9110", "9340", "9800", "9942"}

AllCodes(r) == r.codes

NeedsTanAnswer(r) == AllCodes(r) \cap {"0030", "3955"} # {}

IsDecoupledPending(r) == "3956" \in AllCodes(r)

HasScaExemption(r) == "3076" \in AllCodes(r)

Touchdown(r) == "3040" \in AllCodes(r)

\* The codes that check_errors turns into an Err: the codes of class 9.
ErrorCodes == {"9010", "9110", "9340", "9800", "9942"}

\* check_errors: Ok unless some code is an error.  Which error is reported
\* first matters to the message only.
HasErrorsPinOnly(r) == AllCodes(r) \cap {"9340", "9942"} # {}
HasErrors(r) == AllCodes(r) \cap ErrorCodes # {}

HasTanChallenge(r) == r.hitan # NoTask

\* A TAN is required and the answer carries the challenge to answer it with.
RequiresTan(r) == NeedsTanAnswer(r) /\ HasTanChallenge(r)

\* The same for an order in an open dialog, where an exemption is honoured.
OrderRequiresTan(r) == RequiresTan(r) /\ ~HasScaExemption(r)

\* extract_dialog_id: an answer outside any dialog leaves the id alone.
ExtractDialogIdForgotten(id, r) == id
ExtractDialogId(id, r) == IF r.id = Unassigned THEN id ELSE r.id
=============================================================================
