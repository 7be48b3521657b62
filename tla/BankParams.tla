----------------------------- MODULE BankParams -----------------------------
(***************************************************************************)
(* The bank and user parameters a dialog caches (protocol.rs,              *)
(* `BankParams`): what an answer changes in them, and what the client      *)
(* reads out of them.                                                      *)
(***************************************************************************)
EXTENDS FinTSResponse

CONSTANTS
    SecurityFunctions,   \* codes of the TAN methods
    PinOnly,             \* the code 999: signed with the PIN alone
    Accounts,            \* accounts of the user parameter data
    NoFunction           \* no preferred security function was configured

ASSUME PinOnlyAssumption == PinOnly \in SecurityFunctions
ASSUME NoFunctionAssumption == NoFunction \notin SecurityFunctions

\* What a TAN method is chosen by; its other parameters are left out.
TanMethods == [fn : SecurityFunctions, decoupled : BOOLEAN]

\* The segment types of the business orders; "RAW" is a segment built by the
\* caller (send_raw).
BusinessOrders ==
    {"HKSAL", "HKKAZ", "HKWPD", "HKWDU", "DKWDH", "DKKKU", "DKWVB", "RAW"}

\* What HIPINS says of an order: a TAN is required, or the PIN is enough.
PinRules == [BusinessOrders -> {"tan", "pin", "unlisted"}]
NoRules == [op \in BusinessOrders |-> "unlisted"]

\* The caches a client can hold.
BankParamsType ==
    [bpd_version : Nat, upd_version : Nat, tan_methods : Seq(TanMethods),
     bpd_segments : SUBSET (STRING \X Nat),
     operation_tan_required : PinRules,
     allowed : Seq(SecurityFunctions), selected : SecurityFunctions,
     accounts_from_upd : Seq(Accounts),
     preferred : SecurityFunctions \cup {NoFunction}]

NewParams ==
    [bpd_version |-> 0, upd_version |-> 0, tan_methods |-> <<>>,
     bpd_segments |-> {}, accounts_from_upd |-> <<>>,
     operation_tan_required |-> NoRules,
     allowed |-> <<>>, selected |-> PinOnly, preferred |-> NoFunction]

\* The last element of a sequence, or the given default when there is none.
LastOrDefault(s, default) == default
LastOr(s, default) == IF s = <<>> THEN default ELSE s[Len(s)]

\* HashMap::extend: the entries of new replace those of old.
Extend(old, new) ==
    [op \in BusinessOrders |-> IF new[op] = "unlisted" THEN old[op] ELSE new[op]]

\* ingest_response.  Versions and HIPINS entries are replaced; TAN methods,
\* accounts and parameter segments are added to those already there.
IngestResponse(p, r) ==
    [p EXCEPT
        !.bpd_version = LastOr(r.hibpa, @),
        !.upd_version = LastOr(r.hiupa, @),
        !.tan_methods = @ \o r.hitans,
        !.operation_tan_required = Extend(@, r.hipins),
        !.accounts_from_upd = @ \o r.hiupd,
        !.bpd_segments = @ \cup r.params,
        !.allowed = IF r.allowed = <<>> THEN @ ELSE r.allowed]

IngestSystemId(sid, r) == LastOr(r.hisyn, sid)

\* The methods listed for a function: the first one found is the one used.
MethodIndices(p, fn) == {i \in 1..Len(p.tan_methods) : p.tan_methods[i].fn = fn}

FirstMethod(p, fn) ==
    p.tan_methods[CHOOSE i \in MethodIndices(p, fn) :
                     \A j \in MethodIndices(p, fn) : i <= j]

\* Without a HIPINS entry an order is taken to need a TAN.
OrderNeedsTan(p, op) == p.operation_tan_required[op] # "pin"

\* Decoupled methods rank before other known methods, those before unknown
\* ones.
Rank(p, fn) ==
    IF MethodIndices(p, fn) = {} THEN 0
    ELSE IF FirstMethod(p, fn).decoupled THEN 2 ELSE 1

\* Positions in the allowed list that max_by_key can return: best rank, and
\* the last of those.
BestAllowed(p) ==
    LET candidates == {i \in 1..Len(p.allowed) : p.allowed[i] # PinOnly}
    IN  {i \in candidates :
            \A j \in candidates :
                \/ Rank(p, p.allowed[j]) < Rank(p, p.allowed[i])
                \/ Rank(p, p.allowed[j]) = Rank(p, p.allowed[i]) /\ j <= i}

PreferenceAllowed(p) == \E i \in 1..Len(p.allowed) : p.allowed[i] = p.preferred

SelectSecurityFunction(p) ==
    IF PreferenceAllowed(p) THEN [p EXCEPT !.selected = p.preferred]
    ELSE IF BestAllowed(p) = {} THEN p
    ELSE [p EXCEPT !.selected = p.allowed[CHOOSE i \in BestAllowed(p) : TRUE]]

\* init and init_negotiate select again only when the answer lists functions.
IngestAndKeep(p, r) == IngestResponse(p, r)
IngestAndNegotiate(p, r) ==
    IF r.allowed = <<>> THEN IngestResponse(p, r)
                        ELSE SelectSecurityFunction(IngestResponse(p, r))

\* supported_version: the highest version the bank lists up to max, and max
\* itself when it lists none.
SupportedVersion(p, type, max) ==
    LET offered == {v \in 1..max : <<type, v>> \in p.bpd_segments}
    IN  IF offered = {} THEN max ELSE CHOOSE v \in offered : \A w \in offered : w <= v
=============================================================================
