-------------------------------- MODULE Audit -------------------------------
(***************************************************************************)
(* The compliance rules of audit.rs for a client's message, as the set of  *)
(* those it breaks.  outer are its segments, inner those in the binary of  *)
(* HNVSD, and payload says how that binary is: "parsed", "unreadable" or   *)
(* "not binary".                                                           *)
(***************************************************************************)
EXTENDS WireFormat

Broken(rule, condition) == IF condition THEN {rule} ELSE {}

\* An element that must be a number of at least least.
BelowOrNoNumber(text, least) == ~IsNumeral(text) \/ NumOf(text) < least

HnhbkRules(outer) ==
    IF OfType(outer, "HNHBK") = <<>> THEN {"HNHBK-001"}
    ELSE LET hnhbk == outer[1]
         IN  Broken("HNHBK-001", Len(OfType(outer, "HNHBK")) > 1
                                    \/ SegmentType(hnhbk) # "HNHBK")
             \cup Broken("HNHBK-002", BelowOrNoNumber(Str(hnhbk, 1), 50))
             \cup Broken("HNHBK-003", Str(hnhbk, 3) # <<"300">>)
             \cup Broken("HNHBK-004", BelowOrNoNumber(Str(hnhbk, 4), 1))

\* The first segment of a type must be there and have the given number.
FirstIsNot(outer, type, number) ==
    LET found == OfType(outer, type)
    IN  found = <<>> \/ SegmentNumber(found[1]) # number

HnvskRules(outer) == Broken("HNVSK-001", FirstIsNot(outer, "HNVSK", 998))

HnvsdRules(outer, payload) ==
    Broken("HNVSD-001", FirstIsNot(outer, "HNVSD", 999))
    \cup Broken("HNVSD-002", OfType(outer, "HNVSD") # <<>> /\ payload # "parsed")

\* What the payload of a client's message must contain.
InnerRule ==
    [HNSHK |-> "HNSHK-001", HNSHA |-> "HNSHA-001", HKIDN |-> "HKIDN-001",
     HKVVB |-> "HKVVB-001"]
InnerClientRules(inner) ==
    {InnerRule[type] : type \in {t \in DOMAIN InnerRule : OfType(inner, t) = <<>>}}

HnhbsRuleMisplaced(outer) ==
    Broken("HNHBS-001", OfType(outer, "HNHBS") # <<>> /\ SegmentType(Last(outer)) # "HNHBS")
HnhbsRule(outer) ==
    Broken("HNHBS-001", outer = <<>> \/ SegmentType(Last(outer)) # "HNHBS")

\* The rules about the inner segments are checked when there are any to see.
ClientAudit(outer, inner, payload) ==
    HnhbkRules(outer) \cup HnvskRules(outer) \cup HnvsdRules(outer, payload)
    \cup (IF OfType(outer, "HNVSD") # <<>> /\ payload = "parsed"
          THEN InnerClientRules(inner) ELSE {})
    \cup HnhbsRule(outer)

\* A message that does not parse breaks this rule alone.
Unparsed == {"PARSE-001"}
=============================================================================
