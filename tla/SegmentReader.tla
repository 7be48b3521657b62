--------------------------- MODULE SegmentReader ---------------------------
(***************************************************************************)
(* What the client reads from the segments of an answer                    *)
(* (segments/response.rs, and `ResponseCode` in types.rs).  The heuristics *)
(* that classify a text by its characters are constant sets of texts;      *)
(* an amount is a numeral, None stands for what could not be read, and a   *)
(* text is the sequence of its symbols.                                    *)
(***************************************************************************)
EXTENDS WireFormat

CONSTANTS
    Ibans, Bics,        \* texts that look like an IBAN, a BIC
    Isins, Wkns,        \* ... an ISIN, a WKN
    ThreeLetters,       \* three capital letters, as a currency has
    Dates,              \* eight digits that are a date
    ShortNumbers,       \* one or two digits
    Alphabetic,         \* two to ten letters, as an exchange has
    None                \* what is missing or could not be read

GetDe(seg, i, j) == Get(DegAt(seg, i), j)
OrNone(text) == IF text = <<>> THEN None ELSE text
FirstOf(text, other) == IF text # <<>> THEN text ELSE other

\* An amount: debits are negative.
AmountOf(text) == IF IsNumeral(text) THEN NumOf(text) ELSE None
SignedUnsigned(indicator, text) == AmountOf(text)
Signed(indicator, text) ==
    IF IsNumeral(text) /\ indicator = <<"D">> THEN -NumOf(text) ELSE AmountOf(text)
DateOf(text) == IF text \in Dates THEN text ELSE None

\* The groups after the first n, in order.
GroupsFrom(seg, n) == SubSeq(seg, n + 1, Len(seg))

----------------------------------------------------------------------------
\* Response codes: a group of three elements at least, the code, a reference
\* and the text, then the parameters that are not empty.

Parameters(deg) ==
    SelectSeq([i \in 1..Len(deg) - 3 |-> Get(deg, i + 2)], LAMBDA p : p # <<>>)
CodesFromSegment(seg) ==
    LET coded == SelectSeq(GroupsFrom(seg, 1),
                           LAMBDA d : Len(d) >= 3 /\ Get(d, 0) # <<>>)
    IN  [i \in DOMAIN coded |->
            [code |-> Get(coded[i], 0), params |-> Parameters(coded[i])]]

\* HIRMG is global, HIRMS belongs to a segment.
CodesOfType(segs, type) ==
    LET found == OfType(segs, type)
    IN  FlattenSeq([i \in DOMAIN found |-> CodesFromSegment(found[i])])
GlobalCodes(segs) == CodesOfType(segs, "HIRMG")
SegmentCodes(segs) == CodesOfType(segs, "HIRMS")

WithCode(codes, code) == SelectSeq(codes, LAMBDA c : c.code = <<code>>)

\* find_touchdown: the parameter of the first 3040 of the orders, then of the
\* message; without a parameter it is empty.
TouchdownOfGlobal(segs) ==
    LET found == WithCode(GlobalCodes(segs), "3040")
    IN  IF found = <<>> THEN None
        ELSE IF found[1].params = <<>> THEN <<>> ELSE found[1].params[1]
TouchdownOf(segs) ==
    LET found == WithCode(SegmentCodes(segs) \o GlobalCodes(segs), "3040")
    IN  IF found = <<>> THEN None
        ELSE IF found[1].params = <<>> THEN <<>> ELSE found[1].params[1]

\* extract_allowed_security_functions: of the first 3920 of each kind.
FirstParams(codes) ==
    LET found == WithCode(codes, "3920") IN IF found = <<>> THEN <<>> ELSE found[1].params
AllowedFunctions(segs) == FirstParams(SegmentCodes(segs)) \o FirstParams(GlobalCodes(segs))

----------------------------------------------------------------------------
\* HITANS: one group per TAN method from the fifth on.

TanMethod(deg, version) ==
    LET name == Get(deg, IF version >= 6 THEN 3 ELSE 2)
        decoupled == version >= 7 /\ Len(deg) > 24
        Polls(i, default) ==
            IF decoupled /\ IsNumeral(Get(deg, i)) THEN NumOf(Get(deg, i)) ELSE default
    IN  [fn |-> Get(deg, 0), process |-> Get(deg, 1),
         name |-> FirstOf(name, <<"TAN-">> \o Get(deg, 0)),
         medium |-> version >= 6 /\ Len(deg) > 13 /\ Get(deg, 13) \in {<<"1">>, <<"2">>},
         decoupled |-> decoupled /\ Get(deg, 21) = <<"J">>,
         polls |-> Polls(22, -1), first |-> Polls(23, 0), next |-> Polls(24, 0),
         hktan |-> version]

ReadHitans(seg) ==
    LET listed == SelectSeq(GroupsFrom(seg, 4),
                            LAMBDA d : Len(d) >= 3 /\ Get(d, 0) # <<>>)
    IN  [i \in DOMAIN listed |-> TanMethod(listed[i], SegmentVersion(seg))]

\* HITAN: from version 6 on, reference and challenge may stand elsewhere.
ReadHitan(seg) ==
    IF SegmentVersion(seg) >= 6
    THEN [task |-> FirstOf(Str(seg, 2), Str(seg, 3)),
          challenge |-> FirstOf(Str(seg, 4), Str(seg, 3))]
    ELSE [task |-> Str(seg, 2), challenge |-> Str(seg, 3)]

\* HITAB: the names of the active media.
ReadHitab(seg) ==
    LET active == SelectSeq(GroupsFrom(seg, 1),
                            LAMBDA d : /\ Len(d) >= 3
                                       /\ Get(d, 0) \in {<<"A">>, <<"1">>}
                                       /\ Get(d, 2) # <<>>)
    IN  [i \in DOMAIN active |-> Get(active[i], 2)]

\* HISPA: a J or N may precede the IBAN.
SepaAccountOf(deg) ==
    LET start == IF Get(deg, 0) \in {<<"J">>, <<"N">>} THEN 1 ELSE 0
    IN  [iban |-> Get(deg, start), bic |-> Get(deg, start + 1),
         number |-> Get(deg, start + 2), blz |-> Get(deg, start + 5)]
ReadHispa(seg) ==
    LET groups == SelectSeq(GroupsFrom(seg, 1),
                            LAMBDA d : Len(d) >= 2 /\ SepaAccountOf(d).iban # <<>>)
    IN  [i \in DOMAIN groups |-> SepaAccountOf(groups[i])]

----------------------------------------------------------------------------
\* HIUPD: IBAN and BIC are looked for in every group.

FirstIn(seg, from, upto, set) ==
    LET found == {i \in from..upto : Str(seg, i) \in set}
    IN  IF found = {} THEN <<>>
        ELSE Str(seg, CHOOSE i \in found : \A j \in found : i <= j)

HasUpd(seg) == DegCount(seg) >= 3
ReadHiupd(seg) ==
    [iban |-> FirstIn(seg, 1, DegCount(seg) - 1, Ibans),
     bic |-> FirstIn(seg, 2, DegCount(seg) - 1, Bics),
     number |-> GetDe(seg, 1, 0), blz |-> GetDe(seg, 1, 3),
     owner |-> OrNone(FirstOf(Str(seg, 6), Str(seg, 7))),
     product |-> OrNone(FirstOf(Str(seg, 8), Str(seg, 9))),
     currency |-> OrNone(Str(seg, 5)),
     kind |-> OrNone(FirstIn(seg, 3, 5, ShortNumbers))]

\* HIPINS: pairs of an order and J or N anywhere in a group; what is no pair
\* shifts the reading by one element.
IsPair(deg, i, orders) ==
    i < Len(deg) /\ Get(deg, i - 1) \in orders /\ Get(deg, i) \in {<<"J">>, <<"N">>}
PinRulesOfDegByTwo(deg, orders) ==
    {<<Get(deg, i - 1), Get(deg, i) = <<"J">>>> :
        i \in {j \in 1..Len(deg) : j % 2 = 1 /\ IsPair(deg, j, orders)}}
PinRulesOfDeg(deg, orders) ==
    {<<Get(deg, i - 1), Get(deg, i) = <<"J">>>> :
        i \in {j \in 1..Len(deg) : IsPair(deg, j, orders)}}
ReadHipins(seg, orders) ==
    UNION {PinRulesOfDeg(seg[i], orders) : i \in 2..DegCount(seg)}

ReadHibpa(seg) == NumOf(Str(seg, 1))
ReadHiupa(seg) == NumOf(Str(seg, 3))
ReadHisyn(seg) == Str(seg, 1)

\* The parameter segments of the orders, which supported_version looks up.
HighestVersion(segs, type, max) ==
    LET offered == {SegmentVersion(segs[i]) :
                        i \in {j \in DOMAIN segs : SegmentType(segs[j]) = type}} \cap 1..max
    IN  IF offered = {} THEN 0 ELSE CHOOSE v \in offered : \A w \in offered : w <= v

----------------------------------------------------------------------------
\* HISAL: booked balance in group 4, pending in 5, credit line in 6,
\* available amount in 7.

CanReadHisal(seg) == Len(DegAt(seg, 4)) >= 3 /\ IsNumeral(GetDe(seg, 4, 1))
ReadHisal(seg) ==
    [amount |-> Signed(GetDe(seg, 4, 0), GetDe(seg, 4, 1)),
     date |-> IF DateOf(GetDe(seg, 4, 3)) = None THEN <<"today">> ELSE GetDe(seg, 4, 3),
     currency |-> FirstOf(GetDe(seg, 4, 2), FirstOf(Str(seg, 3), <<"EUR">>)),
     pending |-> IF Len(DegAt(seg, 5)) >= 2
                 THEN Signed(GetDe(seg, 5, 0), GetDe(seg, 5, 1)) ELSE None,
     credit |-> AmountOf(Str(seg, 6)),
     available |-> AmountOf(Str(seg, 7))]

\* HIKAZ: the booked and the pending pages of all segments, joined.
BinaryAt(seg, i) == IF IsBinary(seg, i) THEN Str(seg, i) ELSE <<>>
Mt940(segs) ==
    LET hikaz == OfType(segs, "HIKAZ")
    IN  [booked |-> FlattenSeq([i \in DOMAIN hikaz |-> BinaryAt(hikaz[i], 1)]),
         pending |-> FlattenSeq([i \in DOMAIN hikaz |-> BinaryAt(hikaz[i], 2)])]

\* The statements in the groups of a depot segment.
Blobs(seg) ==
    LET binary == SelectSeq(GroupsFrom(seg, 1),
                            LAMBDA d : DeAt(d, 0).kind = "Binary")
    IN  [i \in DOMAIN binary |-> Get(binary[i], 0)]

----------------------------------------------------------------------------
\* parse_holding_deg: each element is taken for the first thing it can be and
\* that is still missing.

NoPosition ==
    [isin |-> None, wkn |-> None, name |-> None, quantity |-> None, price |-> None,
     price_currency |-> None, price_date |-> None, value |-> None,
     value_currency |-> None, exchange |-> None]

ReadNumberPriceFirst(h, n) ==
    IF h.price = None THEN [h EXCEPT !.price = n]
    ELSE IF h.quantity = None THEN [h EXCEPT !.quantity = n]
    ELSE IF h.value = None THEN [h EXCEPT !.value = n] ELSE h
ReadNumber(h, n) ==
    IF h.quantity = None THEN [h EXCEPT !.quantity = n]
    ELSE IF h.price = None THEN [h EXCEPT !.price = n]
    ELSE IF h.value = None THEN [h EXCEPT !.value = n] ELSE h

ReadCurrency(h, w) ==
    IF h.price_currency = None /\ (h.price # None \/ h.quantity # None)
    THEN [h EXCEPT !.price_currency = w,
                   !.value_currency = IF @ = None THEN w ELSE @]
    ELSE [h EXCEPT !.value_currency = w]

IsCurrency(h, w) ==
    /\ w \in ThreeLetters
    /\ \/ h.price_currency = None /\ (h.price # None \/ h.quantity # None)
       \/ h.value_currency = None

ReadElement(h, w) ==
    IF w = <<>> THEN h
    ELSE IF h.isin = None /\ w \in Isins THEN [h EXCEPT !.isin = w]
    ELSE IF h.wkn = None /\ w \in Wkns /\ h.isin # None THEN [h EXCEPT !.wkn = w]
    ELSE IF h.price_date = None /\ w \in Dates THEN [h EXCEPT !.price_date = w]
    ELSE IF IsCurrency(h, w) THEN ReadCurrency(h, w)
    ELSE IF IsNumeral(w) THEN ReadNumber(h, NumOf(w))
    ELSE IF h.name = None /\ h.isin # None THEN [h EXCEPT !.name = w]
    ELSE IF h.exchange = None /\ w \in Alphabetic /\ h.isin # None
         THEN [h EXCEPT !.exchange = w]
    ELSE h

\* Without a market value it is quantity times price.
WithValue(h) ==
    IF h.value = None /\ h.price # None /\ h.quantity # None
    THEN [h EXCEPT !.value = h.quantity * h.price] ELSE h
ReadPosition(deg) ==
    WithValue(FoldLeft(LAMBDA h, de : ReadElement(h, de.value), NoPosition, deg))

\* The positions of a HIWPD without a statement.
Positions(seg) ==
    LET groups == SelectSeq(GroupsFrom(seg, 2),
                            LAMBDA d : Len(d) >= 3 /\ ReadPosition(d).isin # None)
    IN  [i \in DOMAIN groups |-> ReadPosition(groups[i])]

----------------------------------------------------------------------------
\* DIKKU: credit card transactions from group 6 on; one without a date or an
\* amount is skipped.

CardTransaction(deg) ==
    [date |-> Get(deg, 1), valuta |-> DateOf(Get(deg, 2)),
     amount |-> Signed(Get(deg, 10), Get(deg, 8)),
     currency |-> FirstOf(Get(deg, 9), <<"EUR">>),
     purpose |-> Get(deg, 11) \o Get(deg, 12),
     booked |-> Len(deg) > 19 /\ Get(deg, 19) = <<"J">>,
     mcc |-> IF Len(deg) > 21 THEN OrNone(Get(deg, 21)) ELSE None]

ReadDikku(seg) ==
    LET groups == SelectSeq(GroupsFrom(seg, 6),
                            LAMBDA d : /\ Len(d) >= 12
                                       /\ Get(d, 1) \in Dates
                                       /\ IsNumeral(Get(d, 8)))
    IN  [i \in DOMAIN groups |-> CardTransaction(groups[i])]
=============================================================================
