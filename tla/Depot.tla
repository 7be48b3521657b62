------------------------------- MODULE Depot -------------------------------
(***************************************************************************)
(* The depot statements in the binaries of HIWPD, DIWDH (mt535.rs) and     *)
(* HIWDU (mt536.rs).  A statement is a sequence of symbols: NewLine, the   *)
(* tags of its fields, and what they say.                                  *)
(***************************************************************************)
EXTENDS SegmentReader

CONSTANTS NewLine, Joint   \* "|", by which continued lines are joined

\* A tag is the start of a field's line, ":" or "-" first.
HoldingTags ==
    {":35B:", ":90B::MRKT//ACTU/", ":90A::MRKT//PRCT/", ":98A::PRIC//", ":98C::PRIC//",
     ":93B::AGGR//UNIT/", ":93B::AGGR//FAMT/", ":19A::HOLD//", ":70E::HOLD//"}
TransactionTags ==
    {":35B:", ":36B::PSTA//UNIT/", ":36B::PSTA//FAMT/", ":19A::PSTA//", ":22H::REDE//",
     ":98A::ESET//", ":98A::SETT//", ":25D::MOVE//", ":70E::TRDE//"}
BlockTags ==
    {":16R:GENL", ":16S:GENL", ":16R:FIN", ":16S:FIN", ":16R:TRAN", ":16S:TRAN",
     ":16R:TRANSDET", ":16S:TRANSDET", "-"}
Tags == HoldingTags \cup TransactionTags \cup BlockTags

\* starts_with: a longer tag starts with the shorter one.
StartsWith(line, tag) ==
    \/ line[1] = tag
    \/ tag = ":16R:TRAN" /\ line[1] = ":16R:TRANSDET"
    \/ tag = ":16S:TRAN" /\ line[1] = ":16S:TRANSDET"

\* The pieces between the symbols that pass as separators.
PiecesOf(s, separators) ==
    FoldLeft(LAMBDA pieces, c :
                IF c \in separators THEN Append(pieces, <<>>)
                ELSE [pieces EXCEPT ![Len(pieces)] = Append(@, c)],
             <<<<>>>>, s)
FullPieces(s, separators) ==
    SelectSeq(PiecesOf(s, separators), LAMBDA piece : piece # <<>>)

\* collapse_multilines: a line without a tag continues the one before it.
Continued(lines, line) ==
    IF line[1] \in Tags THEN Append(lines, line)
    ELSE IF lines = <<>> THEN lines
    ELSE [lines EXCEPT ![Len(lines)] = @ \o <<Joint>> \o line]
CollapseMultilines(blob) == FoldLeft(Continued, <<>>, FullPieces(blob, {NewLine}))

\* parse_identification: the part behind "ISIN", the part behind "/DE/", and
\* what is neither is the name; parts stand between blanks and joints.
NoIdentity == [isin |-> None, wkn |-> None, name |-> <<>>, expect |-> FALSE]
IdentityPart(id, part) ==
    CASE part = <<"ISIN">>  -> [id EXCEPT !.expect = TRUE]
      [] part # <<"ISIN">> /\ id.expect -> [id EXCEPT !.isin = part, !.expect = FALSE]
      [] part # <<"ISIN">> /\ ~id.expect /\ part[1] = "/DE/" ->
            [id EXCEPT !.wkn = Tail(part)]
      [] OTHER -> [id EXCEPT !.name = @ \o part]
ParseIdentification(rest) ==
    FoldLeft(IdentityPart, NoIdentity, FullPieces(rest, {Blank, Joint}))
WithIdentity(fields, rest) ==
    LET id == ParseIdentification(rest)
    IN  [fields EXCEPT !.name = id.name,
                       !.isin = IF id.isin = None THEN @ ELSE id.isin,
                       !.wkn = IF id.wkn = None THEN @ ELSE id.wkn]

\* A currency and an amount in one text.
MoneyCurrency(rest) == <<rest[1]>>
MoneyAmount(rest) == AmountOf(Tail(rest))

----------------------------------------------------------------------------
\* MT535.

NoHolding ==
    [isin |-> None, wkn |-> None, name |-> <<>>, quantity |-> None, price |-> None,
     price_currency |-> None, price_date |-> None, value |-> None, value_currency |-> None,
     acquired |-> None, acquisition_price |-> None, acquisition_currency |-> None]

\* The date of acquisition is the fifth part of the narrative's line 1, price
\* and currency the first two of its line 2.
PartOf(piece, n) ==
    LET parts == PiecesOf(Tail(piece), {"+"})
    IN  IF n \in DOMAIN parts THEN parts[n] ELSE <<>>
NarrativeLine(fields, piece) ==
    CASE piece[1] = "1" /\ PartOf(piece, 5) # <<>> ->
            [fields EXCEPT !.acquired = DateOf(PartOf(piece, 5))]
      [] piece[1] = "2" ->
            [fields EXCEPT
                !.acquisition_price =
                    IF PartOf(piece, 1) = <<>> THEN @ ELSE AmountOf(PartOf(piece, 1)),
                !.acquisition_currency =
                    IF PartOf(piece, 2) = <<>> THEN @ ELSE PartOf(piece, 2)]
      [] OTHER -> fields

HoldingField(fields, line) ==
    LET rest == Tail(line)
    IN  CASE line[1] = ":35B:" -> WithIdentity(fields, rest)
          [] line[1] = ":90B::MRKT//ACTU/" /\ Len(rest) > 1 ->
                [fields EXCEPT !.price_currency = MoneyCurrency(rest),
                               !.price = MoneyAmount(rest)]
          [] line[1] = ":90A::MRKT//PRCT/" -> [fields EXCEPT !.price = AmountOf(rest)]
          [] line[1] \in {":98A::PRIC//", ":98C::PRIC//"} ->
                [fields EXCEPT !.price_date = DateOf(rest)]
          [] line[1] \in {":93B::AGGR//UNIT/", ":93B::AGGR//FAMT/"} ->
                [fields EXCEPT !.quantity = AmountOf(rest)]
          [] line[1] = ":19A::HOLD//" /\ Len(rest) > 1 ->
                [fields EXCEPT !.value_currency = MoneyCurrency(rest),
                               !.value = MoneyAmount(rest)]
          [] line[1] = ":70E::HOLD//" ->
                FoldLeft(NarrativeLine, fields, FullPieces(rest, {Joint}))
          [] OTHER -> fields

IsHolding(fields) == fields.isin # None \/ fields.wkn # None \/ fields.name # <<>>

\* A position is what stands between :16R:FIN and :16S:FIN; outside there is
\* none (current = None).
HoldingLine(state, line) ==
    CASE StartsWith(line, ":16R:FIN") -> [state EXCEPT !.current = NoHolding]
      [] StartsWith(line, ":16S:FIN") ->
            [current |-> None,
             holdings |-> IF state.current # None /\ IsHolding(state.current)
                          THEN Append(state.holdings, state.current) ELSE state.holdings]
      [] line[1] \notin {":16R:FIN", ":16S:FIN"} /\ state.current # None ->
            [state EXCEPT !.current = HoldingField(@, line)]
      [] OTHER -> state

ParseMt535(blob) ==
    FoldLeft(HoldingLine, [current |-> None, holdings |-> <<>>],
             CollapseMultilines(blob)).holdings

----------------------------------------------------------------------------
\* MT536.

NoTransaction ==
    [isin |-> None, wkn |-> None, name |-> <<>>, quantity |-> None, amount |-> None,
     currency |-> None, direction |-> None, effective |-> None, settled |-> None,
     reversal |-> FALSE, details |-> None]

TransactionField(fields, line) ==
    LET rest == Tail(line)
    IN  CASE line[1] \in {":36B::PSTA//UNIT/", ":36B::PSTA//FAMT/"} ->
                [fields EXCEPT !.quantity = AmountOf(rest)]
          [] line[1] = ":19A::PSTA//" /\ Len(rest) > 1 ->
                [fields EXCEPT !.currency = MoneyCurrency(rest), !.amount = MoneyAmount(rest)]
          [] line[1] = ":22H::REDE//" ->
                [fields EXCEPT !.direction =
                    IF rest \in {<<"RECE">>, <<"DELI">>} THEN rest ELSE <<"Unknown">>]
          [] line[1] = ":98A::ESET//" -> [fields EXCEPT !.effective = DateOf(rest)]
          [] line[1] = ":98A::SETT//" -> [fields EXCEPT !.settled = DateOf(rest)]
          [] line[1] = ":25D::MOVE//" -> [fields EXCEPT !.reversal = @ \/ rest = <<"REVE">>]
          [] line[1] = ":70E::TRDE//" -> [fields EXCEPT !.details = rest]
          [] OTHER -> fields

IsTransaction(fields) ==
    fields.direction # None \/ fields.effective # None \/ fields.settled # None

\* A transaction begins at :16R:TRAN, with the security of its block, and
\* again at the :16R:TRANSDET in it; the first of the two ends that follow
\* completes it.
TransactionLine(state, line) ==
    CASE StartsWith(line, ":16R:FIN") -> [state EXCEPT !.security = NoIdentity]
      [] StartsWith(line, ":16S:FIN") -> [state EXCEPT !.security = None]
      [] StartsWith(line, ":16R:TRAN") ->
            IF state.security = None THEN state
            ELSE [state EXCEPT !.current =
                    [NoTransaction EXCEPT !.isin = state.security.isin,
                                          !.wkn = state.security.wkn,
                                          !.name = state.security.name]]
      [] StartsWith(line, ":16S:TRAN") ->
            [state EXCEPT
                !.current = None,
                !.transactions = IF state.current # None /\ IsTransaction(state.current)
                                 THEN Append(@, state.current) ELSE @]
      [] line[1] = ":35B:" ->
            IF state.current = None /\ state.security # None
            THEN [state EXCEPT !.security = WithIdentity(@, Tail(line))] ELSE state
      [] line[1] \notin BlockTags \cup {":35B:"} /\ state.current # None ->
            [state EXCEPT !.current = TransactionField(@, line)]
      [] OTHER -> state

ParseMt536(blob) ==
    FoldLeft(TransactionLine, [security |-> None, current |-> None, transactions |-> <<>>],
             CollapseMultilines(blob)).transactions

----------------------------------------------------------------------------
\* parse_hiwpd: the statements of a segment, or its positions when it has
\* none; parse_diwdh and parse_hiwdu: the statements.

Flattened(segs, type, Read(_)) ==
    LET found == OfType(segs, type)
    IN  FlattenSeq([i \in DOMAIN found |-> Read(found[i])])
Statements535(seg) == FlattenSeq([i \in DOMAIN Blobs(seg) |-> ParseMt535(Blobs(seg)[i])])
Statements536(seg) == FlattenSeq([i \in DOMAIN Blobs(seg) |-> ParseMt536(Blobs(seg)[i])])

ReadHiwpd(segs) ==
    Flattened(segs, "HIWPD",
              LAMBDA seg : IF Blobs(seg) = <<>> THEN Positions(seg) ELSE Statements535(seg))
ReadDiwdh(segs) == Flattened(segs, "DIWDH", Statements535)
ReadHiwdu(segs) == Flattened(segs, "HIWDU", Statements536)
=============================================================================
