--------------------------- MODULE SegmentBuilder ---------------------------
(***************************************************************************)
(* The segments the client sends (segments/builder.rs) and the choice of   *)
(* their version and account format (protocol.rs, `Segment::to_degs`).     *)
(*                                                                         *)
(* A segment is a record whose "type" is its name; texts are sequences of  *)
(* symbols, <<>> where the code has None.  An account is                   *)
(* [iban, bic, national]: iban is <<>> for a national account, which has   *)
(* national = [number, blz] instead; a German IBAN is written as its three *)
(* parts, check digits, BLZ and account number.  Of the bank's parameters  *)
(* "listed" are the pairs <<type, version>> of the BPD segments and        *)
(* "hktan" the version of the selected TAN method.                         *)
(***************************************************************************)
EXTENDS WireFormat

Texts == Seq(STRING)
Numerals == 0..MaxNumeral

\* Account::new and Account::national refuse what is empty.
NotEmpty == Texts \ {<<>>}
Accounts ==
    [iban : NotEmpty, bic : NotEmpty, national : {<<>>}]
    \cup [iban : {<<>>}, bic : NotEmpty, national : [number : NotEmpty, blz : NotEmpty]]
BankParameters == [listed : SUBSET (STRING \X Nat), hktan : Numerals]

\* The segments a caller can ask for.
Segments ==
    [type : {"HKIDN"}, blz : Texts, user : Texts, system : Texts]
    \cup [type : {"HKVVB"}, bpd : Numerals, upd : Numerals, product : Texts]
    \cup [type : {"HKTAN"}, process : {"4"}, for : STRING, task : {<<>>}, medium : Texts]
    \cup [type : {"HKTAN"}, process : {"2", "S"}, for : STRING, task : Texts, medium : Texts]
    \cup [type : {"HKSYN", "HKTAB", "HKSPA"}]
    \cup [type : {"HKEND"}, dialog : Texts]
    \cup [type : {"HKSAL", "DKWVB"}, account : Accounts]
    \cup [type : {"HKKAZ", "HKWDU"}, account : Accounts, from : Texts, to : Texts,
          touchdown : Texts]
    \cup [type : {"HKWPD"}, account : Accounts, currency : Texts, touchdown : Texts]
    \cup [type : {"DKWDH"}, account : Accounts, isin : BOOLEAN, security : Texts, date : Texts]
    \cup [type : {"DKKKU"}, account : Accounts, card : Texts, from : Texts, touchdown : Texts]

\* The words that are written; of these, too, the provers know no type.
ASSUME BuilderWords ==
    {"HKIDN", "HKVVB", "HKTAN", "HKSYN", "HKTAB", "HKSPA", "HKEND", "HKSAL", "HKKAZ", "HKWPD",
     "HKWDU", "DKWVB", "DKWDH", "DKKKU", "0", "1", "1.0", "2", "4", "280", "A", "N",
     "S"} \subseteq STRING

One(w) == <<Word(w)>>
OneText(s) == <<DeText(s)>>
Nothing == <<Empty>>

SegHeader(type, number, version) == <<Word(type), Number(number), Number(version)>>

\* supported_version: the highest listed version up to 7, or 7.
Version(params, type, least) ==
    LET listed == {v \in 1..7 : <<type, v>> \in params.listed}
        best == IF listed = {} THEN 7 ELSE CHOOSE v \in listed : \A w \in listed : w <= v
    IN  IF best < least THEN least ELSE best

\* The orders whose version depends on the bank: the parameter segment, the
\* least version, and the first version that takes the account as IBAN:BIC.
Negotiated ==
    [HKSAL |-> [params |-> "HISALS", least |-> 5, kti |-> 7],
     HKKAZ |-> [params |-> "HIKAZS", least |-> 5, kti |-> 7],
     HKWPD |-> [params |-> "HIWPDS", least |-> 1, kti |-> 7],
     HKWDU |-> [params |-> "HIWDUS", least |-> 1, kti |-> 5]]

OrderVersion(seg, params) ==
    CASE seg.type \in DOMAIN Negotiated ->
            Version(params, Negotiated[seg.type].params, Negotiated[seg.type].least)
      [] seg.type = "DKKKU" -> 2
      [] OTHER -> 1

TakesKti(seg, version) ==
    seg.type \in DOMAIN Negotiated /\ version >= Negotiated[seg.type].kti

\* extract_national_account: a German IBAN contains the BLZ and the number.
NationalIdentity(account) ==
    IF account.national # <<>> THEN account.national
    ELSE IF Len(account.iban) = 3
         THEN [number |-> <<account.iban[3]>>, blz |-> <<account.iban[2]>>]
         ELSE [number |-> account.iban, blz |-> <<>>]

Kti(account) == <<Text(account.iban), Text(account.bic)>>
NationalDeg(account) ==
    LET id == NationalIdentity(account)
    IN  <<DeText(id.number), Empty, Word("280"), DeText(id.blz)>>

\* The continuation of a paged order comes last, when there is one.
TouchdownDeg(seg) == IF seg.touchdown = <<>> THEN <<>> ELSE <<OneText(seg.touchdown)>>

\* The groups after the account.
OrderFields(seg) ==
    CASE seg.type = "HKSAL" -> <<One("N"), Nothing>>
      [] seg.type = "HKKAZ" ->
            <<One("N"), OneText(seg.from), OneText(seg.to), Nothing>> \o TouchdownDeg(seg)
      [] seg.type = "HKWPD" ->
            <<OneText(seg.currency), Nothing, Nothing>> \o TouchdownDeg(seg)
      [] seg.type = "HKWDU" ->
            IF seg.from = <<>> /\ seg.to = <<>> /\ seg.touchdown = <<>> THEN <<>>
            ELSE <<One("N"), Nothing, OneText(seg.from), OneText(seg.to), Nothing>>
                    \o TouchdownDeg(seg)
      [] seg.type = "DKWDH" ->
            <<<<Word(IF seg.isin THEN "1" ELSE "2"), DeText(seg.security)>>, OneText(seg.date)>>
      [] seg.type = "DKWVB" -> <<One("N")>>
      [] seg.type = "DKKKU" ->
            <<OneText(seg.card), Nothing, OneText(seg.from), Nothing>> \o TouchdownDeg(seg)

Order(seg, params) ==
    LET version == OrderVersion(seg, params)
    IN  <<SegHeader(seg.type, 0, version),
          IF TakesKti(seg, version) THEN Kti(seg.account) ELSE NationalDeg(seg.account)>>
        \o OrderFields(seg)

\* HKTAN: process 4 names the segment a TAN is wanted for; 2 (with the TAN)
\* and S (a poll) name the task.  From version 6 on three groups stand
\* before the TAN medium.
TanFields(seg, version) ==
    CASE seg.process = "4" ->
            <<One(seg.for)>> \o
                (IF version >= 6
                 THEN <<Nothing, Nothing, Nothing, Nothing, Nothing>> ELSE <<>>)
      [] seg.process # "4" /\ version >= 6 ->
            <<Nothing, Nothing, Nothing, OneText(seg.task), One("N"), Nothing>>
      [] OTHER -> <<Nothing, Nothing, OneText(seg.task), One("N")>>

TanMediumAnyVersion(seg, version) ==
    IF seg.medium = <<>> THEN <<>> ELSE <<OneText(seg.medium)>>
TanMedium(seg, version) ==
    IF seg.medium = <<>> THEN <<>>
    ELSE (IF version >= 6 THEN <<Nothing, Nothing, Nothing>> ELSE <<>>)
            \o <<OneText(seg.medium)>>

Hktan(seg, params) ==
    <<SegHeader("HKTAN", 0, params.hktan), One(seg.process)>>
        \o TanFields(seg, params.hktan) \o TanMedium(seg, params.hktan)

Hkidn(seg) ==
    <<SegHeader("HKIDN", 0, 2), <<Word("280"), DeText(seg.blz)>>, OneText(seg.user),
      OneText(seg.system), One("1")>>

Hkvvb(seg) ==
    <<SegHeader("HKVVB", 0, 3), <<Number(seg.bpd)>>, <<Number(seg.upd)>>, One("1"),
      OneText(seg.product), One("1.0")>>

ToDegs(seg, params) ==
    CASE seg.type = "HKIDN" -> Hkidn(seg)
      [] seg.type = "HKVVB" -> Hkvvb(seg)
      [] seg.type = "HKSYN" -> <<SegHeader("HKSYN", 0, 3), One("0")>>
      [] seg.type = "HKTAN" -> Hktan(seg, params)
      [] seg.type = "HKEND" -> <<SegHeader("HKEND", 0, 1), OneText(seg.dialog)>>
      [] seg.type = "HKTAB" -> <<SegHeader("HKTAB", 0, 4), One("A")>>
      [] seg.type = "HKSPA" -> <<SegHeader("HKSPA", 0, 1)>>
      [] OTHER -> Order(seg, params)

IsOrder(seg) == "account" \in DOMAIN seg

\* require_iban refuses a national account where version 7 is required ...
IsRefused(seg, params) ==
    /\ seg.type \in DOMAIN Negotiated
    /\ seg.account.iban = <<>>
    /\ OrderVersion(seg, params) >= 7

\* ... and Kti::new asserts that there is an IBAN and a BIC.
Panics(seg, params) ==
    /\ IsOrder(seg) /\ ~IsRefused(seg, params)
    /\ TakesKti(seg, OrderVersion(seg, params))
    /\ seg.account.iban = <<>> \/ seg.account.bic = <<>>
=============================================================================
