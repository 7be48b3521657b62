----------------------------- MODULE ServerText -----------------------------
(***************************************************************************)
(* How the mock bank (bin/server.rs) reads a request and writes an answer. *)
(* It does not parse: it looks for marks in the bytes, in the binary of    *)
(* HNVSD too, and takes what stands between two separators; and it writes  *)
(* its answers with format strings.                                        *)
(***************************************************************************)
EXTENDS WireFormat

\* A character outside ASCII: the client writes it in one byte, which is no
\* UTF-8.
Umlaut == "umlaut"
IsUtf8(bytes) == \A i \in DOMAIN bytes : bytes[i] # Umlaut

NotFound == <<"not found">>

\* The bytes after the first place of a mark, or NotFound.
After(bytes, mark) ==
    LET places == {i \in 1..Len(bytes) - Len(mark) + 1 :
                      SubSeq(bytes, i, i + Len(mark) - 1) = mark}
    IN  IF places = {} THEN NotFound
        ELSE LET first == CHOOSE i \in places : \A j \in places : i <= j
             IN  SubSeq(bytes, first + Len(mark), Len(bytes))

\* The bytes before the first of the stops, and those behind it; NotFound
\* when there is none.
StopAt(bytes, stops) ==
    LET places == {i \in DOMAIN bytes : bytes[i] \in stops}
    IN  IF places = {} THEN 0 ELSE CHOOSE i \in places : \A j \in places : i <= j
Before(bytes, stops) ==
    IF bytes = NotFound \/ StopAt(bytes, stops) = 0 THEN NotFound
    ELSE SubSeq(bytes, 1, StopAt(bytes, stops) - 1)
\* Without a stop it is all that is left.
UpTo(bytes, stops) ==
    IF bytes = NotFound \/ StopAt(bytes, stops) = 0 THEN bytes ELSE Before(bytes, stops)
Behind(bytes, stops) ==
    IF bytes = NotFound \/ StopAt(bytes, stops) = 0 THEN NotFound
    ELSE SubSeq(bytes, StopAt(bytes, stops) + 1, Len(bytes))

\* The dialog is the third element behind the mark of the header.
ExtractDialogId(message) ==
    IF ~IsUtf8(message) THEN NotFound
    ELSE LET size == After(message, <<"HNHBK", ":", "1", ":", "3", "+">>)
         IN  Before(Behind(Behind(size, {"+"}), {"+"}), {"+"})

ExtractHnvsd(message) ==
    LET payload == After(message, <<"HNVSD", ":", "999", ":", "1", "+">>)
        rest == IF payload = NotFound THEN <<>> ELSE Tail(payload)
        bytes == Behind(rest, {"@"})
        length == Before(rest, {"@"})
    IN  IF \/ payload = NotFound \/ payload = <<>> \/ payload[1] # "@"
           \/ length = NotFound \/ ~IsNumeral(length) \/ NumOf(length) > Len(bytes)
        THEN NotFound
        ELSE SubSeq(bytes, 1, NumOf(length))

\* The user's signature is the fourth group of HNSHA: the PIN up to the
\* first ":", the TAN behind it; an empty TAN is none.
ExtractPinTan(message) ==
    LET inner == ExtractHnvsd(message)
        hnsha == After(IF inner = NotFound THEN message ELSE inner, <<"HNSHA", ":">>)
        signature == UpTo(Behind(Behind(Behind(hnsha, {"+"}), {"+"}), {"+"}), {"'"})
        tan == Behind(signature, {":"})
    IN  [pin |-> UpTo(signature, {":"}), tan |-> IF tan = <<>> THEN NotFound ELSE tan]

HasSegment(message, type) == After(message, <<type, ":">>) # NotFound

SegmentNumberOf(message, type) == Before(After(message, <<type, ":">>), {":"})

\* The BPD and UPD versions of HKVVB.
ExtractHkvvbVersions(message) ==
    LET degs == Behind(After(message, <<"HKVVB", ":">>), {"+"})
    IN  IF degs = NotFound THEN NotFound
        ELSE <<Before(degs, {"+"}), Before(Behind(degs, {"+"}), {"+", "'"})>>

\* The page an order asks for is its seventh group, whatever the version.
ExtractTouchdownSixth(message) ==
    LET degs == Before(After(message, <<"HKKAZ", ":">>), {"'"})
        Rest[n \in 0..5] == IF n = 0 THEN degs ELSE Behind(Rest[n - 1], {"+"})
        field == UpTo(Rest[5], {"+"})
    IN  IF field = NotFound THEN 0 ELSE NumOf(field)
ExtractTouchdown(message) ==
    LET degs == Before(After(message, <<"HKKAZ", ":">>), {"'"})
        Rest[n \in 0..6] == IF n = 0 THEN degs ELSE Behind(Rest[n - 1], {"+"})
        field == UpTo(Rest[6], {"+"})
    IN  IF field = NotFound THEN 0 ELSE NumOf(field)

----------------------------------------------------------------------------
\* Answers: a segment is given by the words of its groups, "" where nothing
\* stands; it is written as it is.

Words(ws) == Joined(":", [i \in DOMAIN ws |-> IF ws[i] = "" THEN <<>> ELSE <<ws[i]>>])
Written(groups) == Append(Joined("+", [i \in DOMAIN groups |-> Words(groups[i])]), "'")

\* One page of statement lines; the last page is the last one there is.
Pages == <<<<"page0", "page0">>, <<"page1", "page1", "page1">>>>

BpdVersion == "78"
UpdVersion == "3"

BuildBpd ==
    Written(<<<<"HIBPA", "6", "3", "4">>, <<BpdVersion>>, <<"280", "blz">>, <<"Test Bank">>,
              <<"1">>, <<"1">>, <<"300">>, <<"500">>>>)
    \o <<"HIKOM", ":", "7", ":", "4", ":", "4", "+", "280", ":", "blz", "+", "1", "+", "3",
         ":", "http", "?", ":", "//127.0.0.1", "?", ":", "port/", "'">>
    \o Written(<<<<"HIKAZS", "10", "7", "4">>, <<"1">>, <<"1">>, <<"1">>, <<"365", "J", "N">>>>)
    \o Written(<<<<"HISPAS", "31", "1", "4">>, <<"1">>, <<"1">>, <<"1">>, <<"J", "J", "N", "sepa">>>>)
    \o Written(<<<<"HISALS", "19", "7", "4">>, <<"1">>, <<"1">>, <<"1">>>>)
    \o Written(<<<<"HIWPDS", "20", "6", "4">>, <<"1">>, <<"1">>, <<"1">>>>)
    \o Written(<<<<"HITANS", "53", "7", "4">>, <<"1">>, <<"1">>, <<"1">>,
                 <<"N", "N", "0", "942", "2", "MTAN2", "mobileTAN", "", "mobile TAN", "6", "1",
                   "SMS", "3", "1", "J", "1", "0", "N", "0", "2", "N", "J", "0", "1", "1",
                   "962", "2", "HHD1.4", "HHD", "1.4", "Smart-TAN">>>>)
    \o Written(<<<<"HIPINS", "54", "1", "4">>, <<"1">>, <<"1">>, <<"1">>,
                 <<"5", "20", "6", "Benutzer ID", "", "HKSPA", "N", "HKKAZ", "N", "HKSAL", "N",
                   "HKTAN", "N">>>>)

UpdAccount(number, iban, product) ==
    Written(<<<<"HIUPD", "58", "6", "4">>, <<number, "", "280", "blz">>, <<iban>>, <<"bic">>,
              <<"test1">>, <<"EUR">>, <<"Fullname">>, <<>>, <<product>>, <<>>,
              <<"HKSAL", "1">>, <<"HKKAZ", "1">>, <<"HKSPA", "1">>>>)
BuildUpd ==
    Written(<<<<"HIUPA", "57", "4", "4">>, <<"test1">>, <<UpdVersion>>, <<"0">>>>)
    \o UpdAccount("1", "iban1", "Girokonto") \o UpdAccount("2", "iban2", "Tagesgeld")

ValidPin == <<"1234">>
LockedPin == <<"3938">>

Hirms(number, codes) == Written(<<<<"HIRMS", "", "2", number>>>> \o codes)

\* make_answer: the answer to the start of a dialog, by the versions the
\* client has ...
AnswerHkvvb(message, locked) ==
    LET versions == ExtractHkvvbVersions(message)
        number == SegmentNumberOf(message, "HKVVB")[1]
        bpd == versions[1] # <<BpdVersion>>
        upd == versions[2] # <<UpdVersion>>
    IN  IF versions = NotFound THEN <<>>
        ELSE Hirms(number,
                (IF bpd THEN <<<<"3050", "", "BPD">>>> ELSE <<>>)
                \o (IF upd THEN <<<<"3050", "", "UPD">>>> ELSE <<>>)
                \o (IF locked THEN <<<<"3938", "", "gesperrt">>>>
                    ELSE <<<<"3920", "", "TAN-Verfahren", "942">>, <<"0901", "", "PIN">>>>)
                \o <<<<"0020", "", "Dialoginitialisierung">>>>)
             \o (IF bpd THEN BuildBpd ELSE <<>>) \o (IF upd THEN BuildUpd ELSE <<>>)

\* ... a new system id, the accounts, a balance, a page of transactions, the
\* holdings, and the end of the dialog.
AnswerHksyn(message, system) ==
    IF HasSegment(message, "HKSYN")
    THEN Written(<<<<"HISYN", "", "4", "5">>, <<system>>>>) ELSE <<>>

AnswerHkspa(message) ==
    IF HasSegment(message, "HKSPA")
    THEN Written(<<<<"HISPA", "", "1", "4">>, <<"J", "iban1", "bic", "00001", "", "280", "blz">>>>)
    ELSE <<>>

AnswerHksal(message) ==
    LET number == SegmentNumberOf(message, "HKSAL")
    IN  IF number = NotFound THEN <<>>
        ELSE Hirms(number[1], <<<<"0010", "", "Saldo">>>>)
             \o Written(<<<<"HISAL", "", "7", number[1]>>, <<"1", "", "280", "blz">>,
                          <<"Girokonto">>, <<"EUR">>, <<"C", "152", "EUR", "date1">>>>)

AnswerHkkaz(message) ==
    LET number == SegmentNumberOf(message, "HKKAZ")
        start == ExtractTouchdown(message)
        page == Pages[IF start + 1 < Len(Pages) THEN start + 1 ELSE Len(Pages)]
    IN  IF number = NotFound THEN <<>>
        ELSE Hirms(number[1],
                IF start + 1 < Len(Pages)
                THEN <<<<"3040", "", "weitere", ToString(start + 1)>>>>
                ELSE <<<<"0010", "", "Umsaetze">>>>)
             \o <<"HIKAZ", ":", ":", "7", ":", number[1], "+">>
             \o SerializeBinary(page) \o <<"'">>

\* The name of a holding is escaped, as it alone may hold separators.
Holdings ==
    <<[isin |-> "isin1", wkn |-> "514", name |-> <<"DEUTSCHE BANK">>, quantity |-> "100",
       price |-> "14", currency |-> "EUR", date |-> "date1", value |-> "420"],
      [isin |-> "isin2", wkn |-> "A0R", name |-> <<"A", "+", "B">>, quantity |-> "25",
       price |-> "98", currency |-> "USD", date |-> "date2", value |-> "458"]>>
HoldingText(h) ==
    Joined(":", <<<<h.isin>>, <<h.wkn>>, EscapeText(h.name), <<h.quantity>>, <<h.price>>,
                  <<h.currency>>, <<h.date>>, <<h.value>>>>)

AnswerHkwpd(message) ==
    LET number == SegmentNumberOf(message, "HKWPD")
    IN  IF number = NotFound THEN <<>>
        ELSE Hirms(number[1], <<<<"0010", "", "Depot">>>>)
             \o Joined("+", <<<<"HIWPD", ":", ":", "6", ":", number[1]>>,
                              <<"iban1", ":", "bic">>>>
                            \o [i \in DOMAIN Holdings |-> HoldingText(Holdings[i])])
             \o <<"'">>

AnswerHkend(message) ==
    IF HasSegment(message, "HKEND")
    THEN Written(<<<<"HIRMS", "", "2">>, <<"0010", "", "beendet">>>>) ELSE <<>>

MakeAnswer(message, system) ==
    LET pin == ExtractPinTan(message).pin
    IN  IF pin \notin {ValidPin, LockedPin}
        THEN Written(<<<<"HIRMG", "", "2">>, <<"9910", "", "Pin">>>>)
        ELSE Written(<<<<"HIRMG", "", "2">>, <<"0010", "", "entgegengenommen">>>>)
             \o AnswerHkvvb(message, pin = LockedPin)
             \o AnswerHksyn(message, system)
             \o AnswerHkspa(message) \o AnswerHksal(message) \o AnswerHkkaz(message)
             \o AnswerHkwpd(message) \o AnswerHkend(message)

\* build_envelope: the header's size is that of the whole message.
ServerHeader(size, dialog, number) ==
    Written(<<<<"HNHBK", "1", "3">>, <<size>>, <<"300">>, <<dialog>>, <<ToString(number)>>>>)
ServerHnvsk ==
    Joined("+", <<Words(<<"HNVSK", "998", "3">>), Words(<<"PIN", "1">>), <<"998">>, <<"1">>,
                  Words(<<"2", "", "0">>), <<"1">>,
                  Words(<<"2", "2", "13">>) \o <<":">>
                      \o SerializeBinary([i \in 1..8 |-> "0"]) \o <<":", "5", ":", "1">>,
                  Words(<<"280", "blz", "0", "S", "0", "0">>), <<"0", "'">>>>)
BuildEnvelope(dialog, number, inner) ==
    LET body == ServerHnvsk
                \o <<"HNVSD", ":", "999", ":", "1", "+">> \o SerializeBinary(inner) \o <<"'">>
                \o Written(<<<<"HNHBS", "5", "1">>, <<ToString(number)>>>>)
    IN  ServerHeader(ToString(Len(ServerHeader("0", dialog, number)) + Len(body)), dialog, number)
        \o body
=============================================================================
