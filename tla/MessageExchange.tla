-------------------------- MODULE MessageExchange --------------------------
(***************************************************************************)
(* One message on its way: the client builds a request, the mock bank      *)
(* looks through its bytes and answers, and the client parses the answer.  *)
(* The request is parsed too, as the audit does.  Instead of the mock bank *)
(* a bank may have written the answer, and a request may be cut off.       *)
(*                                                                         *)
(* A letter is a request [kind, ctx, orders, params, cut] or an answer of  *)
(* a bank [kind, segs, envelope, blanks].                                  *)
(***************************************************************************)
EXTENDS WireParser, Envelope, Audit, ServerText, Depot

CONSTANT Letters

VARIABLES
    letter,   \* what is sent
    phase     \* "new", "refused", "panicked", "request", "answer"

exchangeVars == <<parserVars, letter, phase>>

Business == BusinessDegs(letter.orders, letter.params)
RequestBytes == BuildMessage(letter.ctx, letter.orders, letter.params)

Requests ==
    [kind : {"request"}, ctx : Contexts, orders : Seq(Segments), params : BankParameters,
     cut : {"no", "may be", "is"}]

\* A bank puts its segments into an envelope, may leave the envelope out, and
\* may break lines between segments.
Spaced(segs) == FlattenSeq([i \in DOMAIN segs |-> SerializeSegment(segs[i]) \o <<Blank>>])
AnswerPayload(answer) ==
    LET bytes == SerializeMessage(answer.segs)
    IN  CASE answer.envelope = "sound"     -> bytes
          [] answer.envelope = "no length" -> Append(bytes, "@")
          [] answer.envelope = "dangling"  -> Append(bytes, "?")
AnswerSegments(answer) ==
    <<Hnhbk(100, <<"dialog">>, 1)>>
    \o (CASE answer.envelope \in {"sound", "no length", "dangling"} ->
                <<Hnvsd(AnswerPayload(answer))>>
          [] answer.envelope = "text" -> <<<<SegHeader("HNVSD", 999, 1), One("data")>>>>
          [] answer.envelope = "none" -> answer.segs)
    \o <<Hnhbs(5, 1)>>
AnswerBytes(answer) ==
    IF answer.blanks THEN Spaced(AnswerSegments(answer))
    ELSE SerializeMessage(AnswerSegments(answer))

\* The mock bank answers a whole request; its dialog is the one named, or a
\* new one.
DialogAtServer(message) ==
    LET id == ExtractDialogId(message)
    IN  IF id \in {NotFound, <<"0">>} THEN "new" ELSE id[1]
MockBytes(ctx, message) ==
    BuildEnvelope(DialogAtServer(message), ctx.number, MakeAnswer(message, "system1"))

\* What a message has to number is no larger than the largest number there is.
Fits(ctx, business) ==
    /\ SizeOf(ctx, business) <= MaxNumeral
    /\ Len(SerializeMessage(InnerSegments(ctx, business))) <= MaxNumeral
    /\ Len(business) + 4 <= MaxNumeral

\* A letter is a request or an answer, and what is written to answer a request
\* that can be built is a text.
ASSUME LettersAssumption ==
    \A l \in Letters :
        \/ /\ l \in Requests
           /\ CanBuild(l.ctx, l.orders, l.params) =>
                 /\ Fits(l.ctx, BusinessDegs(l.orders, l.params))
                 /\ MockBytes(l.ctx, BuildMessage(l.ctx, l.orders, l.params)) \in Texts
        \/ l.kind = "answer" /\ AnswerBytes(l) \in Texts

\* A new parser.
Parse(bytes) ==
    /\ data' = bytes /\ pos' = 1 /\ mode' = "between" /\ need_new_de' = TRUE
    /\ deg' = <<>> /\ degs' = <<>> /\ segments' = <<>>
    /\ level' = "outer" /\ outer' = <<>>

Init ==
    /\ letter \in Letters
    /\ phase = "new"
    /\ ParserInit(<<>>)

----------------------------------------------------------------------------

\* The request is built, and arrives whole or cut off.
Build ==
    /\ phase = "new" /\ letter.kind = "request"
    /\ CanBuild(letter.ctx, letter.orders, letter.params)
    /\ phase' = "request"
    /\ LET bytes == RequestBytes
       IN  \/ Parse(bytes) /\ UNCHANGED letter
           \/ /\ letter.cut = "may be"
              /\ \E n \in 1..Len(bytes) - 1 : Parse(SubSeq(bytes, 1, n))
              /\ letter' = [letter EXCEPT !.cut = "is"]

\* A segment that cannot be built is an error of the call ...
Refuse ==
    /\ phase = "new" /\ letter.kind = "request"
    /\ ~CanBuild(letter.ctx, letter.orders, letter.params)
    /\ ~\E i \in DOMAIN letter.orders : Panics(letter.orders[i], letter.params)
    /\ phase' = "refused"
    /\ UNCHANGED <<parserVars, letter>>

\* ... or ends the program.
Panic ==
    /\ phase = "new" /\ letter.kind = "request"
    /\ \E i \in DOMAIN letter.orders : Panics(letter.orders[i], letter.params)
    /\ phase' = "panicked"
    /\ UNCHANGED <<parserVars, letter>>

BankWrites ==
    /\ phase = "new" /\ letter.kind = "answer"
    /\ phase' = "answer"
    /\ Parse(AnswerBytes(letter))
    /\ UNCHANGED letter

IsRead == mode = "done"
ServerAnswers ==
    /\ phase = "request" /\ IsRead /\ letter.cut # "is"
    /\ phase' = "answer"
    /\ Parse(MockBytes(letter.ctx, RequestBytes))
    /\ UNCHANGED letter

ReadOn ==
    /\ phase \in {"request", "answer"}
    /\ ParserNext
    /\ UNCHANGED <<letter, phase>>

Next == Build \/ Refuse \/ Panic \/ BankWrites \/ ServerAnswers \/ ReadOn

Spec == Init /\ [][Next]_exchangeVars

----------------------------------------------------------------------------

RequestRead == phase = "request" /\ IsRead /\ letter.cut # "is"
AnswerRead == phase = "answer" /\ IsRead
MockRead == AnswerRead /\ letter.kind = "request"

\* What the parser reads of a request is what the serializer was given,
\* whatever its texts contain: the escaping, the lengths of binaries and the
\* omission of trailing empty elements fit the parser's separators.
RoundTrip ==
    RequestRead =>
        /\ outer = AsRead(MessageSegments(letter.ctx, Business))
        /\ segments = AsRead(InnerSegments(letter.ctx, Business))

\* The parts of a request agree with each other: the size in the header is
\* the length of the message, the number of the message stands in header and
\* trailer, the segments are numbered without a gap up to the trailer, and
\* both ends of the signature have the same reference.  The signature has the
\* PIN, and a second element exactly when a TAN was given, the empty TAN of a confirmed
\* app included: without it the bank takes the message for one without TAN.
IsConsistent ==
    RequestRead =>
        LET header == outer[1]  trailer == outer[Len(outer)]
            inner == segments
            signature == DegAt(inner[Len(inner)], 3)
        IN  /\ NumOf(Str(header, 1)) = Len(RequestBytes)
            /\ Str(header, 4) = Str(trailer, 1)
            /\ \A i \in DOMAIN inner : SegmentNumber(inner[i]) = i + 1
            /\ SegmentNumber(trailer) = Len(inner) + 2
            /\ Str(inner[1], 3) = Str(inner[Len(inner)], 1)
            /\ Get(signature, 0) = letter.ctx.pin
            /\ IF letter.ctx.tan = NoTan THEN Len(signature) <= 1
               ELSE Len(signature) = 2 /\ Get(signature, 1) = letter.ctx.tan

\* Every order is built in a version the bank lists, if it lists one that the
\* client can build, with the account as that version has it; HKTAN names task
\* and medium where its version has them.
ListedOf(type) ==
    {v \in Negotiated[type].least..7 : <<Negotiated[type].params, v>> \in letter.params.listed}
OrderFits(seg, sent) ==
    LET version == SegmentVersion(seg)
        type == SegmentType(seg)
    IN  /\ type \in DOMAIN Negotiated => ListedOf(type) = {} \/ version \in ListedOf(type)
        /\ TakesKti(sent, version) => DegAt(seg, 1) = Kti(sent.account)
        /\ ~TakesKti(sent, version) =>
              /\ Len(DegAt(seg, 1)) >= 3
              /\ GetDe(seg, 1, 2) = <<"280">>
              /\ sent.account.national # <<>> => GetDe(seg, 1, 0) = sent.account.national.number
              /\ Len(sent.account.iban) = 3 => GetDe(seg, 1, 0) = <<sent.account.iban[3]>>
HktanFits(seg, sent) ==
    SegmentVersion(seg) >= 6 =>
        /\ Str(seg, 11) = sent.medium
        /\ Str(seg, 5) = sent.task
        /\ Str(seg, 2) = (IF sent.process = "4" THEN <<sent.for>> ELSE <<>>)
OrdersFitTheBank ==
    RequestRead =>
        \A i \in DOMAIN letter.orders :
            LET sent == letter.orders[i]  seg == segments[i + 1]
            IN  /\ IsOrder(sent) => OrderFits(seg, sent)
                /\ sent.type = "HKTAN" => HktanFits(seg, sent)

\* The mock bank finds in the bytes what the client put into the segments:
\* dialog, PIN and TAN, the orders, and the page of an order.  It does not
\* undo the escaping, and it knows ASCII alone.
IsPlain(text) == \A i \in DOMAIN text : text[i] \notin Special \cup {Umlaut}
ServerReadsRequest ==
    (RequestRead /\ IsUtf8(RequestBytes) /\ IsPlain(letter.ctx.pin \o letter.ctx.tan)) =>
        /\ ExtractDialogId(RequestBytes) = letter.ctx.dialog
        /\ ExtractHnvsd(RequestBytes) = SerializeMessage(InnerSegments(letter.ctx, Business))
        /\ ExtractPinTan(RequestBytes) =
              [pin |-> letter.ctx.pin,
               tan |-> IF letter.ctx.tan \in {NoTan, <<>>} THEN NotFound ELSE letter.ctx.tan]
        /\ \A i \in DOMAIN letter.orders :
              LET type == letter.orders[i].type
              IN  /\ HasSegment(RequestBytes, type)
                  /\ SegmentNumberOf(RequestBytes, type) = <<ToString(i + 2)>>
        /\ \A i \in DOMAIN letter.orders :
              letter.orders[i].type = "HKKAZ" =>
                  ExtractTouchdown(RequestBytes) = NumOf(letter.orders[i].touchdown)

----------------------------------------------------------------------------
\* The answers.

Sends(type) == \E i \in DOMAIN letter.orders : letter.orders[i].type = type
Ordered(type) == letter.orders[CHOOSE i \in DOMAIN letter.orders : letter.orders[i].type = type]
IsAdmitted == letter.ctx.pin \in {ValidPin, LockedPin}
Found(type) == OfType(AllSegments, type)

\* The opening of a dialog with the mock bank: a client without parameters
\* gets them all, one that has them gets none; accounts with IBAN and BIC, the
\* rules of the orders, and with HKSYN a system id.  (The TAN methods and the
\* version of the user parameters are read at other places than the mock bank
\* writes them.)
OpeningIsRead ==
    (MockRead /\ Sends("HKVVB") /\ IsAdmitted) =>
        LET vvb == Ordered("HKVVB")
            bpd == ToString(vvb.bpd) # BpdVersion
            upd == ToString(vvb.upd) # UpdVersion
        IN  /\ (Found("HIBPA") # <<>>) = bpd
            /\ bpd => /\ ReadHibpa(Found("HIBPA")[1]) = 78
                      /\ ReadHipins(Found("HIPINS")[1], {<<"HKSPA">>, <<"HKKAZ">>, <<"HKSAL">>, <<"HKTAN">>})
                            = {<<"HKSPA">>, <<"HKKAZ">>, <<"HKSAL">>, <<"HKTAN">>} \X {FALSE}
                      /\ HighestVersion(AllSegments, "HIWPDS", 7) = 6
                      /\ HighestVersion(AllSegments, "HIKAZS", 7) = 7
            /\ upd => \A i \in {1, 2} :
                        LET account == ReadHiupd(Found("HIUPD")[i])
                        IN  /\ account.iban = <<<<"iban1">>, <<"iban2">>>>[i]
                            /\ account.bic = <<"bic">>
                            /\ account.blz = <<"blz">>
            /\ Len(Found("HIUPD")) = (IF upd THEN 2 ELSE 0)
            /\ AllowedFunctions(AllSegments)
                  = (IF letter.ctx.pin = LockedPin THEN <<>> ELSE <<<<"942">>>>)
            /\ Len(Found("HISYN")) = (IF Sends("HKSYN") THEN 1 ELSE 0)
            /\ Sends("HKSYN") => ReadHisyn(Found("HISYN")[1]) = <<"system1">>

\* An order to the mock bank brings its data, and the client asks on exactly
\* until it has the last page: every page once, whatever version and account
\* format HKKAZ was sent in.  Of a holding every value is taken for what it
\* is, though only its look and its place among the others tell.
OrdersAreAnswered ==
    (MockRead /\ IsAdmitted) =>
        /\ Sends("HKKAZ") =>
              LET page == NumOf(Ordered("HKKAZ").touchdown)
              IN  /\ Mt940(AllSegments).booked = Pages[page + 1]
                  /\ TouchdownOf(AllSegments) =
                        IF page + 1 < Len(Pages) THEN <<ToString(page + 1)>> ELSE None
        /\ Sends("HKSAL") =>
              /\ CanReadHisal(Found("HISAL")[1])
              /\ ReadHisal(Found("HISAL")[1]).amount = 152
        /\ ~Sends("HKKAZ") => TouchdownOf(AllSegments) = None
        /\ Sends("HKWPD") =>
              LET read == ReadHiwpd(AllSegments)
              IN  /\ Len(read) = Len(Holdings)
                  /\ \A i \in DOMAIN Holdings :
                        /\ read[i].isin = <<Holdings[i].isin>>
                        /\ read[i].wkn = <<Holdings[i].wkn>>
                        /\ read[i].name = Holdings[i].name
                        /\ read[i].quantity = NumOf(<<Holdings[i].quantity>>)
                        /\ read[i].price = NumOf(<<Holdings[i].price>>)
                        /\ read[i].price_currency = <<Holdings[i].currency>>
                        /\ read[i].price_date = <<Holdings[i].date>>
                        /\ read[i].value = NumOf(<<Holdings[i].value>>)

\* What a bank writes is read as it was meant, in an envelope or without one,
\* with line breaks between segments or without; of an envelope that cannot be
\* opened nothing is read.
ReadSegment(seg, all) ==
    CASE SegmentType(seg) = "HITANS" -> ReadHitans(seg)
      [] SegmentType(seg) = "HITAN"  -> ReadHitan(seg)
      [] SegmentType(seg) = "HITAB"  -> ReadHitab(seg)
      [] SegmentType(seg) = "HISPA"  -> ReadHispa(seg)
      [] SegmentType(seg) = "HISAL"  -> IF CanReadHisal(seg) THEN ReadHisal(seg) ELSE None
      [] SegmentType(seg) = "HIUPD"  -> IF HasUpd(seg) THEN ReadHiupd(seg) ELSE None
      [] SegmentType(seg) = "HIUPA"  -> ReadHiupa(seg)
      [] SegmentType(seg) = "HIWPD"  -> ReadHiwpd(all)
      [] SegmentType(seg) = "DIWDH"  -> ReadDiwdh(all)
      [] SegmentType(seg) = "HIWDU"  -> ReadHiwdu(all)
      [] SegmentType(seg) = "DIKKU"  -> ReadDikku(seg)
      [] SegmentType(seg) = "HIKAZ"  -> Mt940(all)
      [] OTHER -> <<SegmentCodes(all), TouchdownOf(all), AllowedFunctions(all)>>
BankIsRead ==
    (AnswerRead /\ letter.kind = "answer") =>
        IF letter.envelope \in {"sound", "none"}
        THEN \E i \in DOMAIN AllSegments :
                /\ SegmentType(AllSegments[i]) = SegmentType(letter.segs[1])
                /\ ReadSegment(AllSegments[i], AllSegments) = letter.meant
        ELSE \A i \in DOMAIN AllSegments :
                SegmentType(AllSegments[i]) \in {"HNHBK", "HNHBS"}

----------------------------------------------------------------------------
\* The audit.

Payload ==
    IF level = "unreadable" THEN "unreadable"
    ELSE IF level = "inner" THEN "parsed" ELSE "not binary"
AuditOfRequest ==
    IF mode = "error" THEN Unparsed ELSE ClientAudit(outer, segments, Payload)
IsAudited ==
    phase = "request" /\ (mode = "done" \/ (mode = "error" /\ level = "outer"))

\* A request that is cut off before its trailer is reported, even where the
\* rest can be parsed: what is taken for a whole message has every segment that
\* was sent, the same up to the trailer, and the trailer has at least its type.
CutIsNoticed ==
    (IsAudited /\ letter.cut = "is") =>
        \/ AuditOfRequest \cap {"PARSE-001", "HNHBK-001", "HNVSK-001", "HNVSD-001",
                                "HNVSD-002", "HNHBS-001"} # {}
        \/ LET whole == AsRead(MessageSegments(letter.ctx, Business))
           IN  /\ Len(outer) = Len(whole)
               /\ \A i \in 1..Len(whole) - 1 : outer[i] = whole[i]
               /\ Last(outer)[1][1] = Word("HNHBS")

\* Of what is cut off the parser reads nothing that was not sent: it never goes
\* on behind the end, whatever an escape or the length of a binary announces,
\* and all but the last segment are those of the whole message.
CutIsPrefix ==
    /\ StaysInside
    /\ (phase = "request" /\ letter.cut = "is" /\ level = "outer" /\ mode # "done") =>
          LET whole == AsRead(MessageSegments(letter.ctx, Business))
          IN  \A i \in 1..Len(segments) - 1 : segments[i] = whole[i]

\* Account::national: an order that needs an IBAN fails with a clear error.
NationalIsRefused == phase # "panicked"
=============================================================================
