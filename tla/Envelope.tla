------------------------------ MODULE Envelope ------------------------------
(***************************************************************************)
(* A message of the client (message.rs): its segments numbered, signed     *)
(* with the PIN and the TAN, put into the binary of HNVSD, and framed by   *)
(* HNHBK and HNHBS.                                                        *)
(*                                                                         *)
(* A context is [dialog, number, blz, user, system, pin, tan, function];   *)
(* all are texts but the number.  The clock and the random security        *)
(* reference are one symbol each.                                          *)
(***************************************************************************)
EXTENDS SegmentBuilder

Contexts ==
    [dialog : Texts, number : Numerals, blz : Texts, user : Texts, system : Texts,
     pin : Texts, tan : Texts, function : Texts]

ASSUME EnvelopeWords ==
    {"HNHBK", "HNHBS", "HNVSK", "HNVSD", "HNSHK", "HNSHA", "PIN", "reference", "date", "time",
     "5", "6", "10", "13", "16", "300", "998", "999", "S", "V"} \subseteq STRING

\* tan: None.  An empty TAN is <<>>, as a confirmation in the app has it.
NoTan == <<"no tan">>

SecurityReference == "reference"
Timestamp == <<Word("1"), Word("date"), Word("time")>>
Identification(system) == <<Word("2"), Empty, DeText(system)>>
KeyName(ctx, kind) ==
    <<Word("280"), DeText(ctx.blz), DeText(ctx.user), Word(kind), Word("0"), Word("0")>>

\* The size has twelve digits whatever it is: one symbol.
Hnhbk(size, dialog, number) ==
    <<SegHeader("HNHBK", 1, 3), One(ToString(size)), One("300"), OneText(dialog),
      <<Number(number)>>>>

Hnhbs(number, messageNumber) ==
    <<SegHeader("HNHBS", number, 1), <<Number(messageNumber)>>>>

Hnvsk(ctx) ==
    <<SegHeader("HNVSK", 998, 3), <<Word("PIN"), Word("1")>>, One("998"), One("1"),
      Identification(ctx.system), Timestamp,
      <<Word("2"), Word("2"), Word("13"), Binary([i \in 1..8 |-> "0"]), Word("5"), Word("1")>>,
      KeyName(ctx, "V"), One("0")>>

Hnvsd(inner) == <<SegHeader("HNVSD", 999, 1), <<Binary(inner)>>>>

Hnshk(number, ctx) ==
    <<SegHeader("HNSHK", number, 4), <<Word("PIN"), Word("1")>>, OneText(ctx.function),
      One(SecurityReference), One("1"), One("1"), Identification(ctx.system), One("1"),
      Timestamp, <<Word("1"), Word("999"), Word("1")>>,
      <<Word("6"), Word("10"), Word("16")>>, KeyName(ctx, "S")>>

\* An empty TAN is an element of its own, not a missing one.
UserSignatureTanEmpty(ctx) ==
    <<DeText(ctx.pin)>> \o (IF ctx.tan = NoTan THEN <<>> ELSE <<DeText(ctx.tan)>>)
UserSignature(ctx) ==
    <<DeText(ctx.pin)>> \o (IF ctx.tan = NoTan THEN <<>> ELSE <<Text(ctx.tan)>>)

Hnsha(number, ctx) ==
    <<SegHeader("HNSHA", number, 2), One(SecurityReference), Nothing, UserSignature(ctx)>>

WithNumber(seg, n) ==
    IF Len(seg[1]) >= 2 THEN [seg EXCEPT ![1][2] = Number(n)] ELSE seg

\* The signature is number 2, the orders follow, then the signature's end.
InnerSegmentsFrom2(ctx, business) ==
    <<Hnshk(2, ctx)>>
        \o [i \in DOMAIN business |-> WithNumber(business[i], i + 1)]
        \o <<Hnsha(Len(business) + 2, ctx)>>
InnerSegments(ctx, business) ==
    <<Hnshk(2, ctx)>>
        \o [i \in DOMAIN business |-> WithNumber(business[i], i + 2)]
        \o <<Hnsha(Len(business) + 3, ctx)>>

OuterSegments(ctx, inner, trailer, size) ==
    <<Hnhbk(size, ctx.dialog, ctx.number), Hnvsk(ctx), Hnvsd(SerializeMessage(inner)),
      Hnhbs(trailer, ctx.number)>>

\* build_message_raw: the size of the message is known when all but its
\* header is written; a size of any value takes the same room.
Sized(ctx, business, size) ==
    LET inner == InnerSegments(ctx, business)
    IN  OuterSegments(ctx, inner, Len(inner) + 2, size)
SizeOf(ctx, business) == Len(SerializeMessage(Sized(ctx, business, 0)))
MessageSegments(ctx, business) == Sized(ctx, business, SizeOf(ctx, business))

BuildMessageRaw(ctx, business) == SerializeMessage(MessageSegments(ctx, business))

\* build_from_segments fails when a segment cannot be built or written.
BusinessDegs(segs, params) == [i \in DOMAIN segs |-> ToDegs(segs[i], params)]

CanBuild(ctx, segs, params) ==
    /\ \A i \in DOMAIN segs : ~IsRefused(segs[i], params) /\ ~Panics(segs[i], params)
    /\ CanSerialize(InnerSegments(ctx, BusinessDegs(segs, params)))
    /\ CanSerialize(<<Hnhbk(0, ctx.dialog, ctx.number)>>)

BuildMessage(ctx, segs, params) == BuildMessageRaw(ctx, BusinessDegs(segs, params))

\* build_end_message: HKEND alone.
EndSegments(ctx) == <<[type |-> "HKEND", dialog |-> ctx.dialog]>>
=============================================================================
