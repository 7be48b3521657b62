----------------------------- MODULE WireParser -----------------------------
(***************************************************************************)
(* The parser of the wire format (parser.rs, `parse_message` and           *)
(* `parse_segment`) and the reading of an answer with it (protocol.rs,     *)
(* `parse_response`): the outer segments first, then the segments in the   *)
(* binary of HNVSD.  One step handles one separator, one escaped           *)
(* character, one binary or one symbol of plain text.                      *)
(***************************************************************************)
EXTENDS WireFormat

VARIABLES
    data,          \* the bytes that are parsed
    pos,           \* position of the next byte
    mode,          \* "between" segments, in a "segment", "done", "error"
    need_new_de,   \* the next text starts a data element
    deg,           \* the group that is read
    degs,          \* the groups of the segment that is read
    segments,      \* the segments read
    level,         \* "outer", or "inner" for the binary of HNVSD
    outer          \* the outer segments while the inner ones are read

parserVars == <<data, pos, mode, need_new_de, deg, degs, segments, level, outer>>

ParserInit(bytes) ==
    /\ data = bytes
    /\ pos = 1
    /\ mode = "between"
    /\ need_new_de = TRUE
    /\ deg = <<>> /\ degs = <<>> /\ segments = <<>>
    /\ level = "outer"
    /\ outer = <<>>

AtEnd == pos > Len(data)
Next1(i) == IF i \in DOMAIN data THEN data[i] ELSE ""
InSegment(byte) == mode = "segment" /\ ~AtEnd /\ data[pos] = byte

Fail ==
    /\ mode' = "error"
    /\ UNCHANGED <<data, pos, need_new_de, deg, degs, segments, level, outer>>

----------------------------------------------------------------------------
\* parse_message: blanks before a segment are skipped.

SkipBlank ==
    /\ mode = "between" /\ ~AtEnd /\ data[pos] = Blank
    /\ pos' = pos + 1
    /\ UNCHANGED <<data, mode, need_new_de, deg, degs, segments, level, outer>>

StartSegment ==
    /\ mode = "between" /\ ~AtEnd /\ data[pos] # Blank
    /\ mode' = "segment"
    /\ need_new_de' = TRUE
    /\ deg' = <<>> /\ degs' = <<>>
    /\ UNCHANGED <<data, pos, segments, level, outer>>

----------------------------------------------------------------------------
\* parse_segment.

\* A piece of text starts an element, or continues the text before it.
WithText(piece) ==
    IF need_new_de \/ deg = <<>> \/ Last(deg).kind # "Text"
    THEN Append(deg, Text(piece))
    ELSE [deg EXCEPT ![Len(deg)] = Text(@.value \o piece)]

OrEmptyElement(d) == IF d = <<>> THEN <<Empty>> ELSE d

EscapeUnchecked ==
    /\ InSegment("?")
    /\ deg' = WithText(<<Next1(pos + 1)>>)
    /\ need_new_de' = FALSE
    /\ pos' = pos + 2
    /\ UNCHANGED <<data, mode, degs, segments, level, outer>>
Escape ==
    /\ InSegment("?")
    /\ IF pos = Len(data) THEN Fail
       ELSE /\ deg' = WithText(<<data[pos + 1]>>)
            /\ need_new_de' = FALSE
            /\ pos' = pos + 2
            /\ UNCHANGED <<data, mode, degs, segments, level, outer>>

\* The position of the "@" that closes the length, 0 when there is none.
ClosingAt ==
    LET ats == {i \in pos + 1..Len(data) : data[i] = "@"}
    IN  IF ats = {} THEN 0 ELSE CHOOSE i \in ats : \A j \in ats : i <= j

BinaryElementShort ==
    /\ InSegment("@")
    /\ LET close == ClosingAt
           length == SubSeq(data, pos + 1, close - 1)
       IN  IF close = 0 \/ ~IsNumeral(length) \/ close + NumOf(length) > Len(data)
           THEN Fail
           ELSE /\ deg' = Append(deg, Binary(SubSeq(data, close + 1, close + NumOf(length))))
                /\ need_new_de' = FALSE
                /\ pos' = close + NumOf(length)
                /\ UNCHANGED <<data, mode, degs, segments, level, outer>>
BinaryElement ==
    /\ InSegment("@")
    /\ LET close == ClosingAt
           length == SubSeq(data, pos + 1, close - 1)
       IN  IF close = 0 \/ ~IsNumeral(length) \/ close + NumOf(length) > Len(data)
           THEN Fail
           ELSE /\ deg' = Append(deg, Binary(SubSeq(data, close + 1, close + NumOf(length))))
                /\ need_new_de' = FALSE
                /\ pos' = close + NumOf(length) + 1
                /\ UNCHANGED <<data, mode, degs, segments, level, outer>>

\* ":" ends an element; before another separator the next one is empty.
AfterColon ==
    OrEmptyElement(deg) \o
        (IF Next1(pos + 1) \in {":", "+", "'"} THEN <<Empty>> ELSE <<>>)

ElementSeparator ==
    /\ InSegment(":")
    /\ deg' = AfterColon
    /\ need_new_de' = TRUE
    /\ pos' = pos + 1
    /\ UNCHANGED <<data, mode, degs, segments, level, outer>>

GroupSeparator ==
    /\ InSegment("+")
    /\ degs' = Append(degs, OrEmptyElement(deg))
    /\ deg' = <<>>
    /\ need_new_de' = TRUE
    /\ pos' = pos + 1
    /\ UNCHANGED <<data, mode, segments, level, outer>>

SegmentEnd ==
    /\ InSegment("'")
    /\ segments' = Append(segments, Append(degs, OrEmptyElement(deg)))
    /\ deg' = <<>> /\ degs' = <<>>
    /\ mode' = "between"
    /\ pos' = pos + 1
    /\ UNCHANGED <<data, need_new_de, level, outer>>

PlainText ==
    /\ mode = "segment" /\ ~AtEnd /\ data[pos] \notin Special
    /\ deg' = WithText(<<data[pos]>>)
    /\ need_new_de' = FALSE
    /\ pos' = pos + 1
    /\ UNCHANGED <<data, mode, degs, segments, level, outer>>

\* The bytes end in a segment: what has been read of it is a segment.
Unterminated ==
    /\ mode = "segment" /\ AtEnd
    /\ segments' = Append(segments, IF deg = <<>> THEN degs ELSE Append(degs, deg))
    /\ deg' = <<>> /\ degs' = <<>>
    /\ mode' = "between"
    /\ UNCHANGED <<data, pos, need_new_de, level, outer>>

----------------------------------------------------------------------------
\* parse_response: HNVSD is replaced by the segments in its binary.

IsEnvelope(seg) == SegmentType(seg) = "HNVSD" /\ IsBinary(seg, 1)

\* A message has one HNVSD at most.
OpenEnvelope ==
    /\ mode = "between" /\ AtEnd /\ level = "outer"
    /\ \E i \in DOMAIN segments :
        /\ IsEnvelope(segments[i])
        /\ data' = Get(DegAt(segments[i], 1), 0)
    /\ outer' = segments
    /\ segments' = <<>>
    /\ pos' = 1
    /\ level' = "inner"
    /\ UNCHANGED <<mode, need_new_de, deg, degs>>

\* Without HNVSD there are no inner segments.
Complete ==
    /\ mode = "between" /\ AtEnd
    /\ \/ level = "inner" /\ UNCHANGED <<outer, segments>>
       \/ /\ level = "outer"
          /\ \A i \in DOMAIN segments : ~IsEnvelope(segments[i])
          /\ outer' = segments
          /\ segments' = <<>>
    /\ mode' = "done"
    /\ UNCHANGED <<data, pos, need_new_de, deg, degs, level>>

\* A binary that does not parse is logged.
EnvelopeUnreadable ==
    /\ mode = "error" /\ level = "inner"
    /\ segments' = <<>>
    /\ level' = "unreadable"
    /\ mode' = "done"
    /\ UNCHANGED <<data, pos, need_new_de, deg, degs, outer>>

\* The segments of the answer when the parser is done: the outer ones, and in
\* the place of HNVSD those of its binary.
AllSegments ==
    FlattenSeq([i \in DOMAIN outer |->
        IF IsEnvelope(outer[i]) THEN segments
        ELSE IF SegmentType(outer[i]) = "HNVSD" THEN <<>> ELSE <<outer[i]>>])

ParserNext ==
    \/ SkipBlank \/ StartSegment
    \/ Escape \/ BinaryElement \/ ElementSeparator \/ GroupSeparator \/ SegmentEnd
    \/ PlainText \/ Unterminated
    \/ OpenEnvelope \/ Complete \/ EnvelopeUnreadable

----------------------------------------------------------------------------

\* What the parser makes of a segment: empty texts cannot be told from
\* missing ones, and what trails empty is gone.
DegAsRead(d) ==
    LET trimmed == TrimEnd(d, LAMBDA de : ~IsEmpty(de))
    IN  OrEmptyElement([i \in DOMAIN trimmed |->
            IF trimmed[i] = Text(<<>>) THEN Empty ELSE trimmed[i]])
SegmentAsRead(seg) ==
    LET trimmed == TrimEnd(seg, LAMBDA d : ~DegIsEmpty(d))
    IN  IF trimmed = <<>> THEN <<<<Empty>>>>
        ELSE [i \in DOMAIN trimmed |-> DegAsRead(trimmed[i])]
AsRead(segs) == [i \in DOMAIN segs |-> SegmentAsRead(segs[i])]

----------------------------------------------------------------------------
\* A parser on its own, on any bytes.
ParserSpec == (\E bytes \in Seq(STRING) : ParserInit(bytes)) /\ [][ParserNext]_parserVars

Elements == [kind : {"Empty", "Text", "Binary"}, value : Seq(STRING)]

ParserTypeOK ==
    /\ data \in Seq(STRING) /\ pos \in Nat
    /\ mode \in {"between", "segment", "done", "error"}
    /\ need_new_de \in BOOLEAN
    /\ deg \in Seq(Elements) /\ degs \in Seq(Seq(Elements))
    /\ segments \in Seq(Seq(Seq(Elements))) /\ outer \in Seq(Seq(Seq(Elements)))
    /\ level \in {"outer", "inner", "unreadable"}

\* The parser stays within its bytes, one place behind the last at most.
StaysInside == 1 <= pos /\ pos <= Len(data) + 1

\* What the readers rely on that look at the header of a segment: no segment
\* without a group and no group without an element, however it is terminated.
HasNoHole(seg) == seg # <<>> /\ \A i \in DOMAIN seg : seg[i] # <<>>
NothingIsEmpty ==
    /\ \A i \in DOMAIN segments : HasNoHole(segments[i])
    /\ \A i \in DOMAIN outer : HasNoHole(outer[i])

\* A segment is begun at a byte, which leaves a trace.
BegunInv ==
    /\ \A i \in DOMAIN degs : degs[i] # <<>>
    /\ mode = "segment" /\ AtEnd => deg # <<>> \/ degs # <<>>

\* What is left to do: levels, and steps on this level at most.
LevelsLeft == CASE level = "outer" -> 2 [] level = "inner" -> 1 [] level = "unreadable" -> 0
StepsLeft ==
    LET rest == Len(data) + 1 - pos
    IN  CASE mode = "segment" -> 2 * rest + 2
          [] mode = "between" -> IF rest = 0 THEN 1 ELSE 2 * rest + 3
          [] mode \in {"done", "error"} -> 0
ComesCloser ==
    \/ LevelsLeft' < LevelsLeft
    \/ LevelsLeft' = LevelsLeft /\ StepsLeft' < StepsLeft
=============================================================================
