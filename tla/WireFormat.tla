----------------------------- MODULE WireFormat -----------------------------
(***************************************************************************)
(* The levels of a FinTS message (parser.rs) and how it is written         *)
(* (serializer.rs).  Bytes are symbols: the five special characters, and   *)
(* names such as "HKSAL" or "DE1" that stand for a run of plain characters *)
(* and count as one byte.  A text is a sequence of symbols, a data element *)
(* (DE) is empty, a text or binary, a group (DEG) is a sequence of data    *)
(* elements, a segment is a sequence of groups whose first is the header.  *)
(***************************************************************************)
EXTENDS Integers, SequencesExt, TLC

\* No number in a message is larger.
CONSTANT MaxNumeral

Special == {"?", "@", ":", "+", "'"}

\* Obvious to a reader, but the provers know no literal for a string.
ASSUME SymbolAssumption == Special \subseteq STRING

\* CR, LF and space between segments.
Blank == "blank"

\* A character of Windows-1252 that ISO-8859-1 does not have.
Euro == "euro"

Empty == [kind |-> "Empty", value |-> <<>>]
Text(s) == [kind |-> "Text", value |-> s]
Binary(b) == [kind |-> "Binary", value |-> b]

\* de_text: an empty string is no data element.
DeText(s) == IF s = <<>> THEN Empty ELSE Text(s)
Word(w) == Text(<<w>>)
Number(n) == Word(ToString(n))

IsEmpty(de) == de.kind = "Empty"
DegIsEmpty(deg) == \A i \in DOMAIN deg : IsEmpty(deg[i])

\* The elements of a segment; what is not there is empty.
DegAt(seg, i) == IF i + 1 \in DOMAIN seg THEN seg[i + 1] ELSE <<>>
DeAt(deg, i) == IF i + 1 \in DOMAIN deg THEN deg[i + 1] ELSE Empty
Get(deg, i) == DeAt(deg, i).value
Str(seg, i) == Get(DegAt(seg, i), 0)

IsBinary(seg, i) == DeAt(DegAt(seg, i), 0).kind = "Binary"

\* Numbers, 999 of HNVSD among them, are written as different symbols of plain
\* text.
ASSUME NumeralAssumption ==
    /\ MaxNumeral \in Nat /\ MaxNumeral >= 999
    /\ \A n \in 0..MaxNumeral : ToString(n) \in STRING \ Special
    /\ \A m, n \in 0..MaxNumeral : ToString(m) = ToString(n) => m = n

\* A number a text stands for; 0 when it is none (unwrap_or(0)).
NumeralOf == [w \in {ToString(n) : n \in 0..MaxNumeral} |->
                 CHOOSE n \in 0..MaxNumeral : ToString(n) = w]
IsNumeral(s) == Len(s) = 1 /\ s[1] \in DOMAIN NumeralOf
NumOf(s) == IF IsNumeral(s) THEN NumeralOf[s[1]] ELSE 0

SegmentType(seg) ==
    LET de == DeAt(DegAt(seg, 0), 0)
    IN  IF de.kind = "Text" /\ Len(de.value) = 1 THEN de.value[1] ELSE ""
SegmentNumber(seg) == NumOf(Get(DegAt(seg, 0), 1))
SegmentVersion(seg) == NumOf(Get(DegAt(seg, 0), 2))
DegCount(seg) == Len(seg)

OfType(segs, type) == SelectSeq(segs, LAMBDA seg : SegmentType(seg) = type)

----------------------------------------------------------------------------

\* A sequence without the elements after the last one that passes the test.
TrimEnd(s, Keep(_)) ==
    LET kept == {i \in DOMAIN s : Keep(s[i])}
    IN  IF kept = {} THEN <<>>
        ELSE SubSeq(s, 1, CHOOSE i \in kept : \A j \in kept : j <= i)

Joined(sep, parts) ==
    FlattenSeq([i \in DOMAIN parts |->
                   IF i = 1 THEN parts[i] ELSE <<sep>> \o parts[i]])

\* escape_text: every special character is preceded by "?".
EscapeTextPlus(s) ==
    FlattenSeq([i \in DOMAIN s |->
                   IF s[i] \in Special \ {"+"} THEN <<"?", s[i]>> ELSE <<s[i]>>])
EscapeText(s) ==
    FlattenSeq([i \in DOMAIN s |->
                   IF s[i] \in Special THEN <<"?", s[i]>> ELSE <<s[i]>>])

SerializeBinary(b) == <<"@", ToString(Len(b)), "@">> \o b

SerializeDe(de) ==
    CASE de.kind = "Empty"  -> <<>>
      [] de.kind = "Text"   -> EscapeText(de.value)
      [] de.kind = "Binary" -> SerializeBinary(de.value)

\* Trailing empty elements are left out.
SerializeDeg(deg) ==
    LET trimmed == TrimEnd(deg, LAMBDA de : ~IsEmpty(de))
    IN  Joined(":", [i \in DOMAIN trimmed |-> SerializeDe(trimmed[i])])

\* Trailing empty groups are left out.
SerializeSegment(degs) ==
    LET trimmed == TrimEnd(degs, LAMBDA deg : ~DegIsEmpty(deg))
    IN  Append(Joined("+", [i \in DOMAIN trimmed |-> SerializeDeg(trimmed[i])]), "'")

SerializeMessage(segs) ==
    FlattenSeq([i \in DOMAIN segs |-> SerializeSegment(segs[i])])

\* A text can be written when all its characters are in ISO-8859-1.
CanSerialize(segs) ==
    \A i \in DOMAIN segs : \A j \in DOMAIN segs[i] : \A k \in DOMAIN segs[i][j] :
        segs[i][j][k].kind = "Text" =>
            \A c \in DOMAIN segs[i][j][k].value : segs[i][j][k].value[c] # Euro
=============================================================================
