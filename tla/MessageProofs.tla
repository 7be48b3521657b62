---------------------------- MODULE MessageProofs ----------------------------
(***************************************************************************)
(* Theorems about the parts of MessageExchange that hold for all bytes and *)
(* all parameters of a bank: the parser stays within its bytes, comes to   *)
(* an end and leaves no hole in a segment, and it reads what is cut off as *)
(* it reads the whole; an order is built in a version the bank lists.  And *)
(* the lemmas ExchangeProofs rests on: how the text of a message is put    *)
(* together, and where in it the parser stands (Reads).                    *)
(***************************************************************************)
EXTENDS WireParser, SegmentBuilder, SequenceTheorems, WellFoundedInduction, TLAPS

-----------------------------------------------------------------------------
(* Types.                                                                  *)

LEMMA NumeralIsNat ==
    ASSUME NEW s, IsNumeral(s)
    PROVE  NumOf(s) \in Nat
<1>1. s[1] \in DOMAIN NumeralOf
    BY DEF IsNumeral
<1>2. \E n \in 0..MaxNumeral : ToString(n) = s[1]
    BY <1>1 DEF NumeralOf
<1>3. NumeralOf[s[1]] \in 0..MaxNumeral
    BY <1>1, <1>2 DEF NumeralOf
<1>4. NumOf(s) = NumeralOf[s[1]]
    BY Zenon DEF NumOf
<1>5. \A n \in 0..MaxNumeral : n \in Nat
    BY SMT
<1> QED BY Zenon, <1>3, <1>4, <1>5

\* Text read into a group leaves it with an element.
LEMMA WithTextType ==
    ASSUME deg \in Seq(Elements), NEW piece \in Seq(STRING)
    PROVE  WithText(piece) \in Seq(Elements) /\ WithText(piece) # <<>>
<1>1. CASE need_new_de \/ deg = <<>> \/ Last(deg).kind # "Text"
    <2>1. Text(piece) \in Elements
        BY DEF Text, Elements
    <2>2. WithText(piece) = Append(deg, Text(piece))
        BY <1>1 DEF WithText
    <2> QED BY <2>1, <2>2, AppendProperties
<1>2. CASE ~(need_new_de \/ deg = <<>> \/ Last(deg).kind # "Text")
    <2> DEFINE n == Len(deg)
               t == Text(deg[n].value \o piece)
    <2>1. n \in 1..Len(deg) /\ deg[n] \in Elements
        BY <1>2, EmptySeq, LenProperties, ElementOfSeq
    <2>2. t \in Elements
        BY <2>1, ConcatProperties DEF Text, Elements
    <2>3. WithText(piece) = [deg EXCEPT ![n] = t]
        BY <1>2 DEF WithText
    <2>4. [deg EXCEPT ![n] = t] \in Seq(Elements) /\ Len([deg EXCEPT ![n] = t]) = Len(deg)
        BY <2>1, <2>2, ExceptSeq
    <2>5. [deg EXCEPT ![n] = t] # <<>>
        BY <2>1, <2>4
    <2> QED BY <2>3, <2>4, <2>5
<1> QED BY <1>1, <1>2

LEMMA OrEmptyType ==
    ASSUME NEW d \in Seq(Elements)
    PROVE  OrEmptyElement(d) \in Seq(Elements) /\ OrEmptyElement(d) # <<>>
<1>1. Empty \in Elements /\ <<Empty>> \in Seq(Elements) /\ <<Empty>> # <<>>
    <2>1. Empty \in Elements
        BY EmptySeq DEF Empty, Elements
    <2> QED BY <2>1
<1> QED BY <1>1 DEF OrEmptyElement

LEMMA AfterColonType ==
    ASSUME deg \in Seq(Elements)
    PROVE  AfterColon \in Seq(Elements) /\ AfterColon # <<>>
<1> DEFINE d == OrEmptyElement(deg)
           t == IF Next1(pos + 1) \in {":", "+", "'"} THEN <<Empty>> ELSE <<>>
<1>1. d \in Seq(Elements) /\ d # <<>>
    BY OrEmptyType
<1>2. t \in Seq(Elements)
    <2>1. Empty \in Elements
        BY EmptySeq DEF Empty, Elements
    <2> QED BY <2>1, EmptySeq
<1>3. AfterColon = d \o t
    BY DEF AfterColon
<1> HIDE DEF d, t
<1> QED BY <1>1, <1>2, <1>3, ConcatProperties, ConcatEqualIffEmpty

\* The closing "@" is the first one behind the opening one.
LEMMA ClosingType ==
    ASSUME data \in Seq(STRING), pos \in Nat, ClosingAt # 0
    PROVE  /\ ClosingAt \in pos + 1..Len(data) /\ data[ClosingAt] = "@"
           /\ \A i \in pos + 1..Len(data) : data[i] = "@" => ClosingAt <= i
<1> DEFINE ats == {i \in pos + 1..Len(data) : data[i] = "@"}
           close == CHOOSE i \in ats : \A j \in ats : i <= j
           Less == OpToRel(<, Nat)
<1>1. ats # {} /\ ClosingAt = close
    BY DEF ClosingAt
<1>2. ats \subseteq Nat
    BY LenProperties
<1>3. \E i \in ats : \A j \in ats : ~(<<j, i>> \in Less)
    <2> HIDE DEF ats, Less
    <2>1. IsWellFoundedOn(Less, Nat)
        BY NatLessThanWellFounded DEF Less
    <2> QED BY <1>1, <1>2, <2>1, WFMin
<1>4. \E i \in ats : \A j \in ats : i <= j
    <2>1. \A i, j \in ats : ~(<<j, i>> \in Less) => i <= j
        BY <1>2 DEF OpToRel
    <2> HIDE DEF ats, Less
    <2> QED BY <1>3, <2>1
<1>5. close \in ats /\ \A j \in ats : close <= j
    BY <1>4
<1> QED BY <1>1, <1>5

-----------------------------------------------------------------------------
(* The parser on any bytes.                                                *)

ParserInv == ParserTypeOK /\ StaysInside /\ NothingIsEmpty /\ BegunInv

LEMMA FailKeeps ==
    ASSUME ParserInv, Fail
    PROVE  ParserInv'
BY DEF Fail, ParserInv, ParserTypeOK, StaysInside, NothingIsEmpty, BegunInv, HasNoHole

LEMMA BetweenKeeps ==
    ASSUME ParserInv, SkipBlank \/ StartSegment
    PROVE  ParserInv'
<1>1. ParserTypeOK'
    <2>1. <<>> \in Seq(Elements) /\ <<>> \in Seq(Seq(Elements))
        BY EmptySeq
    <2>2. CASE SkipBlank
        BY <2>2 DEF SkipBlank, ParserInv, ParserTypeOK
    <2>3. CASE StartSegment
        BY <2>1, <2>3 DEF StartSegment, ParserInv, ParserTypeOK
    <2> QED BY <2>2, <2>3
<1>2. StaysInside'
    BY LenProperties DEF SkipBlank, StartSegment, ParserInv, ParserTypeOK, StaysInside, AtEnd
<1>3. NothingIsEmpty'
    BY DEF SkipBlank, StartSegment, ParserInv, NothingIsEmpty
<1>4. BegunInv'
    BY EmptySeq DEF SkipBlank, StartSegment, ParserInv, BegunInv, AtEnd
<1> QED BY <1>1, <1>2, <1>3, <1>4 DEF ParserInv

\* A step that reads on in a group, up to a place in the bytes or behind them.
LEMMA GroupKeeps ==
    ASSUME ParserInv,
           deg' \in Seq(Elements), deg' # <<>>, need_new_de' \in BOOLEAN,
           pos' \in pos..Len(data) + 1,
           UNCHANGED <<data, mode, degs, segments, level, outer>>
    PROVE  ParserInv'
<1>1. pos' \in Nat /\ 1 <= pos' /\ pos' <= Len(data) + 1
    BY LenProperties DEF ParserInv, ParserTypeOK, StaysInside
<1> QED BY <1>1 DEF ParserInv, ParserTypeOK, StaysInside, NothingIsEmpty, BegunInv

LEMMA EscapeKeeps ==
    ASSUME ParserInv, Escape
    PROVE  ParserInv'
<1>1. CASE pos = Len(data)
    BY <1>1, FailKeeps DEF Escape
<1>2. CASE pos # Len(data)
    <2>1. pos \in Nat /\ Len(data) \in Nat /\ pos <= Len(data) /\ data \in Seq(STRING)
        BY LenProperties DEF Escape, InSegment, AtEnd, ParserInv, ParserTypeOK
    <2>2. <<data[pos + 1]>> \in Seq(STRING)
        <3>1. pos + 1 \in 1..Len(data)
            BY <1>2, <2>1
        <3> QED BY <2>1, <3>1, ElementOfSeq
    <2>3. deg' \in Seq(Elements) /\ deg' # <<>>
        BY <1>2, <2>2, WithTextType DEF Escape, ParserInv, ParserTypeOK
    <2>4. pos' \in pos..Len(data) + 1
        BY <1>2, <2>1 DEF Escape
    <2> QED BY <1>2, <2>3, <2>4, GroupKeeps DEF Escape
<1> QED BY <1>1, <1>2

LEMMA PlainTextKeeps ==
    ASSUME ParserInv, PlainText
    PROVE  ParserInv'
<1>1. pos \in Nat /\ Len(data) \in Nat /\ pos <= Len(data) /\ data \in Seq(STRING) /\ 1 <= pos
    BY LenProperties DEF PlainText, AtEnd, ParserInv, ParserTypeOK, StaysInside
<1>2. <<data[pos]>> \in Seq(STRING)
    <2>1. pos \in 1..Len(data)
        BY <1>1
    <2> QED BY <1>1, <2>1, ElementOfSeq
<1>3. deg' \in Seq(Elements) /\ deg' # <<>>
    BY <1>2, WithTextType DEF PlainText, ParserInv, ParserTypeOK
<1>4. pos' \in pos..Len(data) + 1
    BY <1>1 DEF PlainText
<1> QED BY <1>3, <1>4, GroupKeeps DEF PlainText

LEMMA BinaryKeeps ==
    ASSUME ParserInv, BinaryElement
    PROVE  ParserInv'
<1> DEFINE close  == ClosingAt
           length == SubSeq(data, pos + 1, close - 1)
           n      == NumOf(length)
           fails  == close = 0 \/ ~IsNumeral(length) \/ close + n > Len(data)
<1>1. CASE fails
    BY <1>1, FailKeeps DEF BinaryElement
<1>2. CASE ~fails
    <2>1. /\ deg' = Append(deg, Binary(SubSeq(data, close + 1, close + n)))
          /\ need_new_de' = FALSE
          /\ pos' = close + n + 1
          /\ UNCHANGED <<data, mode, degs, segments, level, outer>>
        BY <1>2 DEF BinaryElement
    <2>2. pos \in Nat /\ Len(data) \in Nat /\ data \in Seq(STRING)
        BY LenProperties DEF ParserInv, ParserTypeOK
    <2>3. close \in pos + 1..Len(data) /\ n \in Nat /\ close + n <= Len(data)
        BY <1>2, <2>2, ClosingType, NumeralIsNat
    <2>4. SubSeq(data, close + 1, close + n) \in Seq(STRING)
        <3>1. close + 1 \in Int /\ close + n \in Int
            BY <2>2, <2>3
        <3>2. \A i \in close + 1..close + n : data[i] \in STRING
            <4>1. \A i \in close + 1..close + n : i \in 1..Len(data)
                BY <2>2, <2>3
            <4> QED BY <2>2, <4>1, ElementOfSeq
        <3> HIDE DEF close, n
        <3> QED BY <3>1, <3>2, SubSeqProperties
    <2>5. deg' \in Seq(Elements) /\ deg' # <<>>
        <3>1. Binary(SubSeq(data, close + 1, close + n)) \in Elements
            BY <2>4 DEF Binary, Elements
        <3> HIDE DEF close, n
        <3> QED BY <2>1, <3>1, AppendProperties DEF ParserInv, ParserTypeOK
    <2>6. pos' \in pos..Len(data) + 1
        <3> HIDE DEF close, n
        <3> QED BY <2>1, <2>2, <2>3
    <2> QED BY <2>1, <2>5, <2>6, GroupKeeps
<1> QED BY <1>1, <1>2

LEMMA ElementSeparatorKeeps ==
    ASSUME ParserInv, ElementSeparator
    PROVE  ParserInv'
<1>1. deg' \in Seq(Elements) /\ deg' # <<>>
    BY AfterColonType DEF ElementSeparator, ParserInv, ParserTypeOK
<1>2. pos' \in pos..Len(data) + 1
    BY LenProperties DEF ElementSeparator, InSegment, AtEnd, ParserInv, ParserTypeOK
<1> QED BY <1>1, <1>2, GroupKeeps DEF ElementSeparator

LEMMA HolesAppended ==
    ASSUME NEW s \in Seq(Seq(Seq(Elements))), \A i \in DOMAIN s : HasNoHole(s[i]),
           NEW x \in Seq(Seq(Elements)), HasNoHole(x)
    PROVE  /\ Append(s, x) \in Seq(Seq(Seq(Elements)))
           /\ \A i \in DOMAIN Append(s, x) : HasNoHole(Append(s, x)[i])
<1> DEFINE t == Append(s, x)
<1>1. /\ t \in Seq(Seq(Seq(Elements))) /\ Len(t) = Len(s) + 1
      /\ \A i \in 1..Len(s) : t[i] = s[i]
      /\ t[Len(s) + 1] = x
    BY AppendProperties
<1>2. DOMAIN t = 1..Len(s) + 1 /\ DOMAIN s = 1..Len(s) /\ Len(s) \in Nat
    BY <1>1, LenProperties
<1> HIDE DEF t
<1>3. \A i \in DOMAIN t : HasNoHole(t[i])
    <2> TAKE i \in DOMAIN t
    <2>1. CASE i \in 1..Len(s)
        BY <1>1, <1>2, <2>1
    <2>2. CASE i = Len(s) + 1
        BY <1>1, <2>2
    <2> QED BY <1>2, <2>1, <2>2
<1> QED BY <1>1, <1>3 DEF t

LEMMA GroupAppended ==
    ASSUME NEW s \in Seq(Seq(Elements)), \A i \in DOMAIN s : s[i] # <<>>,
           NEW d \in Seq(Elements), d # <<>>
    PROVE  /\ Append(s, d) \in Seq(Seq(Elements))
           /\ HasNoHole(Append(s, d))
<1> DEFINE t == Append(s, d)
<1>1. /\ t \in Seq(Seq(Elements)) /\ Len(t) = Len(s) + 1
      /\ \A i \in 1..Len(s) : t[i] = s[i]
      /\ t[Len(s) + 1] = d
    BY AppendProperties
<1>2. DOMAIN t = 1..Len(s) + 1 /\ DOMAIN s = 1..Len(s) /\ Len(s) \in Nat
    BY <1>1, LenProperties
<1> HIDE DEF t
<1>3. \A i \in DOMAIN t : t[i] # <<>>
    <2> TAKE i \in DOMAIN t
    <2>1. CASE i \in 1..Len(s)
        BY <1>1, <1>2, <2>1
    <2>2. CASE i = Len(s) + 1
        BY <1>1, <2>2
    <2> QED BY <1>2, <2>1, <2>2
<1>4. t # <<>>
    BY <1>1, <1>2, EmptySeq
<1> QED BY <1>1, <1>3, <1>4 DEF t, HasNoHole

LEMMA GroupSeparatorKeeps ==
    ASSUME ParserInv, GroupSeparator
    PROVE  ParserInv'
<1> DEFINE d == OrEmptyElement(deg)
<1>1. d \in Seq(Elements) /\ d # <<>>
    BY OrEmptyType DEF ParserInv, ParserTypeOK
<1>2. degs' = Append(degs, d) /\ deg' = <<>> /\ need_new_de' = TRUE /\ pos' = pos + 1
      /\ UNCHANGED <<data, mode, segments, level, outer>>
    BY DEF GroupSeparator
<1> HIDE DEF d
<1>3. degs' \in Seq(Seq(Elements)) /\ HasNoHole(degs')
    BY <1>1, <1>2, GroupAppended DEF ParserInv, ParserTypeOK, BegunInv
<1>4. pos \in Nat /\ pos <= Len(data) /\ Len(data) \in Nat
    BY LenProperties DEF GroupSeparator, InSegment, AtEnd, ParserInv, ParserTypeOK
<1>5. ParserTypeOK'
    BY <1>2, <1>3, <1>4, EmptySeq DEF ParserInv, ParserTypeOK
<1>6. StaysInside'
    BY <1>2, <1>4 DEF ParserInv, StaysInside
<1>7. NothingIsEmpty' /\ BegunInv'
    BY <1>2, <1>3 DEF ParserInv, NothingIsEmpty, BegunInv, HasNoHole
<1> QED BY <1>5, <1>6, <1>7 DEF ParserInv

\* A step that completes a segment.
LEMMA SegmentKeeps ==
    ASSUME ParserInv, NEW seg \in Seq(Seq(Elements)), HasNoHole(seg),
           segments' = Append(segments, seg),
           deg' = <<>>, degs' = <<>>, mode' = "between",
           pos' \in {pos, pos + 1}, pos' <= Len(data) + 1,
           UNCHANGED <<data, need_new_de, level, outer>>
    PROVE  ParserInv'
<1>1. segments' \in Seq(Seq(Seq(Elements))) /\ \A i \in DOMAIN segments' : HasNoHole(segments'[i])
    BY HolesAppended DEF ParserInv, ParserTypeOK, NothingIsEmpty
<1>2. <<>> \in Seq(Elements) /\ <<>> \in Seq(Seq(Elements))
    BY EmptySeq
<1>3. ParserTypeOK'
    BY <1>1, <1>2 DEF ParserInv, ParserTypeOK
<1>4. StaysInside'
    BY DEF ParserInv, ParserTypeOK, StaysInside
<1>5. NothingIsEmpty' /\ BegunInv'
    BY <1>1 DEF ParserInv, NothingIsEmpty, BegunInv
<1> QED BY <1>3, <1>4, <1>5 DEF ParserInv

LEMMA SegmentEndKeeps ==
    ASSUME ParserInv, SegmentEnd
    PROVE  ParserInv'
<1> DEFINE seg == Append(degs, OrEmptyElement(deg))
<1>1. seg \in Seq(Seq(Elements)) /\ HasNoHole(seg)
    BY OrEmptyType, GroupAppended DEF ParserInv, ParserTypeOK, BegunInv
<1>2. pos' = pos + 1 /\ pos' <= Len(data) + 1
    BY LenProperties DEF SegmentEnd, InSegment, AtEnd, ParserInv, ParserTypeOK
<1> QED BY <1>1, <1>2, SegmentKeeps DEF SegmentEnd

LEMMA UnterminatedKeeps ==
    ASSUME ParserInv, Unterminated
    PROVE  ParserInv'
<1> DEFINE seg == IF deg = <<>> THEN degs ELSE Append(degs, deg)
<1>1. seg \in Seq(Seq(Elements)) /\ HasNoHole(seg)
    <2>1. CASE deg = <<>>
        BY <2>1 DEF ParserInv, ParserTypeOK, BegunInv, Unterminated, HasNoHole
    <2>2. CASE deg # <<>>
        BY <2>2, GroupAppended DEF ParserInv, ParserTypeOK, BegunInv
    <2> QED BY <2>1, <2>2
<1>2. pos' = pos /\ pos' <= Len(data) + 1
    BY DEF Unterminated, ParserInv, StaysInside
<1> QED BY <1>1, <1>2, SegmentKeeps DEF Unterminated

LEMMA ElementType ==
    ASSUME NEW seg \in Seq(Seq(Elements)), NEW i \in Nat, NEW j \in Nat
    PROVE  Get(DegAt(seg, i), j) \in Seq(STRING)
<1>1. DegAt(seg, i) \in Seq(Elements)
    BY ElementOfSeq, LenProperties, EmptySeq DEF DegAt
<1>2. Empty \in Elements
    BY EmptySeq DEF Empty, Elements
<1>3. DeAt(DegAt(seg, i), j) \in Elements
    BY <1>1, <1>2, ElementOfSeq, LenProperties DEF DeAt
<1> QED BY <1>3 DEF Get, Elements

LEMMA OpenEnvelopeKeeps ==
    ASSUME ParserInv, OpenEnvelope
    PROVE  ParserInv'
<1>1. PICK i \in DOMAIN segments : data' = Get(DegAt(segments[i], 1), 0)
    BY DEF OpenEnvelope
<1>2. segments[i] \in Seq(Seq(Elements))
    BY <1>1, ElementOfSeq, LenProperties DEF ParserInv, ParserTypeOK
<1>3. data' \in Seq(STRING)
    BY <1>1, <1>2, ElementType
<1>4. <<>> \in Seq(Seq(Seq(Elements)))
    BY EmptySeq
<1>5. ParserTypeOK'
    BY <1>3, <1>4 DEF OpenEnvelope, ParserInv, ParserTypeOK
<1>6. StaysInside'
    BY <1>3, LenProperties DEF OpenEnvelope, StaysInside
<1>7. NothingIsEmpty' /\ BegunInv'
    BY DEF OpenEnvelope, ParserInv, NothingIsEmpty, BegunInv
<1> QED BY <1>5, <1>6, <1>7 DEF ParserInv

LEMMA CompleteKeeps ==
    ASSUME ParserInv, Complete \/ EnvelopeUnreadable
    PROVE  ParserInv'
<1>1. <<>> \in Seq(Seq(Seq(Elements)))
    BY EmptySeq
<1>2. UNCHANGED <<data, pos, need_new_de, deg, degs>> /\ mode' = "done"
    BY DEF Complete, EnvelopeUnreadable
<1>3. /\ segments' \in {segments, <<>>} /\ outer' \in {outer, segments}
      /\ level' \in {level, "unreadable"}
    BY DEF Complete, EnvelopeUnreadable
<1>4. ParserTypeOK'
    BY <1>1, <1>2, <1>3 DEF ParserInv, ParserTypeOK
<1>5. StaysInside' /\ NothingIsEmpty' /\ BegunInv'
    BY <1>2, <1>3 DEF ParserInv, StaysInside, NothingIsEmpty, BegunInv, AtEnd
<1> QED BY <1>4, <1>5 DEF ParserInv

LEMMA ParserBegins ==
    ASSUME NEW bytes \in Seq(STRING), ParserInit(bytes)
    PROVE  ParserInv
<1>1. /\ <<>> \in Seq(Elements) /\ <<>> \in Seq(Seq(Elements))
      /\ <<>> \in Seq(Seq(Seq(Elements)))
    BY EmptySeq
<1>2. ParserTypeOK
    BY <1>1 DEF ParserInit, ParserTypeOK
<1>3. StaysInside
    BY LenProperties DEF ParserInit, StaysInside
<1>4. NothingIsEmpty /\ BegunInv
    BY DEF ParserInit, NothingIsEmpty, BegunInv
<1> QED BY <1>2, <1>3, <1>4 DEF ParserInv

LEMMA ParserKeeps ==
    ASSUME ParserInv, [ParserNext]_parserVars
    PROVE  ParserInv'
<1>1. CASE UNCHANGED parserVars
    BY <1>1 DEF parserVars, ParserInv, ParserTypeOK, StaysInside, NothingIsEmpty,
                BegunInv, AtEnd
<1> QED BY <1>1, BetweenKeeps, EscapeKeeps, BinaryKeeps, ElementSeparatorKeeps,
           GroupSeparatorKeeps, SegmentEndKeeps, PlainTextKeeps, UnterminatedKeeps,
           OpenEnvelopeKeeps, CompleteKeeps DEF ParserNext

LEMMA ParserInvHolds == ParserSpec => []ParserInv
<1>1. (\E bytes \in Seq(STRING) : ParserInit(bytes)) => ParserInv
    BY ParserBegins
<1>2. ParserInv /\ [ParserNext]_parserVars => ParserInv'
    BY ParserKeeps
<1> QED BY <1>1, <1>2, PTL DEF ParserSpec

\* Whatever bytes it is given, the parser never looks behind their end, and
\* every segment it reads has a group and every group an element, the last
\* one of bytes that end in the middle of it included.
THEOREM ParserIsSafe == ParserSpec => [](StaysInside /\ NothingIsEmpty)
<1>1. ParserInv => StaysInside /\ NothingIsEmpty
    BY DEF ParserInv
<1> QED BY <1>1, ParserInvHolds, PTL

-----------------------------------------------------------------------------
(* The end of parsing.                                                     *)

\* A step on the same level from one place to a later one, or to the end.
LEMMA MovesOn ==
    ASSUME ParserInv, UNCHANGED <<data, level>>,
           mode \in {"between", "segment"}, pos <= Len(data),
           \/ mode' \in {"between", "segment"} /\ pos' \in Nat /\ pos' > pos
              /\ pos' <= Len(data) + 1
           \/ mode = "between" /\ mode' = "segment" /\ pos' = pos
           \/ mode' = "error"
    PROVE  ComesCloser
<1>1. pos \in Nat /\ Len(data) \in Nat /\ 1 <= pos
    BY LenProperties DEF ParserInv, ParserTypeOK, StaysInside
<1>2. LevelsLeft' = LevelsLeft
    BY DEF LevelsLeft
<1>3. StepsLeft' < StepsLeft
    BY <1>1 DEF StepsLeft
<1> QED BY <1>2, <1>3 DEF ComesCloser

\* At the end of the bytes a level has two steps at most.
LEMMA EndsLevel ==
    ASSUME ParserInv, pos = Len(data) + 1,
           \/ mode = "segment" /\ mode' = "between" /\ UNCHANGED <<data, pos, level>>
           \/ mode = "between" /\ mode' = "done" /\ UNCHANGED <<data, pos, level>>
           \/ level = "outer" /\ level' = "inner"
    PROVE  ComesCloser
<1>1. pos \in Nat /\ Len(data) \in Nat
    BY LenProperties DEF ParserInv, ParserTypeOK
<1>2. CASE level = "outer" /\ level' = "inner"
    BY <1>2 DEF ComesCloser, LevelsLeft
<1>3. CASE ~(level = "outer" /\ level' = "inner")
    <2>1. LevelsLeft' = LevelsLeft
        BY <1>3 DEF LevelsLeft
    <2>2. StepsLeft' < StepsLeft
        BY <1>1, <1>3 DEF StepsLeft
    <2> QED BY <2>1, <2>2 DEF ComesCloser
<1> QED BY <1>2, <1>3

\* Every step of the parser is one less to go, so that it comes to an end on
\* all bytes, at an escape, a binary or a separator too, and in an envelope
\* within an envelope.
THEOREM ParsingEnds == ParserSpec => [][ComesCloser]_parserVars
<1>1. ParserInv /\ ParserInv' /\ ParserNext => ComesCloser
    <2> SUFFICES ASSUME ParserInv, ParserInv', ParserNext PROVE ComesCloser
        OBVIOUS
    <2>1. /\ pos \in Nat /\ Len(data) \in Nat /\ pos' \in Nat /\ pos <= Len(data) + 1
          /\ pos' <= Len(data') + 1
        BY LenProperties DEF ParserInv, ParserTypeOK, StaysInside
    <2>2. AtEnd => pos = Len(data) + 1
        BY <2>1 DEF AtEnd
    <2>3. CASE SkipBlank \/ StartSegment \/ PlainText
        BY <2>1, <2>3, MovesOn DEF SkipBlank, StartSegment, PlainText, AtEnd
    <2>4. CASE Escape
        BY <2>1, <2>4, MovesOn DEF Escape, InSegment, AtEnd, Fail
    <2>5. CASE BinaryElement
        <3> DEFINE close  == ClosingAt
                   length == SubSeq(data, pos + 1, close - 1)
        <3>1. mode = "segment" /\ pos <= Len(data)
            BY <2>1, <2>5 DEF BinaryElement, InSegment, AtEnd
        <3>2. CASE close = 0 \/ ~IsNumeral(length) \/ close + NumOf(length) > Len(data)
            BY <2>5, <3>1, <3>2, MovesOn DEF BinaryElement, Fail
        <3>3. CASE ~(close = 0 \/ ~IsNumeral(length) \/ close + NumOf(length) > Len(data))
            <4>1. /\ pos' = close + NumOf(length) + 1
                  /\ UNCHANGED <<data, mode, level>>
                BY <2>5, <3>3 DEF BinaryElement
            <4>2. NumOf(length) \in Nat
                BY <3>3, NumeralIsNat
            <4>3. close \in pos + 1..Len(data)
                BY <3>3, ClosingType DEF ParserInv, ParserTypeOK
            <4>4. pos' > pos
                <5> HIDE DEF close, length
                <5> QED BY <2>1, <4>1, <4>2, <4>3
            <4> QED BY <2>1, <3>1, <4>1, <4>4, MovesOn
        <3> QED BY <3>2, <3>3
    <2>6. CASE ElementSeparator \/ GroupSeparator \/ SegmentEnd
        BY <2>1, <2>6, MovesOn DEF ElementSeparator, GroupSeparator, SegmentEnd, InSegment, AtEnd
    <2>7. CASE Unterminated \/ Complete \/ OpenEnvelope
        BY <2>2, <2>7, EndsLevel DEF Unterminated, Complete, OpenEnvelope
    <2>8. CASE EnvelopeUnreadable
        BY <2>8 DEF EnvelopeUnreadable, ComesCloser, LevelsLeft
    <2> QED BY <2>3, <2>4, <2>5, <2>6, <2>7, <2>8 DEF ParserNext
<1> QED BY <1>1, ParserInvHolds, PTL DEF ParserSpec

-----------------------------------------------------------------------------
(* What is cut off.  Whole is a message, and W the parser that reads it.   *)

CONSTANT Whole

W == INSTANCE WireParser WITH data <- Whole

LEMMA SameWords ==
    /\ W!Blank = Blank /\ W!Special = Special /\ W!Empty = Empty
    /\ \A s : W!Text(s) = Text(s) /\ W!Binary(s) = Binary(s)
BY DEF W!Blank, Blank, W!Special, Special, W!Empty, Empty, W!Text, Text, W!Binary, Binary

LEMMA SameNumerals ==
    ASSUME NEW s
    PROVE  W!IsNumeral(s) = IsNumeral(s) /\ W!NumOf(s) = NumOf(s)
<1>1. W!NumeralOf = NumeralOf
    BY Zenon DEF W!NumeralOf, NumeralOf
<1>2. W!IsNumeral(s) = IsNumeral(s)
    BY <1>1 DEF W!IsNumeral, IsNumeral
<1> QED BY <1>1, <1>2 DEF W!NumOf, NumOf

LEMMA SameText ==
    ASSUME NEW piece
    PROVE  W!WithText(piece) = WithText(piece)
BY SameWords DEF W!WithText, WithText, W!Last, Last

\* data is the beginning of Whole.
IsBeginning == Len(data) <= Len(Whole) /\ \A i \in 1..Len(data) : data[i] = Whole[i]

LEMMA SamePlace ==
    ASSUME ParserInv, Whole \in Seq(STRING), IsBeginning, pos < Len(data)
    PROVE  /\ pos \in 1..Len(data) /\ pos + 1 \in 1..Len(data)
           /\ Len(data) \in Nat /\ Len(Whole) \in Nat /\ pos \in Nat
           /\ data[pos] = Whole[pos] /\ data[pos + 1] = Whole[pos + 1]
           /\ ~AtEnd /\ ~W!AtEnd
           /\ \A byte : InSegment(byte) => W!InSegment(byte)
           /\ pos # Len(data) /\ pos # Len(Whole)
<1>1. pos \in Nat /\ 1 <= pos /\ Len(data) \in Nat /\ Len(Whole) \in Nat
    BY LenProperties DEF ParserInv, ParserTypeOK, StaysInside
<1>2. pos \in 1..Len(data) /\ pos + 1 \in 1..Len(data)
    BY <1>1
<1>3. ~AtEnd /\ ~W!AtEnd
    BY <1>1 DEF AtEnd, W!AtEnd, IsBeginning
<1>4. data[pos] = Whole[pos] /\ data[pos + 1] = Whole[pos + 1]
    BY <1>2 DEF IsBeginning
<1> QED BY <1>1, <1>2, <1>3, <1>4 DEF IsBeginning, InSegment, W!InSegment

LEMMA SameAfterColon ==
    ASSUME ParserInv, Whole \in Seq(STRING), IsBeginning, pos < Len(data)
    PROVE  W!AfterColon = AfterColon
<1>1. Next1(pos + 1) = W!Next1(pos + 1)
    <2>1. DOMAIN data = 1..Len(data) /\ DOMAIN Whole = 1..Len(Whole)
        BY LenProperties DEF ParserInv, ParserTypeOK
    <2>2. pos + 1 \in 1..Len(data) /\ pos + 1 \in 1..Len(Whole)
        BY SamePlace DEF IsBeginning
    <2> QED BY <2>1, <2>2, SamePlace DEF Next1, W!Next1
<1> QED BY <1>1, SameWords DEF AfterColon, W!AfterColon, OrEmptyElement, W!OrEmptyElement

\* The "@" that closes a length is the same, if it is not cut off.
LEMMA SameClosing ==
    ASSUME ParserInv, Whole \in Seq(STRING), IsBeginning, pos < Len(data), ClosingAt # 0
    PROVE  W!ClosingAt = ClosingAt
<1> DEFINE wats  == {i \in pos + 1..Len(Whole) : Whole[i] = "@"}
           close == ClosingAt
<1>1. pos \in Nat /\ Len(data) \in Nat /\ Len(Whole) \in Nat /\ Len(data) <= Len(Whole)
    BY SamePlace DEF IsBeginning
<1>2. /\ close \in pos + 1..Len(data) /\ data[close] = "@"
      /\ \A i \in pos + 1..Len(data) : data[i] = "@" => close <= i
    BY ClosingType DEF ParserInv, ParserTypeOK
<1> HIDE DEF close
<1>3. close \in wats
    <2>1. close \in 1..Len(data) /\ close \in pos + 1..Len(Whole)
        BY <1>1, <1>2
    <2> QED BY <1>2, <2>1 DEF IsBeginning
<1>4. ASSUME NEW i \in wats PROVE close <= i
    <2>1. CASE i \in 1..Len(data)
        <3>1. data[i] = "@" /\ i \in pos + 1..Len(data)
            BY <1>1, <1>4, <2>1 DEF IsBeginning
        <3> QED BY <1>2, <3>1
    <2>2. CASE i \notin 1..Len(data)
        BY <1>1, <1>2, <1>4, <2>2
    <2> QED BY <2>1, <2>2
<1>5. W!ClosingAt = CHOOSE i \in wats : \A j \in wats : i <= j
    BY <1>3 DEF W!ClosingAt
<1>6. \A i \in wats : (\A j \in wats : i <= j) => i = close
    BY <1>1, <1>2, <1>3, <1>4
<1>7. (CHOOSE i \in wats : \A j \in wats : i <= j) = close
    <2> HIDE DEF wats
    <2> QED BY <1>3, <1>4, <1>6
<1> QED BY <1>5, <1>7 DEF close

LEMMA SameSubSeq ==
    ASSUME ParserInv, Whole \in Seq(STRING), IsBeginning,
           NEW m \in Nat, NEW n \in Int, 1 <= m, n <= Len(data)
    PROVE  SubSeq(Whole, m, n) = SubSeq(data, m, n)
<1>1. \A i \in 1..(n - m + 1) : data[i + m - 1] = Whole[i + m - 1]
    <2>1. Len(data) \in Nat
        BY LenProperties DEF ParserInv, ParserTypeOK
    <2>2. \A i \in 1..(n - m + 1) : i + m - 1 \in 1..Len(data)
        BY <2>1
    <2> QED BY <2>2 DEF IsBeginning
<1> DEFINE r == SubSeq(data, m, n)
           t == SubSeq(Whole, m, n)
<1>2. /\ r \in Seq(STRING) /\ Len(r) = IF m <= n THEN n - m + 1 ELSE 0
      /\ \A i \in 1..n - m + 1 : r[i] = data[m + i - 1]
    <2>1. \A i \in m..n : data[i] \in STRING
        <3>1. \A i \in m..n : i \in 1..Len(data)
            BY LenProperties DEF ParserInv, ParserTypeOK
        <3> QED BY <3>1, ElementOfSeq DEF ParserInv, ParserTypeOK
    <2> QED BY <2>1, SubSeqProperties
<1>3. /\ t \in Seq(STRING) /\ Len(t) = IF m <= n THEN n - m + 1 ELSE 0
      /\ \A i \in 1..n - m + 1 : t[i] = Whole[m + i - 1]
    <2>1. \A i \in m..n : Whole[i] \in STRING
        <3>1. \A i \in m..n : i \in 1..Len(Whole)
            BY LenProperties DEF ParserInv, ParserTypeOK, IsBeginning
        <3> QED BY <3>1, ElementOfSeq
    <2> QED BY <2>1, SubSeqProperties
<1> HIDE DEF r, t
<1>4. \A i \in 1..Len(r) : r[i] = t[i]
    <2>1. \A i \in 1..n - m + 1 : m + i - 1 = i + m - 1
        OBVIOUS
    <2>2. \A i \in 1..n - m + 1 : r[i] = t[i]
        BY <1>1, <1>2, <1>3, <2>1
    <2>3. \A i \in 1..Len(r) : i \in 1..n - m + 1
        BY <1>2
    <2> QED BY <2>2, <2>3
<1>5. r = t
    BY <1>2, <1>3, <1>4, SeqEqual
<1> QED BY <1>5 DEF r, t

LEMMA SameBinary ==
    ASSUME ParserInv, Whole \in Seq(STRING), IsBeginning, pos < Len(data),
           BinaryElement, mode' # "error"
    PROVE  W!BinaryElement
<1> DEFINE close   == ClosingAt
           length  == SubSeq(data, pos + 1, close - 1)
           wlength == SubSeq(Whole, pos + 1, close - 1)
           n       == NumOf(length)
<1>1. ~(close = 0 \/ ~IsNumeral(length) \/ close + n > Len(data))
    BY DEF BinaryElement, Fail
<1>2. /\ deg' = Append(deg, Binary(SubSeq(data, close + 1, close + n)))
      /\ need_new_de' = FALSE
      /\ pos' = close + n + 1
      /\ UNCHANGED <<mode, degs, segments, level, outer>>
    BY <1>1 DEF BinaryElement
<1>3. close \in pos + 1..Len(data) /\ n \in Nat
    BY <1>1, ClosingType, NumeralIsNat DEF ParserInv, ParserTypeOK
<1>4. pos \in Nat /\ Len(data) \in Nat /\ Len(Whole) \in Nat /\ Len(data) <= Len(Whole)
    BY SamePlace DEF IsBeginning
<1>5. W!ClosingAt = close
    BY <1>1, SameClosing
<1>6. wlength = length
    <2>1. pos + 1 \in Nat /\ close - 1 \in Int /\ 1 <= pos + 1 /\ close - 1 <= Len(data)
        BY <1>3, <1>4
    <2> HIDE DEF close
    <2> QED BY <2>1, SameSubSeq
<1>7. W!IsNumeral(wlength) /\ W!NumOf(wlength) = n
    BY <1>1, <1>6, SameNumerals
<1>8. close + n <= Len(data) /\ close + n <= Len(Whole)
    <2> HIDE DEF close, n
    <2> QED BY <1>1, <1>3, <1>4
<1>9. SubSeq(Whole, close + 1, close + n) = SubSeq(data, close + 1, close + n)
    <2>1. close + 1 \in Nat /\ close + n \in Int /\ 1 <= close + 1
        BY <1>3, <1>4
    <2> HIDE DEF close, n
    <2> QED BY <1>8, <2>1, SameSubSeq
<1>10. W!InSegment("@")
    BY SamePlace DEF BinaryElement
<1>11. ~(close = 0 \/ ~W!IsNumeral(wlength) \/ close + W!NumOf(wlength) > Len(Whole))
    <2>1. ~(close + n > Len(Whole))
        <3> HIDE DEF close, n
        <3> QED BY <1>3, <1>4, <1>8
    <2> QED BY <1>1, <1>7, <2>1
<1>12. /\ deg' = Append(deg, W!Binary(SubSeq(Whole, close + 1, close + W!NumOf(wlength))))
       /\ pos' = close + W!NumOf(wlength) + 1
    BY <1>2, <1>7, <1>9, SameWords
<1> HIDE DEF close, length, wlength, n
<1> QED BY <1>2, <1>5, <1>10, <1>11, <1>12 DEF W!BinaryElement, wlength

\* Before the last byte a step that does not fail is a step on the whole.
LEMMA SameStep ==
    ASSUME ParserInv, Whole \in Seq(STRING), IsBeginning, pos < Len(data),
           level = "outer", ParserNext, mode' # "error"
    PROVE  W!ParserNext
<1>1. /\ data[pos] = Whole[pos] /\ data[pos + 1] = Whole[pos + 1]
      /\ ~AtEnd /\ ~W!AtEnd /\ pos # Len(data) /\ pos # Len(Whole)
      /\ \A byte : InSegment(byte) => W!InSegment(byte)
    BY SamePlace
<1>2. CASE SkipBlank
    BY <1>1, <1>2, SameWords DEF SkipBlank, W!ParserNext, W!SkipBlank
<1>3. CASE StartSegment
    BY <1>1, <1>3, SameWords DEF StartSegment, W!ParserNext, W!StartSegment
<1>4. CASE Escape
    BY <1>1, <1>4, SameText DEF Escape, W!ParserNext, W!Escape
<1>5. CASE BinaryElement
    BY <1>5, SameBinary DEF W!ParserNext
<1>6. CASE ElementSeparator
    BY <1>1, <1>6, SameAfterColon DEF ElementSeparator, W!ParserNext, W!ElementSeparator
<1>7. CASE GroupSeparator
    BY <1>1, <1>7, SameWords
       DEF GroupSeparator, W!ParserNext, W!GroupSeparator, OrEmptyElement, W!OrEmptyElement
<1>8. CASE SegmentEnd
    BY <1>1, <1>8, SameWords
       DEF SegmentEnd, W!ParserNext, W!SegmentEnd, OrEmptyElement, W!OrEmptyElement
<1>9. CASE PlainText
    BY <1>1, <1>9, SameWords, SameText DEF PlainText, W!ParserNext, W!PlainText
<1>10. CASE Unterminated \/ OpenEnvelope \/ Complete \/ EnvelopeUnreadable
    BY <1>1, <1>10 DEF Unterminated, OpenEnvelope, Complete, EnvelopeUnreadable
<1> QED BY <1>2, <1>3, <1>4, <1>5, <1>6, <1>7, <1>8, <1>9, <1>10 DEF ParserNext

\* The parser on the first n bytes of the message.
CutSpec(n) == ParserInit(SubSeq(Whole, 1, n)) /\ [][ParserNext]_parserVars

\* A message that is cut off after any byte is read as the whole one is, step
\* for step, up to the byte before the cut: what the cut can change is an
\* error, and the segment that it runs through.
THEOREM CutReadsAsTheWhole ==
    ASSUME Whole \in Seq(STRING), NEW n \in 0..Len(Whole)
    PROVE  CutSpec(n) => [][(level = "outer" /\ pos < Len(data) /\ mode' # "error")
                               => W!ParserNext]_parserVars
<1>1. SubSeq(Whole, 1, n) \in Seq(STRING)
      /\ Len(SubSeq(Whole, 1, n)) = n
      /\ \A i \in 1..n : SubSeq(Whole, 1, n)[i] = Whole[i]
    <2>1. n \in Nat /\ n <= Len(Whole) /\ Len(Whole) \in Nat
        BY LenProperties
    <2>2. \A i \in 1..n : Whole[i] \in STRING
        <3>1. \A i \in 1..n : i \in 1..Len(Whole)
            BY <2>1
        <3> QED BY <3>1, ElementOfSeq
    <2>3. /\ SubSeq(Whole, 1, n) \in Seq(STRING)
          /\ Len(SubSeq(Whole, 1, n)) = IF 1 <= n THEN n - 1 + 1 ELSE 0
          /\ \A i \in 1..n - 1 + 1 : SubSeq(Whole, 1, n)[i] = Whole[1 + i - 1]
        BY <2>1, <2>2, SubSeqProperties
    <2>4. n - 1 + 1 = n /\ \A i \in 1..n : 1 + i - 1 = i
        BY <2>1
    <2> QED BY <2>1, <2>3, <2>4
<1>2. ParserInit(SubSeq(Whole, 1, n)) => (level = "outer" => IsBeginning)
    <2>1. n <= Len(Whole)
        BY LenProperties
    <2> QED BY <1>1, <2>1 DEF ParserInit, IsBeginning
<1>3. (level = "outer" => IsBeginning) /\ [ParserNext]_parserVars
          => (level = "outer" => IsBeginning)'
    <2> SUFFICES ASSUME level = "outer" => IsBeginning, [ParserNext]_parserVars,
                        level' = "outer"
                 PROVE  IsBeginning'
        OBVIOUS
    <2>1. level = "outer" /\ data' = data
        BY DEF ParserNext, parserVars, SkipBlank, StartSegment, Escape, BinaryElement,
               ElementSeparator, GroupSeparator, SegmentEnd, PlainText, Unterminated,
               OpenEnvelope, Complete, EnvelopeUnreadable, Fail
    <2> QED BY <2>1 DEF IsBeginning
<1>4. ParserInit(SubSeq(Whole, 1, n)) => \E bytes \in Seq(STRING) : ParserInit(bytes)
    BY <1>1
<1>5. ParserInv /\ (level = "outer" => IsBeginning) /\ [ParserNext]_parserVars
          => [(level = "outer" /\ pos < Len(data) /\ mode' # "error")
                  => W!ParserNext]_parserVars
    BY SameStep
<1> QED BY <1>2, <1>3, <1>4, <1>5, ParserInvHolds, PTL DEF CutSpec, ParserSpec

-----------------------------------------------------------------------------
(* The versions of orders.                                                 *)

Listed(params, type, least) == {v \in least..7 : <<type, v>> \in params.listed}

LEMMA VersionProperties ==
    ASSUME NEW params, NEW type, NEW least \in 1..7
    PROVE  /\ Version(params, type, least) \in least..7
           /\ \A v \in Listed(params, type, least) : v <= Version(params, type, least)
           /\ Listed(params, type, least) # {} =>
                 Version(params, type, least) \in Listed(params, type, least)
           /\ Listed(params, type, least) = {} => Version(params, type, least) \in {least, 7}
<1> DEFINE listed == {v \in 1..7 : <<type, v>> \in params.listed}
           best   == IF listed = {} THEN 7 ELSE CHOOSE v \in listed : \A w \in listed : w <= v
<1>1. listed # {} => \E v \in listed : \A w \in listed : w <= v
    <2> SUFFICES ASSUME listed # {} PROVE \E v \in listed : \A w \in listed : w <= v
        OBVIOUS
    <2>1. listed \subseteq {1, 2, 3, 4, 5, 6, 7}
        OBVIOUS
    <2> HIDE DEF listed
    <2>2. CASE 7 \in listed
        BY <2>1, <2>2
    <2>3. CASE 7 \notin listed /\ 6 \in listed
        BY <2>1, <2>3
    <2>4. CASE {6, 7} \cap listed = {} /\ 5 \in listed
        BY <2>1, <2>4
    <2>5. CASE {5, 6, 7} \cap listed = {} /\ 4 \in listed
        BY <2>1, <2>5
    <2>6. CASE {4, 5, 6, 7} \cap listed = {} /\ 3 \in listed
        BY <2>1, <2>6
    <2>7. CASE {3, 4, 5, 6, 7} \cap listed = {} /\ 2 \in listed
        BY <2>1, <2>7
    <2>8. CASE {2, 3, 4, 5, 6, 7} \cap listed = {}
        <3>1. \A w \in listed : w = 1
            BY <2>1, <2>8
        <3>2. PICK v \in listed : TRUE
            OBVIOUS
        <3> QED BY <3>1, <3>2
    <2> QED BY <2>2, <2>3, <2>4, <2>5, <2>6, <2>7, <2>8
<1>2. best \in 1..7 /\ (\A v \in listed : v <= best) /\ (listed # {} => best \in listed)
    <2>1. CASE listed = {}
        <3>1. best = 7
            BY <2>1
        <3> HIDE DEF best, listed
        <3> QED BY <2>1, <3>1
    <2>2. CASE listed # {}
        <3>1. best = CHOOSE v \in listed : \A w \in listed : w <= v
            BY <2>2
        <3>2. best \in listed /\ \A v \in listed : v <= best
            <4> HIDE DEF listed
            <4> QED BY <1>1, <2>2, <3>1
        <3> QED BY <3>2
    <2> QED BY <2>1, <2>2
<1>3. Version(params, type, least) = IF best < least THEN least ELSE best
    BY DEF Version
<1>4. \A v : v \in Listed(params, type, least) <=> v \in listed /\ v >= least
    BY DEF Listed
<1> HIDE DEF best
<1>5. listed = {} => best = 7
    BY DEF best
<1>6. listed \subseteq 1..7
    OBVIOUS
<1> HIDE DEF listed
<1>7. CASE best < least
    <2>1. Listed(params, type, least) = {}
        <3> SUFFICES ASSUME NEW v \in Listed(params, type, least) PROVE FALSE
            OBVIOUS
        <3>1. v \in listed /\ v >= least
            BY <1>4
        <3>2. v \in 1..7 /\ v <= best /\ best \in 1..7
            BY <1>2, <1>6, <3>1
        <3> QED BY <1>7, <3>1, <3>2
    <2> QED BY <1>3, <1>7, <2>1
<1>8. CASE ~(best < least)
    <2>1. Version(params, type, least) = best /\ best \in least..7
        BY <1>2, <1>3, <1>8
    <2>2. \A v \in Listed(params, type, least) : v <= best
        BY <1>2, <1>4
    <2>3. listed # {} => best \in Listed(params, type, least)
        BY <1>2, <1>4, <1>8
    <2>4. Listed(params, type, least) # {} => listed # {}
        BY <1>4
    <2> QED BY <1>5, <2>1, <2>2, <2>3, <2>4
<1> QED BY <1>7, <1>8

\* Whatever a bank lists, an order is built in the highest version that it
\* lists and the client can build, and in a version it does not list only
\* where there is none of these.
THEOREM OrdersAreBuiltAsListed ==
    ASSUME NEW seg, NEW params, seg.type \in DOMAIN Negotiated
    PROVE  LET order   == Negotiated[seg.type]
               version == OrderVersion(seg, params)
               listed  == Listed(params, order.params, order.least)
           IN  /\ listed # {} => version \in listed
               /\ \A v \in listed : v <= version
               /\ version \in order.least..7
<1>1. Negotiated[seg.type].least \in 1..7
    BY DEF Negotiated
<1>2. OrderVersion(seg, params) =
          Version(params, Negotiated[seg.type].params, Negotiated[seg.type].least)
    <2>1. seg.type # "DKKKU"
        BY DEF Negotiated
    <2> QED BY <2>1 DEF OrderVersion
<1> QED BY <1>1, <1>2, VersionProperties

\* An account without BIC apart, the assertion of the account format can only
\* be met by HKWDU, for a national account, at a bank whose highest version of
\* it is 5 or 6: require_iban and the format disagree about these two alone.
THEOREM OnlyHkwduPanics ==
    ASSUME NEW seg, NEW params, Panics(seg, params), seg.account.bic # <<>>
    PROVE  /\ seg.type = "HKWDU" /\ seg.account.iban = <<>>
           /\ OrderVersion(seg, params) \in {5, 6}
           /\ <<"HIWDUS", OrderVersion(seg, params)>> \in params.listed
<1>1. /\ seg.type \in DOMAIN Negotiated /\ seg.account.iban = <<>>
      /\ OrderVersion(seg, params) >= Negotiated[seg.type].kti
      /\ ~(OrderVersion(seg, params) >= 7)
    BY DEF Panics, IsRefused, TakesKti
<1>2. /\ DOMAIN Negotiated = {"HKSAL", "HKKAZ", "HKWPD", "HKWDU"}
      /\ Negotiated["HKSAL"].kti = 7 /\ Negotiated["HKKAZ"].kti = 7
      /\ Negotiated["HKWPD"].kti = 7
      /\ Negotiated["HKWDU"] = [params |-> "HIWDUS", least |-> 1, kti |-> 5]
    BY DEF Negotiated
<1>3. seg.type = "HKWDU"
    BY <1>1, <1>2
<1>4. OrderVersion(seg, params) = Version(params, "HIWDUS", 1)
    BY <1>2, <1>3 DEF OrderVersion
<1>5. /\ Version(params, "HIWDUS", 1) \in 1..7
      /\ Listed(params, "HIWDUS", 1) # {} =>
            Version(params, "HIWDUS", 1) \in Listed(params, "HIWDUS", 1)
      /\ Listed(params, "HIWDUS", 1) = {} => Version(params, "HIWDUS", 1) \in {1, 7}
    BY VersionProperties
<1>6. OrderVersion(seg, params) \in {5, 6}
    BY <1>1, <1>2, <1>3, <1>4, <1>5
<1>7. <<"HIWDUS", OrderVersion(seg, params)>> \in params.listed
    <2>1. Listed(params, "HIWDUS", 1) # {}
        BY <1>4, <1>5, <1>6
    <2>2. OrderVersion(seg, params) \in Listed(params, "HIWDUS", 1)
        BY <1>4, <1>5, <2>1
    <2> QED BY <2>2 DEF Listed
<1> QED BY <1>1, <1>3, <1>6, <1>7

-----------------------------------------------------------------------------
(* Texts that are put together from pieces.                                *)

\* Induction over the naturals, for a set.
LEMMA SetInduction ==
    ASSUME NEW S, 0 \in S, \A n \in Nat : n \in S => n + 1 \in S
    PROVE  Nat \subseteq S
<1> DEFINE T == Nat \ S
           Less == OpToRel(<, Nat)
<1> SUFFICES ASSUME T # {} PROVE FALSE
    OBVIOUS
<1>1. IsWellFoundedOn(Less, Nat)
    BY NatLessThanWellFounded
<1>2. PICK n \in T : \A m \in T : ~(<<m, n>> \in Less)
    <2> HIDE DEF T, Less
    <2>1. T \subseteq Nat
        BY DEF T
    <2> QED BY <1>1, <2>1, WFMin
<1>3. n \in Nat /\ n # 0
    OBVIOUS
<1>4. n - 1 \in Nat /\ n - 1 + 1 = n
    BY <1>3
<1>5. <<n - 1, n>> \in Less
    BY <1>3, <1>4 DEF OpToRel
<1>6. n - 1 \in S
    BY <1>2, <1>4, <1>5
<1> QED BY <1>4, <1>6

\* The function by which FlattenSeq is defined.
Flattens(f, s) ==
    /\ Len(s) >= 1 => f[1] = s[1]
    /\ \A i \in 1..Len(s) - 1 : f[i + 1] = f[i] \o s[i + 1]

Upto(f, s, n) == \A i \in 1..n : f[i] = IF i = 1 THEN s[i] ELSE f[i - 1] \o s[i]

\* It exists: up to a place, and then up to the next.
LEMMA FlattenExists ==
    ASSUME NEW T, NEW s \in Seq(Seq(T))
    PROVE  \E f \in [1..Len(s) -> Seq(T)] : Upto(f, s, Len(s))
<1> DEFINE S == {n \in Nat : n <= Len(s) => \E f \in [1..n -> Seq(T)] : Upto(f, s, n)}
<1>1. 0 \in S
    <2>1. [i \in 1..0 |-> <<>>] \in [1..0 -> Seq(T)]
        OBVIOUS
    <2>2. Upto([i \in 1..0 |-> <<>>], s, 0)
        BY DEF Upto
    <2> QED BY <2>1, <2>2
<1>2. ASSUME NEW n \in Nat, n \in S
      PROVE  n + 1 \in S
    <2> SUFFICES ASSUME n + 1 <= Len(s)
                 PROVE  \E f \in [1..n + 1 -> Seq(T)] : Upto(f, s, n + 1)
        OBVIOUS
    <2>0. Len(s) \in Nat /\ \A i \in 1..n + 1 : i \in 1..Len(s)
        BY LenProperties
    <2>1. PICK f \in [1..n -> Seq(T)] : Upto(f, s, n)
        BY <1>2, <2>0
    <2> DEFINE x == IF n = 0 THEN s[1] ELSE f[n] \o s[n + 1]
               g == [i \in 1..n + 1 |-> IF i \in 1..n THEN f[i] ELSE x]
    <2>2. \A i \in 1..n + 1 : s[i] \in Seq(T)
        BY <2>0, ElementOfSeq
    <2>3. x \in Seq(T)
        BY <2>2, ConcatProperties
    <2>4. g \in [1..n + 1 -> Seq(T)]
        <3> HIDE DEF x
        <3> QED BY <2>3
    <2>5. ASSUME NEW i \in 1..n + 1
          PROVE  g[i] = IF i = 1 THEN s[i] ELSE g[i - 1] \o s[i]
        <3>1. CASE i \in 1..n
            <4>1. g[i] = f[i] /\ (i # 1 => g[i - 1] = f[i - 1])
                BY <3>1
            <4> QED BY <2>1, <3>1, <4>1 DEF Upto
        <3>2. CASE i = n + 1
            <4>1. g[i] = x /\ (i # 1 => g[i - 1] = f[n])
                BY <3>2
            <4> QED BY <3>2, <4>1
        <3> QED BY <3>1, <3>2
    <2> HIDE DEF g
    <2> QED BY <2>4, <2>5 DEF Upto
<1>3. Nat \subseteq S
    <2> HIDE DEF S
    <2> QED BY <1>1, <1>2, SetInduction
<1>4. Len(s) \in Nat
    BY LenProperties
<1> QED BY <1>3, <1>4 DEF S

\* There is one only, and its values are texts.
LEMMA FlattensType ==
    ASSUME NEW T, NEW s \in Seq(Seq(T)), NEW g, Flattens(g, s)
    PROVE  \A n \in 1..Len(s) : g[n] \in Seq(T)
<1> DEFINE S == {n \in Nat : n \in 1..Len(s) => g[n] \in Seq(T)}
<1>1. 0 \in S
    OBVIOUS
<1>2. ASSUME NEW n \in Nat, n \in S PROVE n + 1 \in S
    <2> SUFFICES ASSUME n + 1 \in 1..Len(s) PROVE g[n + 1] \in Seq(T)
        OBVIOUS
    <2>1. s[n + 1] \in Seq(T)
        BY ElementOfSeq
    <2>2. Len(s) \in Nat /\ Len(s) >= 1
        BY LenProperties
    <2>3. CASE n = 0
        BY <2>1, <2>2, <2>3 DEF Flattens
    <2>4. CASE n # 0
        <3>1. n \in 1..Len(s) /\ n \in 1..Len(s) - 1
            BY <2>2, <2>4
        <3>2. g[n] \in Seq(T)
            BY <1>2, <3>1
        <3>3. g[n + 1] = g[n] \o s[n + 1]
            BY <3>1 DEF Flattens
        <3> QED BY <2>1, <3>2, <3>3, ConcatProperties
    <2> QED BY <2>3, <2>4
<1>3. Nat \subseteq S
    <2> HIDE DEF S
    <2> QED BY <1>1, <1>2, SetInduction
<1> QED BY <1>3

\* What FlattenSeq computes.
LEMMA FlattenIs ==
    ASSUME NEW T, NEW s \in Seq(Seq(T)), s # <<>>
    PROVE  \E f : Flattens(f, s) /\ FlattenSeq(s) = f[Len(s)]
<1> DEFINE g == CHOOSE f : f = [i \in 1..Len(s) |-> IF i = 1 THEN s[i] ELSE f[i - 1] \o s[i]]
<1>1. PICK f \in [1..Len(s) -> Seq(T)] : Upto(f, s, Len(s))
    BY FlattenExists
<1>2. f = [i \in 1..Len(s) |-> IF i = 1 THEN s[i] ELSE f[i - 1] \o s[i]]
    BY <1>1 DEF Upto
<1>3. g = [i \in 1..Len(s) |-> IF i = 1 THEN s[i] ELSE g[i - 1] \o s[i]]
    BY <1>2
<1>4. FlattenSeq(s) = g[Len(s)]
    <2>1. Len(s) # 0
        BY EmptySeq
    <2> QED BY <2>1 DEF FlattenSeq
<1> HIDE DEF g
<1>5. Flattens(g, s)
    <2>1. Len(s) \in Nat
        BY LenProperties
    <2>2. Len(s) >= 1 => g[1] = s[1]
        <3>1. SUFFICES ASSUME 1 \in 1..Len(s) PROVE g[1] = s[1]
            BY <2>1
        <3> QED BY <1>3, <3>1
    <2>3. ASSUME NEW i \in 1..Len(s) - 1 PROVE g[i + 1] = g[i] \o s[i + 1]
        <3> DEFINE j == i + 1
        <3>1. j \in 1..Len(s) /\ j # 1 /\ j - 1 = i
            BY <2>1
        <3>2. \A k \in 1..Len(s) : g[k] = IF k = 1 THEN s[k] ELSE g[k - 1] \o s[k]
            BY <1>3
        <3> HIDE DEF j
        <3>3. g[j] = g[j - 1] \o s[j]
            BY <3>1, <3>2
        <3> QED BY <3>1, <3>3 DEF j
    <2> QED BY <2>2, <2>3 DEF Flattens
<1> QED BY <1>4, <1>5

\* Nothing put together is nothing.
LEMMA FlattenEmpty == FlattenSeq(<<>>) = <<>>
BY DEF FlattenSeq

\* What is put together from texts is a text.
LEMMA FlattenType ==
    ASSUME NEW T, NEW s \in Seq(Seq(T))
    PROVE  FlattenSeq(s) \in Seq(T)
<1>1. CASE s = <<>>
    BY <1>1, FlattenEmpty, EmptySeq
<1>2. CASE s # <<>>
    <2>1. PICK f : Flattens(f, s) /\ FlattenSeq(s) = f[Len(s)]
        BY <1>2, FlattenIs
    <2>2. Len(s) \in 1..Len(s)
        BY <1>2, EmptySeq
    <2> QED BY <2>1, <2>2, FlattensType
<1> QED BY <1>1, <1>2

\* From the n + 1st piece on.
From(s, n) == FlattenSeq([m \in 1..Len(s) - n |-> s[n + m]])

\* The pieces from a place on are a sequence.
LEMMA RestType ==
    ASSUME NEW T, NEW s \in Seq(T), NEW n \in 0..Len(s)
    PROVE  /\ [m \in 1..Len(s) - n |-> s[n + m]] \in Seq(T)
           /\ Len([m \in 1..Len(s) - n |-> s[n + m]]) = Len(s) - n
<1>1. Len(s) - n \in Nat /\ \A m \in 1..Len(s) - n : n + m \in 1..Len(s)
    BY LenProperties
<1>2. \A m \in 1..Len(s) - n : s[n + m] \in T
    BY <1>1, ElementOfSeq
<1> QED BY <1>1, <1>2

\* What is put together from a place on is a text.
LEMMA FromType ==
    ASSUME NEW T, NEW s \in Seq(Seq(T)), NEW n \in 0..Len(s)
    PROVE  From(s, n) \in Seq(T)
BY RestType, FlattenType DEF From

\* From the first piece on it is the whole, behind the last one nothing.
LEMMA FromStart ==
    ASSUME NEW T, NEW s \in Seq(Seq(T))
    PROVE  From(s, 0) = FlattenSeq(s) /\ From(s, Len(s)) = <<>>
<1>1. Len(s) \in Nat /\ s = [m \in 1..Len(s) |-> s[m]]
    BY LenProperties
<1>2. [m \in 1..Len(s) - 0 |-> s[0 + m]] = s
    BY <1>1
<1>3. [m \in 1..Len(s) - Len(s) |-> s[Len(s) + m]] = <<>>
    BY <1>1
<1> QED BY <1>2, <1>3, FlattenEmpty DEF From

\* Of three texts it does not matter which two are put together first.
LEMMA Associative ==
    ASSUME NEW T, NEW x \in Seq(T), NEW y \in Seq(T), NEW z \in Seq(T), NEW u, u = x \o y
    PROVE  u \o z = x \o (y \o z)
BY ConcatAssociative

\* Without the first piece there is the rest.
IsShift(a, b) == Len(a) = Len(b) + 1 /\ \A m \in 1..Len(b) : a[m + 1] = b[m]
Continues(f, x, g, n) == \A m \in 1..n : f[m + 1] = x \o g[m]

\* With one more piece in front, every beginning has that piece in front.
LEMMA FlattensShift ==
    ASSUME NEW T, NEW a \in Seq(Seq(T)), NEW b \in Seq(Seq(T)), NEW f, NEW g
    PROVE  Flattens(f, a) /\ Flattens(g, b) /\ IsShift(a, b) => Continues(f, a[1], g, Len(b))
<1>a. SUFFICES ASSUME Flattens(f, a), Flattens(g, b), Len(a) = Len(b) + 1,
                      \A m \in 1..Len(b) : a[m + 1] = b[m]
               PROVE  \A m \in 1..Len(b) : f[m + 1] = a[1] \o g[m]
    BY Zenon DEF IsShift, Continues
<1> DEFINE S == {m \in Nat : m \in 1..Len(b) => f[m + 1] = a[1] \o g[m]}
<1>0. Len(a) \in Nat /\ Len(b) \in Nat
    BY LenProperties
<1>1. 0 \in S
    OBVIOUS
<1>2. ASSUME NEW m \in Nat, m \in S PROVE m + 1 \in S
    <2> DEFINE k == m + 1
    <2>0. k \in Nat
        OBVIOUS
    <2> HIDE DEF k
    <2>1. SUFFICES ASSUME k \in 1..Len(b) PROVE f[k + 1] = a[1] \o g[k]
        BY <2>0 DEF k
    <2>a. k \in 1..Len(a) - 1
        BY <1>0, <1>a, <2>1
    <2>b. f[k + 1] = f[k] \o a[k + 1]
        BY <1>a, <2>a DEF Flattens
    <2>2. f[k + 1] = f[k] \o b[k]
        BY <1>a, <2>1, <2>b
    <2>3. CASE m = 0
        <3>1. k = 1 /\ f[1] = a[1] /\ g[1] = b[1]
            BY <1>0, <1>a, <2>1, <2>3 DEF Flattens, k
        <3> QED BY <2>2, <3>1
    <2>4. CASE m # 0
        <3>1. m \in 1..Len(b) /\ m \in 1..Len(b) - 1
            BY <1>0, <2>1, <2>4 DEF k
        <3>2. f[k] = a[1] \o g[m]
            BY <1>2, <3>1 DEF k
        <3>3. g[k] = g[m] \o b[k]
            BY <1>a, <3>1 DEF Flattens, k
        <3>4. a[1] \in Seq(T) /\ g[m] \in Seq(T) /\ b[k] \in Seq(T)
            BY <1>0, <1>a, <2>1, <3>1, FlattensType, ElementOfSeq
        <3>5. f[k] \o b[k] = a[1] \o (g[m] \o b[k])
            <4>1. PICK x : x = a[1]
                OBVIOUS
            <4>2. PICK y : y = g[m]
                OBVIOUS
            <4>3. PICK z : z = b[k]
                OBVIOUS
            <4>4. PICK u : u = f[k]
                OBVIOUS
            <4>5. x \in Seq(T) /\ y \in Seq(T) /\ z \in Seq(T) /\ u = x \o y
                BY <3>2, <3>4, <4>1, <4>2, <4>3, <4>4
            <4>6. u \o z = x \o (y \o z)
                BY <4>5, Associative
            <4> QED BY <4>1, <4>2, <4>3, <4>4, <4>6
        <3> QED BY <2>2, <3>3, <3>5
    <2> QED BY <2>3, <2>4
<1>3. Nat \subseteq S
    <2> HIDE DEF S
    <2> QED BY <1>1, <1>2, SetInduction
<1>4. \A m \in 1..Len(b) : m \in Nat
    OBVIOUS
<1> QED BY <1>3, <1>4

\* A text is its first piece and what follows it.
LEMMA FromNext ==
    ASSUME NEW T, NEW s \in Seq(Seq(T)), NEW n \in 0..Len(s) - 1
    PROVE  From(s, n) = s[n + 1] \o From(s, n + 1)
<1>0. /\ Len(s) \in Nat /\ n \in Nat /\ n < Len(s)
      /\ n \in 0..Len(s) /\ n + 1 \in 0..Len(s) /\ n + 1 \in 1..Len(s)
    BY LenProperties
<1> DEFINE a == [m \in 1..Len(s) - n |-> s[n + m]]
           b == [m \in 1..Len(s) - (n + 1) |-> s[n + 1 + m]]
<1>1. /\ a \in Seq(Seq(T)) /\ b \in Seq(Seq(T))
      /\ Len(a) = Len(s) - n /\ Len(b) = Len(s) - (n + 1)
    BY <1>0, RestType
<1>2. a[1] = s[n + 1] /\ \A m \in 1..Len(b) : a[m + 1] = b[m]
    BY <1>0, <1>1
<1>3. From(s, n) = FlattenSeq(a) /\ From(s, n + 1) = FlattenSeq(b)
    BY DEF From
<1>4. s[n + 1] \in Seq(T)
    BY <1>0, ElementOfSeq
<1>5. Len(a) = Len(b) + 1 /\ Len(b) \in Nat
    BY <1>0, <1>1
<1> HIDE DEF a, b
<1>6. PICK f : Flattens(f, a) /\ FlattenSeq(a) = f[Len(a)]
    <2>1. a # <<>>
        BY <1>1, <1>5, EmptySeq
    <2> QED BY <1>1, <2>1, FlattenIs
<1>7. CASE b = <<>>
    <2>1. Len(a) = 1
        BY <1>5, <1>7, EmptySeq
    <2>2. f[1] = a[1]
        BY <1>6, <2>1 DEF Flattens
    <2>3. s[n + 1] \o <<>> = s[n + 1]
        BY <1>4, ConcatEmptySeq
    <2>4. From(s, n) = s[n + 1] /\ From(s, n + 1) = <<>>
        BY <1>2, <1>3, <1>6, <1>7, <2>1, <2>2, FlattenEmpty
    <2> QED BY <2>3, <2>4
<1>8. CASE b # <<>>
    <2>1. PICK g : Flattens(g, b) /\ FlattenSeq(b) = g[Len(b)]
        BY <1>1, <1>8, FlattenIs
    <2>2. Len(b) \in 1..Len(b)
        BY <1>1, <1>8, EmptySeq
    <2>3. Continues(f, a[1], g, Len(b))
        <3>1. IsShift(a, b)
            BY <1>2, <1>5 DEF IsShift
        <3> QED BY <1>1, <1>6, <2>1, <3>1, FlattensShift
    <2>4. f[Len(b) + 1] = a[1] \o g[Len(b)]
        BY <2>2, <2>3 DEF Continues
    <2> QED BY <1>2, <1>3, <1>5, <1>6, <2>1, <2>4
<1> QED BY <1>7, <1>8

\* The pieces that are joined with a separator, and what follows one of them.
JoinPieces(sep, parts) ==
    [i \in DOMAIN parts |-> IF i = 1 THEN parts[i] ELSE <<sep>> \o parts[i]]
BehindPart(sep, parts, k) == From(JoinPieces(sep, parts), k)

\* With a separator before every piece but the first there are as many pieces.
LEMMA JoinPiecesType ==
    ASSUME NEW T, NEW sep \in T, NEW parts \in Seq(Seq(T))
    PROVE  /\ JoinPieces(sep, parts) \in Seq(Seq(T))
           /\ Len(JoinPieces(sep, parts)) = Len(parts)
           /\ Joined(sep, parts) = FlattenSeq(JoinPieces(sep, parts))
<1>1. Len(parts) \in Nat /\ DOMAIN parts = 1..Len(parts)
    BY LenProperties
<1> DEFINE X(i) == IF i = 1 THEN parts[i] ELSE <<sep>> \o parts[i]
           x == [i \in 1..Len(parts) |-> X(i)]
<1>2. JoinPieces(sep, parts) = x
    BY <1>1 DEF JoinPieces
<1>3. \A i \in 1..Len(parts) : X(i) \in Seq(T)
    <2> TAKE i \in 1..Len(parts)
    <2>1. parts[i] \in Seq(T) /\ <<sep>> \in Seq(T)
        BY ElementOfSeq
    <2>2. <<sep>> \o parts[i] \in Seq(T)
        BY <2>1, ConcatProperties
    <2> QED BY <2>1, <2>2
<1>5. x \in Seq(Seq(T)) /\ Len(x) = Len(parts)
    <2> HIDE DEF X
    <2> QED BY <1>1, <1>3
<1>6. Joined(sep, parts) = FlattenSeq(JoinPieces(sep, parts))
    BY DEF Joined, JoinPieces
<1> HIDE DEF x
<1> QED BY <1>2, <1>5, <1>6

\* The first piece stands alone, every other one behind a separator.
LEMMA JoinPiecesAt ==
    ASSUME NEW T, NEW sep \in T, NEW parts \in Seq(Seq(T)), NEW i \in 1..Len(parts)
    PROVE  /\ i = 1 => JoinPieces(sep, parts)[i] = parts[i]
           /\ i # 1 => JoinPieces(sep, parts)[i] = <<sep>> \o parts[i]
BY LenProperties DEF JoinPieces

\* Joined texts are a text, and so is what follows one of them.
LEMMA JoinedType ==
    ASSUME NEW T, NEW sep \in T, NEW parts \in Seq(Seq(T))
    PROVE  /\ Joined(sep, parts) \in Seq(T)
           /\ \A k \in 0..Len(parts) : BehindPart(sep, parts, k) \in Seq(T)
<1>1. Joined(sep, parts) \in Seq(T)
    BY JoinPiecesType, FlattenType
<1>2. ASSUME NEW k \in 0..Len(parts)
      PROVE  BehindPart(sep, parts, k) \in Seq(T)
    <2> DEFINE x == JoinPieces(sep, parts)
    <2>1. x \in Seq(Seq(T)) /\ Len(x) = Len(parts)
        BY JoinPiecesType
    <2> HIDE DEF x
    <2>2. From(x, k) \in Seq(T)
        BY <2>1, FromType
    <2> QED BY <2>2 DEF BehindPart, x
<1> QED BY <1>1, <1>2

\* Joined texts begin with the first of them.
LEMMA JoinedStart ==
    ASSUME NEW T, NEW sep \in T, NEW parts \in Seq(Seq(T)), parts # <<>>
    PROVE  Joined(sep, parts) = parts[1] \o BehindPart(sep, parts, 1)
<1> DEFINE x == JoinPieces(sep, parts)
<1>1. Len(parts) \in Nat /\ Len(parts) # 0
    BY EmptySeq
<1>2. x \in Seq(Seq(T)) /\ Len(x) = Len(parts) /\ Joined(sep, parts) = FlattenSeq(x)
    BY JoinPiecesType
<1>a. x[1] = parts[1]
    <2>1. DOMAIN parts = 1..Len(parts) /\ 1 \in 1..Len(parts)
        BY <1>1, LenProperties
    <2> QED BY <2>1 DEF JoinPieces
<1>3. BehindPart(sep, parts, 1) = From(x, 1)
    BY DEF BehindPart
<1> HIDE DEF x
<1>4. From(x, 0) = x[0 + 1] \o From(x, 0 + 1)
    <2>1. 0 \in 0..Len(x) - 1
        BY <1>1, <1>2
    <2> QED BY <1>2, <2>1, FromNext
<1>5. From(x, 0) = FlattenSeq(x)
    BY <1>2, FromStart
<1>6. 0 + 1 = 1
    OBVIOUS
<1> QED BY Zenon, <1>2, <1>a, <1>3, <1>4, <1>5, <1>6

\* Behind the last of them nothing follows.
LEMMA JoinedEnd ==
    ASSUME NEW T, NEW sep \in T, NEW parts \in Seq(Seq(T))
    PROVE  BehindPart(sep, parts, Len(parts)) = <<>>
<1>1. /\ JoinPieces(sep, parts) \in Seq(Seq(T))
      /\ Len(JoinPieces(sep, parts)) = Len(parts)
    BY JoinPiecesType
<1>2. From(JoinPieces(sep, parts), Len(JoinPieces(sep, parts))) = <<>>
    BY <1>1, FromStart
<1> QED BY <1>1, <1>2 DEF BehindPart

\* Behind another one follows the separator, and then the next.
LEMMA JoinedNext ==
    ASSUME NEW T, NEW sep \in T, NEW parts \in Seq(Seq(T)), NEW k \in 1..Len(parts) - 1
    PROVE  BehindPart(sep, parts, k) = <<sep>> \o (parts[k + 1] \o BehindPart(sep, parts, k + 1))
<1> DEFINE x == JoinPieces(sep, parts)
           l == k + 1
<1>1. Len(parts) \in Nat /\ k \in 0..Len(parts) - 1 /\ l \in 1..Len(parts) /\ l # 1
      /\ l \in 0..Len(parts)
    BY LenProperties
<1>2. x \in Seq(Seq(T)) /\ Len(x) = Len(parts) /\ x[l] = <<sep>> \o parts[l]
    <2> HIDE DEF l
    <2> QED BY <1>1, JoinPiecesType, JoinPiecesAt
<1>3. BehindPart(sep, parts, k) = From(x, k) /\ BehindPart(sep, parts, l) = From(x, l)
    BY DEF BehindPart
<1> HIDE DEF x
<1>4. From(x, k) = x[l] \o From(x, l)
    BY <1>1, <1>2, FromNext
<1> HIDE DEF l
<1>5. <<sep>> \in Seq(T) /\ parts[l] \in Seq(T) /\ From(x, l) \in Seq(T)
    BY <1>1, <1>2, ElementOfSeq, FromType
<1>6. x[l] \o From(x, l) = <<sep>> \o (parts[l] \o From(x, l))
    <2>1. PICK p : p = parts[l]
        OBVIOUS
    <2>2. PICK u : u = x[l]
        OBVIOUS
    <2>3. PICK f : f = From(x, l)
        OBVIOUS
    <2>4. PICK e : e = <<sep>>
        OBVIOUS
    <2>5. e \in Seq(T) /\ p \in Seq(T) /\ f \in Seq(T) /\ u = e \o p
        BY <1>2, <1>5, <2>1, <2>2, <2>3, <2>4
    <2>6. u \o f = e \o (p \o f)
        BY <2>5, Associative
    <2> QED BY <2>1, <2>2, <2>3, <2>4, <2>6
<1> QED BY <1>3, <1>4, <1>6 DEF l

-----------------------------------------------------------------------------
(* What is left of a text.                                                 *)

RestOf(d, p) == SubSeq(d, p, Len(d))

\* The rest of a text from a place on.
LEMMA RestOfType ==
    ASSUME NEW T, NEW d \in Seq(T), NEW p \in 1..Len(d) + 1
    PROVE  /\ RestOf(d, p) \in Seq(T) /\ Len(RestOf(d, p)) = Len(d) + 1 - p
           /\ \A m \in 1..Len(d) + 1 - p : RestOf(d, p)[m] = d[p + m - 1]
<1>1. Len(d) \in Nat /\ p \in Nat /\ p <= Len(d) + 1 /\ 1 <= p
    BY LenProperties
<1>2. \A i \in p..Len(d) : d[i] \in T
    BY <1>1, ElementOfSeq
<1>3. /\ SubSeq(d, p, Len(d)) \in Seq(T)
      /\ Len(SubSeq(d, p, Len(d))) = IF p <= Len(d) THEN Len(d) - p + 1 ELSE 0
      /\ \A i \in 1..Len(d) - p + 1 : SubSeq(d, p, Len(d))[i] = d[p + i - 1]
    BY <1>1, <1>2, SubSeqProperties
<1>4. Len(d) - p + 1 = Len(d) + 1 - p /\ (~(p <= Len(d)) => Len(d) + 1 - p = 0)
    BY <1>1
<1> QED BY <1>3, <1>4 DEF RestOf

\* From the first place on it is the whole text.
LEMMA RestIsAll ==
    ASSUME NEW T, NEW d \in Seq(T)
    PROVE  RestOf(d, 1) = d
BY SubSeqFull DEF RestOf

\* After the first part of the rest there is the second.
LEMMA RestSplit ==
    ASSUME NEW T, NEW d \in Seq(T), NEW p \in 1..Len(d) + 1,
           NEW x \in Seq(T), NEW y \in Seq(T), RestOf(d, p) = x \o y
    PROVE  /\ p + Len(x) \in 1..Len(d) + 1
           /\ RestOf(d, p + Len(x)) = y
           /\ \A m \in 1..Len(x) : d[p + m - 1] = x[m]
<1>1. /\ Len(d) \in Nat /\ p \in Nat /\ p <= Len(d) + 1 /\ 1 <= p
      /\ Len(x) \in Nat /\ Len(y) \in Nat
    BY LenProperties
<1> DEFINE r == RestOf(d, p)
<1>a. Len(r) = Len(d) + 1 - p
    BY RestOfType
<1>b. Len(r) = Len(x) + Len(y)
    BY ConcatProperties
<1>2. r \in Seq(T) /\ \A m \in 1..Len(d) + 1 - p : r[m] = d[p + m - 1]
    BY RestOfType
<1>3. /\ \A i \in 1..Len(x) + Len(y) : r[i] = IF i <= Len(x) THEN x[i] ELSE y[i - Len(x)]
    BY ConcatProperties
<1> HIDE DEF r
<1> DEFINE q == p + Len(x)
<1>4. q \in 1..Len(d) + 1 /\ Len(d) + 1 - q = Len(y)
    BY <1>1, <1>a, <1>b
<1>5. ASSUME NEW m \in 1..Len(x) PROVE d[p + m - 1] = x[m]
    <2>1. m \in 1..Len(x) + Len(y) /\ m \in 1..Len(d) + 1 - p /\ m <= Len(x)
        BY <1>1, <1>a, <1>b
    <2> QED BY <1>2, <1>3, <2>1
<1>6. RestOf(d, q) = y
    <2> DEFINE t == RestOf(d, q)
    <2>1. t \in Seq(T) /\ Len(t) = Len(y) /\ \A m \in 1..Len(y) : t[m] = d[q + m - 1]
        <3> HIDE DEF q
        <3> QED BY <1>4, RestOfType
    <2> HIDE DEF t
    <2>2. ASSUME NEW m \in 1..Len(y) PROVE t[m] = y[m]
        <3> DEFINE n == m + Len(x)
        <3>1. n \in 1..Len(x) + Len(y) /\ n \in 1..Len(d) + 1 - p /\ ~(n <= Len(x))
              /\ n - Len(x) = m /\ q + m - 1 = p + n - 1
            BY <1>1, <1>a, <1>b
        <3> HIDE DEF n, q
        <3>2. r[n] = y[m]
            BY <1>3, <3>1
        <3>3. r[n] = d[p + n - 1]
            BY <1>2, <3>1
        <3>4. t[m] = d[q + m - 1]
            BY <2>1
        <3> QED BY <3>1, <3>2, <3>3, <3>4
    <2>3. t = y
        BY <2>1, <2>2, SeqEqual
    <2> QED BY <2>3 DEF t
<1> QED BY <1>4, <1>5, <1>6

\* Nothing is left exactly behind the last place.
LEMMA RestEnds ==
    ASSUME NEW T, NEW d \in Seq(T), NEW p \in 1..Len(d) + 1
    PROVE  RestOf(d, p) = <<>> <=> p = Len(d) + 1
<1>1. Len(d) \in Nat
    BY LenProperties
<1>2. RestOf(d, p) \in Seq(T) /\ Len(RestOf(d, p)) = Len(d) + 1 - p
    BY RestOfType
<1>3. RestOf(d, p) = <<>> <=> Len(RestOf(d, p)) = 0
    BY <1>2, EmptySeq
<1> QED BY <1>1, <1>2, <1>3

-----------------------------------------------------------------------------
(* The text of a message, piece for piece.                                 *)

\* The elements as the parser reads them: no text is empty.
Readable ==
    {e \in Elements : \/ e = Empty
                      \/ e.kind = "Text" /\ e.value # <<>>
                      \/ e.kind = "Binary" /\ Len(e.value) <= MaxNumeral}

EscapePieces(s) ==
    [i \in DOMAIN s |-> IF s[i] \in Special THEN <<"?", s[i]>> ELSE <<s[i]>>]
Pieces(e) ==
    CASE e.kind = "Empty"  -> <<>>
      [] e.kind = "Text"   -> EscapePieces(e.value)
      [] e.kind = "Binary" -> <<SerializeBinary(e.value)>>

\* The separators are symbols.
LEMMA SpecialType == Special \subseteq STRING /\ "?" \in STRING /\ "@" \in STRING
    /\ ":" \in STRING /\ "+" \in STRING /\ "'" \in STRING
BY SymbolAssumption DEF Special

\* One symbol, or two, are a text.
LEMMA ShortType ==
    ASSUME NEW T, NEW x \in T, NEW y \in T
    PROVE  <<x>> \in Seq(T) /\ <<x, y>> \in Seq(T)
OBVIOUS

\* Every symbol of a text is written as one piece.
LEMMA EscapePiecesType ==
    ASSUME NEW s \in Seq(STRING)
    PROVE  /\ EscapePieces(s) \in Seq(Seq(STRING))
           /\ Len(EscapePieces(s)) = Len(s)
<1>1. Len(s) \in Nat /\ DOMAIN s = 1..Len(s)
    BY LenProperties
<1> DEFINE X(i) == IF s[i] \in Special THEN <<"?", s[i]>> ELSE <<s[i]>>
           x == [i \in 1..Len(s) |-> X(i)]
<1>2. EscapePieces(s) = x
    BY <1>1 DEF EscapePieces
<1>3. \A i \in 1..Len(s) : X(i) \in Seq(STRING)
    <2> TAKE i \in 1..Len(s)
    <2>1. s[i] \in STRING /\ "?" \in STRING
        BY ElementOfSeq, SpecialType
    <2>2. <<s[i]>> \in Seq(STRING) /\ <<"?", s[i]>> \in Seq(STRING)
        <3>1. PICK t : t = s[i]
            OBVIOUS
        <3>2. <<t>> \in Seq(STRING) /\ <<"?", t>> \in Seq(STRING)
            BY <2>1, <3>1, ShortType
        <3> QED BY <3>1, <3>2
    <2> QED BY <2>2
<1>4. x \in Seq(Seq(STRING)) /\ Len(x) = Len(s)
    <2> HIDE DEF X
    <2> QED BY <1>1, <1>3
<1> HIDE DEF x
<1> QED BY <1>2, <1>4

\* A separator in a text is written behind "?", anything else as it is.
LEMMA EscapePiecesAt ==
    ASSUME NEW s \in Seq(STRING), NEW i \in 1..Len(s)
    PROVE  /\ s[i] \in Special => EscapePieces(s)[i] = <<"?", s[i]>>
           /\ s[i] \notin Special => EscapePieces(s)[i] = <<s[i]>>
BY LenProperties DEF EscapePieces

\* A number is written without a separator.
LEMMA NumeralType ==
    ASSUME NEW n \in 0..MaxNumeral
    PROVE  ToString(n) \in STRING /\ ToString(n) \notin Special
BY NumeralAssumption

\* A binary is written behind its length between two "@".
LEMMA BinaryTextType ==
    ASSUME NEW b \in Seq(STRING), Len(b) <= MaxNumeral
    PROVE  /\ SerializeBinary(b) \in Seq(STRING)
           /\ Len(SerializeBinary(b)) = Len(b) + 3
           /\ SerializeBinary(b)[1] = "@"
           /\ SerializeBinary(b)[2] = ToString(Len(b))
           /\ SerializeBinary(b)[3] = "@"
           /\ \A i \in 1..Len(b) : SerializeBinary(b)[i + 3] = b[i]
<1>1. Len(b) \in Nat /\ Len(b) \in 0..MaxNumeral
    BY LenProperties, NumeralAssumption
<1> DEFINE n == ToString(Len(b))
           h == <<"@", n, "@">>
           x == h \o b
<1>2. n \in STRING
    BY <1>1, NumeralType
<1> HIDE DEF n
<1>2a. "@" \in STRING
    BY SpecialType
<1>3. h \in Seq(STRING) /\ Len(h) = 3 /\ h[1] = "@" /\ h[2] = n /\ h[3] = "@"
    BY <1>2, <1>2a
<1> HIDE DEF h
<1>4. /\ x \in Seq(STRING) /\ Len(x) = 3 + Len(b)
      /\ \A i \in 1..3 + Len(b) : x[i] = IF i <= 3 THEN h[i] ELSE b[i - 3]
    <2>1. /\ x \in Seq(STRING) /\ Len(x) = Len(h) + Len(b)
          /\ \A i \in 1..Len(h) + Len(b) : x[i] = IF i <= Len(h) THEN h[i] ELSE b[i - Len(h)]
        BY <1>3, ConcatProperties
    <2>2. Len(h) = 3
        BY <1>3
    <2> HIDE DEF x
    <2> QED BY <2>1, <2>2
<1> HIDE DEF x
<1>5. x[1] = h[1] /\ x[2] = h[2] /\ x[3] = h[3]
    BY <1>1, <1>4
<1>6. ASSUME NEW i \in 1..Len(b) PROVE x[i + 3] = b[i]
    BY <1>1, <1>4
<1>7. SerializeBinary(b) = x
    BY DEF SerializeBinary, x, h, n
<1>8. x[1] = "@" /\ x[2] = ToString(Len(b)) /\ x[3] = "@"
    BY <1>3, <1>5 DEF n
<1>9. Len(x) = Len(b) + 3
    BY <1>1, <1>4
<1> QED BY <1>4, <1>6, <1>7, <1>8, <1>9

\* One piece is the whole.
LEMMA FlattenOne ==
    ASSUME NEW T, NEW x \in Seq(T)
    PROVE  FlattenSeq(<<x>>) = x
<1> DEFINE s == <<x>>
<1>1. s \in Seq(Seq(T)) /\ Len(s) = 1 /\ s[1] = x
    OBVIOUS
<1> HIDE DEF s
<1>2. 0 \in 0..Len(s) - 1 /\ 0 + 1 = 1
    BY <1>1
<1>3. From(s, 0) = s[0 + 1] \o From(s, 0 + 1)
    BY <1>1, <1>2, FromNext
<1>4. From(s, 0) = FlattenSeq(s) /\ From(s, 1) = <<>>
    BY <1>1, FromStart
<1>5. x \o <<>> = x
    BY ConcatEmptySeq
<1> QED BY Zenon, <1>1, <1>2, <1>3, <1>4, <1>5 DEF s

\* The kinds of elements.
LEMMA ReadableCases ==
    ASSUME NEW e \in Readable
    PROVE  /\ e.kind \in {"Empty", "Text", "Binary"} /\ e.value \in Seq(STRING)
           /\ e.kind = "Empty" => e.value = <<>> /\ e = Empty
           /\ e.kind = "Text" => e.value # <<>>
           /\ e.kind = "Binary" => Len(e.value) <= MaxNumeral
BY DEF Readable, Elements, Empty

\* An element is written as its pieces.
LEMMA PiecesType ==
    ASSUME NEW e \in Readable
    PROVE  /\ Pieces(e) \in Seq(Seq(STRING))
           /\ SerializeDe(e) = FlattenSeq(Pieces(e))
           /\ SerializeDe(e) \in Seq(STRING)
           /\ e.kind = "Empty" => Pieces(e) = <<>>
           /\ e.kind = "Text" => Len(Pieces(e)) = Len(e.value)
           /\ e.kind = "Binary" => Len(Pieces(e)) = 1 /\ Pieces(e)[1] = SerializeBinary(e.value)
<1>0. /\ e.kind \in {"Empty", "Text", "Binary"} /\ e.value \in Seq(STRING)
      /\ e.kind = "Binary" => Len(e.value) <= MaxNumeral
    BY ReadableCases
<1>1. CASE e.kind = "Empty"
    <2>1. Pieces(e) = <<>> /\ SerializeDe(e) = <<>>
        BY <1>1 DEF Pieces, SerializeDe
    <2>2. <<>> \in Seq(Seq(STRING)) /\ <<>> \in Seq(STRING)
        BY EmptySeq
    <2> QED BY <1>1, <2>1, <2>2, FlattenEmpty
<1>2. CASE e.kind = "Text"
    <2>1. Pieces(e) = EscapePieces(e.value) /\ SerializeDe(e) = EscapeText(e.value)
        BY <1>2 DEF Pieces, SerializeDe
    <2>2. EscapeText(e.value) = FlattenSeq(EscapePieces(e.value))
        BY DEF EscapeText, EscapePieces
    <2>3. EscapePieces(e.value) \in Seq(Seq(STRING)) /\ Len(EscapePieces(e.value)) = Len(e.value)
        BY <1>0, EscapePiecesType
    <2>4. FlattenSeq(EscapePieces(e.value)) \in Seq(STRING)
        BY <2>3, FlattenType
    <2> QED BY <1>2, <2>1, <2>2, <2>3, <2>4
<1>3. CASE e.kind = "Binary"
    <2>1. Pieces(e) = <<SerializeBinary(e.value)>> /\ SerializeDe(e) = SerializeBinary(e.value)
        BY <1>3 DEF Pieces, SerializeDe
    <2> DEFINE x == SerializeBinary(e.value)
    <2>2. x \in Seq(STRING)
        BY <1>0, <1>3, BinaryTextType
    <2> HIDE DEF x
    <2>3. FlattenSeq(<<x>>) = x
        BY <2>2, FlattenOne
    <2>4. <<x>> \in Seq(Seq(STRING)) /\ Len(<<x>>) = 1 /\ <<x>>[1] = x
        BY <2>2
    <2> QED BY <1>3, <2>1, <2>2, <2>3, <2>4 DEF x
<1> QED BY <1>0, <1>1, <1>2, <1>3

-----------------------------------------------------------------------------
(* What follows a place in a message.                                      *)

ElementTexts(g) == [k \in DOMAIN g |-> SerializeDe(g[k])]
GroupTexts(seg) == [j \in DOMAIN seg |-> Joined(":", ElementTexts(seg[j]))]
SegmentText(seg) == Append(Joined("+", GroupTexts(seg)), "'")
SegmentTexts(r) == [i \in DOMAIN r |-> SegmentText(r[i])]

\* A message as it is read; a segment does not begin with a blank.
BeginsBlank(seg) == seg[1][1].kind # "Text" \/ seg[1][1].value[1] = Blank
Messages ==
    {r \in Seq(Seq(Seq(Readable))) : \A i \in 1..Len(r) : HasNoHole(r[i]) /\ ~BeginsBlank(r[i])}

BehindSegment(r, i) == From(SegmentTexts(r), i)
BehindGroup(r, i, j) ==
    BehindPart("+", GroupTexts(r[i]), j) \o (<<"'">> \o BehindSegment(r, i))
BehindElement(r, i, j, k) ==
    BehindPart(":", ElementTexts(r[i][j]), k) \o BehindGroup(r, i, j)
BehindPiece(r, i, j, k, c) == From(Pieces(r[i][j][k]), c) \o BehindElement(r, i, j, k)

\* The texts of the elements of a group.
LEMMA ElementTextsType ==
    ASSUME NEW g \in Seq(Readable)
    PROVE  ElementTexts(g) \in Seq(Seq(STRING)) /\ Len(ElementTexts(g)) = Len(g)
           /\ \A k \in 1..Len(g) : ElementTexts(g)[k] = SerializeDe(g[k])
<1>1. Len(g) \in Nat /\ DOMAIN g = 1..Len(g)
    BY LenProperties
<1>2. \A k \in 1..Len(g) : SerializeDe(g[k]) \in Seq(STRING)
    BY ElementOfSeq, PiecesType
<1> QED BY <1>1, <1>2 DEF ElementTexts

\* The texts of the groups of a segment.
LEMMA GroupTextsType ==
    ASSUME NEW seg \in Seq(Seq(Readable))
    PROVE  GroupTexts(seg) \in Seq(Seq(STRING)) /\ Len(GroupTexts(seg)) = Len(seg)
           /\ \A j \in 1..Len(seg) : GroupTexts(seg)[j] = Joined(":", ElementTexts(seg[j]))
<1>1. Len(seg) \in Nat /\ DOMAIN seg = 1..Len(seg)
    BY LenProperties
<1>2. ASSUME NEW j \in 1..Len(seg)
      PROVE  Joined(":", ElementTexts(seg[j])) \in Seq(STRING)
    <2>1. ElementTexts(seg[j]) \in Seq(Seq(STRING))
        BY ElementOfSeq, ElementTextsType
    <2> QED BY <2>1, JoinedType, SpecialType
<1> QED BY <1>1, <1>2 DEF GroupTexts

\* The texts of the segments of a message.
LEMMA SegmentTextsType ==
    ASSUME NEW r \in Seq(Seq(Seq(Readable)))
    PROVE  SegmentTexts(r) \in Seq(Seq(STRING)) /\ Len(SegmentTexts(r)) = Len(r)
           /\ \A i \in 1..Len(r) : SegmentTexts(r)[i] = SegmentText(r[i])
<1>1. Len(r) \in Nat /\ DOMAIN r = 1..Len(r)
    BY LenProperties
<1>2. ASSUME NEW i \in 1..Len(r)
      PROVE  SegmentText(r[i]) \in Seq(STRING)
    <2>1. GroupTexts(r[i]) \in Seq(Seq(STRING))
        BY ElementOfSeq, GroupTextsType
    <2>2. Joined("+", GroupTexts(r[i])) \in Seq(STRING) /\ "'" \in STRING
        BY <2>1, JoinedType, SpecialType
    <2> QED BY <2>2, AppendProperties DEF SegmentText
<1> QED BY <1>1, <1>2 DEF SegmentTexts

\* Named for the provers, which lose themselves in nested concatenations.
PartFollows(sep, parts, k, z) ==
    BehindPart(sep, parts, k) \o z
        = <<sep>> \o (parts[k + 1] \o (BehindPart(sep, parts, k + 1) \o z))
PartBegins(sep, parts, z) ==
    Joined(sep, parts) \o z = parts[1] \o (BehindPart(sep, parts, 1) \o z)

\* Behind a part that is not the last follows the separator and the next part.
LEMMA AfterPart ==
    ASSUME NEW T, NEW sep \in T, NEW parts \in Seq(Seq(T)), NEW k \in 1..Len(parts) - 1,
           NEW z \in Seq(T)
    PROVE  PartFollows(sep, parts, k, z)
<1> DEFINE l == k + 1
<1>1. l \in 1..Len(parts) /\ l \in 0..Len(parts)
    BY LenProperties
<1>2. BehindPart(sep, parts, k) = <<sep>> \o (parts[l] \o BehindPart(sep, parts, l))
    BY JoinedNext
<1> HIDE DEF l
<1>3. PICK b : b = BehindPart(sep, parts, l)
    OBVIOUS
<1>4. PICK p : p = parts[l]
    OBVIOUS
<1>5. PICK e : e = <<sep>>
    OBVIOUS
<1>6. PICK a : a = BehindPart(sep, parts, k)
    OBVIOUS
<1>7. PICK q : q = p \o b
    OBVIOUS
<1>8. b \in Seq(T) /\ p \in Seq(T) /\ e \in Seq(T)
    BY <1>1, <1>3, <1>4, <1>5, JoinedType, ElementOfSeq
<1>9. q \in Seq(T)
    BY <1>7, <1>8, ConcatProperties
<1>10. a = e \o q
    BY Zenon, <1>2, <1>3, <1>4, <1>5, <1>6, <1>7
<1>11. a \o z = e \o (q \o z)
    <2>1. e \in Seq(T) /\ q \in Seq(T) /\ a = e \o q
        BY <1>8, <1>9, <1>10
    <2> QED BY SMTT(30), <2>1, Associative
<1>12. q \o z = p \o (b \o z)
    <2>1. p \in Seq(T) /\ b \in Seq(T) /\ q = p \o b
        BY <1>7, <1>8
    <2> QED BY SMTT(30), <2>1, Associative
<1> QED BY Zenon, <1>3, <1>4, <1>5, <1>6, <1>11, <1>12 DEF l, PartFollows

\* Joined parts begin with the first one.
LEMMA FirstPart ==
    ASSUME NEW T, NEW sep \in T, NEW parts \in Seq(Seq(T)), parts # <<>>, NEW z \in Seq(T)
    PROVE  PartBegins(sep, parts, z)
<1>1. Joined(sep, parts) = parts[1] \o BehindPart(sep, parts, 1)
    BY JoinedStart
<1>2. 1 \in 1..Len(parts) /\ 1 \in 0..Len(parts)
    BY EmptySeq, LenProperties
<1>3. PICK b : b = BehindPart(sep, parts, 1)
    OBVIOUS
<1>4. PICK p : p = parts[1]
    OBVIOUS
<1>5. PICK a : a = Joined(sep, parts)
    OBVIOUS
<1>6. b \in Seq(T) /\ p \in Seq(T) /\ a = p \o b
    BY <1>1, <1>2, <1>3, <1>4, <1>5, JoinedType, ElementOfSeq
<1>7. a \o z = p \o (b \o z)
    BY <1>6, Associative
<1> QED BY Zenon, <1>3, <1>4, <1>5, <1>7 DEF PartBegins

-----------------------------------------------------------------------------

IsPlace(r, i, j, k) == i \in 1..Len(r) /\ j \in 1..Len(r[i]) /\ k \in 1..Len(r[i][j])

\* A segment of a message has a group, and each group an element.
LEMMA MessageAt ==
    ASSUME NEW r \in Messages, NEW i \in 1..Len(r)
    PROVE  /\ r[i] \in Seq(Seq(Readable)) /\ Len(r[i]) \in Nat /\ 1 \in 1..Len(r[i])
           /\ \A j \in 1..Len(r[i]) :
                 r[i][j] \in Seq(Readable) /\ Len(r[i][j]) \in Nat /\ 1 \in 1..Len(r[i][j])
           /\ ~BeginsBlank(r[i])
<1>1. r[i] \in Seq(Seq(Readable)) /\ HasNoHole(r[i]) /\ ~BeginsBlank(r[i])
    BY ElementOfSeq DEF Messages
<1> DEFINE seg == r[i]
<1> HIDE DEF seg
<1>2. /\ seg \in Seq(Seq(Readable)) /\ HasNoHole(seg)
    BY <1>1 DEF seg
<1>3. Len(seg) \in Nat /\ 1 \in 1..Len(seg)
    BY <1>2, EmptySeq, LenProperties DEF HasNoHole
<1>4. ASSUME NEW j \in 1..Len(seg)
      PROVE  seg[j] \in Seq(Readable) /\ Len(seg[j]) \in Nat /\ 1 \in 1..Len(seg[j])
    <2>1. seg[j] \in Seq(Readable)
        BY <1>2, ElementOfSeq
    <2>2. seg[j] # <<>>
        BY <1>2, LenProperties DEF HasNoHole
    <2> QED BY <2>1, <2>2, EmptySeq, LenProperties
<1> QED BY <1>1, <1>3, <1>4 DEF seg

\* The types of what is at a place.
LEMMA PlaceType ==
    ASSUME NEW r \in Messages, NEW i, NEW j, NEW k, IsPlace(r, i, j, k)
    PROVE  /\ i \in 1..Len(r) /\ j \in 1..Len(r[i]) /\ k \in 1..Len(r[i][j])
           /\ Len(r) \in Nat /\ Len(r[i]) \in Nat /\ Len(r[i][j]) \in Nat
           /\ i \in Nat /\ j \in Nat /\ k \in Nat
           /\ r[i] \in Seq(Seq(Readable)) /\ r[i][j] \in Seq(Readable)
           /\ r[i][j][k] \in Readable
<1>1. i \in 1..Len(r) /\ j \in 1..Len(r[i]) /\ k \in 1..Len(r[i][j]) /\ Len(r) \in Nat
    BY LenProperties DEF IsPlace, Messages
<1>2. r[i] \in Seq(Seq(Readable)) /\ r[i][j] \in Seq(Readable)
      /\ Len(r[i]) \in Nat /\ Len(r[i][j]) \in Nat
    BY <1>1, MessageAt
<1>3. r[i][j][k] \in Readable
    BY <1>1, <1>2, ElementOfSeq
<1> QED BY <1>1, <1>2, <1>3

\* Types of what is behind.
LEMMA BehindSegmentType ==
    ASSUME NEW r \in Messages, NEW i \in 0..Len(r)
    PROVE  BehindSegment(r, i) \in Seq(STRING)
<1>1. r \in Seq(Seq(Seq(Readable)))
    BY DEF Messages
<1>2. SegmentTexts(r) \in Seq(Seq(STRING)) /\ Len(SegmentTexts(r)) = Len(r)
    BY <1>1, SegmentTextsType
<1> QED BY <1>2, FromType DEF BehindSegment

\* The end of a segment, and what is behind it, is a text.
LEMMA EndAndRest ==
    ASSUME NEW r \in Messages, NEW i \in 1..Len(r)
    PROVE  <<"'">> \o BehindSegment(r, i) \in Seq(STRING)
<1>1. i \in 0..Len(r)
    BY LenProperties DEF Messages
<1>2. <<"'">> \in Seq(STRING)
    BY SpecialType
<1> QED BY <1>1, <1>2, BehindSegmentType, ConcatProperties

\* What is behind a group is a text ...
LEMMA BehindGroupType ==
    ASSUME NEW r \in Messages, NEW i \in 1..Len(r), NEW j \in 1..Len(r[i])
    PROVE  BehindGroup(r, i, j) \in Seq(STRING)
<1>1. GroupTexts(r[i]) \in Seq(Seq(STRING)) /\ Len(GroupTexts(r[i])) = Len(r[i])
    BY MessageAt, GroupTextsType
<1>2. j \in 0..Len(GroupTexts(r[i]))
    BY <1>1, LenProperties
<1>3. BehindPart("+", GroupTexts(r[i]), j) \in Seq(STRING)
    BY <1>1, <1>2, JoinedType, SpecialType
<1> QED BY <1>3, EndAndRest, ConcatProperties DEF BehindGroup

\* ... as is what is behind an element ...
LEMMA BehindElementType ==
    ASSUME NEW r \in Messages, NEW i, NEW j, NEW k, IsPlace(r, i, j, k)
    PROVE  BehindElement(r, i, j, k) \in Seq(STRING)
<1>1. i \in 1..Len(r) /\ j \in 1..Len(r[i]) /\ k \in 1..Len(r[i][j])
      /\ r[i][j] \in Seq(Readable)
    BY PlaceType
<1>2. ElementTexts(r[i][j]) \in Seq(Seq(STRING)) /\ Len(ElementTexts(r[i][j])) = Len(r[i][j])
    BY <1>1, ElementTextsType
<1>3. k \in 0..Len(ElementTexts(r[i][j]))
    BY <1>1, <1>2, LenProperties
<1>4. BehindPart(":", ElementTexts(r[i][j]), k) \in Seq(STRING)
    BY <1>2, <1>3, JoinedType, SpecialType
<1> QED BY <1>1, <1>4, BehindGroupType, ConcatProperties DEF BehindElement

\* ... and behind a piece of one.
LEMMA BehindPieceType ==
    ASSUME NEW r \in Messages, NEW i, NEW j, NEW k, IsPlace(r, i, j, k),
           NEW c \in 0..Len(Pieces(r[i][j][k]))
    PROVE  BehindPiece(r, i, j, k, c) \in Seq(STRING)
<1>1. Pieces(r[i][j][k]) \in Seq(Seq(STRING))
    BY PlaceType, PiecesType
<1>2. From(Pieces(r[i][j][k]), c) \in Seq(STRING)
    BY <1>1, FromType
<1> QED BY <1>2, BehindElementType, ConcatProperties DEF BehindPiece

-----------------------------------------------------------------------------

\* Inside an element the next piece follows.
LEMMA InsideElement ==
    ASSUME NEW r \in Messages, NEW i, NEW j, NEW k, IsPlace(r, i, j, k),
           NEW c \in 0..Len(Pieces(r[i][j][k])) - 1
    PROVE  /\ Pieces(r[i][j][k])[c + 1] \in Seq(STRING)
           /\ BehindPiece(r, i, j, k, c + 1) \in Seq(STRING)
           /\ BehindPiece(r, i, j, k, c)
                 = Pieces(r[i][j][k])[c + 1] \o BehindPiece(r, i, j, k, c + 1)
<1> DEFINE s == Pieces(r[i][j][k])
           z == BehindElement(r, i, j, k)
           l == c + 1
<1>1. s \in Seq(Seq(STRING)) /\ z \in Seq(STRING)
    BY PlaceType, PiecesType, BehindElementType
<1>2. BehindPiece(r, i, j, k, c) = From(s, c) \o z
      /\ BehindPiece(r, i, j, k, l) = From(s, l) \o z
    BY DEF BehindPiece
<1>3. c \in 0..Len(s) - 1
    OBVIOUS
<1> HIDE DEF s, z
<1>4. l \in 1..Len(s) /\ l \in 0..Len(s)
    BY <1>1, <1>3, LenProperties
<1>5. From(s, c) = s[l] \o From(s, l)
    BY <1>1, <1>3, FromNext
<1> HIDE DEF l
<1>6. PICK p : p = s[l]
    OBVIOUS
<1>7. PICK f : f = From(s, l)
    OBVIOUS
<1>8. PICK a : a = From(s, c)
    OBVIOUS
<1>9. p \in Seq(STRING) /\ f \in Seq(STRING) /\ a = p \o f
    BY <1>1, <1>4, <1>5, <1>6, <1>7, <1>8, ElementOfSeq, FromType
<1>10. a \o z = p \o (f \o z) /\ f \o z \in Seq(STRING)
    BY <1>1, <1>9, Associative, ConcatProperties
<1> QED BY Zenon, <1>2, <1>6, <1>7, <1>8, <1>9, <1>10 DEF s, l

\* Behind the pieces of an element is what is behind it.
LEMMA ElementIsBehind ==
    ASSUME NEW r \in Messages, NEW i, NEW j, NEW k, IsPlace(r, i, j, k)
    PROVE  /\ BehindPiece(r, i, j, k, Len(Pieces(r[i][j][k]))) = BehindElement(r, i, j, k)
           /\ BehindPiece(r, i, j, k, 0)
                 = ElementTexts(r[i][j])[k] \o BehindElement(r, i, j, k)
           /\ 0 \in 0..Len(Pieces(r[i][j][k]))
<1> DEFINE e == r[i][j][k]
           z == BehindElement(r, i, j, k)
<1>1. e \in Readable /\ r[i][j] \in Seq(Readable) /\ k \in 1..Len(r[i][j])
    BY PlaceType
<1>2. Pieces(e) \in Seq(Seq(STRING)) /\ SerializeDe(e) = FlattenSeq(Pieces(e))
    <2> HIDE DEF e
    <2> QED BY <1>1, PiecesType
<1>3. ElementTexts(r[i][j])[k] = SerializeDe(e)
    BY <1>1, ElementTextsType
<1>4. /\ BehindPiece(r, i, j, k, Len(Pieces(e))) = From(Pieces(e), Len(Pieces(e))) \o z
      /\ BehindPiece(r, i, j, k, 0) = From(Pieces(e), 0) \o z
    BY DEF BehindPiece
<1>5. z \in Seq(STRING)
    BY BehindElementType
<1> HIDE DEF z, e
<1>6. From(Pieces(e), Len(Pieces(e))) = <<>> /\ From(Pieces(e), 0) = FlattenSeq(Pieces(e))
    BY <1>2, FromStart
<1>7. <<>> \o z = z
    BY <1>5, ConcatEmptySeq
<1>8. 0 \in 0..Len(Pieces(e))
    BY <1>2, LenProperties
<1> QED BY Zenon, <1>2, <1>3, <1>4, <1>6, <1>7, <1>8 DEF e, z

\* Behind an element that is not the last follows ":" and the next one.
LEMMA NextElement ==
    ASSUME NEW r \in Messages, NEW i, NEW j, NEW k, IsPlace(r, i, j, k), k < Len(r[i][j])
    PROVE  /\ IsPlace(r, i, j, k + 1)
           /\ BehindElement(r, i, j, k) = <<":">> \o BehindPiece(r, i, j, k + 1, 0)
<1> DEFINE g == r[i][j]
           t == ElementTexts(g)
           z == BehindGroup(r, i, j)
           l == k + 1
<1>1. i \in 1..Len(r) /\ j \in 1..Len(r[i]) /\ k \in 1..Len(g) /\ g \in Seq(Readable)
      /\ Len(g) \in Nat /\ k < Len(g)
    BY PlaceType
<1>2. z \in Seq(STRING)
    BY <1>1, BehindGroupType
<1>3. BehindElement(r, i, j, k) = BehindPart(":", t, k) \o z
      /\ BehindElement(r, i, j, l) = BehindPart(":", t, l) \o z
    BY DEF BehindElement
<1>4. IsPlace(r, i, j, l)
    BY <1>1 DEF IsPlace
<1>5. BehindPiece(r, i, j, l, 0) = t[l] \o BehindElement(r, i, j, l)
    <2> HIDE DEF l
    <2> QED BY <1>4, ElementIsBehind
<1>6. t \in Seq(Seq(STRING)) /\ Len(t) = Len(g)
    <2> HIDE DEF g
    <2> QED BY <1>1, ElementTextsType
<1> HIDE DEF g, t, z
<1>7. k \in 1..Len(t) - 1
    BY <1>1, <1>6
<1>8. BehindPart(":", t, k) \o z = <<":">> \o (t[l] \o (BehindPart(":", t, l) \o z))
    <2>1. PICK sep : sep = ":"
        OBVIOUS
    <2>2. sep \in STRING
        BY <2>1, SpecialType
    <2>3. PartFollows(sep, t, k, z)
        BY <1>2, <1>6, <1>7, <2>2, AfterPart
    <2> QED BY Zenon, <2>1, <2>3 DEF l, PartFollows
<1> HIDE DEF l
<1>9. IsPlace(r, i, j, l) /\ BehindElement(r, i, j, k) = <<":">> \o BehindPiece(r, i, j, l, 0)
    BY Zenon, <1>3, <1>4, <1>5, <1>8
<1> QED BY <1>9 DEF l

\* A group begins with its first element.
LEMMA GroupBegins ==
    ASSUME NEW r \in Messages, NEW i \in 1..Len(r), NEW j \in 1..Len(r[i])
    PROVE  /\ IsPlace(r, i, j, 1)
           /\ GroupTexts(r[i])[j] \o BehindGroup(r, i, j) = BehindPiece(r, i, j, 1, 0)
<1> DEFINE g == r[i][j]
           t == ElementTexts(g)
           z == BehindGroup(r, i, j)
<1>1. g \in Seq(Readable) /\ Len(g) \in Nat /\ 1 \in 1..Len(g) /\ r[i] \in Seq(Seq(Readable))
    BY MessageAt
<1>2. z \in Seq(STRING) /\ IsPlace(r, i, j, 1)
    BY <1>1, BehindGroupType DEF IsPlace
<1>3. BehindPiece(r, i, j, 1, 0) = t[1] \o BehindElement(r, i, j, 1)
    BY <1>2, ElementIsBehind
<1>4. BehindElement(r, i, j, 1) = BehindPart(":", t, 1) \o z
    BY DEF BehindElement
<1>5. GroupTexts(r[i])[j] = Joined(":", t)
    BY <1>1, GroupTextsType
<1> HIDE DEF g
<1>6. t \in Seq(Seq(STRING)) /\ Len(t) = Len(g)
    BY <1>1, ElementTextsType
<1> HIDE DEF t, z
<1>7. t # <<>>
    BY <1>1, <1>6, EmptySeq
<1>8. Joined(":", t) \o z = t[1] \o (BehindPart(":", t, 1) \o z)
    <2>1. PICK sep : sep = ":"
        OBVIOUS
    <2>2. sep \in STRING
        BY <2>1, SpecialType
    <2>3. PartBegins(sep, t, z)
        BY <1>2, <1>6, <1>7, <2>2, FirstPart
    <2> QED BY Zenon, <2>1, <2>3 DEF PartBegins
<1>9. Joined(":", t) \o z = BehindPiece(r, i, j, 1, 0)
    BY Zenon, <1>3, <1>4, <1>8
<1> QED BY Zenon, <1>2, <1>5, <1>9 DEF z

\* Behind the last element of a group follows "+" and the next group.
LEMMA NextGroup ==
    ASSUME NEW r \in Messages, NEW i, NEW j, NEW k, IsPlace(r, i, j, k), k = Len(r[i][j]),
           j < Len(r[i])
    PROVE  /\ IsPlace(r, i, j + 1, 1)
           /\ BehindElement(r, i, j, k) = <<"+">> \o BehindPiece(r, i, j + 1, 1, 0)
<1> DEFINE t == GroupTexts(r[i])
           z == <<"'">> \o BehindSegment(r, i)
           l == j + 1
<1>1. i \in 1..Len(r) /\ j \in 1..Len(r[i]) /\ r[i] \in Seq(Seq(Readable))
      /\ Len(r[i]) \in Nat /\ l \in 1..Len(r[i])
    BY PlaceType
<1>2. BehindElement(r, i, j, k) = BehindGroup(r, i, j)
    <2>1. r[i][j] \in Seq(Readable)
        BY PlaceType
    <2>2. BehindPart(":", ElementTexts(r[i][j]), k) = <<>>
        BY <2>1, ElementTextsType, JoinedEnd, SpecialType
    <2>3. BehindGroup(r, i, j) \in Seq(STRING)
        BY <1>1, BehindGroupType
    <2>4. <<>> \o BehindGroup(r, i, j) = BehindGroup(r, i, j)
        BY <2>3, ConcatEmptySeq
    <2> QED BY Zenon, <2>2, <2>4 DEF BehindElement
<1>3. z \in Seq(STRING)
    BY <1>1, EndAndRest
<1>4. t \in Seq(Seq(STRING)) /\ Len(t) = Len(r[i])
    BY <1>1, GroupTextsType
<1>5. BehindGroup(r, i, j) = BehindPart("+", t, j) \o z
      /\ BehindGroup(r, i, l) = BehindPart("+", t, l) \o z
    BY DEF BehindGroup
<1>6. IsPlace(r, i, l, 1) /\ t[l] \o BehindGroup(r, i, l) = BehindPiece(r, i, l, 1, 0)
    <2> HIDE DEF l
    <2> QED BY <1>1, GroupBegins
<1> HIDE DEF t, z
<1>7. j \in 1..Len(t) - 1
    BY <1>1, <1>4
<1>8. BehindPart("+", t, j) \o z = <<"+">> \o (t[l] \o (BehindPart("+", t, l) \o z))
    <2>1. PICK sep : sep = "+"
        OBVIOUS
    <2>2. sep \in STRING
        BY <2>1, SpecialType
    <2>3. PartFollows(sep, t, j, z)
        BY <1>3, <1>4, <1>7, <2>2, AfterPart
    <2> QED BY Zenon, <2>1, <2>3 DEF l, PartFollows
<1> HIDE DEF l
<1>9. IsPlace(r, i, l, 1) /\ BehindElement(r, i, j, k) = <<"+">> \o BehindPiece(r, i, l, 1, 0)
    BY Zenon, <1>2, <1>5, <1>6, <1>8
<1> QED BY <1>9 DEF l

\* Behind the last element of a segment follows its end.
LEMMA SegmentEnds ==
    ASSUME NEW r \in Messages, NEW i, NEW j, NEW k, IsPlace(r, i, j, k), k = Len(r[i][j]),
           j = Len(r[i])
    PROVE  BehindElement(r, i, j, k) = <<"'">> \o BehindSegment(r, i)
<1> DEFINE z == <<"'">> \o BehindSegment(r, i)
<1>1. i \in 1..Len(r) /\ j \in 1..Len(r[i]) /\ r[i] \in Seq(Seq(Readable))
      /\ r[i][j] \in Seq(Readable)
    BY PlaceType
<1>2. BehindPart(":", ElementTexts(r[i][j]), k) = <<>>
    BY <1>1, ElementTextsType, JoinedEnd, SpecialType
<1>3. BehindPart("+", GroupTexts(r[i]), j) = <<>>
    BY <1>1, GroupTextsType, JoinedEnd, SpecialType
<1>4. z \in Seq(STRING)
    BY <1>1, EndAndRest
<1>5. BehindElement(r, i, j, k) = <<>> \o (<<>> \o z)
    BY Zenon, <1>2, <1>3 DEF BehindElement, BehindGroup
<1> HIDE DEF z
<1>6. <<>> \o z = z
    BY <1>4, ConcatEmptySeq
<1> QED BY Zenon, <1>5, <1>6 DEF z

\* Behind a segment follows the first element of the next one.
LEMMA NextSegment ==
    ASSUME NEW r \in Messages, NEW i \in 0..Len(r) - 1
    PROVE  /\ IsPlace(r, i + 1, 1, 1)
           /\ BehindSegment(r, i) = BehindPiece(r, i + 1, 1, 1, 0)
<1> DEFINE l == i + 1
           t == GroupTexts(r[l])
           z == BehindSegment(r, l)
           e == <<"'">>
<1>1. l \in 1..Len(r) /\ l \in 0..Len(r) /\ r \in Seq(Seq(Seq(Readable)))
    BY LenProperties DEF Messages
<1>2. /\ SegmentTexts(r) \in Seq(Seq(STRING)) /\ Len(SegmentTexts(r)) = Len(r)
      /\ SegmentTexts(r)[l] = SegmentText(r[l])
    <2> HIDE DEF l
    <2> QED BY <1>1, SegmentTextsType
<1>3. BehindSegment(r, i) = SegmentText(r[l]) \o z
    <2>1. From(SegmentTexts(r), i) = SegmentTexts(r)[l] \o From(SegmentTexts(r), l)
        BY <1>2, FromNext
    <2> QED BY Zenon, <1>2, <2>1 DEF BehindSegment
<1> HIDE DEF l
<1>4. r[l] \in Seq(Seq(Readable)) /\ 1 \in 1..Len(r[l])
    BY <1>1, MessageAt
<1>5. t \in Seq(Seq(STRING)) /\ Len(t) = Len(r[l])
    BY <1>4, GroupTextsType
<1>6. z \in Seq(STRING)
    BY <1>1, BehindSegmentType
<1>7. SegmentText(r[l]) = Joined("+", t) \o e
    <2>1. SegmentText(r[l]) = Append(Joined("+", t), "'")
        BY DEF SegmentText
    <2>2. Joined("+", t) \in Seq(STRING)
        BY <1>5, JoinedType, SpecialType
    <2> QED BY <2>1, <2>2, AppendIsConcat, SpecialType
<1>8. BehindGroup(r, l, 1) = BehindPart("+", t, 1) \o (e \o z)
    BY DEF BehindGroup
<1>9. IsPlace(r, l, 1, 1) /\ t[1] \o BehindGroup(r, l, 1) = BehindPiece(r, l, 1, 1, 0)
    BY <1>1, <1>4, GroupBegins
<1> HIDE DEF t, z
<1>10. e \in Seq(STRING)
    BY SpecialType
<1>11. PICK y : y = Joined("+", t)
    OBVIOUS
<1>12. y \in Seq(STRING) /\ t # <<>>
    BY <1>4, <1>5, <1>11, JoinedType, SpecialType, EmptySeq
<1> HIDE DEF e
<1>13. PICK x : x = SegmentText(r[l])
    OBVIOUS
<1>14. x \o z = y \o (e \o z)
    <2>1. x = y \o e
        BY <1>7, <1>11, <1>13
    <2> QED BY <1>6, <1>10, <1>12, <2>1, Associative
<1>15. e \o z \in Seq(STRING)
    BY <1>6, <1>10, ConcatProperties
<1>16. Joined("+", t) \o (e \o z) = t[1] \o (BehindPart("+", t, 1) \o (e \o z))
    <2>1. PICK w : w = e \o z
        OBVIOUS
    <2>2. Joined("+", t) \o w = t[1] \o (BehindPart("+", t, 1) \o w)
        <3>1. PICK sep : sep = "+"
            OBVIOUS
        <3>2. sep \in STRING
            BY <3>1, SpecialType
        <3>3. PartBegins(sep, t, w)
            BY <1>5, <1>12, <1>15, <2>1, <3>2, FirstPart
        <3> QED BY Zenon, <3>1, <3>3 DEF PartBegins
    <2> QED BY <2>1, <2>2
<1>17. BehindSegment(r, i) = BehindPiece(r, l, 1, 1, 0)
    BY Zenon, <1>3, <1>8, <1>9, <1>11, <1>13, <1>14, <1>16 DEF z
<1> QED BY <1>9, <1>17 DEF l

TextOf(r) == FlattenSeq(SegmentTexts(r))

\* The text of a message is what is behind nothing.
LEMMA MessageText ==
    ASSUME NEW r \in Messages
    PROVE  /\ TextOf(r) \in Seq(STRING) /\ BehindSegment(r, 0) = TextOf(r)
           /\ BehindSegment(r, Len(r)) = <<>> /\ Len(r) \in Nat
<1>1. r \in Seq(Seq(Seq(Readable)))
    BY DEF Messages
<1>2. SegmentTexts(r) \in Seq(Seq(STRING)) /\ Len(SegmentTexts(r)) = Len(r)
    BY <1>1, SegmentTextsType
<1>3. /\ From(SegmentTexts(r), 0) = FlattenSeq(SegmentTexts(r))
      /\ From(SegmentTexts(r), Len(SegmentTexts(r))) = <<>>
    BY <1>2, FromStart
<1> QED BY <1>1, <1>2, <1>3, FlattenType, LenProperties DEF TextOf, BehindSegment

\* The beginning of a sequence.
LEMMA Beginning ==
    ASSUME NEW T, NEW s \in Seq(T), NEW n \in 0..Len(s)
    PROVE  SubSeq(s, 1, n) \in Seq(T) /\ Len(SubSeq(s, 1, n)) = n
           /\ \A m \in 1..n : SubSeq(s, 1, n)[m] = s[m]
<1>1. Len(s) \in Nat /\ n \in Nat /\ n <= Len(s)
    BY LenProperties
<1>2. \A m \in 1..n : s[m] \in T
    BY <1>1, ElementOfSeq
<1>3. /\ SubSeq(s, 1, n) \in Seq(T) /\ Len(SubSeq(s, 1, n)) = (IF 1 <= n THEN n - 1 + 1 ELSE 0)
      /\ \A m \in 1..n - 1 + 1 : SubSeq(s, 1, n)[m] = s[1 + m - 1]
    BY <1>1, <1>2, SubSeqProperties
<1>4. n - 1 + 1 = n /\ (~(1 <= n) => n = 0) /\ \A m \in 1..n : 1 + m - 1 = m
    BY <1>1
<1> QED BY <1>3, <1>4

\* A beginning grows by the next one.
LEMMA BeginningGrows ==
    ASSUME NEW T, NEW s \in Seq(T), NEW n \in 1..Len(s)
    PROVE  SubSeq(s, 1, n) = Append(SubSeq(s, 1, n - 1), s[n])
           /\ SubSeq(s, 1, n - 1) \in Seq(T) /\ s[n] \in T
<1>1. Len(s) \in Nat /\ n - 1 \in 0..Len(s) /\ 1 \in 1..Len(s) /\ n \in 1..Len(s)
    BY LenProperties
<1>2. SubSeq(s, 1, n) = SubSeq(s, 1, n - 1) \o <<s[n]>>
    BY <1>1, SubSeqRecursiveSecond
<1>3. SubSeq(s, 1, n - 1) \in Seq(T) /\ s[n] \in T
    BY <1>1, Beginning, ElementOfSeq
<1>4. Append(SubSeq(s, 1, n - 1), s[n]) = SubSeq(s, 1, n - 1) \o <<s[n]>>
    BY <1>3, AppendIsConcat
<1> QED BY <1>2, <1>3, <1>4

\* The empty beginning.
LEMMA BeginningNone ==
    ASSUME NEW s
    PROVE  SubSeq(s, 1, 0) = <<>>
BY SubSeqEmpty

-----------------------------------------------------------------------------
(* The first byte of what follows tells what it is.                        *)

IsClassified(r, i, j, k, c, byte) ==
    LET g == r[i][j]  e == g[k]  n == Len(Pieces(e))
    IN  /\ byte = "?" => c < n /\ e.kind = "Text" /\ e.value[c + 1] \in Special
        /\ byte = "@" => c = 0 /\ c < n /\ e.kind = "Binary"
        /\ byte = ":" => c = n /\ k < Len(g)
        /\ byte = "+" => c = n /\ k = Len(g) /\ j < Len(r[i])
        /\ byte = "'" => c = n /\ k = Len(g) /\ j = Len(r[i])
        /\ byte \notin Special => c < n /\ e.kind = "Text" /\ e.value[c + 1] = byte
        /\ byte \in {":", "+", "'"} <=> c = n

Begins(s, byte, y) == \E x \in Seq(STRING) : Len(x) >= 1 /\ x[1] = byte /\ s = x \o y

\* A sequence of one.
LEMMA SingleType ==
    ASSUME NEW T, NEW x \in T
    PROVE  <<x>> \in Seq(T) /\ Len(<<x>>) = 1 /\ <<x>>[1] = x
OBVIOUS

\* What begins with one byte.
LEMMA BeginsWithOne ==
    ASSUME NEW byte \in STRING, NEW y \in Seq(STRING)
    PROVE  Begins(<<byte>> \o y, byte, y)
<1>1. <<byte>> \in Seq(STRING) /\ Len(<<byte>>) = 1 /\ <<byte>>[1] = byte
    BY SingleType
<1>2. PICK x : x = <<byte>>
    OBVIOUS
<1>3. x \in Seq(STRING) /\ Len(x) = 1 /\ x[1] = byte
    BY Zenon, <1>1, <1>2
<1>4. Len(x) >= 1
    BY <1>3
<1> QED BY Zenon, <1>2, <1>3, <1>4 DEF Begins

\* Only an empty element has no piece.
LEMMA PiecesCount ==
    ASSUME NEW e \in Readable
    PROVE  /\ Len(Pieces(e)) \in Nat
           /\ Len(Pieces(e)) = 0 <=> e.kind = "Empty"
           /\ e.kind = "Text" => Len(Pieces(e)) = Len(e.value)
           /\ e.kind = "Binary" => Len(Pieces(e)) = 1
<1>1. e.kind \in {"Empty", "Text", "Binary"} /\ e.value \in Seq(STRING)
      /\ (e.kind = "Text" => e.value # <<>>)
    BY ReadableCases
<1>2. /\ Pieces(e) \in Seq(Seq(STRING))
      /\ e.kind = "Empty" => Pieces(e) = <<>>
      /\ e.kind = "Text" => Len(Pieces(e)) = Len(e.value)
      /\ e.kind = "Binary" => Len(Pieces(e)) = 1
    BY PiecesType
<1>3. e.value # <<>> => Len(e.value) # 0
    BY <1>1, EmptySeq
<1>4. Len(Pieces(e)) \in Nat
    BY <1>2, LenProperties
<1>5. e.kind = "Empty" => Len(Pieces(e)) = 0
    BY <1>2, EmptySeq
<1>6. e.kind # "Empty" => Len(Pieces(e)) # 0
    <2>1. CASE e.kind = "Text"
        BY <1>1, <1>2, <1>3, <2>1
    <2>2. CASE e.kind = "Binary"
        <3>1. PICK n : n = Len(Pieces(e))
            OBVIOUS
        <3>2. n = 1
            BY Zenon, <1>2, <2>2, <3>1
        <3> QED BY <3>1, <3>2
    <2> QED BY <1>1, <2>1, <2>2
<1>7. Len(Pieces(e)) = 0 <=> e.kind = "Empty"
    BY <1>5, <1>6
<1>8. /\ e.kind = "Text" => Len(Pieces(e)) = Len(e.value)
      /\ e.kind = "Binary" => Len(Pieces(e)) = 1
    BY <1>2
<1> QED BY Zenon, <1>4, <1>7, <1>8

\* The pieces of a text are its symbols, escaped or not.
LEMMA TextPiece ==
    ASSUME NEW e \in Readable, e.kind = "Text", NEW c \in 0..Len(Pieces(e)) - 1
    PROVE  /\ c + 1 \in 1..Len(e.value) /\ e.value \in Seq(STRING)
           /\ e.value[c + 1] \in STRING
           /\ e.value[c + 1] \in Special => Pieces(e)[c + 1] = <<"?", e.value[c + 1]>>
           /\ e.value[c + 1] \notin Special => Pieces(e)[c + 1] = <<e.value[c + 1]>>
<1> DEFINE l == c + 1
           s == e.value
<1>1. s \in Seq(STRING) /\ Len(Pieces(e)) = Len(s) /\ Pieces(e) = EscapePieces(s)
    BY ReadableCases, PiecesCount DEF Pieces
<1>2. l \in 1..Len(s)
    BY <1>1, LenProperties
<1> HIDE DEF l, s
<1>3. /\ s[l] \in Special => EscapePieces(s)[l] = <<"?", s[l]>>
      /\ s[l] \notin Special => EscapePieces(s)[l] = <<s[l]>>
    BY <1>1, <1>2, EscapePiecesAt
<1>4. s[l] \in STRING
    BY <1>1, <1>2, ElementOfSeq
<1>5. /\ s[l] \in Special => Pieces(e)[l] = <<"?", s[l]>>
      /\ s[l] \notin Special => Pieces(e)[l] = <<s[l]>>
    BY Zenon, <1>1, <1>3
<1> QED BY <1>1, <1>2, <1>4, <1>5 DEF l, s

\* Inside an element the next byte tells what kind of piece follows.
LEMMA HeadInside ==
    ASSUME NEW r \in Messages, NEW i, NEW j, NEW k, IsPlace(r, i, j, k),
           NEW c \in 0..Len(Pieces(r[i][j][k])) - 1
    PROVE  \E byte \in STRING, y \in Seq(STRING) :
              IsClassified(r, i, j, k, c, byte) /\ Begins(BehindPiece(r, i, j, k, c), byte, y)
<1> DEFINE e == r[i][j][k]
           n == Len(Pieces(e))
           l == c + 1
           x == Pieces(e)[l]
           y == BehindPiece(r, i, j, k, l)
<1>1. e \in Readable
    BY PlaceType
<1>2. x \in Seq(STRING) /\ y \in Seq(STRING) /\ BehindPiece(r, i, j, k, c) = x \o y
    BY InsideElement
<1>3. c \in 0..n - 1 /\ n \in Nat /\ c < n /\ c \in Nat
    <2>1. n \in Nat
        <3> HIDE DEF e
        <3> QED BY <1>1, PiecesCount
    <2> QED BY <2>1
<1> DEFINE IsByte(b) == /\ b \in STRING /\ x[1] = b /\ Len(x) >= 1
                        /\ b = "?" => e.kind = "Text" /\ e.value[l] \in Special
                        /\ b = "@" => c = 0 /\ e.kind = "Binary"
                        /\ b \notin {":", "+", "'"}
                        /\ b \notin Special => e.kind = "Text" /\ e.value[l] = b
<1>4. IsByte(x[1])
    <2>1. e.kind \in {"Empty", "Text", "Binary"}
        <3> HIDE DEF e
        <3> QED BY <1>1, ReadableCases
    <2>2. CASE e.kind = "Empty"
        <3>1. n = 0
            <4> HIDE DEF e
            <4> QED BY <1>1, <2>2, PiecesCount
        <3> QED BY <1>3, <3>1
    <2>3. CASE e.kind = "Text"
        <3>1. /\ e.value[l] \in STRING
              /\ e.value[l] \in Special => x = <<"?", e.value[l]>>
              /\ e.value[l] \notin Special => x = <<e.value[l]>>
            <4> HIDE DEF e
            <4> QED BY <1>1, <1>3, <2>3, TextPiece
        <3>2. PICK v : v = e.value[l]
            OBVIOUS
        <3>3. PICK w : w = x
            OBVIOUS
        <3> HIDE DEF x, l, e, n
        <3>4. CASE v \in Special
            <4>1. w = <<"?", v>>
                BY <3>1, <3>2, <3>3, <3>4
            <4>2. w[1] = "?" /\ Len(w) = 2
                BY <4>1
            <4> QED BY <2>3, <3>2, <3>3, <3>4, <4>2, SpecialType DEF Special
        <3>5. CASE v \notin Special
            <4>1. w = <<v>>
                BY <3>1, <3>2, <3>3, <3>5
            <4>2. w[1] = v /\ Len(w) = 1
                BY <4>1
            <4>3. v # "?" /\ v # "@" /\ v # ":" /\ v # "+" /\ v # "'"
                BY <3>5 DEF Special
            <4> QED BY <2>3, <3>1, <3>2, <3>3, <4>2, <4>3
        <3> QED BY <3>4, <3>5
    <2>4. CASE e.kind = "Binary"
        <3>1. n = 1 /\ Pieces(e)[1] = SerializeBinary(e.value)
            <4> HIDE DEF e
            <4> QED BY <1>1, <2>4, PiecesType
        <3>2. c = 0 /\ l = 1
            BY <1>3, <3>1
        <3>3. x = SerializeBinary(e.value)
            BY <3>1, <3>2
        <3>4. e.value \in Seq(STRING) /\ Len(e.value) <= MaxNumeral
            <4> HIDE DEF e
            <4> QED BY <1>1, <2>4, ReadableCases
        <3>5. Len(x) = Len(e.value) + 3 /\ x[1] = "@"
            <4> HIDE DEF e, x
            <4> QED BY <3>3, <3>4, BinaryTextType
        <3>6. Len(e.value) \in Nat
            <4> HIDE DEF e
            <4> QED BY <3>4, LenProperties
        <3> HIDE DEF x, l, e, n
        <3> QED BY <2>4, <3>2, <3>5, <3>6, SpecialType DEF Special
    <2> QED BY <2>1, <2>2, <2>3, <2>4
<1>5. IsClassified(r, i, j, k, c, x[1])
    <2>1. c < n /\ c # n
        BY <1>3
    <2> HIDE DEF x, n
    <2> QED BY <1>4, <2>1 DEF IsClassified, n, Special
<1>6. Begins(BehindPiece(r, i, j, k, c), x[1], y)
    <2> HIDE DEF x, y
    <2> QED BY <1>2, <1>4 DEF Begins
<1> HIDE DEF x, y
<1> QED BY <1>2, <1>4, <1>5, <1>6

\* Behind an element it tells which separator follows.
LEMMA HeadBehind ==
    ASSUME NEW r \in Messages, NEW i, NEW j, NEW k, IsPlace(r, i, j, k)
    PROVE  \E byte \in STRING, y \in Seq(STRING) :
              /\ IsClassified(r, i, j, k, Len(Pieces(r[i][j][k])), byte)
              /\ Begins(BehindPiece(r, i, j, k, Len(Pieces(r[i][j][k]))), byte, y)
<1> DEFINE n == Len(Pieces(r[i][j][k]))
           s == BehindPiece(r, i, j, k, n)
<1>1. s = BehindElement(r, i, j, k)
    BY ElementIsBehind
<1>2. /\ i \in 1..Len(r) /\ k \in 1..Len(r[i][j]) /\ j \in 1..Len(r[i])
      /\ Len(r[i]) \in Nat /\ Len(r[i][j]) \in Nat
      /\ r[i][j][k] \in Readable
    BY PlaceType
<1>3. n \in Nat
    BY <1>2, PiecesCount
<1>4. CASE k < Len(r[i][j])
    <2> DEFINE y == BehindPiece(r, i, j, k + 1, 0)
    <2>1. IsPlace(r, i, j, k + 1) /\ s = <<":">> \o y
        BY <1>1, <1>4, NextElement
    <2>2. y \in Seq(STRING)
        BY <2>1, ElementIsBehind, BehindPieceType
    <2>3. IsClassified(r, i, j, k, n, ":")
        <3> HIDE DEF n
        <3> QED BY <1>3, <1>4 DEF IsClassified, Special, n
    <2> HIDE DEF s, y
    <2>4. Begins(s, ":", y)
        <3>1. PICK b : b = ":"
            OBVIOUS
        <3>2. b \in STRING
            BY <3>1, SpecialType
        <3>3. Begins(<<b>> \o y, b, y)
            BY <2>2, <3>2, BeginsWithOne
        <3> QED BY <2>1, <3>1, <3>3
    <2>5. ":" \in STRING
        BY SpecialType
    <2> HIDE DEF n
    <2> QED BY <2>2, <2>3, <2>4, <2>5 DEF s, n
<1>5. CASE k = Len(r[i][j]) /\ j < Len(r[i])
    <2> DEFINE y == BehindPiece(r, i, j + 1, 1, 0)
    <2>1. IsPlace(r, i, j + 1, 1) /\ s = <<"+">> \o y
        BY <1>1, <1>5, NextGroup
    <2>2. y \in Seq(STRING)
        BY <2>1, ElementIsBehind, BehindPieceType
    <2>3. IsClassified(r, i, j, k, n, "+")
        <3> HIDE DEF n
        <3> QED BY <1>3, <1>5 DEF IsClassified, Special, n
    <2> HIDE DEF s, y
    <2>4. Begins(s, "+", y)
        <3>1. PICK b : b = "+"
            OBVIOUS
        <3>2. b \in STRING
            BY <3>1, SpecialType
        <3>3. Begins(<<b>> \o y, b, y)
            BY <2>2, <3>2, BeginsWithOne
        <3> QED BY <2>1, <3>1, <3>3
    <2>5. "+" \in STRING
        BY SpecialType
    <2> HIDE DEF n
    <2> QED BY <2>2, <2>3, <2>4, <2>5 DEF s, n
<1>6. CASE k = Len(r[i][j]) /\ j = Len(r[i])
    <2> DEFINE y == BehindSegment(r, i)
    <2>1. s = <<"'">> \o y
        BY <1>1, <1>6, SegmentEnds
    <2>2. y \in Seq(STRING)
        <3>1. i \in 0..Len(r)
            BY <1>2, MessageText
        <3> QED BY <3>1, BehindSegmentType
    <2>3. IsClassified(r, i, j, k, n, "'")
        <3> HIDE DEF n
        <3> QED BY <1>3, <1>6 DEF IsClassified, Special, n
    <2> HIDE DEF s, y
    <2>4. Begins(s, "'", y)
        <3>1. PICK b : b = "'"
            OBVIOUS
        <3>2. b \in STRING
            BY <3>1, SpecialType
        <3>3. Begins(<<b>> \o y, b, y)
            BY <2>2, <3>2, BeginsWithOne
        <3> QED BY <2>1, <3>1, <3>3
    <2>5. "'" \in STRING
        BY SpecialType
    <2> HIDE DEF n
    <2> QED BY <2>2, <2>3, <2>4, <2>5 DEF s, n
<1>7. \/ k < Len(r[i][j])
      \/ k = Len(r[i][j]) /\ j < Len(r[i])
      \/ k = Len(r[i][j]) /\ j = Len(r[i])
    BY <1>2
<1> QED BY Zenon, <1>4, <1>5, <1>6, <1>7

\* So the next byte tells where in the message the parser is.
LEMMA HeadIs ==
    ASSUME NEW r \in Messages, NEW i, NEW j, NEW k, IsPlace(r, i, j, k),
           NEW c \in 0..Len(Pieces(r[i][j][k]))
    PROVE  \E byte \in STRING, y \in Seq(STRING) :
              IsClassified(r, i, j, k, c, byte) /\ Begins(BehindPiece(r, i, j, k, c), byte, y)
<1>1. Len(Pieces(r[i][j][k])) \in Nat
    BY PlaceType, PiecesCount
<1>2. c = Len(Pieces(r[i][j][k])) \/ c \in 0..Len(Pieces(r[i][j][k])) - 1
    BY <1>1
<1> QED BY <1>2, HeadInside, HeadBehind

-----------------------------------------------------------------------------
(* The parser on the beginning of a message's text.                        *)

DataBegins(t) ==
    /\ data \in Seq(STRING) /\ Len(data) <= Len(t)
    /\ \A n \in 1..Len(data) : data[n] = t[n]

\* The group before an element; an empty element behind ":" is in it already,
\* unless the data end there.
DegBefore(g, k) ==
    \/ deg = SubSeq(g, 1, k - 1) /\ (k = 1 \/ AtEnd \/ g[k].kind # "Empty")
    \/ deg = SubSeq(g, 1, k) /\ k > 1 /\ g[k].kind = "Empty"

Part(e, c) == IF e.kind = "Text" THEN Text(SubSeq(e.value, 1, c)) ELSE e

ReadsElement(r, i, j, k, c) ==
    /\ IsPlace(r, i, j, k) /\ c \in 0..Len(Pieces(r[i][j][k]))
    /\ mode = "segment" /\ RestOf(TextOf(r), pos) = BehindPiece(r, i, j, k, c)
    /\ segments = SubSeq(r, 1, i - 1) /\ degs = SubSeq(r[i], 1, j - 1)
    /\ c = 0 => need_new_de /\ DegBefore(r[i][j], k)
    /\ c > 0 => ~need_new_de /\ deg = Append(SubSeq(r[i][j], 1, k - 1), Part(r[i][j][k], c))

ReadsBetween(r, i) ==
    /\ i \in 0..Len(r) /\ mode = "between"
    /\ RestOf(TextOf(r), pos) = BehindSegment(r, i)
    /\ segments = SubSeq(r, 1, i) /\ deg = <<>> /\ degs = <<>>

\* What the parser makes of a segment that is cut: of its first element it has
\* a part.
TornOf(x, seg) ==
    HasNoHole(x) =>
        \/ x[1][1] = seg[1][1]
        \/ \E c \in 1..Len(Pieces(seg[1][1])) : x[1][1] = Part(seg[1][1], c)
ReadsTorn(r) ==
    /\ Len(data) < Len(TextOf(r))
    /\ \E i \in 1..Len(r) :
          \/ mode = "error" /\ segments = SubSeq(r, 1, i - 1)
          \/ /\ mode = "between" /\ AtEnd
             /\ \E x : TornOf(x, r[i]) /\ segments = Append(SubSeq(r, 1, i - 1), x)

Reads(r) ==
    /\ DataBegins(TextOf(r)) /\ pos \in 1..Len(data) + 1
    /\ \/ \E i, j, k, c : ReadsElement(r, i, j, k, c)
       \/ \E i : ReadsBetween(r, i)
       \/ ReadsTorn(r)

\* x is the next of the text, and y comes after it.
IsAhead(r, p, x, y) ==
    /\ p \in Nat /\ Len(x) \in Nat /\ Len(data) \in Nat /\ Len(TextOf(r)) \in Nat
    /\ p + Len(x) <= Len(TextOf(r)) + 1
    /\ RestOf(TextOf(r), p + Len(x)) = y
    /\ \A m \in 1..Len(x) : p + m - 1 <= Len(data) => data[p + m - 1] = x[m]

\* What the text goes on with is ahead in the data, as far as they reach.
LEMMA Ahead ==
    ASSUME NEW r \in Messages, DataBegins(TextOf(r)), NEW p \in 1..Len(data) + 1,
           NEW x \in Seq(STRING), NEW y \in Seq(STRING), RestOf(TextOf(r), p) = x \o y
    PROVE  IsAhead(r, p, x, y)
<1> DEFINE t == TextOf(r)
<1>1. t \in Seq(STRING)
    BY MessageText
<1>2. /\ data \in Seq(STRING) /\ Len(data) <= Len(t)
      /\ \A n \in 1..Len(data) : data[n] = t[n]
    BY DEF DataBegins
<1> HIDE DEF t
<1>3. Len(data) \in Nat /\ Len(t) \in Nat /\ Len(x) \in Nat /\ p \in Nat
    <2>1. Len(data) \in Nat /\ Len(t) \in Nat /\ Len(x) \in Nat
        BY <1>1, <1>2, LenProperties
    <2> QED BY <2>1
<1>4. p \in 1..Len(t) + 1
    BY <1>2, <1>3
<1>5. RestOf(t, p) = x \o y
    BY DEF t
<1>6. /\ p + Len(x) \in 1..Len(t) + 1
      /\ RestOf(t, p + Len(x)) = y
      /\ \A m \in 1..Len(x) : t[p + m - 1] = x[m]
    BY <1>1, <1>4, <1>5, RestSplit
<1>7. ASSUME NEW m \in 1..Len(x), p + m - 1 <= Len(data)
      PROVE  data[p + m - 1] = x[m]
    <2>1. p + m - 1 \in 1..Len(data)
        BY <1>3, <1>7
    <2>2. PICK n : n = p + m - 1
        OBVIOUS
    <2>3. n \in 1..Len(data) /\ t[n] = x[m]
        BY <1>6, <2>1, <2>2
    <2>4. data[n] = t[n]
        BY <1>2, <2>3
    <2> QED BY <2>2, <2>3, <2>4
<1>8. p + Len(x) <= Len(t) + 1
    BY <1>3, <1>6
<1> QED BY <1>3, <1>6, <1>7, <1>8 DEF t, IsAhead

\* So the next byte of the data, if there is one, tells it.
LEMMA ByteAhead ==
    ASSUME NEW r \in Messages, DataBegins(TextOf(r)), NEW p \in 1..Len(data) + 1,
           NEW i, NEW j, NEW k, IsPlace(r, i, j, k), NEW c \in 0..Len(Pieces(r[i][j][k])),
           RestOf(TextOf(r), p) = BehindPiece(r, i, j, k, c)
    PROVE  /\ p <= Len(data) => IsClassified(r, i, j, k, c, data[p])
           /\ p <= Len(TextOf(r))
<1>1. PICK b \in STRING, y \in Seq(STRING) :
         IsClassified(r, i, j, k, c, b) /\ Begins(BehindPiece(r, i, j, k, c), b, y)
    BY HeadIs
<1>2. PICK x \in Seq(STRING) : Len(x) >= 1 /\ x[1] = b /\ BehindPiece(r, i, j, k, c) = x \o y
    BY <1>1 DEF Begins
<1>3. /\ p \in Nat /\ Len(x) \in Nat /\ Len(data) \in Nat /\ Len(TextOf(r)) \in Nat
      /\ p + Len(x) <= Len(TextOf(r)) + 1
      /\ \A m \in 1..Len(x) : p + m - 1 <= Len(data) => data[p + m - 1] = x[m]
    <2>1. RestOf(TextOf(r), p) = x \o y
        BY <1>2
    <2>2. IsAhead(r, p, x, y)
        BY <2>1, Ahead
    <2> QED BY <2>2 DEF IsAhead
<1>4. p <= Len(TextOf(r))
    BY <1>2, <1>3
<1>5. ASSUME p <= Len(data) PROVE data[p] = b
    <2>1. 1 \in 1..Len(x) /\ p + 1 - 1 = p
        BY <1>2, <1>3
    <2> QED BY <1>2, <1>3, <1>5, <2>1
<1> QED BY <1>1, <1>4, <1>5

\* Where the parser is, with the types of what is around it.
LEMMA ElementIsRead ==
    ASSUME NEW r \in Messages, NEW i, NEW j, NEW k, NEW c, ReadsElement(r, i, j, k, c)
    PROVE  /\ IsPlace(r, i, j, k) /\ c \in 0..Len(Pieces(r[i][j][k])) /\ c \in Nat
           /\ Len(Pieces(r[i][j][k])) \in Nat
           /\ RestOf(TextOf(r), pos) = BehindPiece(r, i, j, k, c)
           /\ r[i][j] \in Seq(Readable) /\ r[i][j][k] \in Readable
           /\ i \in 1..Len(r) /\ j \in 1..Len(r[i]) /\ k \in 1..Len(r[i][j])
           /\ Len(r) \in Nat /\ Len(r[i]) \in Nat /\ Len(r[i][j]) \in Nat
           /\ r[i] \in Seq(Seq(Readable))
<1>1. IsPlace(r, i, j, k) /\ c \in 0..Len(Pieces(r[i][j][k]))
      /\ RestOf(TextOf(r), pos) = BehindPiece(r, i, j, k, c)
    BY DEF ReadsElement
<1>2. r[i][j][k] \in Readable /\ r[i][j] \in Seq(Readable) /\ r[i] \in Seq(Seq(Readable))
      /\ i \in 1..Len(r) /\ j \in 1..Len(r[i]) /\ k \in 1..Len(r[i][j])
      /\ Len(r) \in Nat /\ Len(r[i]) \in Nat /\ Len(r[i][j]) \in Nat
    BY <1>1, PlaceType
<1>3. Len(Pieces(r[i][j][k])) \in Nat
    BY <1>2, PiecesCount
<1> QED BY <1>1, <1>2, <1>3

\* Data that end inside a segment are cut off.
LEMMA TornIsCut ==
    ASSUME NEW r \in Messages, DataBegins(TextOf(r)), pos \in 1..Len(data) + 1,
           NEW i, NEW j, NEW k, NEW c, ReadsElement(r, i, j, k, c), AtEnd
    PROVE  Len(data) < Len(TextOf(r))
<1>1. pos <= Len(TextOf(r))
    <2>1. /\ IsPlace(r, i, j, k) /\ c \in 0..Len(Pieces(r[i][j][k]))
          /\ RestOf(TextOf(r), pos) = BehindPiece(r, i, j, k, c)
        BY ElementIsRead
    <2> QED BY <2>1, ByteAhead
<1>2. Len(data) \in Nat /\ Len(TextOf(r)) \in Nat
    BY MessageText, LenProperties DEF DataBegins
<1> QED BY <1>1, <1>2 DEF AtEnd

-----------------------------------------------------------------------------

\* The end of an element: the group so far.
LEMMA GroupSoFar ==
    ASSUME NEW r \in Messages, NEW i, NEW j, NEW k, NEW c, ReadsElement(r, i, j, k, c),
           c = Len(Pieces(r[i][j][k])), ~AtEnd
    PROVE  OrEmptyElement(deg) = SubSeq(r[i][j], 1, k)
<1> DEFINE g == r[i][j]
           e == g[k]
<1>1. g \in Seq(Readable) /\ e \in Readable /\ k \in 1..Len(g) /\ Len(g) \in Nat /\ c \in Nat
    BY ElementIsRead
<1>2. SubSeq(g, 1, k) = Append(SubSeq(g, 1, k - 1), e)
      /\ SubSeq(g, 1, k - 1) \in Seq(Readable)
    <2> HIDE DEF g
    <2> QED BY <1>1, BeginningGrows
<1>3. SubSeq(g, 1, k) # <<>>
    <2> HIDE DEF g, e
    <2>1. PICK a : a = SubSeq(g, 1, k - 1)
        OBVIOUS
    <2>2. a \in Seq(Readable)
        BY <1>2, <2>1
    <2>3. Append(a, e) # <<>>
        BY <1>1, <2>2, AppendProperties
    <2> QED BY <1>2, <2>1, <2>3
<1>4. /\ c = 0 => DegBefore(g, k)
      /\ c > 0 => deg = Append(SubSeq(g, 1, k - 1), Part(e, c))
    BY DEF ReadsElement
<1>5. /\ c = 0 <=> e.kind = "Empty"
      /\ e.kind = "Text" => c = Len(e.value)
    <2> HIDE DEF e, g
    <2>1. c = Len(Pieces(e))
        BY DEF e, g
    <2> QED BY <1>1, <2>1, PiecesCount
<1> HIDE DEF e
<1>6. CASE c > 0
    <2>1. Part(e, c) = e
        <3>1. CASE e.kind = "Text"
            <4>1. e.value \in Seq(STRING) /\ e = Text(e.value)
                BY <1>1, <3>1 DEF Readable, Elements, Text
            <4>2. SubSeq(e.value, 1, c) = e.value
                BY <1>5, <3>1, <4>1, SubSeqFull
            <4> QED BY <3>1, <4>1, <4>2 DEF Part
        <3> QED BY <3>1 DEF Part
    <2>2. deg = SubSeq(g, 1, k)
        BY <1>2, <1>4, <1>6, <2>1
    <2> QED BY <1>3, <2>2 DEF OrEmptyElement
<1>7. CASE c = 0 /\ k > 1
    <2>1. deg = SubSeq(g, 1, k)
        <3>1. DegBefore(g, k) /\ g[k].kind = "Empty"
            BY <1>4, <1>5, <1>7 DEF e
        <3> HIDE DEF g
        <3> QED BY <1>1, <1>7, <3>1 DEF DegBefore
    <2> QED BY <1>3, <2>1 DEF OrEmptyElement
<1>8. CASE c = 0 /\ k = 1
    <2>1. deg = <<>>
        <3>1. DegBefore(g, k)
            BY <1>4, <1>8
        <3>2. SubSeq(g, 1, 1 - 1) = <<>>
            BY BeginningNone
        <3> HIDE DEF g
        <3> QED BY <1>8, <3>1, <3>2 DEF DegBefore
    <2>2. SubSeq(g, 1, k) = <<e>>
        <3>1. SubSeq(g, 1, k - 1) = <<>>
            BY <1>8, BeginningNone
        <3>2. Append(<<>>, e) = <<e>>
            OBVIOUS
        <3> QED BY <1>2, <3>1, <3>2
    <2>3. e = Empty
        BY <1>1, <1>5, <1>8, ReadableCases
    <2> QED BY <2>1, <2>2, <2>3 DEF OrEmptyElement
<1> QED BY <1>1, <1>6, <1>7, <1>8

\* The last element of a group is replaced.
LEMMA LastReplaced ==
    ASSUME NEW T, NEW b \in Seq(T), NEW t \in T, NEW u \in T, NEW d, d = Append(b, t)
    PROVE  [d EXCEPT ![Len(d)] = u] = Append(b, u)
<1>1. /\ d \in Seq(T) /\ Len(d) = Len(b) + 1
      /\ \A i \in 1..Len(b) : d[i] = b[i]
    BY AppendProperties
<1>2. Len(b) \in Nat
    BY LenProperties
<1> DEFINE x == [d EXCEPT ![Len(d)] = u]
           y == Append(b, u)
<1>3. x \in Seq(T) /\ Len(x) = Len(d)
    <2>1. Len(d) \in 1..Len(d)
        BY <1>1, <1>2
    <2> QED BY <1>1, <2>1, ExceptSeq
<1>3a. \A i \in 1..Len(d) : x[i] = IF i = Len(d) THEN u ELSE d[i]
    <2>1. DOMAIN d = 1..Len(d)
        BY <1>1, LenProperties
    <2>2. PICK n : n = Len(d)
        OBVIOUS
    <2>3. x = [m \in 1..n |-> IF m = n THEN u ELSE d[m]]
        BY <2>1, <2>2
    <2> HIDE DEF x
    <2> QED BY <2>2, <2>3
<1>4. /\ y \in Seq(T) /\ Len(y) = Len(b) + 1 /\ y[Len(b) + 1] = u
      /\ \A i \in 1..Len(b) : y[i] = b[i]
    BY AppendProperties
<1> HIDE DEF x, y
<1>5. ASSUME NEW i \in 1..Len(x) PROVE x[i] = y[i]
    <2>1. CASE i = Len(d)
        BY <1>1, <1>3, <1>3a, <1>4, <2>1
    <2>2. CASE i # Len(d)
        <3>1. i \in 1..Len(b) /\ i \in 1..Len(d)
            BY <1>1, <1>2, <1>3, <2>2
        <3> QED BY <1>1, <1>3, <1>3a, <1>4, <2>2, <3>1
    <2> QED BY <2>1, <2>2
<1>6. x = y
    BY <1>1, <1>3, <1>4, <1>5, SeqEqual
<1> QED BY <1>6 DEF x, y

\* Text that is read: the element up to it.
IsTextSoFar(r, i, j, k, l, v) ==
    WithText(<<v>>) = Append(SubSeq(r[i][j], 1, k - 1), Part(r[i][j][k], l))

\* A text grows by the symbol that is read.
LEMMA TextSoFar ==
    ASSUME NEW r \in Messages, NEW i, NEW j, NEW k, NEW c, ReadsElement(r, i, j, k, c),
           c < Len(Pieces(r[i][j][k])), r[i][j][k].kind = "Text",
           NEW l, l = c + 1
    PROVE  IsTextSoFar(r, i, j, k, l, r[i][j][k].value[l])
<1> DEFINE g == r[i][j]
           e == g[k]
           s == e.value
           b == SubSeq(g, 1, k - 1)
<1>1. g \in Seq(Readable) /\ e \in Readable /\ k \in 1..Len(g) /\ Len(g) \in Nat /\ c \in Nat
      /\ k \in Nat
    <2>1. g \in Seq(Readable) /\ e \in Readable /\ k \in 1..Len(g) /\ Len(g) \in Nat /\ c \in Nat
        BY ElementIsRead
    <2> HIDE DEF g, e
    <2> QED BY <2>1
<1>2. s \in Seq(STRING) /\ l \in 1..Len(s) /\ s[l] \in STRING
    <2>1. c \in 0..Len(Pieces(e)) - 1
        <3>1. Len(Pieces(e)) \in Nat /\ c < Len(Pieces(e))
            BY ElementIsRead
        <3> HIDE DEF e
        <3> QED BY <1>1, <3>1
    <2>2. e.kind = "Text"
        OBVIOUS
    <2> HIDE DEF e
    <2> QED BY <1>1, <2>1, <2>2, TextPiece
<1>3. /\ c = 0 => need_new_de /\ DegBefore(g, k)
      /\ c > 0 => ~need_new_de /\ deg = Append(b, Part(e, c))
    BY DEF ReadsElement
<1>4. Part(e, l) = Text(SubSeq(s, 1, l)) /\ Part(e, c) = Text(SubSeq(s, 1, c))
      /\ e.kind # "Empty"
    BY DEF Part
<1>5. b \in Seq(Readable)
    <2>1. k - 1 \in 0..Len(g)
        BY <1>1
    <2> HIDE DEF g
    <2> QED BY <1>1, <2>1, Beginning
<1>6. SubSeq(s, 1, l) = Append(SubSeq(s, 1, c), s[l]) /\ SubSeq(s, 1, c) \in Seq(STRING)
    <2>1. l - 1 = c
        BY <1>1
    <2> HIDE DEF s
    <2>2. SubSeq(s, 1, l) = Append(SubSeq(s, 1, l - 1), s[l]) /\ SubSeq(s, 1, l - 1) \in Seq(STRING)
        BY <1>2, BeginningGrows
    <2> QED BY <2>1, <2>2
<1> HIDE DEF s
<1>7. CASE c = 0
    <2>1. deg = b /\ need_new_de
        <3>1. DegBefore(g, k) /\ g[k].kind # "Empty"
            BY <1>3, <1>4, <1>7
        <3> HIDE DEF g
        <3> QED BY <1>3, <1>7, <3>1 DEF DegBefore
    <2>2. SubSeq(s, 1, l) = <<s[l]>>
        <3>1. SubSeq(s, 1, c) = <<>>
            BY <1>7, BeginningNone
        <3>2. Append(<<>>, s[l]) = <<s[l]>>
            OBVIOUS
        <3> QED BY <1>6, <3>1, <3>2
    <2>3. WithText(<<s[l]>>) = Append(b, Text(<<s[l]>>))
        <3> HIDE DEF b
        <3> QED BY <2>1 DEF WithText
    <2> HIDE DEF b, e, g
    <2> QED BY Zenon, <1>4, <2>2, <2>3 DEF s, b, e, g, IsTextSoFar
<1>8. CASE c > 0
    <2> DEFINE t == Text(SubSeq(s, 1, c))
    <2>1. deg = Append(b, t) /\ ~need_new_de
        BY <1>3, <1>4, <1>8
    <2>2. t \in Elements /\ t.kind = "Text" /\ t.value = SubSeq(s, 1, c)
        BY <1>6 DEF Text, Elements
    <2>3. b \in Seq(Elements)
        <3>1. Readable \subseteq Elements
            BY DEF Readable
        <3> HIDE DEF b
        <3> QED BY <1>5, <3>1, SeqMonotonic
    <2> HIDE DEF b, t
    <2>4. /\ deg \in Seq(Elements) /\ deg # <<>> /\ Len(deg) = Len(b) + 1 /\ Len(b) \in Nat
          /\ deg[Len(b) + 1] = t
        BY <2>1, <2>2, <2>3, AppendProperties, LenProperties
    <2>5. Last(deg) = t
        BY <2>4 DEF Last
    <2>6. WithText(<<s[l]>>) = [deg EXCEPT ![Len(deg)] = Text(@.value \o <<s[l]>>)]
        BY <2>1, <2>2, <2>4, <2>5 DEF WithText
    <2>7. t.value \o <<s[l]>> = SubSeq(s, 1, l)
        <3>1. Append(SubSeq(s, 1, c), s[l]) = SubSeq(s, 1, c) \o <<s[l]>>
            BY <1>2, <1>6, AppendIsConcat
        <3> QED BY <1>6, <2>2, <3>1
    <2>8. [deg EXCEPT ![Len(deg)] = Text(@.value \o <<s[l]>>)]
             = [deg EXCEPT ![Len(deg)] = Text(SubSeq(s, 1, l))]
        BY <2>4, <2>7
    <2>9. [deg EXCEPT ![Len(deg)] = Text(SubSeq(s, 1, l))] = Append(b, Text(SubSeq(s, 1, l)))
        <3> DEFINE u == Text(SubSeq(s, 1, l))
        <3>1. u \in Elements
            <4>1. SubSeq(s, 1, l) \in Seq(STRING)
                BY <1>2, <1>6, AppendProperties
            <4> QED BY <4>1 DEF Text, Elements
        <3> HIDE DEF u
        <3>2. [deg EXCEPT ![Len(deg)] = u] = Append(b, u)
            BY <2>1, <2>2, <2>3, <3>1, LastReplaced
        <3> QED BY <3>2 DEF u
    <2> HIDE DEF e, g
    <2> QED BY Zenon, <1>4, <2>6, <2>8, <2>9 DEF s, b, e, g, IsTextSoFar
<1>9. c = 0 \/ c > 0
    BY <1>1
<1> QED BY Zenon, <1>7, <1>8, <1>9

\* The data stay the beginning of the text.
LEMMA DataStays ==
    ASSUME NEW r \in Messages, DataBegins(TextOf(r)), data' = data
    PROVE  DataBegins(TextOf(r))'
BY DEF DataBegins

\* The byte that is read tells where in the message the parser is.
LEMMA ByteIs ==
    ASSUME NEW r \in Messages, DataBegins(TextOf(r)), pos \in 1..Len(data) + 1, ~AtEnd,
           NEW i, NEW j, NEW k, NEW c, ReadsElement(r, i, j, k, c)
    PROVE  IsClassified(r, i, j, k, c, data[pos]) /\ pos \in 1..Len(data) /\ pos \in Nat
           /\ Len(data) \in Nat
<1>1. Len(data) \in Nat
    BY LenProperties DEF DataBegins
<1>2. pos <= Len(data) /\ pos \in Nat
    BY <1>1 DEF AtEnd
<1>3. IsClassified(r, i, j, k, c, data[pos])
    BY <1>2, ElementIsRead, ByteAhead
<1> QED BY <1>1, <1>2, <1>3

\* Behind a piece that is read follows the next one.
LEMMA PieceIsNext ==
    ASSUME NEW r \in Messages, DataBegins(TextOf(r)), pos \in 1..Len(data) + 1,
           NEW i, NEW j, NEW k, NEW c, ReadsElement(r, i, j, k, c),
           c < Len(Pieces(r[i][j][k])), NEW l, l = c + 1, NEW x, x = Pieces(r[i][j][k])[l]
    PROVE  /\ x \in Seq(STRING) /\ IsAhead(r, pos, x, BehindPiece(r, i, j, k, l))
           /\ l \in 0..Len(Pieces(r[i][j][k])) /\ l > 0
<1>1. /\ IsPlace(r, i, j, k) /\ RestOf(TextOf(r), pos) = BehindPiece(r, i, j, k, c)
      /\ Len(Pieces(r[i][j][k])) \in Nat /\ c \in Nat
    BY ElementIsRead
<1>2. c \in 0..Len(Pieces(r[i][j][k])) - 1 /\ l \in 0..Len(Pieces(r[i][j][k])) /\ l > 0
    BY <1>1
<1>3. PICK y : y = BehindPiece(r, i, j, k, l)
    OBVIOUS
<1>4. x \in Seq(STRING) /\ y \in Seq(STRING) /\ RestOf(TextOf(r), pos) = x \o y
    BY <1>1, <1>2, <1>3, InsideElement
<1>5. IsAhead(r, pos, x, y)
    BY <1>4, Ahead
<1> QED BY <1>2, <1>3, <1>4, <1>5

\* Behind a separator that is read follows what is behind it.
LEMMA SeparatorIsNext ==
    ASSUME NEW r \in Messages, DataBegins(TextOf(r)), pos \in 1..Len(data) + 1,
           NEW i, NEW j, NEW k, NEW c, ReadsElement(r, i, j, k, c),
           c = Len(Pieces(r[i][j][k])),
           NEW b \in STRING, NEW y \in Seq(STRING), BehindElement(r, i, j, k) = <<b>> \o y
    PROVE  RestOf(TextOf(r), pos + 1) = y
<1>1. IsPlace(r, i, j, k) /\ RestOf(TextOf(r), pos) = BehindPiece(r, i, j, k, c)
    BY ElementIsRead
<1>2. RestOf(TextOf(r), pos) = <<b>> \o y
    BY <1>1, ElementIsBehind
<1>3. PICK x : x = <<b>>
    OBVIOUS
<1>4. x \in Seq(STRING) /\ Len(x) = 1
    BY <1>3, SingleType
<1>5. IsAhead(r, pos, x, y)
    BY <1>2, <1>3, <1>4, Ahead
<1> QED BY <1>4, <1>5 DEF IsAhead

-----------------------------------------------------------------------------

\* PlainText reads the next symbol of a text ...
LEMMA PlainTextReads ==
    ASSUME NEW r \in Messages, DataBegins(TextOf(r)), pos \in 1..Len(data) + 1,
           NEW i, NEW j, NEW k, NEW c, ReadsElement(r, i, j, k, c), PlainText
    PROVE  Reads(r)'
<1> DEFINE e == r[i][j][k]
           l == c + 1
<1>1. ~AtEnd /\ data[pos] \notin Special /\ deg' = WithText(<<data[pos]>>)
      /\ need_new_de' = FALSE /\ pos' = pos + 1
      /\ data' = data /\ mode' = mode /\ degs' = degs /\ segments' = segments
    BY DEF PlainText
<1>2. pos \in 1..Len(data) /\ pos \in Nat /\ Len(data) \in Nat
      /\ IsClassified(r, i, j, k, c, data[pos])
    BY <1>1, ByteIs
<1>3. c < Len(Pieces(e)) /\ e.kind = "Text" /\ e.value[l] = data[pos]
    BY <1>1, <1>2 DEF IsClassified
<1>4. e \in Readable /\ c \in Nat /\ Len(Pieces(e)) \in Nat
    BY ElementIsRead
<1>5. Pieces(e)[l] = <<data[pos]>> /\ data[pos] \in STRING
    <2>1. c \in 0..Len(Pieces(e)) - 1
        <3> HIDE DEF e
        <3> QED BY <1>3, <1>4
    <2> HIDE DEF e
    <2>2. /\ e.value[c + 1] \in STRING
          /\ e.value[c + 1] \notin Special => Pieces(e)[c + 1] = <<e.value[c + 1]>>
        BY <1>3, <1>4, <2>1, TextPiece
    <2> QED BY <1>1, <1>3, <2>2
<1>6. PICK x : x = Pieces(e)[l]
    OBVIOUS
<1>7. Len(x) = 1
    BY <1>5, <1>6, SingleType
<1>8. /\ RestOf(TextOf(r), pos + Len(x)) = BehindPiece(r, i, j, k, l)
      /\ l \in 0..Len(Pieces(e)) /\ l > 0
    <2> HIDE DEF l
    <2>1. IsAhead(r, pos, x, BehindPiece(r, i, j, k, l)) /\ l \in 0..Len(Pieces(e)) /\ l > 0
        BY <1>3, <1>6, PieceIsNext DEF l
    <2> QED BY <2>1 DEF IsAhead
<1>9. deg' = Append(SubSeq(r[i][j], 1, k - 1), Part(e, l))
    <2>1. PICK m : m = l
        OBVIOUS
    <2>2. IsTextSoFar(r, i, j, k, m, r[i][j][k].value[m])
        BY <1>3, <2>1, TextSoFar
    <2> QED BY <1>1, <1>3, <2>1, <2>2 DEF IsTextSoFar
<1>10. ReadsElement(r, i, j, k, l)'
    <2>1. IsPlace(r, i, j, k) /\ mode = "segment"
          /\ segments = SubSeq(r, 1, i - 1) /\ degs = SubSeq(r[i], 1, j - 1)
        BY DEF ReadsElement
    <2>2. l # 0
        BY <1>4
    <2> HIDE DEF l
    <2> QED BY <1>1, <1>7, <1>8, <1>9, <2>1, <2>2 DEF ReadsElement
<1>11. DataBegins(TextOf(r))' /\ pos' \in 1..Len(data') + 1
    BY <1>1, <1>2, DataStays
<1> HIDE DEF l
<1> QED BY <1>10, <1>11 DEF Reads

\* ... and Escape one that was escaped.
LEMMA EscapeReads ==
    ASSUME NEW r \in Messages, DataBegins(TextOf(r)), pos \in 1..Len(data) + 1,
           NEW i, NEW j, NEW k, NEW c, ReadsElement(r, i, j, k, c), Escape
    PROVE  Reads(r)'
<1> DEFINE e == r[i][j][k]
           l == c + 1
<1>1. ~AtEnd /\ data[pos] = "?"
    BY DEF Escape, InSegment
<1>2. pos \in 1..Len(data) /\ pos \in Nat /\ Len(data) \in Nat
      /\ IsClassified(r, i, j, k, c, data[pos])
    BY <1>1, ByteIs
<1>3. c < Len(Pieces(e)) /\ e.kind = "Text" /\ e.value[l] \in Special
    BY <1>1, <1>2 DEF IsClassified
<1>4. e \in Readable /\ c \in Nat /\ Len(Pieces(e)) \in Nat
      /\ i \in 1..Len(r) /\ Len(r) \in Nat
    BY ElementIsRead
<1>5. Pieces(e)[l] = <<"?", e.value[l]>> /\ e.value[l] \in STRING
    <2>1. c \in 0..Len(Pieces(e)) - 1
        <3> HIDE DEF e
        <3> QED BY <1>3, <1>4
    <2> HIDE DEF e
    <2>2. /\ e.value[c + 1] \in STRING
          /\ e.value[c + 1] \in Special => Pieces(e)[c + 1] = <<"?", e.value[c + 1]>>
        BY <1>3, <1>4, <2>1, TextPiece
    <2> QED BY <1>3, <2>2
<1>6. PICK x : x = Pieces(e)[l]
    OBVIOUS
<1>7. Len(x) = 2 /\ x[2] = e.value[l]
    <2>1. PICK v : v = e.value[l]
        OBVIOUS
    <2>2. x = <<"?", v>>
        BY <1>5, <1>6, <2>1
    <2> QED BY <2>1, <2>2
<1>8. /\ RestOf(TextOf(r), pos + Len(x)) = BehindPiece(r, i, j, k, l)
      /\ l \in 0..Len(Pieces(e)) /\ l > 0
      /\ pos + Len(x) <= Len(TextOf(r)) + 1 /\ Len(TextOf(r)) \in Nat
      /\ \A m \in 1..Len(x) : pos + m - 1 <= Len(data) => data[pos + m - 1] = x[m]
    <2> HIDE DEF l
    <2>1. IsAhead(r, pos, x, BehindPiece(r, i, j, k, l)) /\ l \in 0..Len(Pieces(e)) /\ l > 0
        BY <1>3, <1>6, PieceIsNext DEF l
    <2> QED BY <2>1 DEF IsAhead
<1>s. IsPlace(r, i, j, k) /\ mode = "segment"
      /\ segments = SubSeq(r, 1, i - 1) /\ degs = SubSeq(r[i], 1, j - 1)
    BY DEF ReadsElement
<1>9. CASE pos = Len(data)
    <2>1. Fail
        BY <1>9 DEF Escape
    <2>2. Len(data) < Len(TextOf(r))
        BY <1>2, <1>7, <1>8, <1>9
    <2>3. i \in 1..Len(r)
        BY <1>4
    <2>4. ReadsTorn(r)'
        BY <1>s, <2>1, <2>2, <2>3 DEF ReadsTorn, Fail
    <2>5. DataBegins(TextOf(r))' /\ pos' \in 1..Len(data') + 1
        BY <1>2, <2>1, DataStays DEF Fail
    <2> QED BY <2>4, <2>5 DEF Reads
<1>10. CASE pos # Len(data)
    <2>1. deg' = WithText(<<data[pos + 1]>>) /\ need_new_de' = FALSE /\ pos' = pos + 2
          /\ data' = data /\ mode' = mode /\ degs' = degs /\ segments' = segments
        BY <1>10 DEF Escape
    <2>2. data[pos + 1] = e.value[l]
        <3>1. 2 \in 1..Len(x) /\ pos + 2 - 1 = pos + 1 /\ pos + 2 - 1 <= Len(data)
            BY <1>2, <1>7, <1>10
        <3> QED BY <1>7, <1>8, <3>1
    <2>3. deg' = Append(SubSeq(r[i][j], 1, k - 1), Part(e, l))
        <3>1. PICK m : m = l
            OBVIOUS
        <3>2. IsTextSoFar(r, i, j, k, m, r[i][j][k].value[m])
            BY <1>3, <3>1, TextSoFar
        <3> QED BY <2>1, <2>2, <3>1, <3>2 DEF IsTextSoFar
    <2>4. ReadsElement(r, i, j, k, l)'
        <3>1. l # 0
            BY <1>4
        <3> HIDE DEF l
        <3> QED BY <1>s, <1>7, <1>8, <2>1, <2>3, <3>1 DEF ReadsElement
    <2>5. DataBegins(TextOf(r))' /\ pos' \in 1..Len(data') + 1
        BY <1>2, <1>10, <2>1, DataStays
    <2> HIDE DEF l
    <2> QED BY <2>4, <2>5 DEF Reads
<1> QED BY <1>9, <1>10

\* The length in front of a binary is read as what was written.
LEMMA NumeralIsRead ==
    ASSUME NEW n \in 0..MaxNumeral
    PROVE  IsNumeral(<<ToString(n)>>) /\ NumOf(<<ToString(n)>>) = n
<1> DEFINE w == ToString(n)
           s == <<w>>
<1>1. w \in {ToString(m) : m \in 0..MaxNumeral}
    OBVIOUS
<1>2. w \in DOMAIN NumeralOf /\ NumeralOf[w] = CHOOSE m \in 0..MaxNumeral : ToString(m) = w
    BY <1>1 DEF NumeralOf
<1>3. \A m \in 0..MaxNumeral : ToString(m) = w => m = n
    BY NumeralAssumption
<1>4. NumeralOf[w] = n
    BY <1>2, <1>3
<1> HIDE DEF w
<1>5. Len(s) = 1 /\ s[1] = w
    OBVIOUS
<1> HIDE DEF s
<1>6. IsNumeral(s)
    BY <1>2, <1>5 DEF IsNumeral
<1>7. NumOf(s) = n
    BY <1>4, <1>5, <1>6 DEF NumOf
<1> QED BY <1>6, <1>7 DEF s, w

\* BinaryElement reads the whole binary.
LEMMA BinaryReads ==
    ASSUME NEW r \in Messages, DataBegins(TextOf(r)), pos \in 1..Len(data) + 1,
           NEW i, NEW j, NEW k, NEW c, ReadsElement(r, i, j, k, c), BinaryElement
    PROVE  Reads(r)'
<1> DEFINE e == r[i][j][k]
           b == e.value
           n == Len(b)
           close == ClosingAt
           length == SubSeq(data, pos + 1, close - 1)
           Cut == close = 0 \/ ~IsNumeral(length) \/ close + NumOf(length) > Len(data)
<1>1. ~AtEnd /\ data[pos] = "@"
    BY DEF BinaryElement, InSegment
<1>2. pos \in 1..Len(data) /\ pos \in Nat /\ Len(data) \in Nat
      /\ IsClassified(r, i, j, k, c, data[pos])
    BY <1>1, ByteIs
<1>3. c = 0 /\ c < Len(Pieces(e)) /\ e.kind = "Binary"
    BY <1>1, <1>2 DEF IsClassified
<1>4. e \in Readable /\ c \in Nat /\ Len(Pieces(e)) \in Nat
      /\ i \in 1..Len(r) /\ Len(r) \in Nat
    BY ElementIsRead
<1>5. Pieces(e)[1] = SerializeBinary(b) /\ b \in Seq(STRING) /\ n <= MaxNumeral
      /\ e = Binary(b)
    <2> HIDE DEF e
    <2>1. Pieces(e)[1] = SerializeBinary(e.value)
        BY <1>3, <1>4, PiecesType
    <2>2. e.value \in Seq(STRING) /\ Len(e.value) <= MaxNumeral
        BY <1>3, <1>4, ReadableCases
    <2>3. e = Binary(e.value)
        BY <1>3, <1>4 DEF Readable, Elements, Binary
    <2> QED BY <2>1, <2>2, <2>3
<1>6. n \in 0..MaxNumeral /\ n \in Nat
    <2> HIDE DEF e
    <2> QED BY <1>5, LenProperties, NumeralAssumption
<1>7. PICK x : x = Pieces(e)[c + 1]
    OBVIOUS
<1> HIDE DEF n
<1>8. /\ Len(x) = n + 3 /\ x[1] = "@" /\ x[2] = ToString(n) /\ x[3] = "@"
      /\ \A m \in 1..n : x[m + 3] = b[m]
    <2>1. x = SerializeBinary(b)
        BY <1>3, <1>5, <1>7
    <2> HIDE DEF e, b
    <2> QED BY <1>5, <2>1, BinaryTextType DEF n
<1>9. /\ RestOf(TextOf(r), pos + Len(x)) = BehindPiece(r, i, j, k, c + 1)
      /\ c + 1 \in 0..Len(Pieces(e)) /\ c + 1 > 0
      /\ pos + Len(x) <= Len(TextOf(r)) + 1 /\ Len(TextOf(r)) \in Nat
      /\ \A m \in 1..Len(x) : pos + m - 1 <= Len(data) => data[pos + m - 1] = x[m]
    <2> DEFINE l == c + 1
    <2> HIDE DEF l
    <2>1. IsAhead(r, pos, x, BehindPiece(r, i, j, k, l)) /\ l \in 0..Len(Pieces(e)) /\ l > 0
        BY <1>3, <1>7, PieceIsNext DEF l
    <2> QED BY <2>1 DEF IsAhead, l
<1>s. IsPlace(r, i, j, k) /\ mode = "segment"
      /\ segments = SubSeq(r, 1, i - 1) /\ degs = SubSeq(r[i], 1, j - 1)
      /\ DegBefore(r[i][j], k)
    BY <1>3 DEF ReadsElement
<1>10. IF Cut THEN Fail
       ELSE /\ deg' = Append(deg, Binary(SubSeq(data, close + 1, close + NumOf(length))))
            /\ need_new_de' = FALSE
            /\ pos' = close + NumOf(length) + 1
            /\ data' = data /\ mode' = mode /\ degs' = degs /\ segments' = segments
    BY DEF BinaryElement
<1>11. /\ close \in {0, pos + 2}
       /\ close = pos + 2 => pos + 2 <= Len(data)
    <2>1. pos + 1 <= Len(data) => data[pos + 1] # "@"
        <3>1. 2 \in 1..Len(x) /\ pos + 2 - 1 = pos + 1
            BY <1>2, <1>6, <1>8
        <3>2. pos + 1 <= Len(data) => data[pos + 1] = ToString(n)
            BY <1>8, <1>9, <3>1
        <3>3. ToString(n) # "@"
            BY <1>6, NumeralType DEF Special
        <3> QED BY <3>2, <3>3
    <2>2. pos + 2 <= Len(data) => data[pos + 2] = "@"
        <3>1. 3 \in 1..Len(x) /\ pos + 3 - 1 = pos + 2
            BY <1>2, <1>6, <1>8
        <3> QED BY <1>8, <1>9, <3>1
    <2>3. close # 0 =>
             /\ close \in pos + 1..Len(data) /\ data[close] = "@"
             /\ \A m \in pos + 1..Len(data) : data[m] = "@" => close <= m
        BY <1>2, ClosingType DEF DataBegins
    <2> HIDE DEF close
    <2> SUFFICES ASSUME close # 0 PROVE close = pos + 2 /\ pos + 2 <= Len(data)
        OBVIOUS
    <2>4. close # pos + 1 /\ close > pos /\ close <= Len(data) /\ close \in Int
        BY <1>2, <2>1, <2>3
    <2>5. close >= pos + 2 /\ pos + 2 <= Len(data)
        BY <1>2, <2>4
    <2>6. pos + 2 \in pos + 1..Len(data)
        BY <1>2, <2>5
    <2>7. close <= pos + 2
        BY <2>2, <2>3, <2>5, <2>6
    <2> QED BY <1>2, <2>4, <2>5, <2>7
<1>12. close # 0 => length = <<ToString(n)>> /\ IsNumeral(length) /\ NumOf(length) = n
    <2> SUFFICES ASSUME close # 0 PROVE length = <<ToString(n)>>
        BY <1>6, NumeralIsRead
    <2>1. close = pos + 2 /\ pos + 2 <= Len(data)
        BY <1>11
    <2>2. data[pos + 1] = ToString(n)
        <3>1. 2 \in 1..Len(x) /\ pos + 2 - 1 = pos + 1 /\ pos + 1 <= Len(data)
            BY <1>2, <1>6, <1>8, <2>1
        <3> QED BY <1>8, <1>9, <3>1
    <2>3. close - 1 = pos + 1
        BY <1>2, <2>1
    <2> HIDE DEF close
    <2>4. length = SubSeq(data, pos + 1, pos + 1)
        BY <2>3
    <2>5. PICK p : p = pos + 1
        OBVIOUS
    <2>6. p \in 1..Len(data) /\ data \in Seq(STRING) /\ p + 1 > p /\ p + 1 \in Int
        BY <1>2, <2>1, <2>5 DEF DataBegins
    <2>7. SubSeq(data, p, p) = <<data[p]>> \o SubSeq(data, p + 1, p)
        BY <2>6, SubSeqRecursiveFirst
    <2>8. SubSeq(data, p + 1, p) = <<>>
        BY <2>6, SubSeqEmpty
    <2>9. <<data[p]>> \o <<>> = <<data[p]>>
        OBVIOUS
    <2> HIDE DEF length
    <2> QED BY <2>2, <2>4, <2>5, <2>7, <2>8, <2>9
<1>13. CASE Cut
    <2>1. Fail
        BY <1>10, <1>13
    <2>2. Len(data) < pos + 2 + n
        <3>1. CASE close = 0
            <4>1. ~(pos + 2 <= Len(data))
                <5> SUFFICES ASSUME pos + 2 <= Len(data) PROVE FALSE
                    OBVIOUS
                <5>1. 3 \in 1..Len(x) /\ pos + 3 - 1 = pos + 2
                    BY <1>2, <1>6, <1>8
                <5>2. data[pos + 2] = "@"
                    BY <1>8, <1>9, <5>1
                <5>3. pos + 2 \in {m \in pos + 1..Len(data) : data[m] = "@"}
                    BY <1>2, <5>2
                <5>4. ClosingAt \in {m \in pos + 1..Len(data) : data[m] = "@"} \/ TRUE
                    OBVIOUS
                <5>5. ClosingAt = CHOOSE m \in {m \in pos + 1..Len(data) : data[m] = "@"} :
                                     \A q \in {m1 \in pos + 1..Len(data) : data[m1] = "@"} : m <= q
                    BY <5>3 DEF ClosingAt
                <5> QED BY <3>1, <5>3, <5>5
            <4> QED BY <1>2, <1>6, <4>1
        <3>2. CASE close # 0
            <4>1. close = pos + 2 /\ close + n > Len(data)
                BY <1>11, <1>12, <1>13, <3>2
            <4> QED BY <1>2, <1>6, <4>1
        <3> QED BY <3>1, <3>2
    <2>3. Len(data) < Len(TextOf(r))
        BY <1>2, <1>6, <1>8, <1>9, <2>2
    <2>4. i \in 1..Len(r)
        BY <1>4
    <2>5. ReadsTorn(r)'
        BY <1>s, <2>1, <2>3, <2>4 DEF ReadsTorn, Fail
    <2>6. DataBegins(TextOf(r))' /\ pos' \in 1..Len(data') + 1
        BY <1>2, <2>1, DataStays DEF Fail
    <2> QED BY <2>5, <2>6 DEF Reads
<1>14. CASE ~Cut
    <2>1. close = pos + 2 /\ NumOf(length) = n /\ close + n <= Len(data)
        <3>1. close # 0 /\ NumOf(length) = n
            BY <1>12, <1>14
        <3>2. close = pos + 2
            BY <1>11, <3>1
        <3> HIDE DEF close, length
        <3>3. ~(close + n > Len(data))
            BY <1>14, <3>1
        <3> QED BY <1>2, <1>6, <3>1, <3>2, <3>3
    <2>2. deg' = Append(deg, Binary(SubSeq(data, close + 1, close + n)))
          /\ need_new_de' = FALSE /\ pos' = close + n + 1
          /\ data' = data /\ mode' = mode /\ degs' = degs /\ segments' = segments
        BY <1>10, <1>14, <2>1
    <2> HIDE DEF close, length
    <2>3. SubSeq(data, close + 1, close + n) = b
        <3> DEFINE d == SubSeq(data, close + 1, close + n)
        <3>1. \A m \in close + 1..close + n : data[m] \in STRING
            <4>1. \A m \in close + 1..close + n : m \in 1..Len(data)
                BY <1>2, <1>6, <2>1
            <4> QED BY <4>1, ElementOfSeq DEF DataBegins
        <3>2. close + 1 \in Int /\ close + n \in Int
            BY <1>2, <1>6, <2>1
        <3>3. /\ d \in Seq(STRING)
              /\ Len(d) = (IF close + 1 <= close + n THEN close + n - (close + 1) + 1 ELSE 0)
              /\ \A m \in 1..close + n - (close + 1) + 1 : d[m] = data[close + 1 + m - 1]
            <4>1. PICK p : p = close + 1
                OBVIOUS
            <4>2. PICK q : q = close + n
                OBVIOUS
            <4>3. p \in Int /\ q \in Int /\ \A m \in p..q : data[m] \in STRING
                BY <3>1, <3>2, <4>1, <4>2
            <4>4. /\ SubSeq(data, p, q) \in Seq(STRING)
                  /\ Len(SubSeq(data, p, q)) = (IF p <= q THEN q - p + 1 ELSE 0)
                  /\ \A m \in 1..q - p + 1 : SubSeq(data, p, q)[m] = data[p + m - 1]
                BY <4>3, SubSeqProperties
            <4>5. d = SubSeq(data, p, q)
                BY <4>1, <4>2
            <4> HIDE DEF d
            <4>6. Len(SubSeq(data, p, q)) = (IF p <= q THEN q - p + 1 ELSE 0)
                BY <4>4
            <4>7. q - p + 1 = close + n - (close + 1) + 1 /\ (p <= q <=> close + 1 <= close + n)
                BY <1>2, <1>6, <2>1, <4>1, <4>2
            <4>8. Len(d) = (IF close + 1 <= close + n THEN close + n - (close + 1) + 1 ELSE 0)
                BY <4>5, <4>6, <4>7
            <4>9. ASSUME NEW m \in 1..close + n - (close + 1) + 1
                  PROVE  d[m] = data[close + 1 + m - 1]
                <5>1. m \in 1..q - p + 1
                    BY <4>7
                <5>2. SubSeq(data, p, q)[m] = data[p + m - 1]
                    BY <4>4, <5>1
                <5> QED BY <4>1, <4>5, <5>2
            <4> QED BY <4>4, <4>5, <4>8, <4>9
        <3> HIDE DEF d
        <3>4. close + n - (close + 1) + 1 = n
            BY <1>2, <1>6, <2>1
        <3>5. Len(d) = n
            BY <1>2, <1>6, <2>1, <3>3, <3>4
        <3>6. ASSUME NEW m \in 1..n PROVE d[m] = b[m]
            <4>1. PICK q : q = m + 3
                OBVIOUS
            <4>2. q \in 1..Len(x) /\ pos + q - 1 <= Len(data) /\ pos + q - 1 = close + 1 + m - 1
                  /\ m \in Nat
                <5>1. Len(x) = n + 3 /\ m \in Nat /\ m <= n
                    BY <1>6, <1>8
                <5> QED BY <1>2, <1>6, <2>1, <4>1, <5>1
            <4>3. data[pos + q - 1] = x[q] /\ x[q] = b[m]
                BY <1>8, <1>9, <4>1, <4>2
            <4>4. d[m] = data[close + 1 + m - 1]
                BY <3>3, <3>4
            <4> QED BY <4>2, <4>3, <4>4
        <3>7. n = Len(b)
            BY DEF n
        <3> HIDE DEF b
        <3>8. d = b
            BY <1>5, <3>3, <3>5, <3>6, <3>7, SeqEqual
        <3> QED BY <3>8 DEF d
    <2>4. deg = SubSeq(r[i][j], 1, k - 1)
        <3>1. e.kind # "Empty"
            BY <1>3
        <3> QED BY <1>s, <3>1 DEF DegBefore
    <2>5. Part(e, c + 1) = e
        BY <1>3 DEF Part
    <2>6. deg' = Append(SubSeq(r[i][j], 1, k - 1), Part(e, c + 1))
        BY <1>5, <2>2, <2>3, <2>4, <2>5
    <2>7. pos' = pos + Len(x)
        BY <1>2, <1>6, <1>8, <2>1, <2>2
    <2>8. ReadsElement(r, i, j, k, c + 1)'
        <3> DEFINE l == c + 1
        <3>1. l # 0
            BY <1>4
        <3> HIDE DEF l
        <3> QED BY <1>s, <1>9, <2>2, <2>6, <2>7, <3>1 DEF ReadsElement, l
    <2>9. DataBegins(TextOf(r))' /\ pos' \in 1..Len(data') + 1
        <3>1. pos' \in 1..Len(data) + 1
            BY <1>2, <1>6, <2>1, <2>2
        <3> QED BY <2>2, <3>1, DataStays
    <2> QED BY <2>8, <2>9 DEF Reads
<1> QED BY <1>13, <1>14

\* At a separator the element is complete, and the separator is the right one.
LEMMA ElementEnds ==
    ASSUME NEW r \in Messages, DataBegins(TextOf(r)), pos \in 1..Len(data) + 1,
           NEW i, NEW j, NEW k, NEW c, ReadsElement(r, i, j, k, c),
           NEW b \in {":", "+", "'"}, InSegment(b)
    PROVE  /\ c = Len(Pieces(r[i][j][k])) /\ ~AtEnd
           /\ OrEmptyElement(deg) = SubSeq(r[i][j], 1, k)
           /\ b = ":" => k < Len(r[i][j])
           /\ b = "+" => k = Len(r[i][j]) /\ j < Len(r[i])
           /\ b = "'" => k = Len(r[i][j]) /\ j = Len(r[i])
           /\ pos \in 1..Len(data) /\ pos \in Nat /\ Len(data) \in Nat
<1>1. ~AtEnd /\ data[pos] = b
    BY DEF InSegment
<1>2. IsClassified(r, i, j, k, c, b) /\ pos \in 1..Len(data) /\ pos \in Nat
      /\ Len(data) \in Nat
    BY <1>1, ByteIs
<1>3. /\ c = Len(Pieces(r[i][j][k]))
      /\ b = ":" => k < Len(r[i][j])
      /\ b = "+" => k = Len(r[i][j]) /\ j < Len(r[i])
      /\ b = "'" => k = Len(r[i][j]) /\ j = Len(r[i])
    BY <1>2 DEF IsClassified
<1> QED BY <1>1, <1>2, <1>3, GroupSoFar

\* ElementSeparator goes on to the next element ...
LEMMA ElementSeparatorReads ==
    ASSUME NEW r \in Messages, DataBegins(TextOf(r)), pos \in 1..Len(data) + 1,
           NEW i, NEW j, NEW k, NEW c, ReadsElement(r, i, j, k, c), ElementSeparator
    PROVE  Reads(r)'
<1> DEFINE g == r[i][j]
<1>1. /\ deg' = AfterColon /\ need_new_de' = TRUE /\ pos' = pos + 1
      /\ data' = data /\ mode' = mode /\ degs' = degs /\ segments' = segments
      /\ InSegment(":")
    BY DEF ElementSeparator
<1>2. /\ c = Len(Pieces(r[i][j][k])) /\ ~AtEnd
      /\ OrEmptyElement(deg) = SubSeq(g, 1, k)
      /\ k < Len(g)
      /\ pos \in 1..Len(data) /\ pos \in Nat /\ Len(data) \in Nat
    BY <1>1, ElementEnds
<1>3. IsPlace(r, i, j, k) /\ g \in Seq(Readable) /\ k \in Nat /\ k \in 1..Len(g)
      /\ Len(g) \in Nat
    <2>1. IsPlace(r, i, j, k)
        BY DEF ReadsElement
    <2> QED BY <2>1, PlaceType
<1>4. PICK l : l = k + 1
    OBVIOUS
<1>5. IsPlace(r, i, j, l) /\ BehindElement(r, i, j, k) = <<":">> \o BehindPiece(r, i, j, l, 0)
    BY <1>2, <1>3, <1>4, NextElement
<1>6. g[l] \in Readable /\ 0 \in 0..Len(Pieces(g[l])) /\ l \in 1..Len(g)
      /\ l \in Nat
    BY <1>5, PlaceType, ElementIsBehind
<1>7. BehindPiece(r, i, j, l, 0) \in Seq(STRING)
    BY <1>5, <1>6, BehindPieceType
<1>8. RestOf(TextOf(r), pos + 1) = BehindPiece(r, i, j, l, 0)
    <2>1. PICK b : b = ":"
        OBVIOUS
    <2>2. b \in STRING
        BY <2>1, SpecialType
    <2>3. PICK y : y = BehindPiece(r, i, j, l, 0)
        OBVIOUS
    <2> QED BY <1>2, <1>5, <1>7, <2>1, <2>2, <2>3, SeparatorIsNext
<1>9. SubSeq(g, 1, l - 1) = SubSeq(g, 1, k)
      /\ SubSeq(g, 1, l) = Append(SubSeq(g, 1, k), g[l]) /\ SubSeq(g, 1, k) \in Seq(Readable)
    <2> HIDE DEF g
    <2>1. l - 1 = k
        BY <1>3, <1>4
    <2>2. SubSeq(g, 1, l) = Append(SubSeq(g, 1, l - 1), g[l])
          /\ SubSeq(g, 1, l - 1) \in Seq(Readable)
        BY <1>3, <1>6, BeginningGrows
    <2> QED BY <2>1, <2>2
<1>10. pos' \in 1..Len(data') + 1
    BY <1>1, <1>2
<1>11. ASSUME pos + 1 <= Len(data)
       PROVE  Next1(pos + 1) \in {":", "+", "'"} <=> g[l].kind = "Empty"
    <2>1. PICK p : p = pos + 1
        OBVIOUS
    <2>2. p \in 1..Len(data) + 1 /\ p <= Len(data) /\ p \in 1..Len(data)
        BY <1>2, <1>11, <2>1
    <2>3. IsClassified(r, i, j, l, 0, data[p])
        BY <1>5, <1>6, <1>8, <2>1, <2>2, ByteAhead
    <2>4. data[p] \in {":", "+", "'"} <=> 0 = Len(Pieces(g[l]))
        BY <2>3 DEF IsClassified
    <2>5. Len(Pieces(g[l])) = 0 <=> g[l].kind = "Empty"
        BY <1>6, PiecesCount
    <2>6. Next1(p) = data[p]
        <3>1. DOMAIN data = 1..Len(data)
            BY LenProperties DEF DataBegins
        <3> QED BY <2>2, <3>1 DEF Next1
    <2> QED BY <2>1, <2>4, <2>5, <2>6
<1>12. DegBefore(g, l)'
    <2> DEFINE q == SubSeq(g, 1, k)
    <2>1. q \in Seq(Readable)
        BY <1>9
    <2>2. CASE Next1(pos + 1) \in {":", "+", "'"}
        <3>1. pos + 1 <= Len(data)
            <4>1. pos + 1 \in DOMAIN data
                <5>1. Next1(pos + 1) # ""
                    BY <2>2
                <5> QED BY <5>1 DEF Next1
            <4> QED BY <1>2, <4>1, LenProperties DEF DataBegins
        <3>2. g[l].kind = "Empty" /\ g[l] = Empty
            BY <1>6, <1>11, <2>2, <3>1, ReadableCases
        <3>3. deg' = q \o <<Empty>>
            BY <1>1, <1>2, <2>2 DEF AfterColon
        <3>4. q \o <<Empty>> = Append(q, Empty)
            <4>1. Empty \in Readable
                BY <1>6, <3>2
            <4> HIDE DEF q
            <4> QED BY <2>1, <4>1, AppendIsConcat
        <3>5. l > 1
            BY <1>3, <1>4
        <3>6. deg' = SubSeq(g, 1, l)
            BY <1>9, <3>2, <3>3, <3>4
        <3> HIDE DEF g
        <3> QED BY <3>2, <3>5, <3>6 DEF DegBefore
    <2>3. CASE Next1(pos + 1) \notin {":", "+", "'"}
        <3>1. deg' = q \o <<>>
            BY <1>1, <1>2, <2>3 DEF AfterColon
        <3>2. deg' = SubSeq(g, 1, l - 1)
            <4>1. q \o <<>> = q
                BY <2>1, ConcatEmptySeq
            <4> QED BY <1>9, <3>1, <4>1
        <3>3. AtEnd' \/ g[l].kind # "Empty"
            <4>1. pos' > Len(data') <=> ~(pos + 1 <= Len(data))
                BY <1>1, <1>2
            <4> QED BY <1>11, <2>3, <4>1 DEF AtEnd
        <3> HIDE DEF g
        <3> QED BY <3>2, <3>3 DEF DegBefore
    <2> QED BY <2>2, <2>3
<1>13. ReadsElement(r, i, j, l, 0)'
    <2>1. mode = "segment" /\ segments = SubSeq(r, 1, i - 1) /\ degs = SubSeq(r[i], 1, j - 1)
        BY DEF ReadsElement
    <2> QED BY <1>1, <1>5, <1>6, <1>8, <1>12, <2>1 DEF ReadsElement
<1>14. DataBegins(TextOf(r))'
    BY <1>1, DataStays
<1> QED BY <1>10, <1>13, <1>14 DEF Reads

\* ... GroupSeparator to the next group ...
LEMMA GroupSeparatorReads ==
    ASSUME NEW r \in Messages, DataBegins(TextOf(r)), pos \in 1..Len(data) + 1,
           NEW i, NEW j, NEW k, NEW c, ReadsElement(r, i, j, k, c), GroupSeparator
    PROVE  Reads(r)'
<1> DEFINE g == r[i][j]
<1>1. /\ degs' = Append(degs, OrEmptyElement(deg)) /\ deg' = <<>>
      /\ need_new_de' = TRUE /\ pos' = pos + 1
      /\ data' = data /\ mode' = mode /\ segments' = segments
      /\ InSegment("+")
    BY DEF GroupSeparator
<1>2. /\ c = Len(Pieces(r[i][j][k])) /\ ~AtEnd
      /\ OrEmptyElement(deg) = SubSeq(g, 1, k)
      /\ k = Len(g) /\ j < Len(r[i])
      /\ pos \in 1..Len(data) /\ pos \in Nat /\ Len(data) \in Nat
    BY <1>1, ElementEnds
<1>3. IsPlace(r, i, j, k) /\ g \in Seq(Readable) /\ j \in Nat /\ j \in 1..Len(r[i])
      /\ Len(r[i]) \in Nat /\ r[i] \in Seq(Seq(Readable)) /\ i \in 1..Len(r)
    <2>1. IsPlace(r, i, j, k)
        BY DEF ReadsElement
    <2> QED BY <2>1, PlaceType
<1>4. PICK l : l = j + 1
    OBVIOUS
<1>5. IsPlace(r, i, l, 1) /\ BehindElement(r, i, j, k) = <<"+">> \o BehindPiece(r, i, l, 1, 0)
    BY <1>2, <1>3, <1>4, NextGroup
<1>6. 0 \in 0..Len(Pieces(r[i][l][1]))
    BY <1>5, ElementIsBehind
<1>7. BehindPiece(r, i, l, 1, 0) \in Seq(STRING)
    BY <1>5, <1>6, BehindPieceType
<1>8. RestOf(TextOf(r), pos + 1) = BehindPiece(r, i, l, 1, 0)
    <2>1. PICK b : b = "+"
        OBVIOUS
    <2>2. b \in STRING
        BY <2>1, SpecialType
    <2>3. PICK y : y = BehindPiece(r, i, l, 1, 0)
        OBVIOUS
    <2> QED BY <1>2, <1>5, <1>7, <2>1, <2>2, <2>3, SeparatorIsNext
<1>9. degs' = SubSeq(r[i], 1, l - 1)
    <2>1. SubSeq(r[i], 1, j) = Append(SubSeq(r[i], 1, j - 1), r[i][j])
        BY <1>3, BeginningGrows
    <2>2. SubSeq(g, 1, k) = g
        <3> HIDE DEF g
        <3> QED BY <1>2, <1>3, SubSeqFull
    <2>3. l - 1 = j
        BY <1>3, <1>4
    <2>4. degs = SubSeq(r[i], 1, j - 1)
        BY DEF ReadsElement
    <2> QED BY <1>1, <1>2, <2>1, <2>2, <2>3, <2>4
<1>10. pos' \in 1..Len(data') + 1
    BY <1>1, <1>2
<1>11. DegBefore(r[i][l], 1)'
    <2>1. PICK h : h = r[i][l]
        OBVIOUS
    <2>2. SubSeq(h, 1, 1 - 1) = <<>>
        BY BeginningNone
    <2>3. deg' = SubSeq(h, 1, 1 - 1)
        BY <1>1, <2>2
    <2> QED BY <2>1, <2>3 DEF DegBefore
<1>12. ReadsElement(r, i, l, 1, 0)'
    <2>1. mode' = "segment" /\ segments' = SubSeq(r, 1, i - 1)
        BY <1>1 DEF ReadsElement
    <2>2. RestOf(TextOf(r), pos') = BehindPiece(r, i, l, 1, 0)
        BY <1>1, <1>8
    <2> HIDE DEF g
    <2>3. need_new_de' = TRUE
        BY <1>1
    <2> QED BY <1>5, <1>6, <1>9, <1>11, <2>1, <2>2, <2>3 DEF ReadsElement
<1>13. DataBegins(TextOf(r))'
    BY <1>1, DataStays
<1> QED BY <1>10, <1>12, <1>13 DEF Reads

\* ... and SegmentEnd completes the segment.
LEMMA SegmentEndReads ==
    ASSUME NEW r \in Messages, DataBegins(TextOf(r)), pos \in 1..Len(data) + 1,
           NEW i, NEW j, NEW k, NEW c, ReadsElement(r, i, j, k, c), SegmentEnd
    PROVE  Reads(r)'
<1> DEFINE g == r[i][j]
<1>1. /\ segments' = Append(segments, Append(degs, OrEmptyElement(deg)))
      /\ deg' = <<>> /\ degs' = <<>> /\ mode' = "between" /\ pos' = pos + 1
      /\ data' = data /\ InSegment("'")
    BY DEF SegmentEnd
<1>2. /\ c = Len(Pieces(r[i][j][k])) /\ ~AtEnd
      /\ OrEmptyElement(deg) = SubSeq(g, 1, k)
      /\ k = Len(g) /\ j = Len(r[i])
      /\ pos \in 1..Len(data) /\ pos \in Nat /\ Len(data) \in Nat
    BY <1>1, ElementEnds
<1>3. IsPlace(r, i, j, k) /\ g \in Seq(Readable) /\ j \in Nat /\ j \in 1..Len(r[i])
      /\ Len(r[i]) \in Nat /\ r[i] \in Seq(Seq(Readable)) /\ i \in 1..Len(r) /\ Len(r) \in Nat
    <2>1. IsPlace(r, i, j, k)
        BY DEF ReadsElement
    <2> QED BY <2>1, PlaceType
<1>4. i \in 0..Len(r) /\ r \in Seq(Seq(Seq(Readable)))
    BY <1>3 DEF Messages
<1>5. BehindElement(r, i, j, k) = <<"'">> \o BehindSegment(r, i)
    BY <1>2, <1>3, SegmentEnds
<1>6. BehindSegment(r, i) \in Seq(STRING)
    BY <1>4, BehindSegmentType
<1>7. RestOf(TextOf(r), pos + 1) = BehindSegment(r, i)
    <2>1. PICK b : b = "'"
        OBVIOUS
    <2>2. b \in STRING
        BY <2>1, SpecialType
    <2>3. PICK y : y = BehindSegment(r, i)
        OBVIOUS
    <2> QED BY <1>2, <1>5, <1>6, <2>1, <2>2, <2>3, SeparatorIsNext
<1>8. Append(degs, OrEmptyElement(deg)) = r[i]
    <2>1. SubSeq(r[i], 1, j) = Append(SubSeq(r[i], 1, j - 1), r[i][j])
        BY <1>3, BeginningGrows
    <2>2. SubSeq(g, 1, k) = g
        <3> HIDE DEF g
        <3> QED BY <1>2, <1>3, SubSeqFull
    <2>3. degs = SubSeq(r[i], 1, j - 1)
        BY DEF ReadsElement
    <2>4. SubSeq(r[i], 1, j) = r[i]
        BY <1>2, <1>3, SubSeqFull
    <2> QED BY <1>2, <2>1, <2>2, <2>3, <2>4
<1>9. segments' = SubSeq(r, 1, i)
    <2>1. segments = SubSeq(r, 1, i - 1)
        BY DEF ReadsElement
    <2>2. SubSeq(r, 1, i) = Append(SubSeq(r, 1, i - 1), r[i])
        BY <1>3, <1>4, BeginningGrows
    <2> QED BY <1>1, <1>8, <2>1, <2>2
<1>10. pos' \in 1..Len(data') + 1
    BY <1>1, <1>2
<1>11. ReadsBetween(r, i)'
    BY <1>1, <1>4, <1>7, <1>9 DEF ReadsBetween
<1>12. DataBegins(TextOf(r))'
    BY <1>1, DataStays
<1> QED BY <1>10, <1>11, <1>12 DEF Reads

\* A segment that is cut has its first element, or the beginning of it.
LEMMA UnterminatedIsTorn ==
    ASSUME NEW r \in Messages, NEW i, NEW j, NEW k, NEW c, ReadsElement(r, i, j, k, c),
           NEW x, x = IF deg = <<>> THEN degs ELSE Append(degs, deg)
    PROVE  TornOf(x, r[i])
<1>1. /\ r[i] \in Seq(Seq(Readable)) /\ j \in 1..Len(r[i]) /\ Len(r[i]) \in Nat
      /\ r[i][j] \in Seq(Readable) /\ k \in 1..Len(r[i][j]) /\ Len(r[i][j]) \in Nat
      /\ c \in 0..Len(Pieces(r[i][j][k])) /\ Len(Pieces(r[i][j][k])) \in Nat
    BY ElementIsRead
<1>2. PICK b : b = SubSeq(r[i], 1, j - 1)
    OBVIOUS
<1>3. degs = b
    BY <1>2 DEF ReadsElement
<1>4. j - 1 \in 0..Len(r[i])
    BY <1>1
<1>5. b \in Seq(Seq(Readable)) /\ Len(b) = j - 1 /\ \A m \in 1..j - 1 : b[m] = r[i][m]
    BY <1>1, <1>2, <1>4, Beginning
<1>6. CASE j > 1
    <2>1. 1 \in 1..Len(b) /\ b[1] = r[i][1]
        BY <1>1, <1>5, <1>6
    <2>2. x[1] = b[1]
        BY <1>3, <1>5, <2>1
    <2> QED BY <2>1, <2>2 DEF TornOf
<1>7. CASE j = 1 /\ deg = <<>>
    <2>1. b = <<>>
        BY <1>5, <1>7, EmptySeq
    <2> QED BY <1>3, <1>7, <2>1 DEF TornOf, HasNoHole
<1>8. CASE j = 1 /\ deg # <<>>
    <2>1. b = <<>>
        BY <1>5, <1>8, EmptySeq
    <2>2. x = <<deg>>
        BY <1>3, <1>8, <2>1
    <2>3. x[1][1] = deg[1]
        BY <2>2
    <2>4. PICK g : g = r[i][1]
        OBVIOUS
    <2>5. g \in Seq(Readable) /\ k \in 1..Len(g) /\ Len(g) \in Nat /\ k - 1 \in 0..Len(g)
          /\ k \in 0..Len(g)
        BY <1>1, <1>8, <2>4
    <2>6. PICK a, f : a = SubSeq(g, 1, k - 1) /\ f = SubSeq(g, 1, k)
        OBVIOUS
    <2>7. a \in Seq(Readable) /\ Len(a) = k - 1 /\ \A m \in 1..k - 1 : a[m] = g[m]
        BY <2>5, <2>6, Beginning
    <2>8. f \in Seq(Readable) /\ Len(f) = k /\ \A m \in 1..k : f[m] = g[m]
        BY <2>5, <2>6, Beginning
    <2>9. CASE c = 0
        <3>1. deg = a \/ deg = f
            BY <1>8, <2>4, <2>6, <2>9 DEF ReadsElement, DegBefore
        <3>2. deg[1] = g[1]
            <4>1. CASE deg = f
                BY <2>5, <2>8, <4>1
            <4>2. CASE deg = a
                <5>1. Len(a) # 0
                    BY <1>8, <2>7, <4>2, EmptySeq
                <5> QED BY <2>5, <2>7, <4>2, <5>1
            <4> QED BY <3>1, <4>1, <4>2
        <3> QED BY <2>3, <2>4, <3>2 DEF TornOf
    <2>10. CASE c > 0
        <3>1. deg = Append(a, Part(g[k], c))
            BY <1>8, <2>4, <2>6, <2>10 DEF ReadsElement
        <3>2. CASE k = 1
            <4>1. a = <<>>
                BY <2>7, <3>2, EmptySeq
            <4>2. PICK p : p = Part(g[k], c)
                OBVIOUS
            <4>3. deg[1] = p
                BY <3>1, <4>1, <4>2
            <4>4. c \in 1..Len(Pieces(g[1]))
                BY <1>1, <1>8, <2>4, <2>10, <3>2
            <4> QED BY <2>3, <2>4, <3>2, <4>2, <4>3, <4>4 DEF TornOf
        <3>3. CASE k > 1
            <4>1. 1 \in 1..Len(a) /\ a[1] = g[1]
                BY <2>5, <2>7, <3>3
            <4>2. PICK p : p = Part(g[k], c)
                OBVIOUS
            <4>3. Append(a, p)[1] = a[1]
                BY <2>7, <4>1
            <4> QED BY <2>3, <2>4, <3>1, <4>1, <4>2, <4>3 DEF TornOf
        <3> QED BY <2>5, <3>2, <3>3
    <2> QED BY <1>1, <2>9, <2>10
<1> QED BY <1>1, <1>6, <1>7, <1>8

\* Unterminated takes a segment that is cut for a segment.
LEMMA UnterminatedReads ==
    ASSUME NEW r \in Messages, DataBegins(TextOf(r)), pos \in 1..Len(data) + 1,
           NEW i, NEW j, NEW k, NEW c, ReadsElement(r, i, j, k, c), Unterminated
    PROVE  Reads(r)'
<1>1. /\ segments' = Append(segments, IF deg = <<>> THEN degs ELSE Append(degs, deg))
      /\ mode' = "between" /\ data' = data /\ pos' = pos /\ AtEnd
    BY DEF Unterminated
<1>2. Len(data) < Len(TextOf(r))
    BY <1>1, TornIsCut
<1>3. i \in 1..Len(r) /\ Len(r) \in Nat
    BY ElementIsRead
<1>5. segments = SubSeq(r, 1, i - 1)
    BY DEF ReadsElement
<1>6. ReadsTorn(r)'
    <2>1. AtEnd'
        BY <1>1 DEF AtEnd
    <2>2. Len(data') < Len(TextOf(r))
        BY <1>1, <1>2
    <2>3. PICK x : x = IF deg = <<>> THEN degs ELSE Append(degs, deg)
        OBVIOUS
    <2>4. segments' = Append(SubSeq(r, 1, i - 1), x)
        BY <1>1, <1>5, <2>3
    <2>5. TornOf(x, r[i])
        BY <2>3, UnterminatedIsTorn
    <2> QED BY <1>1, <1>3, <2>1, <2>2, <2>4, <2>5 DEF ReadsTorn
<1>7. DataBegins(TextOf(r))' /\ pos' \in 1..Len(data') + 1
    BY <1>1, DataStays
<1> QED BY <1>6, <1>7 DEF Reads

-----------------------------------------------------------------------------

\* Between segments the next byte begins a segment, and is no blank.
LEMMA BetweenByte ==
    ASSUME NEW r \in Messages, DataBegins(TextOf(r)), pos \in 1..Len(data) + 1, ~AtEnd,
           NEW i, ReadsBetween(r, i)
    PROVE  /\ i + 1 \in 1..Len(r) /\ i \in Nat
           /\ IsPlace(r, i + 1, 1, 1)
           /\ RestOf(TextOf(r), pos) = BehindPiece(r, i + 1, 1, 1, 0)
           /\ data[pos] # Blank
<1>1. i \in 0..Len(r) /\ RestOf(TextOf(r), pos) = BehindSegment(r, i) /\ Len(r) \in Nat
      /\ TextOf(r) \in Seq(STRING) /\ BehindSegment(r, Len(r)) = <<>>
    BY MessageText DEF ReadsBetween
<1>2. Len(data) \in Nat /\ Len(TextOf(r)) \in Nat /\ Len(data) <= Len(TextOf(r))
    BY <1>1, LenProperties DEF DataBegins
<1>3. pos \in 1..Len(data) /\ pos <= Len(data) /\ pos \in 1..Len(TextOf(r)) + 1
    BY <1>2 DEF AtEnd
<1>4. i # Len(r)
    <2> SUFFICES ASSUME i = Len(r) PROVE FALSE
        OBVIOUS
    <2>1. RestOf(TextOf(r), pos) = <<>>
        BY <1>1
    <2>2. PICK t : t = TextOf(r)
        OBVIOUS
    <2>3. pos = Len(t) + 1
        BY <1>1, <1>3, <2>1, <2>2, RestEnds
    <2> QED BY <1>2, <1>3, <2>2, <2>3
<1>5. i \in 0..Len(r) - 1 /\ i \in Nat /\ i + 1 \in 1..Len(r)
    BY <1>1, <1>4
<1>6. PICK l : l = i + 1
    OBVIOUS
<1>7. IsPlace(r, l, 1, 1) /\ RestOf(TextOf(r), pos) = BehindPiece(r, l, 1, 1, 0)
    <2>1. IsPlace(r, i + 1, 1, 1) /\ BehindSegment(r, i) = BehindPiece(r, i + 1, 1, 1, 0)
        BY <1>5, NextSegment
    <2> QED BY <1>1, <1>6, <2>1
<1>8. 0 \in 0..Len(Pieces(r[l][1][1]))
    BY <1>7, ElementIsBehind
<1>9. IsClassified(r, l, 1, 1, 0, data[pos])
    BY <1>3, <1>7, <1>8, ByteAhead
<1>10. data[pos] # Blank
    <2>1. ~BeginsBlank(r[l]) /\ r[l][1][1] \in Readable
        BY <1>5, <1>6, <1>7, MessageAt, PlaceType
    <2>2. r[l][1][1].kind = "Text" /\ r[l][1][1].value[1] # Blank
        BY <2>1 DEF BeginsBlank
    <2>3. Blank \notin Special
        BY DEF Blank, Special
    <2>4. data[pos] \notin Special => r[l][1][1].value[0 + 1] = data[pos]
        BY <1>9 DEF IsClassified
    <2>5. 0 + 1 = 1
        OBVIOUS
    <2> QED BY <2>2, <2>3, <2>4, <2>5
<1> QED BY <1>5, <1>6, <1>7, <1>10

\* StartSegment begins the next segment.
LEMMA StartSegmentReads ==
    ASSUME NEW r \in Messages, DataBegins(TextOf(r)), pos \in 1..Len(data) + 1,
           NEW i, ReadsBetween(r, i), StartSegment
    PROVE  Reads(r)'
<1>1. /\ ~AtEnd /\ mode' = "segment" /\ need_new_de' = TRUE /\ deg' = <<>> /\ degs' = <<>>
      /\ data' = data /\ pos' = pos /\ segments' = segments
    BY DEF StartSegment
<1>2. PICK l : l = i + 1
    OBVIOUS
<1>3. l \in 1..Len(r) /\ i \in Nat /\ IsPlace(r, l, 1, 1)
      /\ RestOf(TextOf(r), pos) = BehindPiece(r, l, 1, 1, 0)
    BY <1>1, <1>2, BetweenByte
<1>4. 0 \in 0..Len(Pieces(r[l][1][1]))
    BY <1>3, ElementIsBehind
<1>5. segments' = SubSeq(r, 1, l - 1)
    <2>1. l - 1 = i
        BY <1>2, <1>3
    <2> QED BY <1>1, <2>1 DEF ReadsBetween
<1>6. DegBefore(r[l][1], 1)' /\ degs' = SubSeq(r[l], 1, 1 - 1)
    <2>1. PICK h : h = r[l][1]
        OBVIOUS
    <2>2. SubSeq(h, 1, 1 - 1) = <<>> /\ SubSeq(r[l], 1, 1 - 1) = <<>>
        BY BeginningNone
    <2>3. deg' = SubSeq(h, 1, 1 - 1)
        BY <1>1, <2>2
    <2> QED BY <1>1, <2>1, <2>2, <2>3 DEF DegBefore
<1>7. ReadsElement(r, l, 1, 1, 0)'
    BY <1>1, <1>3, <1>4, <1>5, <1>6 DEF ReadsElement
<1>8. DataBegins(TextOf(r))' /\ pos' \in 1..Len(data') + 1
    BY <1>1, DataStays
<1> QED BY <1>7, <1>8 DEF Reads

-----------------------------------------------------------------------------

\* The steps that stay on a level.
ParserStep ==
    \/ SkipBlank \/ StartSegment
    \/ Escape \/ BinaryElement \/ ElementSeparator \/ GroupSeparator \/ SegmentEnd
    \/ PlainText \/ Unterminated

\* Every step of the parser on one level reads on in the message.
LEMMA StepReads ==
    ASSUME NEW r \in Messages, Reads(r), ParserStep
    PROVE  Reads(r)'
<1>1. DataBegins(TextOf(r)) /\ pos \in 1..Len(data) + 1
    BY DEF Reads
<1>2. ASSUME NEW i, NEW j, NEW k, NEW c, ReadsElement(r, i, j, k, c)
      PROVE  Reads(r)'
    <2>1. mode = "segment"
        BY <1>2 DEF ReadsElement
    <2>2. CASE Escape
        BY <1>1, <1>2, <2>2, EscapeReads
    <2>3. CASE BinaryElement
        BY <1>1, <1>2, <2>3, BinaryReads
    <2>4. CASE ElementSeparator
        BY <1>1, <1>2, <2>4, ElementSeparatorReads
    <2>5. CASE GroupSeparator
        BY <1>1, <1>2, <2>5, GroupSeparatorReads
    <2>6. CASE SegmentEnd
        BY <1>1, <1>2, <2>6, SegmentEndReads
    <2>7. CASE PlainText
        BY <1>1, <1>2, <2>7, PlainTextReads
    <2>8. CASE Unterminated
        BY <1>1, <1>2, <2>8, UnterminatedReads
    <2>9. ~SkipBlank /\ ~StartSegment
        BY <2>1 DEF SkipBlank, StartSegment
    <2> QED BY <2>2, <2>3, <2>4, <2>5, <2>6, <2>7, <2>8, <2>9 DEF ParserStep
<1>3. ASSUME mode = "between" PROVE SkipBlank \/ StartSegment
    BY <1>3 DEF ParserStep, Escape, BinaryElement, ElementSeparator, GroupSeparator, SegmentEnd,
        PlainText, Unterminated, InSegment
<1>4. ASSUME NEW i, ReadsBetween(r, i)
      PROVE  Reads(r)'
    <2>1. SkipBlank \/ StartSegment
        BY <1>3, <1>4 DEF ReadsBetween
    <2>2. ~SkipBlank
        BY <1>1, <1>4, BetweenByte DEF SkipBlank
    <2> QED BY <1>1, <1>4, <2>1, <2>2, StartSegmentReads
<1>5. ASSUME ReadsTorn(r)
      PROVE  FALSE
    <2>1. mode = "error" \/ (mode = "between" /\ AtEnd)
        BY <1>5 DEF ReadsTorn
    <2> QED BY <2>1 DEF ParserStep, Escape, BinaryElement, ElementSeparator, GroupSeparator,
        SegmentEnd, PlainText, Unterminated, InSegment, SkipBlank, StartSegment
<1> QED BY <1>2, <1>4, <1>5 DEF Reads

\* The parser reads from the beginning.
LEMMA ReadingBegins ==
    ASSUME NEW r \in Messages, DataBegins(TextOf(r))', pos' = 1, mode' = "between",
           deg' = <<>>, degs' = <<>>, segments' = <<>>
    PROVE  Reads(r)'
<1>1. TextOf(r) \in Seq(STRING) /\ BehindSegment(r, 0) = TextOf(r) /\ Len(r) \in Nat
    BY MessageText
<1>2. pos' \in 1..Len(data') + 1 /\ 0 \in 0..Len(r)
    BY <1>1, LenProperties DEF DataBegins
<1>3. RestOf(TextOf(r), 1) = TextOf(r)
    BY <1>1, RestIsAll
<1>4. SubSeq(r, 1, 0) = <<>>
    BY BeginningNone
<1>5. ReadsBetween(r, 0)'
    BY <1>1, <1>2, <1>3, <1>4 DEF ReadsBetween
<1> QED BY <1>2, <1>5 DEF Reads

\* Whole, it is read to its end.
LEMMA ReadingEnds ==
    ASSUME NEW r \in Messages, Reads(r), Len(data) = Len(TextOf(r))
    PROVE  /\ mode \in {"between", "segment"}
           /\ mode = "between" /\ AtEnd => segments = r
<1>1. TextOf(r) \in Seq(STRING) /\ Len(r) \in Nat /\ Len(TextOf(r)) \in Nat
    BY MessageText, LenProperties
<1>2. ~ReadsTorn(r)
    BY <1>1 DEF ReadsTorn
<1>3. ASSUME NEW i, ReadsBetween(r, i), AtEnd
      PROVE  segments = r
    <2>1. i \in 0..Len(r) /\ RestOf(TextOf(r), pos) = BehindSegment(r, i)
          /\ segments = SubSeq(r, 1, i)
        BY <1>3 DEF ReadsBetween
    <2>2. pos = Len(TextOf(r)) + 1
        BY <1>1, <1>3 DEF AtEnd, Reads
    <2>3. i = Len(r)
        <3> SUFFICES ASSUME i # Len(r) PROVE FALSE
            OBVIOUS
        <3>1. i \in 0..Len(r) - 1
            BY <1>1, <2>1
        <3>2. PICK l : l = i + 1
            OBVIOUS
        <3>3. IsPlace(r, l, 1, 1) /\ RestOf(TextOf(r), pos) = BehindPiece(r, l, 1, 1, 0)
            <4>1. IsPlace(r, i + 1, 1, 1) /\ BehindSegment(r, i) = BehindPiece(r, i + 1, 1, 1, 0)
                BY <3>1, NextSegment
            <4> QED BY <2>1, <3>2, <4>1
        <3>4. 0 \in 0..Len(Pieces(r[l][1][1]))
            BY <3>3, ElementIsBehind
        <3>5. pos <= Len(TextOf(r))
            <4>1. DataBegins(TextOf(r)) /\ pos \in 1..Len(data) + 1
                BY DEF Reads
            <4> QED BY <3>3, <3>4, <4>1, ByteAhead
        <3> QED BY <1>1, <2>2, <3>5
    <2>4. r \in Seq(Seq(Seq(Readable)))
        BY DEF Messages
    <2> QED BY <2>1, <2>3, <2>4, SubSeqFull
<1>4. mode \in {"between", "segment"}
    BY <1>2 DEF Reads, ReadsElement, ReadsBetween
<1>5. ASSUME mode = "between", AtEnd PROVE segments = r
    <2>1. PICK i : ReadsBetween(r, i)
        BY <1>2, <1>5 DEF Reads, ReadsElement
    <2> QED BY <1>3, <1>5, <2>1
<1> QED BY <1>4, <1>5

\* All but the last of what is read is in the message, in its place.
LEMMA ReadingIsBeginning ==
    ASSUME NEW r \in Messages, Reads(r)
    PROVE  /\ mode # "done"
           /\ \A i \in 1..Len(segments) - 1 : i \in 1..Len(r) /\ segments[i] = r[i]
<1>1. r \in Seq(Seq(Seq(Readable))) /\ Len(r) \in Nat
    BY LenProperties DEF Messages
<1>2. ASSUME NEW n \in 0..Len(r), segments = SubSeq(r, 1, n)
      PROVE  \A i \in 1..Len(segments) - 1 : i \in 1..Len(r) /\ segments[i] = r[i]
    BY <1>1, <1>2, Beginning
<1>3. ASSUME NEW n \in 0..Len(r), NEW x, segments = Append(SubSeq(r, 1, n), x)
      PROVE  \A i \in 1..Len(segments) - 1 : i \in 1..Len(r) /\ segments[i] = r[i]
    <2> DEFINE b == SubSeq(r, 1, n)
    <2>1. /\ b \in Seq(Seq(Seq(Readable))) /\ Len(b) = n
          /\ \A i \in 1..n : b[i] = r[i]
        BY <1>1, Beginning
    <2>2. segments = Append(b, x)
        BY <1>3
    <2> HIDE DEF b
    <2>3. Len(Append(b, x)) = Len(b) + 1 /\ \A i \in 1..Len(b) : Append(b, x)[i] = b[i]
        BY <2>1
    <2> QED BY <1>1, <2>1, <2>2, <2>3
<1>4. CASE \E i, j, k, c : ReadsElement(r, i, j, k, c)
    <2>1. PICK i, j, k, c : ReadsElement(r, i, j, k, c)
        BY <1>4
    <2>2. i \in 1..Len(r) /\ mode = "segment" /\ segments = SubSeq(r, 1, i - 1)
        BY <2>1, ElementIsRead DEF ReadsElement
    <2>3. i - 1 \in 0..Len(r)
        BY <1>1, <2>2
    <2> QED BY <1>2, <2>2, <2>3
<1>5. CASE \E i : ReadsBetween(r, i)
    BY <1>2, <1>5 DEF ReadsBetween
<1>6. CASE ReadsTorn(r)
    <2>1. PICK i \in 1..Len(r) :
             segments = SubSeq(r, 1, i - 1) \/ \E x : segments = Append(SubSeq(r, 1, i - 1), x)
        BY <1>6 DEF ReadsTorn
    <2>2. i - 1 \in 0..Len(r)
        BY <1>1, <2>1
    <2>3. mode # "done"
        BY <1>6 DEF ReadsTorn
    <2> QED BY <1>2, <1>3, <2>1, <2>2, <2>3
<1> QED BY <1>4, <1>5, <1>6 DEF Reads
=============================================================================
