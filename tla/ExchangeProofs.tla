---------------------------- MODULE ExchangeProofs ----------------------------
(***************************************************************************)
(* Theorems about MessageExchange: for every context, every list of orders *)
(* and every bank a request is read as it was built, its parts agree with  *)
(* each other and its orders fit the bank; and of a request that is cut    *)
(* off nothing is read that was not sent, and the audit reports it.        *)
(*                                                                         *)
(* What is written is the text of a message, as MessageProofs has them:    *)
(* ExchangeInv says how far the parser has read in that text.              *)
(***************************************************************************)
EXTENDS MessageProofs, MessageExchange

-----------------------------------------------------------------------------
(* What is written, and how it is read.                                    *)

\* A set of numbers that is not empty has a greatest.
LEMMA Greatest ==
    ASSUME NEW n \in Nat, NEW S \in SUBSET (1..n), S # {}
    PROVE  LET m == CHOOSE i \in S : \A j \in S : j <= i
           IN  m \in S /\ \A j \in S : j <= m
<1> DEFINE P == {k \in Nat : \A X \in SUBSET (1..k) : X # {} => \E m \in X : \A j \in X : j <= m}
<1>1. 0 \in P
    <2>1. 1..0 = {}
        OBVIOUS
    <2>2. \A X \in SUBSET (1..0) : X = {}
        BY <2>1
    <2> QED BY <2>2
<1>2. ASSUME NEW k \in Nat, k \in P PROVE k + 1 \in P
    <2> SUFFICES ASSUME NEW X \in SUBSET (1..k + 1), X # {}
                 PROVE  \E m \in X : \A j \in X : j <= m
        OBVIOUS
    <2>1. CASE k + 1 \in X
        BY <2>1
    <2>2. CASE k + 1 \notin X
        <3>1. X \in SUBSET (1..k)
            BY <2>2
        <3> QED BY <1>2, <3>1
    <2> QED BY <2>1, <2>2
<1> HIDE DEF P
<1>3. n \in P
    BY <1>1, <1>2, SetInduction
<1>4. \E m \in S : \A j \in S : j <= m
    BY <1>3 DEF P
<1> QED BY <1>4

Sendable ==
    {e \in Elements : /\ e.kind = "Empty" => e = Empty
                      /\ e.kind = "Binary" => Len(e.value) <= MaxNumeral}
HasHeader(seg) ==
    /\ seg # <<>> /\ seg[1] # <<>> /\ seg[1][1].kind = "Text"
    /\ seg[1][1].value # <<>> /\ seg[1][1].value[1] # Blank
Writable == {segs \in Seq(Seq(Seq(Sendable))) : \A i \in 1..Len(segs) : HasHeader(segs[i])}

ElementAsRead(e) == IF e = Text(<<>>) THEN Empty ELSE e

\* An element is written like the one that is read.
LEMMA ElementIsSent ==
    ASSUME NEW e \in Sendable
    PROVE  /\ ElementAsRead(e) \in Readable
           /\ SerializeDe(ElementAsRead(e)) = SerializeDe(e)
           /\ ElementAsRead(e).value = e.value
           /\ e.value \in Seq(STRING)
           /\ IsEmpty(e) => e = Empty
<1>1. CASE e = Text(<<>>)
    <2>1. e.kind = "Text" /\ e.value = <<>>
        BY <1>1 DEF Text
    <2>2. SerializeDe(e) = EscapeText(<<>>)
        BY <2>1 DEF SerializeDe
    <2>3. EscapeText(<<>>) = <<>>
        <3>1. EscapePieces(<<>>) = <<>>
            BY DEF EscapePieces
        <3>2. EscapeText(<<>>) = FlattenSeq(EscapePieces(<<>>))
            BY DEF EscapeText, EscapePieces
        <3> QED BY <3>1, <3>2, FlattenEmpty
    <2>4. SerializeDe(Empty) = <<>> /\ Empty.value = <<>> /\ Empty \in Readable
        BY EmptySeq DEF SerializeDe, Empty, Readable, Elements
    <2>5. ElementAsRead(e) = Empty
        BY <1>1 DEF ElementAsRead
    <2> QED BY <2>1, <2>2, <2>3, <2>4, <2>5, EmptySeq DEF IsEmpty
<1>2. CASE e # Text(<<>>)
    <2>1. ElementAsRead(e) = e
        BY <1>2 DEF ElementAsRead
    <2>2. e.kind = "Text" => e.value # <<>>
        BY <1>2 DEF Sendable, Elements, Text
    <2> QED BY <2>1, <2>2 DEF Sendable, Readable, Elements, IsEmpty
<1> QED BY <1>1, <1>2

\* A group without what trails empty.
EndsAt(d, n) ==
    /\ n \in 0..Len(d)
    /\ n > 0 => ~IsEmpty(d[n])
    /\ \A m \in n + 1..Len(d) : IsEmpty(d[m])
TrimmedDeg(d) == TrimEnd(d, LAMBDA de : ~IsEmpty(de))

\* TrimEnd leaves the elements up to the last that is not empty.
LEMMA DegTrimmed ==
    ASSUME NEW d \in Seq(Sendable)
    PROVE  \E n : EndsAt(d, n) /\ TrimmedDeg(d) = SubSeq(d, 1, n)
<1> DEFINE kept == {i \in DOMAIN d : ~IsEmpty(d[i])}
<1>1. DOMAIN d = 1..Len(d) /\ Len(d) \in Nat
    BY LenProperties
<1>2. TrimmedDeg(d) = IF kept = {} THEN <<>>
                      ELSE SubSeq(d, 1, CHOOSE i \in kept : \A j \in kept : j <= i)
    BY DEF TrimmedDeg, TrimEnd
<1>3. CASE kept = {}
    <2>1. \A m \in 0 + 1..Len(d) : IsEmpty(d[m])
        BY <1>1, <1>3
    <2>2. SubSeq(d, 1, 0) = <<>>
        BY BeginningNone
    <2>3. EndsAt(d, 0)
        BY <1>1, <2>1 DEF EndsAt
    <2> QED BY <1>2, <1>3, <2>2, <2>3
<1>4. CASE kept # {}
    <2>1. kept \in SUBSET (1..Len(d))
        BY <1>1
    <2> DEFINE n == CHOOSE i \in kept : \A j \in kept : j <= i
    <2>2. n \in kept /\ \A j \in kept : j <= n
        <3> HIDE DEF kept
        <3> QED BY <1>1, <1>4, <2>1, Greatest
    <2>3. TrimmedDeg(d) = SubSeq(d, 1, n)
        BY <1>2, <1>4
    <2> HIDE DEF n
    <2>4. EndsAt(d, n)
        BY <1>1, <2>2 DEF EndsAt
    <2> QED BY <2>3, <2>4
<1> QED BY <1>3, <1>4

\* A group is written like the one that is read.
LEMMA DegIsSent ==
    ASSUME NEW d \in Seq(Sendable)
    PROVE  /\ DegAsRead(d) \in Seq(Readable) /\ DegAsRead(d) # <<>>
           /\ Joined(":", ElementTexts(DegAsRead(d))) = SerializeDeg(d)
<1>1. PICK n : EndsAt(d, n) /\ TrimmedDeg(d) = SubSeq(d, 1, n)
    BY DegTrimmed
<1> DEFINE t == TrimmedDeg(d)
           f == [i \in DOMAIN t |-> IF t[i] = Text(<<>>) THEN Empty ELSE t[i]]
           g == [i \in DOMAIN t |-> SerializeDe(t[i])]
<1>2. t \in Seq(Sendable)
    BY <1>1, Beginning DEF EndsAt
<1>3. DegAsRead(d) = OrEmptyElement(f) /\ SerializeDeg(d) = Joined(":", g)
    BY DEF DegAsRead, SerializeDeg, TrimmedDeg
<1> HIDE DEF t
<1>4. DOMAIN t = 1..Len(t) /\ Len(t) \in Nat
    BY <1>2, LenProperties
<1>5. \A i \in 1..Len(t) : /\ t[i] \in Sendable /\ f[i] = ElementAsRead(t[i])
                           /\ f[i] \in Readable /\ SerializeDe(f[i]) = SerializeDe(t[i])
    <2> SUFFICES ASSUME NEW i \in 1..Len(t)
                 PROVE  /\ t[i] \in Sendable /\ f[i] = ElementAsRead(t[i])
                        /\ f[i] \in Readable /\ SerializeDe(f[i]) = SerializeDe(t[i])
        OBVIOUS
    <2>1. t[i] \in Sendable
        BY <1>2, ElementOfSeq
    <2>2. f[i] = ElementAsRead(t[i])
        BY <1>4 DEF ElementAsRead
    <2> QED BY <2>1, <2>2, ElementIsSent
<1>6. f \in Seq(Readable) /\ Len(f) = Len(t) /\ DOMAIN f = 1..Len(t)
    <2>1. DOMAIN f = 1..Len(t)
        BY <1>4
    <2>2. f = [i \in 1..Len(t) |-> f[i]]
        BY <2>1
    <2>3. \A i \in 1..Len(t) : f[i] \in Readable
        BY <1>5
    <2> HIDE DEF f
    <2> QED BY <1>4, <2>1, <2>2, <2>3
<1>7. g = ElementTexts(f)
    <2>1. \A i \in 1..Len(t) : g[i] = SerializeDe(f[i])
        BY <1>4, <1>5
    <2>2. DOMAIN g = 1..Len(t)
        BY <1>4
    <2>3. g = [i \in 1..Len(t) |-> SerializeDe(f[i])]
        <3>1. g = [i \in 1..Len(t) |-> SerializeDe(t[i])]
            BY <1>4
        <3> HIDE DEF f, g
        <3> QED BY <1>5, <3>1
    <2> HIDE DEF f, g
    <2> QED BY <1>6, <2>3 DEF ElementTexts
<1> HIDE DEF f, g
<1>8. CASE f # <<>>
    <2>1. DegAsRead(d) = f
        BY <1>3, <1>8 DEF OrEmptyElement
    <2> QED BY <1>3, <1>6, <1>7, <1>8, <2>1
<1>9. CASE f = <<>>
    <2>1. DegAsRead(d) = <<Empty>>
        BY <1>3, <1>9 DEF OrEmptyElement
    <2>2. Empty \in Readable /\ SerializeDe(Empty) = <<>>
        BY EmptySeq DEF Empty, Readable, Elements, SerializeDe
    <2>3. <<Empty>> \in Seq(Readable) /\ <<Empty>> # <<>>
        <3>1. PICK e \in Readable : e = Empty
            BY <2>2
        <3>2. <<e>> \in Seq(Readable) /\ Len(<<e>>) = 1
            BY SingleType
        <3> QED BY <3>1, <3>2
    <2>4. ElementTexts(<<Empty>>) = << <<>> >>
        BY <2>2 DEF ElementTexts
    <2>5. Joined(":", << <<>> >>) = <<>>
        <3> DEFINE x == <<>>
        <3>1. JoinPieces(":", <<x>>) = <<x>>
            BY DEF JoinPieces
        <3>2. Joined(":", <<x>>) = FlattenSeq(JoinPieces(":", <<x>>))
            BY DEF Joined, JoinPieces
        <3>3. x \in Seq(STRING)
            BY EmptySeq
        <3> HIDE DEF x
        <3>4. FlattenSeq(<<x>>) = x
            BY <3>3, FlattenOne
        <3> QED BY <3>1, <3>2, <3>4 DEF x
    <2>6. ElementTexts(<<>>) = <<>>
        BY DEF ElementTexts
    <2>7. Joined(":", <<>>) = <<>>
        <3>1. JoinPieces(":", <<>>) = <<>>
            BY DEF JoinPieces
        <3>2. Joined(":", <<>>) = FlattenSeq(JoinPieces(":", <<>>))
            BY DEF Joined, JoinPieces
        <3> QED BY <3>1, <3>2, FlattenEmpty
    <2> QED BY <1>3, <1>7, <1>9, <2>1, <2>3, <2>4, <2>5, <2>6, <2>7
<1> QED BY <1>8, <1>9

\* A segment without the groups that trail empty.
SegEndsAt(seg, n) ==
    /\ n \in 1..Len(seg) /\ ~DegIsEmpty(seg[n])
    /\ \A m \in n + 1..Len(seg) : DegIsEmpty(seg[m])
TrimmedSegment(seg) == TrimEnd(seg, LAMBDA d : ~DegIsEmpty(d))

\* TrimEnd leaves the groups up to the last that is not empty.
LEMMA SegmentTrimmed ==
    ASSUME NEW seg \in Seq(Seq(Sendable)), HasHeader(seg)
    PROVE  \E n : SegEndsAt(seg, n) /\ TrimmedSegment(seg) = SubSeq(seg, 1, n)
<1> DEFINE kept == {i \in DOMAIN seg : ~DegIsEmpty(seg[i])}
<1>1. DOMAIN seg = 1..Len(seg) /\ Len(seg) \in Nat
    BY LenProperties
<1>2. TrimmedSegment(seg) = IF kept = {} THEN <<>>
                      ELSE SubSeq(seg, 1, CHOOSE i \in kept : \A j \in kept : j <= i)
    BY DEF TrimmedSegment, TrimEnd
<1>3. 1 \in kept
    <2>1. 1 \in 1..Len(seg)
        BY <1>1, EmptySeq DEF HasHeader
    <2>2. seg[1] \in Seq(Sendable)
        BY <2>1, ElementOfSeq
    <2>3. 1 \in DOMAIN seg[1]
        <3>1. seg[1] # <<>>
            BY DEF HasHeader
        <3> HIDE DEF kept
        <3> QED BY <2>2, <3>1, LenProperties, EmptySeq
    <2>4. ~IsEmpty(seg[1][1])
        BY DEF HasHeader, IsEmpty
    <2>5. ~DegIsEmpty(seg[1])
        BY <2>3, <2>4 DEF DegIsEmpty
    <2> QED BY <1>1, <2>1, <2>5
<1>4. kept \in SUBSET (1..Len(seg)) /\ kept # {}
    BY <1>1, <1>3
<1> DEFINE n == CHOOSE i \in kept : \A j \in kept : j <= i
<1>5. n \in kept /\ \A j \in kept : j <= n
    <2> HIDE DEF kept
    <2> QED BY <1>1, <1>4, Greatest
<1>6. TrimmedSegment(seg) = SubSeq(seg, 1, n)
    BY <1>2, <1>4
<1> HIDE DEF n
<1>7. SegEndsAt(seg, n)
    <2>1. n \in 1..Len(seg) /\ ~DegIsEmpty(seg[n])
        BY <1>1, <1>5
    <2>2. ASSUME NEW m \in n + 1..Len(seg) PROVE DegIsEmpty(seg[m])
        <3>1. m \in DOMAIN seg /\ ~(m <= n)
            BY <1>1, <2>1
        <3>2. m \notin kept
            BY <1>5, <3>1
        <3> QED BY <3>1, <3>2
    <2> HIDE DEF kept
    <2> QED BY <2>1, <2>2 DEF SegEndsAt
<1> QED BY <1>6, <1>7

\* A segment is read group for group.
LEMMA SegmentRead ==
    ASSUME NEW seg \in Seq(Seq(Sendable)), NEW n, SegEndsAt(seg, n),
           TrimmedSegment(seg) = SubSeq(seg, 1, n)
    PROVE  /\ SegmentAsRead(seg) \in Seq(Seq(Readable)) /\ Len(SegmentAsRead(seg)) = n
           /\ n \in Nat
           /\ \A j \in 1..n : j \in 1..Len(seg) /\ SegmentAsRead(seg)[j] = DegAsRead(seg[j])
           /\ SerializeSegment(seg) = SegmentText(SegmentAsRead(seg))
<1> DEFINE t == TrimmedSegment(seg)
           f == [i \in DOMAIN t |-> DegAsRead(t[i])]
           g == [i \in DOMAIN t |-> SerializeDeg(t[i])]
<1>1. /\ SegmentAsRead(seg) = IF t = <<>> THEN <<<<Empty>>>> ELSE f
      /\ SerializeSegment(seg) = Append(Joined("+", g), "'")
    BY DEF SegmentAsRead, SerializeSegment, TrimmedSegment
<1>2. n \in Nat /\ n > 0 /\ n \in 0..Len(seg) /\ Len(seg) \in Nat
    BY LenProperties DEF SegEndsAt
<1>3. t \in Seq(Seq(Sendable)) /\ Len(t) = n /\ \A j \in 1..n : t[j] = seg[j]
    BY <1>2, Beginning
<1> HIDE DEF t
<1>4. DOMAIN t = 1..n /\ t # <<>>
    BY <1>2, <1>3, LenProperties, EmptySeq
<1>5. \A i \in 1..n : /\ t[i] \in Seq(Sendable) /\ f[i] = DegAsRead(t[i])
                      /\ f[i] \in Seq(Readable)
                      /\ Joined(":", ElementTexts(f[i])) = g[i]
    <2> SUFFICES ASSUME NEW i \in 1..n
                 PROVE  /\ t[i] \in Seq(Sendable) /\ f[i] = DegAsRead(t[i])
                        /\ f[i] \in Seq(Readable)
                        /\ Joined(":", ElementTexts(f[i])) = g[i]
        OBVIOUS
    <2>1. t[i] \in Seq(Sendable)
        BY <1>3, ElementOfSeq
    <2>2. f[i] = DegAsRead(t[i]) /\ g[i] = SerializeDeg(t[i])
        BY <1>4
    <2> HIDE DEF f, g
    <2>3. DegAsRead(t[i]) \in Seq(Readable)
          /\ Joined(":", ElementTexts(DegAsRead(t[i]))) = SerializeDeg(t[i])
        BY <2>1, DegIsSent
    <2> QED BY <2>1, <2>2, <2>3
<1>6. f \in Seq(Seq(Readable)) /\ Len(f) = n /\ DOMAIN f = 1..n
    <2>1. DOMAIN f = 1..n
        BY <1>4
    <2>2. f = [i \in 1..n |-> f[i]]
        BY <2>1
    <2>3. \A i \in 1..n : f[i] \in Seq(Readable)
        BY <1>5
    <2> HIDE DEF f
    <2> QED BY <1>2, <2>1, <2>2, <2>3
<1>7. g = GroupTexts(f)
    <2>1. g = [i \in 1..n |-> g[i]]
        BY <1>4
    <2> HIDE DEF f, g
    <2>2. GroupTexts(f) = [i \in 1..n |-> Joined(":", ElementTexts(f[i]))]
        BY <1>6 DEF GroupTexts
    <2> QED BY <1>5, <2>1, <2>2
<1>8. \A j \in 1..n : j \in 1..Len(seg) /\ f[j] = DegAsRead(seg[j])
    BY <1>2, <1>3, <1>5
<1> HIDE DEF f, g
<1>9. SegmentAsRead(seg) = f
    BY <1>1, <1>4
<1>10. SerializeSegment(seg) = SegmentText(f)
    BY <1>1, <1>7 DEF SegmentText
<1> QED BY <1>2, <1>6, <1>8, <1>9, <1>10

\* The first element of a group that is not empty is read as it is.
LEMMA FirstElementRead ==
    ASSUME NEW d \in Seq(Sendable), d # <<>>, d[1].kind # "Empty", d[1] # Text(<<>>)
    PROVE  DegAsRead(d)[1] = d[1] /\ 1 \in DOMAIN DegAsRead(d)
<1>1. PICK n : EndsAt(d, n) /\ TrimmedDeg(d) = SubSeq(d, 1, n)
    BY DegTrimmed
<1>2. Len(d) \in Nat /\ 1 \in 1..Len(d)
    BY LenProperties, EmptySeq
<1>3. n \in 1..Len(d)
    <2>1. ~IsEmpty(d[1])
        BY DEF IsEmpty
    <2> QED BY <1>1, <1>2, <2>1 DEF EndsAt
<1> DEFINE t == TrimmedDeg(d)
           f == [i \in DOMAIN t |-> IF t[i] = Text(<<>>) THEN Empty ELSE t[i]]
<1>4. t \in Seq(Sendable) /\ Len(t) = n /\ \A m \in 1..n : t[m] = d[m]
    BY <1>1, <1>3, Beginning DEF EndsAt
<1>5. DegAsRead(d) = OrEmptyElement(f)
    BY DEF DegAsRead, TrimmedDeg
<1> HIDE DEF t
<1>6. 1 \in DOMAIN t /\ t[1] = d[1]
    BY <1>2, <1>3, <1>4, LenProperties
<1>8. f[1] = d[1] /\ 1 \in DOMAIN f
    BY <1>6
<1> HIDE DEF f
<1>9. f # <<>>
    BY <1>8
<1> QED BY <1>5, <1>8, <1>9 DEF OrEmptyElement

\* A segment is written like the one that is read, which has the same type.
LEMMA SegmentIsSent ==
    ASSUME NEW seg \in Seq(Seq(Sendable)), HasHeader(seg)
    PROVE  /\ SegmentAsRead(seg) \in Seq(Seq(Readable))
           /\ HasNoHole(SegmentAsRead(seg)) /\ ~BeginsBlank(SegmentAsRead(seg))
           /\ SerializeSegment(seg) = SegmentText(SegmentAsRead(seg))
           /\ SegmentAsRead(seg)[1][1] = seg[1][1]
<1>1. PICK n : SegEndsAt(seg, n) /\ TrimmedSegment(seg) = SubSeq(seg, 1, n)
    BY SegmentTrimmed
<1> DEFINE f == SegmentAsRead(seg)
<1>2. /\ f \in Seq(Seq(Readable)) /\ Len(f) = n /\ n \in Nat
      /\ \A j \in 1..n : j \in 1..Len(seg) /\ f[j] = DegAsRead(seg[j])
      /\ SerializeSegment(seg) = SegmentText(f)
    BY <1>1, SegmentRead
<1> HIDE DEF f
<1>3. 1 \in 1..n /\ DOMAIN f = 1..n /\ f # <<>>
    <2>1. Len(seg) \in Nat
        BY LenProperties
    <2>2. n >= 1
        BY <1>1, <1>2, <2>1 DEF SegEndsAt
    <2> QED BY <1>2, <2>2, LenProperties, EmptySeq
<1>4. \A j \in 1..n : f[j] # <<>>
    <2> SUFFICES ASSUME NEW j \in 1..n PROVE f[j] # <<>>
        OBVIOUS
    <2>1. j \in 1..Len(seg) /\ f[j] = DegAsRead(seg[j])
        BY <1>2
    <2>2. seg[j] \in Seq(Sendable)
        BY <2>1, ElementOfSeq
    <2> QED BY <2>1, <2>2, DegIsSent
<1>5. f[1][1] = seg[1][1]
    <2>1. 1 \in 1..Len(seg) /\ f[1] = DegAsRead(seg[1])
        BY <1>2, <1>3
    <2>2. seg[1] \in Seq(Sendable)
        BY <2>1, ElementOfSeq
    <2>3. seg[1] # <<>> /\ seg[1][1].kind # "Empty" /\ seg[1][1] # Text(<<>>)
        BY DEF HasHeader, Text
    <2> QED BY <2>1, <2>2, <2>3, FirstElementRead
<1>6. HasNoHole(f)
    BY <1>3, <1>4 DEF HasNoHole
<1>7. ~BeginsBlank(f)
    BY <1>5 DEF BeginsBlank, HasHeader
<1> QED BY <1>2, <1>5, <1>6, <1>7 DEF f

\* What is written is the text of what is read.
LEMMA MessageIsSent ==
    ASSUME NEW segs \in Writable
    PROVE  /\ AsRead(segs) \in Messages /\ SerializeMessage(segs) = TextOf(AsRead(segs))
           /\ Len(AsRead(segs)) = Len(segs)
           /\ \A i \in 1..Len(segs) : AsRead(segs)[i] = SegmentAsRead(segs[i])
<1>1. DOMAIN segs = 1..Len(segs) /\ Len(segs) \in Nat /\ segs \in Seq(Seq(Seq(Sendable)))
    BY LenProperties DEF Writable
<1> DEFINE r == AsRead(segs)
<1>2. r = [i \in 1..Len(segs) |-> SegmentAsRead(segs[i])]
    BY <1>1 DEF AsRead
<1>3. \A i \in 1..Len(segs) :
         /\ r[i] = SegmentAsRead(segs[i]) /\ r[i] \in Seq(Seq(Readable))
         /\ HasNoHole(r[i]) /\ ~BeginsBlank(r[i])
         /\ SerializeSegment(segs[i]) = SegmentText(r[i])
    <2> SUFFICES ASSUME NEW i \in 1..Len(segs)
                 PROVE  /\ r[i] = SegmentAsRead(segs[i]) /\ r[i] \in Seq(Seq(Readable))
                        /\ HasNoHole(r[i]) /\ ~BeginsBlank(r[i])
                        /\ SerializeSegment(segs[i]) = SegmentText(r[i])
        OBVIOUS
    <2>1. segs[i] \in Seq(Seq(Sendable)) /\ HasHeader(segs[i])
        BY <1>1, ElementOfSeq DEF Writable
    <2>2. r[i] = SegmentAsRead(segs[i])
        BY <1>2
    <2> HIDE DEF r
    <2> QED BY <2>1, <2>2, SegmentIsSent
<1> HIDE DEF r
<1>4. r \in Seq(Seq(Seq(Readable))) /\ Len(r) = Len(segs) /\ DOMAIN r = 1..Len(segs)
    <2>1. r = [i \in 1..Len(segs) |-> r[i]]
        BY <1>2
    <2> QED BY <1>1, <1>3, <2>1
<1>5. r \in Messages
    BY <1>3, <1>4 DEF Messages
<1>6. SerializeMessage(segs) = TextOf(r)
    <2>1. SerializeMessage(segs) = FlattenSeq([i \in 1..Len(segs) |-> SerializeSegment(segs[i])])
        BY <1>1 DEF SerializeMessage
    <2>2. SegmentTexts(r) = [i \in 1..Len(segs) |-> SegmentText(r[i])]
        BY <1>4 DEF SegmentTexts
    <2>3. [i \in 1..Len(segs) |-> SerializeSegment(segs[i])]
             = [i \in 1..Len(segs) |-> SegmentText(r[i])]
        BY <1>3
    <2> QED BY Zenon, <2>1, <2>2, <2>3 DEF TextOf
<1> QED BY <1>3, <1>4, <1>5, <1>6 DEF r

\* An element of a segment has the same text when it is read.
LEMMA GroupValue ==
    ASSUME NEW d \in Seq(Sendable), NEW k \in Nat
    PROVE  /\ Get(DegAsRead(d), k) = Get(d, k)
           /\ DegIsEmpty(d) => Get(d, k) = <<>>
<1>1. PICK n : EndsAt(d, n) /\ TrimmedDeg(d) = SubSeq(d, 1, n)
    BY DegTrimmed
<1> DEFINE t == TrimmedDeg(d)
           f == [i \in DOMAIN t |-> IF t[i] = Text(<<>>) THEN Empty ELSE t[i]]
<1>2. t \in Seq(Sendable) /\ Len(t) = n /\ \A m \in 1..n : t[m] = d[m]
    BY <1>1, Beginning DEF EndsAt
<1>3. DegAsRead(d) = OrEmptyElement(f)
    BY DEF DegAsRead, TrimmedDeg
<1> HIDE DEF t
<1>4. DOMAIN d = 1..Len(d) /\ Len(d) \in Nat /\ DOMAIN t = 1..n /\ n \in 0..Len(d) /\ n \in Nat
    <2>1. Len(d) \in Nat /\ DOMAIN d = 1..Len(d) /\ DOMAIN t = 1..n
        BY <1>2, LenProperties
    <2> QED BY <1>1, <2>1 DEF EndsAt
<1>5. DOMAIN f = 1..n /\ \A i \in 1..n : f[i] = ElementAsRead(t[i])
    BY <1>4 DEF ElementAsRead
<1> HIDE DEF f
<1>6. PICK m : m = k + 1
    OBVIOUS
<1>7. m \in Nat /\ m >= 1
    BY <1>6
<1>8. \A i \in 1..Len(d) : d[i] \in Sendable
    BY ElementOfSeq
<1>9. ASSUME m \in 1..Len(d), IsEmpty(d[m]) PROVE Get(d, k) = <<>>
    <2>1. d[m] = Empty
        BY <1>8, <1>9, ElementIsSent
    <2> QED BY <1>4, <1>6, <1>9, <2>1 DEF Get, DeAt, Empty
<1>10. ASSUME m \notin 1..Len(d) PROVE Get(d, k) = <<>>
    BY <1>4, <1>6, <1>10 DEF Get, DeAt, Empty
<1>11. CASE m \in 1..n
    <2>1. m \in 1..Len(d) /\ t[m] = d[m] /\ f[m] = ElementAsRead(d[m]) /\ f # <<>>
        BY <1>2, <1>4, <1>5, <1>7, <1>11
    <2>2. DegAsRead(d) = f
        BY <1>3, <2>1 DEF OrEmptyElement
    <2>3. Get(DegAsRead(d), k) = f[m].value
        BY <1>5, <1>6, <1>11, <2>2 DEF Get, DeAt
    <2>4. Get(d, k) = d[m].value
        BY <1>4, <1>6, <2>1 DEF Get, DeAt
    <2>5. f[m].value = d[m].value
        BY <1>8, <2>1, ElementIsSent
    <2>6. Get(DegAsRead(d), k) = Get(d, k)
        BY <2>3, <2>4, <2>5
    <2>7. DegIsEmpty(d) => Get(d, k) = <<>>
        BY <1>4, <1>9, <2>1 DEF DegIsEmpty
    <2> QED BY <2>6, <2>7
<1>12. CASE m \notin 1..n
    <2>1. Get(DegAsRead(d), k) = <<>>
        <3>1. CASE f = <<>>
            <4>1. DegAsRead(d) = <<Empty>>
                BY <1>3, <3>1 DEF OrEmptyElement
            <4> QED BY <4>1 DEF Get, DeAt, Empty
        <3>2. CASE f # <<>>
            <4>1. DegAsRead(d) = f
                BY <1>3, <3>2 DEF OrEmptyElement
            <4> QED BY <1>5, <1>6, <1>12, <4>1 DEF Get, DeAt, Empty
        <3> QED BY <3>1, <3>2
    <2>2. Get(d, k) = <<>>
        <3>1. CASE m \in 1..Len(d)
            <4>1. m \in n + 1..Len(d)
                BY <1>4, <1>7, <1>12, <3>1
            <4>2. IsEmpty(d[m])
                BY <1>1, <4>1 DEF EndsAt
            <4> QED BY <1>9, <3>1, <4>2
        <3> QED BY <1>10, <3>1
    <2> QED BY <2>1, <2>2
<1> QED BY <1>11, <1>12

\* In a segment that is read every element has the text that was written.
LEMMA SameValue ==
    ASSUME NEW seg \in Seq(Seq(Sendable)), HasHeader(seg), NEW i \in Nat, NEW k \in Nat
    PROVE  Get(DegAt(SegmentAsRead(seg), i), k) = Get(DegAt(seg, i), k)
<1>1. PICK n : SegEndsAt(seg, n) /\ TrimmedSegment(seg) = SubSeq(seg, 1, n)
    BY SegmentTrimmed
<1> DEFINE f == SegmentAsRead(seg)
<1>2. /\ f \in Seq(Seq(Readable)) /\ Len(f) = n /\ n \in Nat
      /\ \A j \in 1..n : j \in 1..Len(seg) /\ f[j] = DegAsRead(seg[j])
    BY <1>1, SegmentRead
<1> HIDE DEF f
<1>3. DOMAIN f = 1..n /\ DOMAIN seg = 1..Len(seg) /\ Len(seg) \in Nat
    BY <1>2, LenProperties
<1>4. PICK m : m = i + 1
    OBVIOUS
<1>5. m \in Nat /\ m >= 1
    BY <1>4
<1>6. CASE m \in 1..n
    <2>1. DegAt(f, i) = f[m] /\ DegAt(seg, i) = seg[m]
        BY <1>2, <1>3, <1>4, <1>6 DEF DegAt
    <2>2. f[m] = DegAsRead(seg[m]) /\ seg[m] \in Seq(Sendable)
        BY <1>2, <1>6, ElementOfSeq
    <2>3. Get(DegAsRead(seg[m]), k) = Get(seg[m], k)
        BY <2>2, GroupValue
    <2> QED BY <2>1, <2>2, <2>3 DEF f
<1>7. CASE m \notin 1..n
    <2>1. DegAt(f, i) = <<>>
        BY <1>3, <1>4, <1>7 DEF DegAt
    <2>2. Get(<<>>, k) = <<>>
        <3>1. k + 1 \notin DOMAIN <<>>
            OBVIOUS
        <3> QED BY <3>1 DEF Get, DeAt, Empty
    <2>3. Get(DegAt(seg, i), k) = <<>>
        <3>1. CASE m \in 1..Len(seg)
            <4>1. m \in n + 1..Len(seg)
                BY <1>2, <1>3, <1>5, <1>7, <3>1
            <4>2. DegIsEmpty(seg[m]) /\ seg[m] \in Seq(Sendable)
                BY <1>1, <3>1, <4>1, ElementOfSeq DEF SegEndsAt
            <4>3. Get(seg[m], k) = <<>>
                BY <4>2, GroupValue
            <4>4. DegAt(seg, i) = seg[m]
                BY <1>3, <1>4, <3>1 DEF DegAt
            <4> QED BY <4>3, <4>4
        <3>2. CASE m \notin 1..Len(seg)
            <4>1. DegAt(seg, i) = <<>>
                BY <1>3, <1>4, <3>2 DEF DegAt
            <4> QED BY <2>2, <4>1
        <3> QED BY <3>1, <3>2
    <2> QED BY <2>1, <2>2, <2>3 DEF f
<1> QED BY <1>6, <1>7

-----------------------------------------------------------------------------
(* The types of what the client builds.                                    *)

\* Short tuples are sequences ...
LEMMA Tuples ==
    ASSUME NEW S, NEW a \in S, NEW b \in S, NEW c \in S, NEW d \in S, NEW e \in S, NEW f \in S
    PROVE  /\ <<a>> \in Seq(S) /\ <<a, b>> \in Seq(S) /\ <<a, b, c>> \in Seq(S)
           /\ <<a, b, c, d>> \in Seq(S) /\ <<a, b, c, d, e>> \in Seq(S)
           /\ <<a, b, c, d, e, f>> \in Seq(S) /\ <<>> \in Seq(S)
OBVIOUS

\* ... and longer ones.
LEMMA Tuples12 ==
    ASSUME NEW S, NEW a \in S, NEW b \in S, NEW c \in S, NEW d \in S, NEW e \in S, NEW f \in S,
           NEW g \in S, NEW h \in S, NEW i \in S, NEW j \in S, NEW k \in S, NEW l \in S
    PROVE  /\ <<a, b, c, d, e, f, g, h, i>> \in Seq(S)
           /\ <<a, b, c, d, e, f, g, h, i, j, k, l>> \in Seq(S)
OBVIOUS

IsSegment(seg) == seg \in Seq(Seq(Sendable)) /\ HasHeader(seg) /\ Len(seg[1]) = 3
IsHeader(h) ==
    h \in Seq(Sendable) /\ h # <<>> /\ h[1].kind = "Text" /\ h[1].value # <<>>
    /\ h[1].value[1] # Blank /\ Len(h) = 3

\* What the builder writes can be sent: words ...
LEMMA WordType ==
    ASSUME NEW w \in STRING
    PROVE  Word(w) \in Sendable /\ One(w) \in Seq(Sendable)
<1>1. Word(w) \in Sendable
    BY SingleType DEF Word, Text, Sendable, Elements
<1> QED BY <1>1, SingleType DEF One

\* ... texts ...
LEMMA TextIsSendable ==
    ASSUME NEW s \in Texts
    PROVE  Text(s) \in Sendable /\ DeText(s) \in Sendable /\ OneText(s) \in Seq(Sendable)
<1>1. Text(s) \in Sendable /\ Empty \in Sendable
    BY EmptySeq DEF Text, Empty, Sendable, Elements, Texts
<1>2. DeText(s) \in Sendable
    BY <1>1 DEF DeText
<1> QED BY <1>1, <1>2, SingleType DEF OneText

\* ... nothing ...
LEMMA NothingType == Empty \in Sendable /\ Nothing \in Seq(Sendable)
<1>1. Empty \in Sendable
    BY EmptySeq DEF Empty, Sendable, Elements
<1> QED BY <1>1, SingleType DEF Nothing

\* ... numbers ...
LEMMA NumberType ==
    ASSUME NEW n \in Numerals
    PROVE  Number(n) \in Sendable /\ <<Number(n)>> \in Seq(Sendable)
<1>1. ToString(n) \in STRING
    BY NumeralType DEF Numerals
<1>2. Number(n) \in Sendable
    BY <1>1, WordType DEF Number
<1> QED BY <1>2, SingleType

\* ... and binaries that are not too long.
LEMMA BinaryType ==
    ASSUME NEW b \in Texts, Len(b) <= MaxNumeral
    PROVE  Binary(b) \in Sendable /\ <<Binary(b)>> \in Seq(Sendable)
<1>1. Binary(b) \in Sendable
    BY DEF Binary, Sendable, Elements, Texts
<1> QED BY <1>1, SingleType

\* The numbers the builder writes itself.
LEMMA SmallNumbers ==
    0 \in Numerals /\ 1 \in Numerals /\ 2 \in Numerals /\ 3 \in Numerals /\ 4 \in Numerals
    /\ 5 \in Numerals /\ 7 \in Numerals
    /\ 100 \in Numerals /\ 998 \in Numerals /\ 999 \in Numerals
BY NumeralAssumption DEF Numerals

\* A header of a segment is one.
LEMMA HeaderType ==
    ASSUME NEW type \in STRING, type # Blank, NEW n \in Numerals, NEW v \in Numerals
    PROVE  IsHeader(SegHeader(type, n, v)) /\ SegHeader(type, n, v)[1] = Word(type)
           /\ SegHeader(type, n, v) \in Seq(Sendable)
<1> DEFINE h == SegHeader(type, n, v)
<1>1. Word(type) \in Sendable /\ Number(n) \in Sendable /\ Number(v) \in Sendable
    BY WordType, NumberType
<1>2. h = <<Word(type), Number(n), Number(v)>>
    BY DEF SegHeader
<1>3. h \in Seq(Sendable)
    BY <1>1, <1>2, Tuples
<1>4. h[1] = Word(type) /\ h # <<>> /\ Len(h) = 3
    BY <1>2
<1>5. Word(type).kind = "Text" /\ Word(type).value = <<type>>
    BY DEF Word, Text
<1> HIDE DEF h
<1>6. IsHeader(h)
    BY <1>3, <1>4, <1>5 DEF IsHeader
<1> QED BY <1>3, <1>4, <1>6 DEF h

\* A header and what follows.
LEMMA SegmentOf ==
    ASSUME NEW h, IsHeader(h), NEW gs \in Seq(Seq(Sendable))
    PROVE  IsSegment(<<h>> \o gs)
<1>1. h \in Seq(Sendable)
    BY DEF IsHeader
<1> DEFINE s == <<h>> \o gs
<1>2. <<h>> \in Seq(Seq(Sendable)) /\ Len(<<h>>) = 1 /\ <<h>>[1] = h
    BY <1>1, SingleType
<1>3. s \in Seq(Seq(Sendable)) /\ s[1] = h /\ Len(s) = 1 + Len(gs) /\ Len(gs) \in Nat
    BY <1>2, ConcatProperties, LenProperties
<1> HIDE DEF s
<1>4. s # <<>>
    BY <1>3, EmptySeq, LenProperties
<1> QED BY <1>3, <1>4 DEF IsSegment, HasHeader, IsHeader, s

\* What begins with a header is a segment.
LEMMA SegmentOfTuple ==
    ASSUME NEW h, IsHeader(h), NEW s \in Seq(Seq(Sendable)), s[1] = h, s # <<>>
    PROVE  IsSegment(s)
BY DEF IsSegment, HasHeader, IsHeader

-----------------------------------------------------------------------------
(* The segments of the caller.                                             *)

\* HKIDN is a segment ...
LEMMA HkidnType ==
    ASSUME NEW blz \in Texts, NEW user \in Texts, NEW system \in Texts,
           NEW seg, seg.blz = blz, seg.user = user, seg.system = system
    PROVE  IsSegment(Hkidn(seg))
<1>1. PICK h : h = SegHeader("HKIDN", 0, 2)
    OBVIOUS
<1>2. IsHeader(h) /\ h \in Seq(Sendable)
    BY <1>1, BuilderWords, SmallNumbers, HeaderType DEF Blank
<1>3. PICK a \in Seq(Sendable) : a = <<Word("280"), DeText(seg.blz)>>
    <2>1. Word("280") \in Sendable /\ DeText(blz) \in Sendable
        BY BuilderWords, WordType, TextIsSendable
    <2> QED BY <2>1, Tuples
<1>4. PICK b \in Seq(Sendable), c \in Seq(Sendable), d \in Seq(Sendable) :
         b = OneText(seg.user) /\ c = OneText(seg.system) /\ d = One("1")
    BY BuilderWords, WordType, TextIsSendable
<1>5. Hkidn(seg) = <<h, a, b, c, d>>
    BY <1>1, <1>3, <1>4 DEF Hkidn
<1>6. <<h, a, b, c, d>> \in Seq(Seq(Sendable))
    BY <1>2, Tuples
<1> QED BY <1>2, <1>5, <1>6, SegmentOfTuple

\* ... as is HKVVB ...
LEMMA HkvvbType ==
    ASSUME NEW bpd \in Numerals, NEW upd \in Numerals, NEW product \in Texts,
           NEW seg, seg.bpd = bpd, seg.upd = upd, seg.product = product
    PROVE  IsSegment(Hkvvb(seg))
<1>1. PICK h : h = SegHeader("HKVVB", 0, 3)
    OBVIOUS
<1>2. IsHeader(h) /\ h \in Seq(Sendable)
    BY <1>1, BuilderWords, SmallNumbers, HeaderType DEF Blank
<1>3. PICK a \in Seq(Sendable), b \in Seq(Sendable) :
         a = <<Number(seg.bpd)>> /\ b = <<Number(seg.upd)>>
    BY NumberType
<1>4. PICK c \in Seq(Sendable), d \in Seq(Sendable), e \in Seq(Sendable) :
         c = One("1") /\ d = OneText(seg.product) /\ e = One("1.0")
    BY BuilderWords, WordType, TextIsSendable
<1>5. Hkvvb(seg) = <<h, a, b, c, d, e>>
    BY <1>1, <1>3, <1>4 DEF Hkvvb
<1>6. <<h, a, b, c, d, e>> \in Seq(Seq(Sendable))
    BY <1>2, Tuples
<1> QED BY <1>2, <1>5, <1>6, SegmentOfTuple

\* A header with one group or none.
LEMMA ShortSegments ==
    ASSUME NEW type \in STRING, type # Blank, NEW v \in Numerals, NEW a \in Seq(Sendable)
    PROVE  IsSegment(<<SegHeader(type, 0, v)>>) /\ IsSegment(<<SegHeader(type, 0, v), a>>)
<1>1. PICK h : h = SegHeader(type, 0, v)
    OBVIOUS
<1>2. IsHeader(h) /\ h \in Seq(Sendable)
    BY <1>1, SmallNumbers, HeaderType
<1>3. <<h>> \in Seq(Seq(Sendable)) /\ <<h, a>> \in Seq(Seq(Sendable))
    BY <1>2, Tuples
<1>4. IsSegment(<<h>>)
    BY <1>2, <1>3, SegmentOfTuple
<1>5. IsSegment(<<h, a>>)
    BY <1>2, <1>3, SegmentOfTuple
<1> QED BY <1>1, <1>4, <1>5

\* Groups follow groups.
LEMMA GroupsConcat ==
    ASSUME NEW x \in Seq(Seq(Sendable)), NEW y \in Seq(Seq(Sendable))
    PROVE  x \o y \in Seq(Seq(Sendable))
BY ConcatProperties

\* What begins a sequence begins it still when more follows.
LEMMA StartOfConcat ==
    ASSUME NEW s \in Seq(Seq(Sendable)), Len(s) >= 2, NEW t \in Seq(Seq(Sendable)),
           NEW u, u = s \o t
    PROVE  u[1] = s[1] /\ Len(u) >= 2
<1>1. Len(s) \in Nat /\ Len(t) \in Nat /\ 1 \in 1..Len(s)
    BY LenProperties
<1>2. (s \o t)[1] = s[1] /\ Len(s \o t) = Len(s) + Len(t)
    BY <1>1, ConcatProperties
<1> QED BY <1>1, <1>2

\* ... and HKTAN, whatever its version and its process.
LEMMA HktanType ==
    ASSUME NEW params \in BankParameters, NEW seg, seg.process \in STRING,
           seg.for \in STRING, seg.task \in Texts, seg.medium \in Texts
    PROVE  /\ IsSegment(Hktan(seg, params))
           /\ Hktan(seg, params)[1] = SegHeader("HKTAN", 0, params.hktan)
<1> DEFINE version == params.hktan
           tan == TanFields(seg, version)
           rest == TanMedium(seg, version)
<1>1. version \in Numerals
    BY DEF BankParameters
<1>2. PICK h : h = SegHeader("HKTAN", 0, version)
    OBVIOUS
<1>3. IsHeader(h) /\ h \in Seq(Sendable)
    <2>1. "HKTAN" \in STRING /\ "HKTAN" # Blank
        BY BuilderWords DEF Blank
    <2> QED BY <1>1, <1>2, <2>1, SmallNumbers, HeaderType
<1>4. PICK e \in Seq(Sendable), n \in Seq(Sendable), a \in Seq(Sendable), b \in Seq(Sendable),
           c \in Seq(Sendable), d \in Seq(Sendable) :
         /\ e = Nothing /\ n = One("N") /\ a = One(seg.process) /\ b = One(seg.for)
         /\ c = OneText(seg.task) /\ d = OneText(seg.medium)
    BY BuilderWords, WordType, TextIsSendable, NothingType
<1>5. tan \in Seq(Seq(Sendable))
    <2>1. TanFields(seg, version) =
             CASE seg.process = "4" ->
                     <<b>> \o (IF version >= 6 THEN <<e, e, e, e, e>> ELSE <<>>)
               [] seg.process # "4" /\ version >= 6 -> <<e, e, e, c, n, e>>
               [] OTHER -> <<e, e, c, n>>
        BY <1>4 DEF TanFields
    <2>2. /\ <<b>> \in Seq(Seq(Sendable)) /\ <<e, e, e, e, e>> \in Seq(Seq(Sendable))
          /\ <<e, e, e, c, n, e>> \in Seq(Seq(Sendable)) /\ <<e, e, c, n>> \in Seq(Seq(Sendable))
          /\ <<>> \in Seq(Seq(Sendable))
        BY Tuples
    <2>3. PICK x \in Seq(Seq(Sendable)) : x = IF version >= 6 THEN <<e, e, e, e, e>> ELSE <<>>
        BY <2>2
    <2>4. <<b>> \o x \in Seq(Seq(Sendable))
        BY <2>2, GroupsConcat
    <2> QED BY <2>1, <2>2, <2>3, <2>4
<1>6. rest \in Seq(Seq(Sendable))
    <2>1. TanMedium(seg, version) =
             IF seg.medium = <<>> THEN <<>>
             ELSE (IF version >= 6 THEN <<e, e, e>> ELSE <<>>) \o <<d>>
        BY <1>4 DEF TanMedium
    <2>2. /\ <<e, e, e>> \in Seq(Seq(Sendable)) /\ <<>> \in Seq(Seq(Sendable))
          /\ <<d>> \in Seq(Seq(Sendable))
        BY Tuples
    <2>3. PICK x \in Seq(Seq(Sendable)) : x = IF version >= 6 THEN <<e, e, e>> ELSE <<>>
        BY <2>2
    <2>4. x \o <<d>> \in Seq(Seq(Sendable))
        BY <2>2, GroupsConcat
    <2> QED BY <2>1, <2>2, <2>3, <2>4
<1>7. Hktan(seg, params) = (<<h, a>> \o tan) \o rest
    BY <1>2, <1>4 DEF Hktan
<1> HIDE DEF tan, rest
<1>8. PICK s \in Seq(Seq(Sendable)) : s = <<h, a>>
    <2>1. <<h, a>> \in Seq(Seq(Sendable))
        BY <1>3, <1>4, Tuples
    <2> QED BY <2>1
<1>9. s[1] = h /\ Len(s) = 2
    BY <1>8
<1>10. PICK t \in Seq(Seq(Sendable)) : t = s \o tan
    BY <1>5, GroupsConcat
<1>11. t[1] = h /\ Len(t) >= 2
    <2>1. Len(s) >= 2
        BY <1>9
    <2>2. t[1] = s[1] /\ Len(t) >= 2
        BY <1>5, <1>10, <2>1, StartOfConcat
    <2> QED BY <1>9, <2>2
<1>12. PICK u \in Seq(Seq(Sendable)) : u = t \o rest
    BY <1>6, GroupsConcat
<1>13. u[1] = h /\ Len(u) >= 2
    BY <1>6, <1>11, <1>12, StartOfConcat
<1>14. u # <<>>
    BY <1>13
<1>15. u = Hktan(seg, params)
    BY Zenon, <1>7, <1>8, <1>10, <1>12
<1>16. IsSegment(u)
    BY Zenon, <1>3, <1>12, <1>13, <1>14, SegmentOfTuple
<1>17. u[1] = SegHeader("HKTAN", 0, params.hktan)
    BY <1>2, <1>13
<1> QED BY <1>15, <1>16, <1>17

-----------------------------------------------------------------------------
(* Orders.                                                                 *)

\* Both forms of an account are groups.
LEMMA AccountType ==
    ASSUME NEW account \in Accounts
    PROVE  Kti(account) \in Seq(Sendable) /\ NationalDeg(account) \in Seq(Sendable)
<1>1. /\ account.iban \in Texts /\ account.bic \in Texts
      /\ account.national # <<>> => account.national \in [number : Texts, blz : Texts]
    BY EmptySeq DEF Accounts, NotEmpty, Texts
<1>2. Kti(account) \in Seq(Sendable)
    <2>1. PICK a \in Sendable, b \in Sendable : a = Text(account.iban) /\ b = Text(account.bic)
        BY <1>1, TextIsSendable
    <2> QED BY <2>1, Tuples DEF Kti
<1>3. NationalIdentity(account) \in [number : Texts, blz : Texts]
    <2>1. CASE account.national # <<>>
        BY <1>1, <2>1 DEF NationalIdentity
    <2>2. CASE account.national = <<>> /\ Len(account.iban) = 3
        <3>1. account.iban[3] \in STRING /\ account.iban[2] \in STRING
            <4>1. 3 \in 1..Len(account.iban) /\ 2 \in 1..Len(account.iban)
                BY <2>2
            <4> QED BY <1>1, <4>1, ElementOfSeq DEF Texts
        <3>2. <<account.iban[3]>> \in Texts /\ <<account.iban[2]>> \in Texts
            BY <3>1, SingleType DEF Texts
        <3> QED BY <2>2, <3>2 DEF NationalIdentity
    <2>3. CASE account.national = <<>> /\ Len(account.iban) # 3
        <3>1. <<>> \in Texts
            BY EmptySeq DEF Texts
        <3> QED BY <1>1, <2>3, <3>1 DEF NationalIdentity
    <2> QED BY <2>1, <2>2, <2>3
<1>4. NationalDeg(account) \in Seq(Sendable)
    <2> DEFINE id == NationalIdentity(account)
    <2>1. PICK a \in Sendable, b \in Sendable, c \in Sendable, d \in Sendable :
             a = DeText(id.number) /\ b = Empty /\ c = Word("280") /\ d = DeText(id.blz)
        BY <1>3, BuilderWords, TextIsSendable, NothingType, WordType
    <2>2. NationalDeg(account) = <<a, b, c, d>>
        BY <2>1 DEF NationalDeg
    <2>3. <<a, b, c, d>> \in Seq(Sendable)
        BY Tuples
    <2> QED BY <2>2, <2>3
<1> QED BY <1>2, <1>4

\* A continuation is one group or none.
LEMMA TouchdownType ==
    ASSUME NEW seg, NEW touchdown \in Texts, seg.touchdown = touchdown
    PROVE  TouchdownDeg(seg) \in Seq(Seq(Sendable))
<1>1. OneText(touchdown) \in Seq(Sendable)
    BY TextIsSendable
<1> QED BY <1>1, Tuples DEF TouchdownDeg

HasFields(seg) ==
    /\ seg.type \in {"HKSAL", "DKWVB", "HKKAZ", "HKWDU", "HKWPD", "DKWDH", "DKKKU"}
    /\ seg.account \in Accounts
    /\ seg.type \in {"HKKAZ", "HKWDU"} =>
          seg.from \in Texts /\ seg.to \in Texts /\ seg.touchdown \in Texts
    /\ seg.type = "HKWPD" => seg.currency \in Texts /\ seg.touchdown \in Texts
    /\ seg.type = "DKWDH" => seg.security \in Texts /\ seg.date \in Texts
    /\ seg.type = "DKKKU" => seg.card \in Texts /\ seg.from \in Texts /\ seg.touchdown \in Texts

\* What follows the account are groups.
LEMMA OrderFieldsType ==
    ASSUME NEW seg, HasFields(seg)
    PROVE  OrderFields(seg) \in Seq(Seq(Sendable))
<1>1. PICK e \in Seq(Sendable), n \in Seq(Sendable) : e = Nothing /\ n = One("N")
    BY BuilderWords, WordType, NothingType
<1>2. CASE seg.type = "HKSAL"
    <2>1. OrderFields(seg) = <<n, e>>
        BY <1>1, <1>2 DEF OrderFields
    <2> QED BY <2>1, Tuples
<1>3. CASE seg.type = "HKKAZ"
    <2>1. PICK a \in Seq(Sendable), b \in Seq(Sendable) :
             a = OneText(seg.from) /\ b = OneText(seg.to)
        BY <1>3, TextIsSendable DEF HasFields
    <2>2. OrderFields(seg) = <<n, a, b, e>> \o TouchdownDeg(seg)
        BY <1>1, <1>3, <2>1 DEF OrderFields
    <2>3. TouchdownDeg(seg) \in Seq(Seq(Sendable)) /\ <<n, a, b, e>> \in Seq(Seq(Sendable))
        BY <1>3, TouchdownType, Tuples DEF HasFields
    <2> QED BY <2>2, <2>3, GroupsConcat
<1>4. CASE seg.type = "HKWPD"
    <2>1. PICK a \in Seq(Sendable) : a = OneText(seg.currency)
        BY <1>4, TextIsSendable DEF HasFields
    <2>2. OrderFields(seg) = <<a, e, e>> \o TouchdownDeg(seg)
        BY <1>1, <1>4, <2>1 DEF OrderFields
    <2>3. TouchdownDeg(seg) \in Seq(Seq(Sendable)) /\ <<a, e, e>> \in Seq(Seq(Sendable))
        BY <1>4, TouchdownType, Tuples DEF HasFields
    <2> QED BY <2>2, <2>3, GroupsConcat
<1>5. CASE seg.type = "HKWDU"
    <2>1. PICK a \in Seq(Sendable), b \in Seq(Sendable) :
             a = OneText(seg.from) /\ b = OneText(seg.to)
        BY <1>5, TextIsSendable DEF HasFields
    <2>2. OrderFields(seg) \in {<<>>, <<n, e, a, b, e>> \o TouchdownDeg(seg)}
        BY <1>1, <1>5, <2>1 DEF OrderFields
    <2>3. TouchdownDeg(seg) \in Seq(Seq(Sendable)) /\ <<n, e, a, b, e>> \in Seq(Seq(Sendable))
          /\ <<>> \in Seq(Seq(Sendable))
        BY <1>5, TouchdownType, Tuples DEF HasFields
    <2>4. <<n, e, a, b, e>> \o TouchdownDeg(seg) \in Seq(Seq(Sendable))
        BY <2>3, GroupsConcat
    <2> QED BY <2>2, <2>3, <2>4
<1>6. CASE seg.type = "DKWDH"
    <2>1. PICK w \in Sendable, x \in Sendable, b \in Seq(Sendable) :
             /\ w = Word(IF seg.isin THEN "1" ELSE "2") /\ x = DeText(seg.security)
             /\ b = OneText(seg.date)
        <3>1. Word(IF seg.isin THEN "1" ELSE "2") \in Sendable
            <4>1. Word("1") \in Sendable /\ Word("2") \in Sendable
                BY BuilderWords, WordType
            <4> QED BY <4>1
        <3> QED BY <1>6, <3>1, TextIsSendable DEF HasFields
    <2>2. OrderFields(seg) = <<<<w, x>>, b>>
        BY <1>6, <2>1 DEF OrderFields
    <2>3. PICK y \in Seq(Sendable) : y = <<w, x>>
        BY Tuples
    <2>4. <<y, b>> \in Seq(Seq(Sendable))
        BY Tuples
    <2> QED BY <2>2, <2>3, <2>4
<1>7. CASE seg.type = "DKWVB"
    <2>1. OrderFields(seg) = <<n>>
        BY <1>1, <1>7 DEF OrderFields
    <2> QED BY <2>1, Tuples
<1>8. CASE seg.type = "DKKKU"
    <2>1. PICK a \in Seq(Sendable), b \in Seq(Sendable) :
             a = OneText(seg.card) /\ b = OneText(seg.from)
        BY <1>8, TextIsSendable DEF HasFields
    <2>2. OrderFields(seg) = <<a, e, b, e>> \o TouchdownDeg(seg)
        BY <1>1, <1>8, <2>1 DEF OrderFields
    <2>3. TouchdownDeg(seg) \in Seq(Seq(Sendable)) /\ <<a, e, b, e>> \in Seq(Seq(Sendable))
        BY <1>8, TouchdownType, Tuples DEF HasFields
    <2> QED BY <2>2, <2>3, GroupsConcat
<1> QED BY <1>2, <1>3, <1>4, <1>5, <1>6, <1>7, <1>8 DEF HasFields

\* The version of an order is a number.
LEMMA OrderVersionType ==
    ASSUME NEW seg, HasFields(seg), NEW params
    PROVE  OrderVersion(seg, params) \in 1..7 /\ OrderVersion(seg, params) \in Numerals
<1>1. CASE seg.type \in DOMAIN Negotiated
    <2>1. Negotiated[seg.type].least \in 1..7
        BY <1>1 DEF Negotiated
    <2>2. OrderVersion(seg, params) \in Negotiated[seg.type].least..7
        BY <1>1, OrdersAreBuiltAsListed
    <2> QED BY <2>1, <2>2, NumeralAssumption DEF Numerals
<1>2. CASE seg.type \notin DOMAIN Negotiated
    <2>1. OrderVersion(seg, params) \in {1, 2}
        BY <1>2 DEF OrderVersion
    <2> QED BY <2>1, NumeralAssumption DEF Numerals
<1> QED BY <1>1, <1>2

\* An order is a segment.
LEMMA OrderType ==
    ASSUME NEW seg, HasFields(seg), NEW params
    PROVE  IsSegment(Order(seg, params))
<1> DEFINE version == OrderVersion(seg, params)
<1>1. version \in Numerals
    BY OrderVersionType
<1>2. PICK h : h = SegHeader(seg.type, 0, version)
    OBVIOUS
<1>3. IsHeader(h) /\ h \in Seq(Sendable)
    <2>1. seg.type \in STRING /\ seg.type # Blank
        BY BuilderWords DEF HasFields, Blank
    <2> HIDE DEF version
    <2> QED BY <1>1, <1>2, <2>1, SmallNumbers, HeaderType
<1>4. PICK a \in Seq(Sendable) :
         a = IF TakesKti(seg, version) THEN Kti(seg.account) ELSE NationalDeg(seg.account)
    BY AccountType DEF HasFields
<1>5. PICK f \in Seq(Seq(Sendable)) : f = OrderFields(seg)
    BY OrderFieldsType
<1>6. Order(seg, params) = <<h, a>> \o f
    BY <1>2, <1>4, <1>5 DEF Order
<1>7. <<a>> \in Seq(Seq(Sendable)) /\ <<h>> \in Seq(Seq(Sendable)) /\ <<h, a>> = <<h>> \o <<a>>
    BY <1>3, Tuples
<1>8. <<a>> \o f \in Seq(Seq(Sendable))
    BY <1>7, GroupsConcat
<1>9. <<h, a>> \o f = <<h>> \o (<<a>> \o f)
    <2>1. PICK p \in Seq(Seq(Sendable)), q \in Seq(Seq(Sendable)) : p = <<h>> /\ q = <<a>>
        BY <1>7
    <2>2. PICK u : u = p \o q
        OBVIOUS
    <2>3. u \o f = p \o (q \o f)
        BY <2>1, <2>2, Associative
    <2> QED BY Zenon, <1>7, <2>1, <2>2, <2>3
<1> QED BY <1>3, <1>6, <1>8, <1>9, SegmentOf

\* Whatever a caller asks for is built as a segment.
LEMMA SegmentBuilt ==
    ASSUME NEW seg \in Segments, NEW params \in BankParameters
    PROVE  IsSegment(ToDegs(seg, params))
<1>1. CASE seg \in [type : {"HKIDN"}, blz : Texts, user : Texts, system : Texts]
    <2>1. ToDegs(seg, params) = Hkidn(seg)
        BY <1>1 DEF ToDegs
    <2> QED BY <1>1, <2>1, HkidnType
<1>2. CASE seg \in [type : {"HKVVB"}, bpd : Numerals, upd : Numerals, product : Texts]
    <2>1. ToDegs(seg, params) = Hkvvb(seg)
        BY <1>2 DEF ToDegs
    <2> QED BY <1>2, <2>1, HkvvbType
<1>3. CASE seg \in [type : {"HKTAN"}, process : {"4"}, for : STRING, task : {<<>>},
                    medium : Texts]
    <2>1. ToDegs(seg, params) = Hktan(seg, params)
        BY <1>3 DEF ToDegs
    <2>2. /\ seg.process \in STRING /\ seg.for \in STRING /\ seg.task \in Texts
          /\ seg.medium \in Texts
        BY <1>3, BuilderWords, EmptySeq DEF Texts
    <2>3. /\ IsSegment(Hktan(seg, params))
          /\ Hktan(seg, params)[1] = SegHeader("HKTAN", 0, params.hktan)
        BY <2>2, HktanType
    <2> QED BY <2>1, <2>3
<1>12. CASE seg \in [type : {"HKTAN"}, process : {"2", "S"}, for : STRING, task : Texts,
                     medium : Texts]
    <2>1. ToDegs(seg, params) = Hktan(seg, params)
        BY <1>12 DEF ToDegs
    <2>2. /\ seg.process \in STRING /\ seg.for \in STRING /\ seg.task \in Texts
          /\ seg.medium \in Texts
        BY <1>12, BuilderWords
    <2>3. /\ IsSegment(Hktan(seg, params))
          /\ Hktan(seg, params)[1] = SegHeader("HKTAN", 0, params.hktan)
        BY <2>2, HktanType
    <2> QED BY <2>1, <2>3
<1>4. CASE seg \in [type : {"HKSYN", "HKTAB", "HKSPA"}]
    <2>1. ToDegs(seg, params) \in {<<SegHeader("HKSYN", 0, 3), One("0")>>,
                                   <<SegHeader("HKTAB", 0, 4), One("A")>>,
                                   <<SegHeader("HKSPA", 0, 1)>>}
        BY <1>4 DEF ToDegs
    <2>2. One("0") \in Seq(Sendable) /\ One("A") \in Seq(Sendable)
        BY BuilderWords, WordType
    <2>3. IsSegment(<<SegHeader("HKSYN", 0, 3), One("0")>>)
        BY <2>2, BuilderWords, SmallNumbers, ShortSegments DEF Blank
    <2>4. IsSegment(<<SegHeader("HKTAB", 0, 4), One("A")>>)
        BY <2>2, BuilderWords, SmallNumbers, ShortSegments DEF Blank
    <2>5. IsSegment(<<SegHeader("HKSPA", 0, 1)>>)
        BY <2>2, BuilderWords, SmallNumbers, ShortSegments DEF Blank
    <2> QED BY <2>1, <2>3, <2>4, <2>5
<1>5. CASE seg \in [type : {"HKEND"}, dialog : Texts]
    <2>1. ToDegs(seg, params) = <<SegHeader("HKEND", 0, 1), OneText(seg.dialog)>>
        BY <1>5 DEF ToDegs
    <2>2. OneText(seg.dialog) \in Seq(Sendable)
        BY <1>5, TextIsSendable
    <2>3. IsSegment(<<SegHeader("HKEND", 0, 1), OneText(seg.dialog)>>)
        BY <2>2, BuilderWords, SmallNumbers, ShortSegments DEF Blank
    <2> QED BY <2>1, <2>3
<1>6. ASSUME HasFields(seg) PROVE IsSegment(ToDegs(seg, params))
    <2>1. ToDegs(seg, params) = Order(seg, params)
        BY <1>6 DEF ToDegs, HasFields
    <2> QED BY <1>6, <2>1, OrderType
<1>7. CASE seg \in [type : {"HKSAL", "DKWVB"}, account : Accounts]
    BY <1>6, <1>7 DEF HasFields
<1>8. CASE seg \in [type : {"HKKAZ", "HKWDU"}, account : Accounts, from : Texts, to : Texts,
                    touchdown : Texts]
    BY <1>6, <1>8 DEF HasFields
<1>9. CASE seg \in [type : {"HKWPD"}, account : Accounts, currency : Texts, touchdown : Texts]
    BY <1>6, <1>9 DEF HasFields
<1>10. CASE seg \in [type : {"DKWDH"}, account : Accounts, isin : BOOLEAN, security : Texts,
                     date : Texts]
    BY <1>6, <1>10 DEF HasFields
<1>11. CASE seg \in [type : {"DKKKU"}, account : Accounts, card : Texts, from : Texts,
                     touchdown : Texts]
    BY <1>6, <1>11 DEF HasFields
<1> QED BY <1>1, <1>2, <1>3, <1>4, <1>5, <1>7, <1>8, <1>9, <1>10, <1>11, <1>12
    DEF Segments

-----------------------------------------------------------------------------
(* The segments of the envelope.                                           *)

\* The texts of a context.
LEMMA ContextType ==
    ASSUME NEW ctx \in Contexts
    PROVE  /\ ctx.dialog \in Texts /\ ctx.number \in Numerals /\ ctx.blz \in Texts
           /\ ctx.user \in Texts /\ ctx.system \in Texts /\ ctx.pin \in Texts
           /\ ctx.tan \in Texts /\ ctx.function \in Texts
BY DEF Contexts

\* The header of a message is a segment ...
LEMMA HnhbkType ==
    ASSUME NEW size \in Numerals, NEW dialog \in Texts, NEW number \in Numerals
    PROVE  IsSegment(Hnhbk(size, dialog, number))
<1>1. PICK h : h = SegHeader("HNHBK", 1, 3)
    OBVIOUS
<1>2. IsHeader(h) /\ h \in Seq(Sendable)
    BY <1>1, EnvelopeWords, SmallNumbers, HeaderType DEF Blank
<1>3. ToString(size) \in STRING
    BY NumeralType DEF Numerals
<1>4. PICK a \in Seq(Sendable), b \in Seq(Sendable), c \in Seq(Sendable), d \in Seq(Sendable) :
         /\ a = One(ToString(size)) /\ b = One("300") /\ c = OneText(dialog)
         /\ d = <<Number(number)>>
    BY <1>3, EnvelopeWords, WordType, TextIsSendable, NumberType
<1>5. Hnhbk(size, dialog, number) = <<h, a, b, c, d>>
    BY <1>1, <1>4 DEF Hnhbk
<1>6. <<h, a, b, c, d>> \in Seq(Seq(Sendable))
    BY <1>2, Tuples
<1> QED BY <1>2, <1>5, <1>6, SegmentOfTuple

\* ... the trailer is one ...
LEMMA HnhbsType ==
    ASSUME NEW n \in Numerals, NEW number \in Numerals
    PROVE  IsSegment(Hnhbs(n, number))
<1>1. PICK h : h = SegHeader("HNHBS", n, 1)
    OBVIOUS
<1>2. IsHeader(h) /\ h \in Seq(Sendable)
    <2>1. "HNHBS" \in STRING /\ "HNHBS" # Blank
        BY EnvelopeWords DEF Blank
    <2> QED BY <1>1, <2>1, SmallNumbers, HeaderType
<1>3. PICK a \in Seq(Sendable) : a = <<Number(number)>>
    BY NumberType
<1>4. Hnhbs(n, number) = <<h, a>>
    BY <1>1, <1>3 DEF Hnhbs
<1>5. <<h, a>> \in Seq(Seq(Sendable))
    BY <1>2, Tuples
<1> QED BY <1>2, <1>4, <1>5, SegmentOfTuple

\* ... the envelope is one ...
LEMMA HnvsdType ==
    ASSUME NEW inner \in Texts, Len(inner) <= MaxNumeral
    PROVE  IsSegment(Hnvsd(inner))
<1>1. PICK h : h = SegHeader("HNVSD", 999, 1)
    OBVIOUS
<1>2. IsHeader(h) /\ h \in Seq(Sendable)
    <2>1. "HNVSD" \in STRING /\ "HNVSD" # Blank
        BY EnvelopeWords DEF Blank
    <2> QED BY <1>1, <2>1, SmallNumbers, HeaderType
<1>3. PICK a \in Seq(Sendable) : a = <<Binary(inner)>>
    BY BinaryType
<1>4. Hnvsd(inner) = <<h, a>>
    BY <1>1, <1>3 DEF Hnvsd
<1>5. <<h, a>> \in Seq(Seq(Sendable))
    BY <1>2, Tuples
<1> QED BY <1>2, <1>4, <1>5, SegmentOfTuple

\* The groups that several segments of the envelope have.
LEMMA EnvelopeGroups ==
    ASSUME NEW ctx \in Contexts
    PROVE  /\ Identification(ctx.system) \in Seq(Sendable) /\ Timestamp \in Seq(Sendable)
           /\ KeyName(ctx, "V") \in Seq(Sendable) /\ KeyName(ctx, "S") \in Seq(Sendable)
           /\ <<Word("PIN"), Word("1")>> \in Seq(Sendable)
<1>1. PICK one \in Sendable, two \in Sendable, land \in Sendable, zero \in Sendable,
           pin \in Sendable :
         /\ one = Word("1") /\ two = Word("2") /\ land = Word("280") /\ zero = Word("0")
         /\ pin = Word("PIN")
    BY BuilderWords, EnvelopeWords, WordType
<1>2. PICK date \in Sendable, time \in Sendable, v \in Sendable, s \in Sendable :
         date = Word("date") /\ time = Word("time") /\ v = Word("V") /\ s = Word("S")
    BY EnvelopeWords, WordType
<1>3. PICK system \in Sendable, blz \in Sendable, user \in Sendable, empty \in Sendable :
         /\ system = DeText(ctx.system) /\ blz = DeText(ctx.blz) /\ user = DeText(ctx.user)
         /\ empty = Empty
    BY ContextType, TextIsSendable, NothingType
<1>4. Identification(ctx.system) = <<two, empty, system>>
    BY <1>1, <1>3 DEF Identification
<1>5. Timestamp = <<one, date, time>>
    BY <1>1, <1>2 DEF Timestamp
<1>6. /\ KeyName(ctx, "V") = <<land, blz, user, v, zero, zero>>
      /\ KeyName(ctx, "S") = <<land, blz, user, s, zero, zero>>
    BY <1>1, <1>2, <1>3 DEF KeyName
<1>7. /\ <<two, empty, system>> \in Seq(Sendable) /\ <<one, date, time>> \in Seq(Sendable)
      /\ <<land, blz, user, v, zero, zero>> \in Seq(Sendable)
      /\ <<land, blz, user, s, zero, zero>> \in Seq(Sendable)
      /\ <<pin, one>> \in Seq(Sendable)
    BY Tuples
<1> QED BY <1>1, <1>4, <1>5, <1>6, <1>7

\* ... and the head of the encryption.
LEMMA HnvskType ==
    ASSUME NEW ctx \in Contexts
    PROVE  IsSegment(Hnvsk(ctx))
<1>1. PICK h : h = SegHeader("HNVSK", 998, 3)
    OBVIOUS
<1>2. IsHeader(h) /\ h \in Seq(Sendable)
    <2>1. "HNVSK" \in STRING /\ "HNVSK" # Blank
        BY EnvelopeWords DEF Blank
    <2> QED BY <1>1, <2>1, SmallNumbers, HeaderType
<1>3. PICK a \in Seq(Sendable), d \in Seq(Sendable), e \in Seq(Sendable), g \in Seq(Sendable) :
         /\ a = <<Word("PIN"), Word("1")>> /\ d = Identification(ctx.system) /\ e = Timestamp
         /\ g = KeyName(ctx, "V")
    BY EnvelopeGroups
<1>4. PICK b \in Seq(Sendable), c \in Seq(Sendable), i \in Seq(Sendable) :
         b = One("998") /\ c = One("1") /\ i = One("0")
    BY EnvelopeWords, BuilderWords, WordType
<1>5. PICK f \in Seq(Sendable) :
         f = <<Word("2"), Word("2"), Word("13"), Binary([k \in 1..8 |-> "0"]), Word("5"),
               Word("1")>>
    <2>1. Binary([k \in 1..8 |-> "0"]) \in Sendable
        <3>1. PICK z : z = [k \in 1..8 |-> "0"]
            OBVIOUS
        <3>2. "0" \in STRING
            BY BuilderWords
        <3>3. z \in Texts /\ Len(z) = 8
            BY <3>1, <3>2, LenProperties DEF Texts
        <3>4. Len(z) <= MaxNumeral
            BY <3>3, NumeralAssumption
        <3>5. Binary(z) \in Sendable
            BY <3>3, <3>4, BinaryType
        <3> QED BY <3>1, <3>5
    <2>2. PICK p \in Sendable, q \in Sendable, r \in Sendable, s \in Sendable, t \in Sendable :
             /\ p = Word("2") /\ q = Word("13") /\ r = Binary([k \in 1..8 |-> "0"])
             /\ s = Word("5") /\ t = Word("1")
        BY <2>1, EnvelopeWords, BuilderWords, WordType
    <2>3. <<p, p, q, r, s, t>> \in Seq(Sendable)
        BY Tuples
    <2> QED BY <2>2, <2>3
<1>6. Hnvsk(ctx) = <<h, a, b, c, d, e, f, g, i>>
    BY <1>1, <1>3, <1>4, <1>5 DEF Hnvsk
<1>7. <<h, a, b, c, d, e, f, g, i>> \in Seq(Seq(Sendable))
    BY <1>2, Tuples12
<1> QED BY <1>2, <1>6, <1>7, SegmentOfTuple

\* The head of the signature is a segment ...
LEMMA HnshkType ==
    ASSUME NEW number \in Numerals, NEW ctx \in Contexts
    PROVE  IsSegment(Hnshk(number, ctx))
<1>1. PICK h : h = SegHeader("HNSHK", number, 4)
    OBVIOUS
<1>2. IsHeader(h) /\ h \in Seq(Sendable)
    <2>1. "HNSHK" \in STRING /\ "HNSHK" # Blank
        BY EnvelopeWords DEF Blank
    <2> QED BY <1>1, <2>1, SmallNumbers, HeaderType
<1>3. PICK a \in Seq(Sendable), e \in Seq(Sendable), f \in Seq(Sendable), k \in Seq(Sendable) :
         /\ a = <<Word("PIN"), Word("1")>> /\ e = Identification(ctx.system) /\ f = Timestamp
         /\ k = KeyName(ctx, "S")
    BY EnvelopeGroups
<1>4. PICK b \in Seq(Sendable), c \in Seq(Sendable), d \in Seq(Sendable) :
         b = OneText(ctx.function) /\ c = One(SecurityReference) /\ d = One("1")
    BY EnvelopeWords, BuilderWords, WordType, ContextType, TextIsSendable DEF SecurityReference
<1>5. PICK g \in Seq(Sendable), i \in Seq(Sendable) :
         /\ g = <<Word("1"), Word("999"), Word("1")>>
         /\ i = <<Word("6"), Word("10"), Word("16")>>
    <2>1. PICK p \in Sendable, q \in Sendable, r \in Sendable, s \in Sendable, t \in Sendable :
             /\ p = Word("1") /\ q = Word("999") /\ r = Word("6") /\ s = Word("10")
             /\ t = Word("16")
        BY EnvelopeWords, BuilderWords, WordType
    <2>2. <<p, q, p>> \in Seq(Sendable) /\ <<r, s, t>> \in Seq(Sendable)
        BY Tuples
    <2> QED BY <2>1, <2>2
<1>6. Hnshk(number, ctx) = <<h, a, b, c, d, d, e, d, f, g, i, k>>
    BY <1>1, <1>3, <1>4, <1>5 DEF Hnshk
<1>7. <<h, a, b, c, d, d, e, d, f, g, i, k>> \in Seq(Seq(Sendable))
    BY <1>2, Tuples12
<1> QED BY <1>2, <1>6, <1>7, SegmentOfTuple

\* ... and its end.
LEMMA HnshaType ==
    ASSUME NEW number \in Numerals, NEW ctx \in Contexts
    PROVE  IsSegment(Hnsha(number, ctx))
<1>1. PICK h : h = SegHeader("HNSHA", number, 2)
    OBVIOUS
<1>2. IsHeader(h) /\ h \in Seq(Sendable)
    <2>1. "HNSHA" \in STRING /\ "HNSHA" # Blank
        BY EnvelopeWords DEF Blank
    <2> QED BY <1>1, <2>1, SmallNumbers, HeaderType
<1>3. PICK a \in Seq(Sendable), b \in Seq(Sendable) :
         a = One(SecurityReference) /\ b = Nothing
    BY EnvelopeWords, WordType, NothingType DEF SecurityReference
<1>4. PICK c \in Seq(Sendable) : c = UserSignature(ctx)
    <2>1. PICK p \in Sendable, t \in Sendable : p = DeText(ctx.pin) /\ t = Text(ctx.tan)
        BY ContextType, TextIsSendable
    <2>2. <<p>> \in Seq(Sendable) /\ <<t>> \in Seq(Sendable) /\ <<>> \in Seq(Sendable)
        BY Tuples
    <2>3. PICK x \in Seq(Sendable) : x = IF ctx.tan = NoTan THEN <<>> ELSE <<t>>
        BY <2>2
    <2>4. <<p>> \o x \in Seq(Sendable)
        BY <2>2, ConcatProperties
    <2>5. UserSignature(ctx) = <<p>> \o x
        BY <2>1, <2>3 DEF UserSignature
    <2> QED BY <2>4, <2>5
<1>5. Hnsha(number, ctx) = <<h, a, b, c>>
    BY <1>1, <1>3, <1>4 DEF Hnsha
<1>6. <<h, a, b, c>> \in Seq(Seq(Sendable))
    BY <1>2, Tuples
<1> QED BY <1>2, <1>5, <1>6, SegmentOfTuple

-----------------------------------------------------------------------------
(* A message is made of segments that can be written.                      *)

\* With its number a segment is the same but for the number.
LEMMA WithNumberType ==
    ASSUME NEW seg, IsSegment(seg), NEW n \in Numerals
    PROVE  /\ IsSegment(WithNumber(seg, n))
           /\ WithNumber(seg, n)[1] = [seg[1] EXCEPT ![2] = Number(n)]
           /\ WithNumber(seg, n)[1][2] = Number(n) /\ WithNumber(seg, n)[1][1] = seg[1][1]
           /\ Len(WithNumber(seg, n)) = Len(seg)
           /\ \A j \in 2..Len(seg) : WithNumber(seg, n)[j] = seg[j]
<1> DEFINE head == [seg[1] EXCEPT ![2] = Number(n)]
           s == [seg EXCEPT ![1] = head]
<1>1. seg \in Seq(Seq(Sendable)) /\ Len(seg) \in Nat /\ 1 \in 1..Len(seg) /\ Len(seg[1]) = 3
    BY LenProperties, EmptySeq DEF IsSegment, HasHeader
<1>2. seg[1] \in Seq(Sendable)
    BY <1>1, ElementOfSeq
<1>3. WithNumber(seg, n) = s
    BY <1>1 DEF WithNumber
<1>4. Number(n) \in Sendable
    BY NumberType
<1>5. head \in Seq(Sendable) /\ Len(head) = 3
    <2>1. 2 \in 1..Len(seg[1])
        BY <1>1
    <2>2. head \in Seq(Sendable) /\ Len(head) = Len(seg[1])
        BY <1>2, <1>4, <2>1, ExceptSeq
    <2> QED BY <1>1, <2>2
<1>6. head[1] = seg[1][1] /\ head[2] = Number(n)
    BY <1>1, <1>2, LenProperties
<1> HIDE DEF head
<1>7. s \in Seq(Seq(Sendable)) /\ Len(s) = Len(seg)
    BY <1>1, <1>5, ExceptSeq
<1>8. s[1] = head /\ \A j \in 2..Len(seg) : s[j] = seg[j]
    BY <1>1, LenProperties
<1> HIDE DEF s
<1>9. s # <<>> /\ head # <<>>
    <2>1. Len(<<>>) = 0 /\ Len(s) >= 1 /\ Len(head) = 3
        BY <1>1, <1>5, <1>7
    <2> QED BY <2>1
<1>10. IsSegment(s)
    BY <1>5, <1>6, <1>7, <1>8, <1>9 DEF IsSegment, HasHeader
<1> QED BY <1>3, <1>6, <1>7, <1>8, <1>10 DEF head

IsFramed(x, a, m, b) ==
    /\ Len(x) = Len(m) + 2 /\ x[1] = a /\ x[Len(m) + 2] = b
    /\ \A i \in 1..Len(m) : x[i + 1] = m[i]

\* What stands between a first and a last one.
LEMMA Framed ==
    ASSUME NEW a \in Seq(Seq(Sendable)), NEW m \in Seq(Seq(Seq(Sendable))),
           NEW b \in Seq(Seq(Sendable)), NEW x, x = <<a>> \o m \o <<b>>
    PROVE  x \in Seq(Seq(Seq(Sendable))) /\ IsFramed(x, a, m, b)
<1> DEFINE S == Seq(Seq(Sendable))
<1> HIDE DEF S
<1>1. a \in S /\ m \in Seq(S) /\ b \in S
    BY DEF S
<1>2. PICK p \in Seq(S), q \in Seq(S) : p = <<a>> /\ q = <<b>>
    BY <1>1, SingleType
<1>3. Len(p) = 1 /\ p[1] = a /\ Len(q) = 1 /\ q[1] = b /\ Len(m) \in Nat
    BY <1>1, <1>2, SingleType, LenProperties
<1>4. PICK y : y = p \o m
    OBVIOUS
<1>5. /\ y \in Seq(S) /\ Len(y) = 1 + Len(m)
      /\ \A i \in 1..1 + Len(m) : y[i] = IF i <= 1 THEN p[i] ELSE m[i - 1]
    BY <1>1, <1>2, <1>3, <1>4, ConcatProperties
<1>6. x = y \o q
    BY <1>2, <1>4
<1>7. /\ x \in Seq(S) /\ Len(x) = Len(y) + 1
      /\ \A i \in 1..Len(y) + 1 : x[i] = IF i <= Len(y) THEN y[i] ELSE q[i - Len(y)]
    <2>1. y \in Seq(S)
        BY <1>5
    <2>2. /\ y \o q \in Seq(S) /\ Len(y \o q) = Len(y) + Len(q)
          /\ \A i \in 1..Len(y) + Len(q) :
                (y \o q)[i] = IF i <= Len(y) THEN y[i] ELSE q[i - Len(y)]
        BY <1>2, <2>1, ConcatProperties
    <2>3. Len(q) = 1
        BY <1>3
    <2> QED BY <1>6, <2>2, <2>3
<1>8. x[1] = a
    BY <1>3, <1>5, <1>7
<1>9. x[Len(m) + 2] = b
    BY <1>3, <1>5, <1>7
<1>10. ASSUME NEW i \in 1..Len(m) PROVE x[i + 1] = m[i]
    <2>1. PICK k : k = i + 1
        OBVIOUS
    <2>2. k \in 2..Len(m) + 1 /\ k - 1 = i
        BY <1>3, <2>1
    <2>3. x[k] = y[k]
        <3>1. k \in 1..Len(y) + 1 /\ k <= Len(y)
            BY <1>3, <1>5, <2>2
        <3> QED BY <1>7, <3>1
    <2>4. y[k] = m[k - 1]
        <3>1. k \in 1..1 + Len(m) /\ ~(k <= 1)
            BY <1>3, <2>2
        <3> QED BY <1>5, <3>1
    <2> QED BY <2>1, <2>2, <2>3, <2>4
<1>11. IsFramed(x, a, m, b)
    BY <1>3, <1>5, <1>7, <1>8, <1>9, <1>10 DEF IsFramed
<1> QED BY <1>7, <1>11 DEF S

\* The orders, as segments.
IsBusiness(business) ==
    /\ business \in Seq(Seq(Seq(Sendable))) /\ Len(business) + 4 <= MaxNumeral
    /\ \A i \in 1..Len(business) : IsSegment(business[i])

\* The orders are segments, in their order.
LEMMA BusinessBuilt ==
    ASSUME NEW segs \in Seq(Segments), NEW params \in BankParameters,
           Len(BusinessDegs(segs, params)) + 4 <= MaxNumeral
    PROVE  /\ IsBusiness(BusinessDegs(segs, params))
           /\ Len(BusinessDegs(segs, params)) = Len(segs)
           /\ \A i \in 1..Len(segs) : BusinessDegs(segs, params)[i] = ToDegs(segs[i], params)
<1> DEFINE b == BusinessDegs(segs, params)
<1>1. DOMAIN segs = 1..Len(segs) /\ Len(segs) \in Nat
    BY LenProperties
<1>2. b = [i \in 1..Len(segs) |-> ToDegs(segs[i], params)]
    BY <1>1 DEF BusinessDegs
<1>3. \A i \in 1..Len(segs) : b[i] = ToDegs(segs[i], params) /\ IsSegment(b[i])
    <2> SUFFICES ASSUME NEW i \in 1..Len(segs)
                 PROVE  b[i] = ToDegs(segs[i], params) /\ IsSegment(b[i])
        OBVIOUS
    <2>1. segs[i] \in Segments
        BY ElementOfSeq
    <2>2. IsSegment(ToDegs(segs[i], params))
        BY <2>1, SegmentBuilt
    <2>3. b[i] = ToDegs(segs[i], params)
        BY <1>2
    <2> QED BY <2>2, <2>3
<1>4. \A i \in 1..Len(segs) : b[i] \in Seq(Seq(Sendable))
    BY <1>3 DEF IsSegment
<1>5. b \in Seq(Seq(Seq(Sendable))) /\ Len(b) = Len(segs)
    <2>1. PICK c : c = b
        OBVIOUS
    <2>2. c = [i \in 1..Len(segs) |-> c[i]] /\ \A i \in 1..Len(segs) : c[i] \in Seq(Seq(Sendable))
        BY <1>2, <1>4, <2>1
    <2>3. c \in [1..Len(segs) -> Seq(Seq(Sendable))]
        BY <2>2
    <2>4. c \in Seq(Seq(Seq(Sendable))) /\ Len(c) = Len(segs)
        BY <1>1, <2>3, LenProperties
    <2> QED BY <2>1, <2>4
<1> HIDE DEF b
<1>6. IsBusiness(b)
    BY <1>3, <1>5 DEF IsBusiness, b
<1> QED BY <1>3, <1>5, <1>6 DEF b

\* The segments inside the envelope.
LEMMA InnerIs ==
    ASSUME NEW ctx \in Contexts, NEW business, IsBusiness(business)
    PROVE  LET inner == InnerSegments(ctx, business)
           IN  /\ inner \in Writable /\ Len(inner) = Len(business) + 2 /\ Len(business) \in Nat
               /\ inner[1] = Hnshk(2, ctx)
               /\ inner[Len(business) + 2] = Hnsha(Len(business) + 3, ctx)
               /\ \A i \in 1..Len(business) : inner[i + 1] = WithNumber(business[i], i + 2)
<1>1. PICK n : n = Len(business)
    OBVIOUS
<1>2. n \in Nat /\ n + 4 <= MaxNumeral /\ DOMAIN business = 1..n /\ MaxNumeral \in Nat
    BY <1>1, LenProperties, NumeralAssumption DEF IsBusiness
<1> DEFINE m == [i \in DOMAIN business |-> WithNumber(business[i], i + 2)]
<1>3. \A i \in 1..n : m[i] = WithNumber(business[i], i + 2) /\ IsSegment(m[i])
    <2> SUFFICES ASSUME NEW i \in 1..n
                 PROVE  m[i] = WithNumber(business[i], i + 2) /\ IsSegment(m[i])
        OBVIOUS
    <2>1. PICK k : k = i + 2
        OBVIOUS
    <2>2. k \in Numerals
        BY <1>2, <2>1 DEF Numerals
    <2>3. IsSegment(business[i])
        BY <1>1 DEF IsBusiness
    <2>4. IsSegment(WithNumber(business[i], k))
        BY <2>2, <2>3, WithNumberType
    <2>5. m[i] = WithNumber(business[i], i + 2)
        BY <1>2
    <2> QED BY <2>1, <2>4, <2>5
<1>4. m \in Seq(Seq(Seq(Sendable))) /\ Len(m) = n
    <2>1. PICK c : c = m
        OBVIOUS
    <2>2. c = [i \in 1..n |-> c[i]]
        BY <1>2, <2>1
    <2>3. \A i \in 1..n : c[i] \in Seq(Seq(Sendable))
        BY <1>3, <2>1 DEF IsSegment
    <2>4. c \in [1..n -> Seq(Seq(Sendable))]
        BY <2>2, <2>3
    <2>5. c \in Seq(Seq(Seq(Sendable))) /\ Len(c) = n
        BY <1>2, <2>4, LenProperties
    <2> QED BY <2>1, <2>5
<1>5. PICK a : a = Hnshk(2, ctx)
    OBVIOUS
<1>6. PICK b : b = Hnsha(n + 3, ctx)
    OBVIOUS
<1>7. IsSegment(a)
    BY <1>5, SmallNumbers, HnshkType
<1>8. IsSegment(b)
    <2>1. PICK k : k = n + 3
        OBVIOUS
    <2>2. k \in Numerals
        BY <1>2, <2>1 DEF Numerals
    <2> QED BY <1>6, <2>1, <2>2, HnshaType
<1>9. PICK x : x = InnerSegments(ctx, business)
    OBVIOUS
<1>10. x = <<a>> \o m \o <<b>>
    BY <1>1, <1>5, <1>6, <1>9 DEF InnerSegments
<1> HIDE DEF m
<1>11. x \in Seq(Seq(Seq(Sendable))) /\ IsFramed(x, a, m, b)
    BY <1>4, <1>7, <1>8, <1>10, Framed DEF IsSegment
<1>12. /\ Len(x) = n + 2 /\ x[1] = a /\ x[n + 2] = b
       /\ \A i \in 1..n : x[i + 1] = m[i]
    BY <1>4, <1>11 DEF IsFramed
<1>13. ASSUME NEW j \in 1..Len(x) PROVE HasHeader(x[j])
    <2>1. CASE j = 1
        BY <1>7, <1>12, <2>1 DEF IsSegment
    <2>2. CASE j = n + 2
        BY <1>8, <1>12, <2>2 DEF IsSegment
    <2>3. CASE j \in 2..n + 1
        <3>1. PICK i : i = j - 1
            OBVIOUS
        <3>2. i \in 1..n /\ j = i + 1
            BY <1>2, <2>3, <3>1
        <3>3. x[j] = m[i]
            BY <1>12, <3>2
        <3> QED BY <1>3, <3>2, <3>3 DEF IsSegment
    <2> QED BY <1>2, <1>12, <2>1, <2>2, <2>3
<1>14. x \in Writable
    BY <1>11, <1>13 DEF Writable
<1>15. \A i \in 1..n : x[i + 1] = WithNumber(business[i], i + 2)
    BY <1>3, <1>12
<1> QED BY <1>1, <1>2, <1>5, <1>6, <1>9, <1>12, <1>14, <1>15

\* The text inside the envelope fits into it.
FitsInto(ctx, business) == Len(SerializeMessage(InnerSegments(ctx, business))) <= MaxNumeral

\* The four segments of a request, whatever size its header names.
LEMMA SizedIs ==
    ASSUME NEW ctx \in Contexts, NEW business, IsBusiness(business), FitsInto(ctx, business),
           NEW size \in Numerals
    PROVE  LET outer4 == Sized(ctx, business, size)
               text == SerializeMessage(InnerSegments(ctx, business))
           IN  /\ outer4 \in Writable /\ Len(outer4) = 4 /\ text \in Texts
               /\ Len(text) <= MaxNumeral
               /\ outer4[1] = Hnhbk(size, ctx.dialog, ctx.number)
               /\ outer4[2] = Hnvsk(ctx) /\ outer4[3] = Hnvsd(text)
               /\ outer4[4] = Hnhbs(Len(business) + 4, ctx.number)
<1>1. PICK n : n = Len(business)
    OBVIOUS
<1>2. n \in Nat /\ n + 4 <= MaxNumeral /\ MaxNumeral \in Nat
    BY <1>1, LenProperties, NumeralAssumption DEF IsBusiness
<1>3. PICK inner \in Writable : inner = InnerSegments(ctx, business) /\ Len(inner) = n + 2
    BY <1>1, InnerIs
<1>4. PICK text : text = SerializeMessage(inner)
    OBVIOUS
<1>5. text \in Texts
    BY <1>3, <1>4, MessageIsSent, MessageText DEF Texts
<1>6. Len(text) <= MaxNumeral
    BY <1>3, <1>4 DEF FitsInto
<1>7. ctx.dialog \in Texts /\ ctx.number \in Numerals
    BY ContextType
<1>8. PICK k : k = n + 4
    OBVIOUS
<1>9. k \in Numerals /\ Len(inner) + 2 = k
    BY <1>2, <1>3, <1>8 DEF Numerals
<1>10. PICK a, b, c, d : /\ a = Hnhbk(size, ctx.dialog, ctx.number) /\ b = Hnvsk(ctx)
                         /\ c = Hnvsd(text) /\ d = Hnhbs(k, ctx.number)
    OBVIOUS
<1>11. IsSegment(a)
    BY <1>7, <1>10, HnhbkType
<1>12. IsSegment(b)
    BY <1>10, HnvskType
<1>13. IsSegment(c)
    BY <1>5, <1>6, <1>10, HnvsdType
<1>14. IsSegment(d)
    BY <1>7, <1>9, <1>10, HnhbsType
<1>15. Sized(ctx, business, size) = <<a, b, c, d>>
    BY <1>3, <1>4, <1>9, <1>10 DEF Sized, OuterSegments
<1>16. <<a, b, c, d>> \in Writable
    <2>1. <<a, b, c, d>> \in Seq(Seq(Seq(Sendable)))
        BY <1>11, <1>12, <1>13, <1>14, Tuples DEF IsSegment
    <2>2. /\ Len(<<a, b, c, d>>) = 4
          /\ \A i \in 1..4 : <<a, b, c, d>>[i] \in {a, b, c, d}
        OBVIOUS
    <2> QED BY <1>11, <1>12, <1>13, <1>14, <2>1, <2>2 DEF Writable, IsSegment
<1> QED BY <1>1, <1>3, <1>4, <1>5, <1>6, <1>8, <1>10, <1>15, <1>16

-----------------------------------------------------------------------------
(* The envelope, as it is read.                                            *)

\* The type of a segment is read as it was written.
LEMMA TypeRead ==
    ASSUME NEW seg \in Seq(Seq(Sendable)), HasHeader(seg), NEW w, seg[1][1] = Word(w)
    PROVE  SegmentType(SegmentAsRead(seg)) = w /\ SegmentType(seg) = w
<1> DEFINE f == SegmentAsRead(seg)
<1>1. seg \in Seq(Seq(Sendable)) /\ HasHeader(seg)
    OBVIOUS
<1>2. f \in Seq(Seq(Readable)) /\ HasNoHole(f) /\ f[1][1] = seg[1][1]
    BY <1>1, SegmentIsSent
<1> HIDE DEF f
<1>3. 1 \in DOMAIN f
    BY <1>2, EmptySeq, LenProperties DEF HasNoHole
<1>4. f[1] \in Seq(Readable) /\ f[1] # <<>>
    BY <1>2, <1>3, LenProperties, ElementOfSeq DEF HasNoHole
<1>5. 1 \in DOMAIN f[1]
    BY <1>4, EmptySeq, LenProperties
<1>6. DeAt(DegAt(f, 0), 0) = Word(w)
    BY <1>2, <1>3, <1>5 DEF DeAt, DegAt
<1>7. 1 \in DOMAIN seg
    BY <1>1, EmptySeq, LenProperties DEF HasHeader
<1>8. seg[1] \in Seq(Sendable) /\ seg[1] # <<>>
    BY <1>1, <1>7, LenProperties, ElementOfSeq DEF HasHeader
<1>9. 1 \in DOMAIN seg[1]
    BY <1>8, EmptySeq, LenProperties
<1>10. DeAt(DegAt(seg, 0), 0) = Word(w)
    BY <1>7, <1>9 DEF DeAt, DegAt
<1>11. Word(w).kind = "Text" /\ Len(Word(w).value) = 1 /\ Word(w).value[1] = w
    BY DEF Word, Text
<1> QED BY <1>6, <1>10, <1>11 DEF SegmentType, f

\* The parser finds the envelope, and in it the text that was put there.
LEMMA EnvelopeIsRead ==
    ASSUME NEW text \in Texts, Len(text) <= MaxNumeral
    PROVE  /\ IsEnvelope(SegmentAsRead(Hnvsd(text)))
           /\ Get(DegAt(SegmentAsRead(Hnvsd(text)), 1), 0) = text
<1>1. PICK seg : seg = Hnvsd(text)
    OBVIOUS
<1>2. PICK h : h = SegHeader("HNVSD", 999, 1)
    OBVIOUS
<1>3. seg = <<h, <<Binary(text)>>>> /\ h[1] = Word("HNVSD")
    BY <1>1, <1>2 DEF Hnvsd, SegHeader
<1>4. IsSegment(seg)
    BY <1>1, HnvsdType
<1>5. seg \in Seq(Seq(Sendable)) /\ HasHeader(seg) /\ seg[1][1] = Word("HNVSD")
    BY <1>3, <1>4 DEF IsSegment
<1>6. SegmentType(SegmentAsRead(seg)) = "HNVSD"
    BY <1>5, TypeRead
<1>7. PICK n : SegEndsAt(seg, n) /\ TrimmedSegment(seg) = SubSeq(seg, 1, n)
    BY <1>5, SegmentTrimmed
<1>8. PICK f : f = SegmentAsRead(seg)
    OBVIOUS
<1>9. /\ f \in Seq(Seq(Readable)) /\ Len(f) = n /\ n \in Nat
      /\ \A j \in 1..n : j \in 1..Len(seg) /\ f[j] = DegAsRead(seg[j])
    BY <1>5, <1>7, <1>8, SegmentRead
<1>10. PICK d \in Seq(Sendable) : d = <<Binary(text)>>
    BY BinaryType
<1>11. seg[2] = d /\ Len(seg) = 2 /\ d # <<>> /\ d[1] = Binary(text) /\ DOMAIN d = 1..1
    BY <1>3, <1>10
<1>12. d[1].kind # "Empty" /\ d[1] # Text(<<>>) /\ d[1].kind = "Binary" /\ d[1].value = text
    BY <1>11 DEF Binary, Text
<1>13. ~DegIsEmpty(seg[2])
    BY <1>11, <1>12 DEF DegIsEmpty, IsEmpty
<1>14. n = 2
    BY <1>7, <1>9, <1>11, <1>13 DEF SegEndsAt
<1>15. f[2] = DegAsRead(d) /\ 2 \in DOMAIN f
    BY <1>9, <1>11, <1>14, LenProperties
<1>16. f[2][1] = d[1] /\ 1 \in DOMAIN f[2]
    BY <1>11, <1>12, <1>15, FirstElementRead
<1>17. DegAt(f, 1) = f[2]
    BY <1>15 DEF DegAt
<1>18. DeAt(DegAt(f, 1), 0) = d[1]
    BY <1>16, <1>17 DEF DeAt
<1> QED BY <1>1, <1>6, <1>8, <1>12, <1>18 DEF IsEnvelope, IsBinary, Get

\* There is one envelope in a request: the third segment.
IsOuter(o, text) ==
    /\ Len(o) = 4 /\ IsEnvelope(o[3]) /\ Get(DegAt(o[3], 1), 0) = text
    /\ ~IsEnvelope(o[1]) /\ ~IsEnvelope(o[2]) /\ ~IsEnvelope(o[4])

\* A request has one envelope.
LEMMA OneEnvelope ==
    ASSUME NEW ctx \in Contexts, NEW business, IsBusiness(business), FitsInto(ctx, business),
           NEW size \in Numerals
    PROVE  IsOuter(AsRead(Sized(ctx, business, size)),
                   SerializeMessage(InnerSegments(ctx, business)))
<1>1. PICK s : s = Sized(ctx, business, size)
    OBVIOUS
<1>2. PICK text : text = SerializeMessage(InnerSegments(ctx, business))
    OBVIOUS
<1>3. PICK k : k = Len(business) + 4
    OBVIOUS
<1>4. /\ s \in Writable /\ Len(s) = 4 /\ text \in Texts /\ Len(text) <= MaxNumeral
      /\ s[1] = Hnhbk(size, ctx.dialog, ctx.number) /\ s[2] = Hnvsk(ctx) /\ s[3] = Hnvsd(text)
      /\ s[4] = Hnhbs(k, ctx.number)
    BY <1>1, <1>2, <1>3, SizedIs
<1>5. PICK o : o = AsRead(s)
    OBVIOUS
<1>6. Len(o) = 4 /\ \A i \in 1..4 : o[i] = SegmentAsRead(s[i])
    BY <1>4, <1>5, MessageIsSent
<1>7. \A i \in 1..4 : s[i] \in Seq(Seq(Sendable)) /\ HasHeader(s[i])
    BY <1>4, ElementOfSeq DEF Writable
<1>8. SegmentType(o[1]) = "HNHBK"
    <2>1. s[1][1][1] = Word("HNHBK")
        BY <1>4 DEF Hnhbk, SegHeader
    <2>2. s[1] \in Seq(Seq(Sendable)) /\ HasHeader(s[1]) /\ o[1] = SegmentAsRead(s[1])
        BY <1>6, <1>7
    <2> QED BY <2>1, <2>2, TypeRead
<1>9. SegmentType(o[2]) = "HNVSK"
    <2>1. s[2][1][1] = Word("HNVSK")
        BY <1>4 DEF Hnvsk, SegHeader
    <2>2. s[2] \in Seq(Seq(Sendable)) /\ HasHeader(s[2]) /\ o[2] = SegmentAsRead(s[2])
        BY <1>6, <1>7
    <2> QED BY <2>1, <2>2, TypeRead
<1>10. SegmentType(o[4]) = "HNHBS"
    <2>1. s[4][1][1] = Word("HNHBS")
        BY <1>4 DEF Hnhbs, SegHeader
    <2>2. s[4] \in Seq(Seq(Sendable)) /\ HasHeader(s[4]) /\ o[4] = SegmentAsRead(s[4])
        BY <1>6, <1>7
    <2> QED BY <2>1, <2>2, TypeRead
<1>11. o[3] = SegmentAsRead(Hnvsd(text))
    BY <1>4, <1>6
<1>12. IsEnvelope(o[3]) /\ Get(DegAt(o[3], 1), 0) = text
    BY <1>4, <1>11, EnvelopeIsRead
<1>13. ~IsEnvelope(o[1]) /\ ~IsEnvelope(o[2]) /\ ~IsEnvelope(o[4])
    BY <1>8, <1>9, <1>10 DEF IsEnvelope
<1> QED BY <1>1, <1>2, <1>5, <1>6, <1>12, <1>13 DEF IsOuter

-----------------------------------------------------------------------------
(* The exchange.                                                           *)

\* What the client writes of a request, as it is read.
WholeOf(ctx, orders, params) == AsRead(MessageSegments(ctx, BusinessDegs(orders, params)))
InsideOf(ctx, orders, params) == AsRead(InnerSegments(ctx, BusinessDegs(orders, params)))

\* The size of a message that fits is a number that can be written.
LEMMA SizeIsNumeral ==
    ASSUME NEW ctx \in Contexts, NEW business, IsBusiness(business), Fits(ctx, business)
    PROVE  SizeOf(ctx, business) \in Numerals /\ FitsInto(ctx, business)
<1>1. FitsInto(ctx, business)
    BY DEF Fits, FitsInto
<1>2. PICK s \in Writable : s = Sized(ctx, business, 0)
    BY <1>1, SmallNumbers, SizedIs
<1>3. SerializeMessage(s) \in Seq(STRING)
    BY MessageIsSent, MessageText
<1>4. SizeOf(ctx, business) \in Nat
    BY <1>2, <1>3, LenProperties DEF SizeOf
<1> QED BY <1>1, <1>4, NumeralAssumption DEF Fits, Numerals

\* A request is the text of a message that has another in its envelope.
LEMMA RequestIsText ==
    ASSUME NEW ctx \in Contexts, NEW orders \in Seq(Segments), NEW params \in BankParameters,
           Fits(ctx, BusinessDegs(orders, params))
    PROVE  /\ IsBusiness(BusinessDegs(orders, params))
           /\ WholeOf(ctx, orders, params) \in Messages
           /\ InsideOf(ctx, orders, params) \in Messages
           /\ BuildMessage(ctx, orders, params) = TextOf(WholeOf(ctx, orders, params))
           /\ IsOuter(WholeOf(ctx, orders, params), TextOf(InsideOf(ctx, orders, params)))
<1>1. PICK business : business = BusinessDegs(orders, params)
    OBVIOUS
<1>2. IsBusiness(business)
    BY <1>1, BusinessBuilt DEF Fits
<1>3. PICK size \in Numerals : size = SizeOf(ctx, business)
    BY <1>1, <1>2, SizeIsNumeral
<1>4. FitsInto(ctx, business)
    BY <1>1, <1>2, SizeIsNumeral
<1>5. PICK inner \in Writable : inner = InnerSegments(ctx, business)
    BY <1>2, InnerIs
<1>6. PICK whole \in Writable : whole = Sized(ctx, business, size)
    BY <1>2, <1>4, SizedIs
<1>7. /\ AsRead(inner) \in Messages /\ SerializeMessage(inner) = TextOf(AsRead(inner))
      /\ AsRead(whole) \in Messages /\ SerializeMessage(whole) = TextOf(AsRead(whole))
    BY MessageIsSent
<1>8. IsOuter(AsRead(whole), SerializeMessage(inner))
    BY <1>2, <1>4, <1>5, <1>6, OneEnvelope
<1>9. whole = MessageSegments(ctx, business)
    BY <1>3, <1>6 DEF MessageSegments
<1>10. WholeOf(ctx, orders, params) = AsRead(whole) /\ InsideOf(ctx, orders, params) = AsRead(inner)
    BY <1>1, <1>5, <1>9 DEF WholeOf, InsideOf
<1>11. BuildMessage(ctx, orders, params) = SerializeMessage(whole)
    BY <1>1, <1>9 DEF BuildMessage, BuildMessageRaw
<1> QED BY <1>1, <1>2, <1>7, <1>8, <1>10, <1>11

TheWhole == WholeOf(letter.ctx, letter.orders, letter.params)
TheInside == InsideOf(letter.ctx, letter.orders, letter.params)

\* What is read of a message that may be cut: its beginning, and perhaps a torn
\* segment after it.
IsCutOf(o, r) ==
    \/ \E n \in 0..Len(r) : o = SubSeq(r, 1, n)
    \/ \E n \in 1..Len(r) : \E x : TornOf(x, r[n]) /\ o = Append(SubSeq(r, 1, n - 1), x)

\* How far a request is read.
ReadsRequest(whole, inside) ==
    /\ (level = "outer" /\ mode # "done") => Reads(whole)
    /\ (level # "outer" \/ mode = "done") => IsCutOf(outer, whole)
    /\ letter.cut # "is" =>
          /\ level = "outer" => mode # "done" /\ Len(data) = Len(TextOf(whole))
          /\ level # "unreadable"
          /\ level = "inner" =>
                /\ outer = whole
                /\ mode = "done" => segments = inside
                /\ mode # "done" => Reads(inside) /\ Len(data) = Len(TextOf(inside))

IsRequest ==
    /\ letter \in Requests
    /\ CanBuild(letter.ctx, letter.orders, letter.params)
    /\ Fits(letter.ctx, Business)
    /\ letter.cut # "is" => letter \in Letters

ExchangeInv ==
    /\ ParserInv
    /\ phase = "new" => letter \in Letters
    /\ phase = "request" => IsRequest /\ ReadsRequest(TheWhole, TheInside)

\* What LettersAssumption says of a letter.
LEMMA LettersAre ==
    ASSUME NEW l \in Letters
    PROVE  /\ l.kind = "request" =>
                 /\ l \in Requests
                 /\ CanBuild(l.ctx, l.orders, l.params) =>
                       /\ Fits(l.ctx, BusinessDegs(l.orders, l.params))
                       /\ MockBytes(l.ctx, BuildMessage(l.ctx, l.orders, l.params)) \in Seq(STRING)
           /\ l.kind = "answer" => AnswerBytes(l) \in Seq(STRING)
BY LettersAssumption DEF Requests, Texts

\* A new parser satisfies the invariant of the parser.
LEMMA ParseBegins ==
    ASSUME NEW bytes \in Seq(STRING), Parse(bytes)
    PROVE  ParserInv'
<1>1. /\ <<>> \in Seq(Elements) /\ <<>> \in Seq(Seq(Elements))
      /\ <<>> \in Seq(Seq(Seq(Elements)))
    BY EmptySeq
<1>2. ParserTypeOK'
    BY <1>1 DEF Parse, ParserTypeOK
<1>3. StaysInside'
    BY LenProperties DEF Parse, StaysInside
<1>4. NothingIsEmpty' /\ BegunInv'
    BY DEF Parse, NothingIsEmpty, BegunInv
<1> QED BY <1>2, <1>3, <1>4 DEF ParserInv

\* A request begins to be read, whole or cut.
LEMMA RequestBegins ==
    ASSUME NEW whole \in Messages, NEW inside \in Messages,
           NEW n \in 0..Len(TextOf(whole)), NEW bytes, bytes = SubSeq(TextOf(whole), 1, n),
           Parse(bytes), letter'.cut # "is" => n = Len(TextOf(whole))
    PROVE  ReadsRequest(whole, inside)' /\ ParserInv'
<1>1. TextOf(whole) \in Seq(STRING) /\ Len(TextOf(whole)) \in Nat
    BY MessageText, LenProperties
<1>2. bytes \in Seq(STRING) /\ Len(bytes) = n /\ \A m \in 1..n : bytes[m] = TextOf(whole)[m]
    BY <1>1, Beginning
<1>3. /\ data' = bytes /\ pos' = 1 /\ mode' = "between" /\ deg' = <<>> /\ degs' = <<>>
      /\ segments' = <<>> /\ level' = "outer"
    BY DEF Parse
<1>4. DataBegins(TextOf(whole))'
    BY <1>1, <1>2, <1>3 DEF DataBegins
<1>5. Reads(whole)'
    BY <1>3, <1>4, ReadingBegins
<1>6. ParserInv'
    BY <1>2, ParseBegins
<1> QED BY <1>2, <1>3, <1>5, <1>6 DEF ReadsRequest

\* Between segments what was read is the beginning of the message.
LEMMA CutIsBetween ==
    ASSUME NEW r \in Messages, Reads(r), mode = "between"
    PROVE  IsCutOf(segments, r)
BY DEF Reads, ReadsElement, ReadsBetween, ReadsTorn, IsCutOf

\* Of a whole message no segment is torn.
LEMMA WholeIsNotTorn ==
    ASSUME NEW r \in Messages, Reads(r), Len(data) = Len(TextOf(r)), mode = "between"
    PROVE  deg = <<>> /\ degs = <<>>
<1>1. Len(TextOf(r)) \in Nat
    BY MessageText, LenProperties
<1>2. ~ReadsTorn(r)
    BY <1>1 DEF ReadsTorn
<1> QED BY <1>2 DEF Reads, ReadsElement, ReadsBetween

\* It is read on, on one level and into the envelope.
LEMMA RequestReads ==
    ASSUME NEW whole \in Messages, NEW inside \in Messages, IsOuter(whole, TextOf(inside)),
           ReadsRequest(whole, inside), ParserInv, ParserNext, UNCHANGED letter
    PROVE  ReadsRequest(whole, inside)'
<1>1. CASE ParserStep
    <2>1. UNCHANGED <<data, level, outer>>
        BY <1>1 DEF ParserStep, SkipBlank, StartSegment, Escape, BinaryElement, ElementSeparator,
            GroupSeparator, SegmentEnd, PlainText, Unterminated, Fail
    <2>2. mode # "done" /\ mode' # "done"
        BY <1>1 DEF ParserStep, SkipBlank, StartSegment, Escape, BinaryElement, ElementSeparator,
            GroupSeparator, SegmentEnd, PlainText, Unterminated, Fail, InSegment
    <2>3. level = "outer" => Reads(whole)'
        <3>1. level = "outer" => Reads(whole)
            BY <2>2 DEF ReadsRequest
        <3> QED BY <1>1, <3>1, StepReads
    <2>4. (level = "inner" /\ letter.cut # "is") => Reads(inside)'
        <3>1. (level = "inner" /\ letter.cut # "is") => Reads(inside)
            BY <2>2 DEF ReadsRequest
        <3> QED BY <1>1, <3>1, StepReads
    <2>5. (level # "outer" => IsCutOf(outer, whole)) => (level' # "outer" => IsCutOf(outer', whole))
        BY <2>1
    <2> QED BY <2>1, <2>2, <2>3, <2>4, <2>5 DEF ReadsRequest
<1>2. CASE OpenEnvelope
    <2>1. /\ mode = "between" /\ AtEnd /\ level = "outer" /\ outer' = segments
          /\ segments' = <<>> /\ pos' = 1 /\ level' = "inner" /\ UNCHANGED <<mode, deg, degs>>
        BY <1>2 DEF OpenEnvelope
    <2>4. IsCutOf(outer', whole)
        <3>1. Reads(whole)
            BY <2>1 DEF ReadsRequest
        <3>2. IsCutOf(segments, whole)
            BY <2>1, <3>1, CutIsBetween
        <3> QED BY <2>1, <3>2
    <2>2. CASE letter.cut # "is"
        <3>1. Reads(whole) /\ Len(data) = Len(TextOf(whole))
            BY <2>1, <2>2 DEF ReadsRequest
        <3>2. segments = whole
            BY <2>1, <3>1, ReadingEnds
        <3>3. PICK i \in DOMAIN whole : IsEnvelope(whole[i]) /\ data' = Get(DegAt(whole[i], 1), 0)
            BY <1>2, <3>2 DEF OpenEnvelope
        <3>4. DOMAIN whole = 1..4
            BY LenProperties DEF Messages, IsOuter
        <3>5. data' = TextOf(inside)
            BY <3>3, <3>4 DEF IsOuter
        <3>6. TextOf(inside) \in Seq(STRING) /\ Len(TextOf(inside)) \in Nat
            BY MessageText, LenProperties
        <3>7. DataBegins(TextOf(inside))'
            BY <3>5, <3>6 DEF DataBegins
        <3>8. deg = <<>> /\ degs = <<>>
            BY <2>1, <2>2, <3>1, WholeIsNotTorn
        <3>9. Reads(inside)'
            BY <2>1, <3>7, <3>8, ReadingBegins
        <3> QED BY <2>1, <2>2, <2>4, <3>2, <3>5, <3>9 DEF ReadsRequest
    <2>3. CASE letter.cut = "is"
        BY <2>1, <2>3, <2>4 DEF ReadsRequest
    <2> QED BY <2>2, <2>3
<1>3. CASE Complete
    <2>1. mode = "between" /\ AtEnd /\ mode' = "done" /\ UNCHANGED <<data, level>>
        BY <1>3 DEF Complete
    <2>6. IsCutOf(outer', whole)
        <3>1. CASE level = "outer"
            <4>1. Reads(whole) /\ outer' = segments
                BY <1>3, <2>1, <3>1 DEF ReadsRequest, Complete
            <4>2. IsCutOf(segments, whole)
                BY <2>1, <4>1, CutIsBetween
            <4> QED BY <4>1, <4>2
        <3>2. CASE level # "outer"
            <4>1. outer' = outer /\ IsCutOf(outer, whole)
                BY <1>3, <3>2 DEF ReadsRequest, Complete
            <4> QED BY <4>1
        <3> QED BY <3>1, <3>2
    <2>2. CASE letter.cut # "is" /\ level = "inner"
        <3>1. Reads(inside) /\ Len(data) = Len(TextOf(inside)) /\ outer = whole
            BY <2>1, <2>2 DEF ReadsRequest
        <3>2. segments = inside
            BY <2>1, <3>1, ReadingEnds
        <3>3. UNCHANGED <<outer, segments>>
            BY <1>3, <2>2 DEF Complete
        <3> QED BY <2>1, <2>2, <2>6, <3>1, <3>2, <3>3 DEF ReadsRequest
    <2>3. CASE letter.cut # "is" /\ level = "outer"
        <3>1. Reads(whole) /\ Len(data) = Len(TextOf(whole))
            BY <2>1, <2>3 DEF ReadsRequest
        <3>2. segments = whole
            BY <2>1, <3>1, ReadingEnds
        <3>3. 3 \in DOMAIN whole /\ IsEnvelope(whole[3])
            BY LenProperties DEF Messages, IsOuter
        <3> QED BY <1>3, <2>3, <3>2, <3>3 DEF Complete
    <2>4. CASE letter.cut # "is" /\ level = "unreadable"
        BY <2>4 DEF ReadsRequest
    <2>5. CASE letter.cut = "is"
        BY <2>1, <2>5, <2>6 DEF ReadsRequest
    <2> QED BY <2>2, <2>3, <2>4, <2>5 DEF ParserInv, ParserTypeOK
<1>4. CASE EnvelopeUnreadable
    <2>1. mode = "error" /\ level = "inner" /\ level' = "unreadable"
        BY <1>4 DEF EnvelopeUnreadable
    <2>4. IsCutOf(outer', whole)
        <3>1. outer' = outer /\ IsCutOf(outer, whole)
            BY <1>4, <2>1 DEF ReadsRequest, EnvelopeUnreadable
        <3> QED BY <3>1
    <2>2. CASE letter.cut # "is"
        <3>1. Reads(inside) /\ Len(data) = Len(TextOf(inside))
            BY <2>1, <2>2 DEF ReadsRequest
        <3>2. mode \in {"between", "segment"}
            BY <3>1, ReadingEnds
        <3> QED BY <2>1, <3>2
    <2>3. CASE letter.cut = "is"
        BY <2>1, <2>3, <2>4 DEF ReadsRequest
    <2> QED BY <2>2, <2>3
<1> QED BY <1>1, <1>2, <1>3, <1>4 DEF ParserNext, ParserStep

\* ExchangeInv holds in the beginning ...
LEMMA ExchangeBegins ==
    ASSUME Init
    PROVE  ExchangeInv
<1>1. ParserInv
    BY EmptySeq, ParserBegins DEF Init
<1> QED BY <1>1 DEF Init, ExchangeInv

\* ... Build keeps it, whole or cut ...
LEMMA BuildKeeps ==
    ASSUME ExchangeInv, Build
    PROVE  ExchangeInv'
<1>1. /\ letter \in Letters /\ letter.kind = "request" /\ phase' = "request"
      /\ CanBuild(letter.ctx, letter.orders, letter.params)
    BY DEF Build, ExchangeInv
<1>2. letter \in Requests /\ Fits(letter.ctx, Business)
    BY <1>1, LettersAre DEF Business
<1>3. PICK ctx \in Contexts, orders \in Seq(Segments), params \in BankParameters :
         ctx = letter.ctx /\ orders = letter.orders /\ params = letter.params
    BY <1>2 DEF Requests
<1>4. PICK whole, inside :
         /\ whole = WholeOf(ctx, orders, params)
         /\ inside = InsideOf(ctx, orders, params)
    OBVIOUS
<1>5. Fits(ctx, BusinessDegs(orders, params))
    BY <1>2, <1>3 DEF Business
<1>6. whole \in Messages /\ inside \in Messages /\ RequestBytes = TextOf(whole)
    BY <1>3, <1>4, <1>5, RequestIsText DEF RequestBytes
<1>7. TextOf(whole) \in Seq(STRING) /\ Len(TextOf(whole)) \in Nat
    BY <1>6, MessageText, LenProperties
<1>8. ASSUME NEW n \in 0..Len(TextOf(whole)), NEW bytes, bytes = SubSeq(TextOf(whole), 1, n),
             Parse(bytes), letter' \in Requests, letter'.cut # "is" => letter' \in Letters,
             letter'.cut # "is" => n = Len(TextOf(whole)),
             letter'.ctx = ctx, letter'.orders = orders, letter'.params = params
      PROVE  ExchangeInv'
    <2>1. ReadsRequest(whole, inside)' /\ ParserInv'
        BY <1>6, <1>8, RequestBegins
    <2>2. TheWhole' = whole /\ TheInside' = inside
        BY <1>4, <1>8 DEF TheWhole, TheInside
    <2>3. Business' = BusinessDegs(orders, params)
        BY <1>8 DEF Business
    <2>4. IsRequest'
        BY <1>1, <1>3, <1>5, <1>8, <2>3 DEF IsRequest
    <2>5. ReadsRequest(TheWhole, TheInside)'
        BY <2>1, <2>2 DEF ReadsRequest
    <2> QED BY <1>1, <2>1, <2>4, <2>5 DEF ExchangeInv
<1>9. CASE Parse(RequestBytes) /\ UNCHANGED letter
    <2>1. PICK n \in 0..Len(TextOf(whole)) : n = Len(TextOf(whole))
        BY <1>7
    <2>2. PICK bytes : bytes = SubSeq(TextOf(whole), 1, n)
        OBVIOUS
    <2>3. bytes = TextOf(whole)
        BY <1>7, <2>1, <2>2, SubSeqFull
    <2>4. Parse(bytes)
        BY <1>6, <1>9, <2>3
    <2> QED BY <1>1, <1>2, <1>3, <1>8, <1>9, <2>1, <2>2, <2>4
<1>10. CASE /\ letter.cut = "may be"
            /\ \E n \in 1..Len(RequestBytes) - 1 : Parse(SubSeq(RequestBytes, 1, n))
            /\ letter' = [letter EXCEPT !.cut = "is"]
    <2>1. PICK n \in 0..Len(TextOf(whole)) : Parse(SubSeq(TextOf(whole), 1, n))
        <3>1. PICK n \in 1..Len(RequestBytes) - 1 : Parse(SubSeq(RequestBytes, 1, n))
            BY <1>10
        <3>2. n \in 0..Len(TextOf(whole))
            BY <1>6, <1>7, <3>1
        <3>3. SubSeq(RequestBytes, 1, n) = SubSeq(TextOf(whole), 1, n)
            BY <1>6
        <3> HIDE DEF Parse
        <3>4. Parse(SubSeq(TextOf(whole), 1, n))
            BY Zenon, <3>1, <3>3
        <3> QED BY <3>2, <3>4
    <2>2. PICK bytes : bytes = SubSeq(TextOf(whole), 1, n)
        OBVIOUS
    <2>3. Parse(bytes)
        BY <2>1, <2>2
    <2>4. letter' \in Requests /\ letter'.cut = "is"
        BY <1>2, <1>10 DEF Requests
    <2>5. letter'.ctx = ctx /\ letter'.orders = orders /\ letter'.params = params
        BY <1>2, <1>3, <1>10 DEF Requests
    <2> QED BY <1>8, <2>2, <2>3, <2>4, <2>5
<1> QED BY <1>9, <1>10 DEF Build

\* ... reading on keeps it ...
LEMMA ReadOnKeeps ==
    ASSUME ExchangeInv, ReadOn
    PROVE  ExchangeInv'
<1>1. ParserNext /\ UNCHANGED <<letter, phase>> /\ phase # "new"
    BY DEF ReadOn
<1>2. ParserInv'
    BY <1>1, ParserKeeps DEF ExchangeInv
<1>3. CASE phase = "request"
    <2>1. IsRequest /\ ReadsRequest(TheWhole, TheInside)
        BY <1>3 DEF ExchangeInv
    <2>2. PICK ctx \in Contexts, orders \in Seq(Segments), params \in BankParameters :
             ctx = letter.ctx /\ orders = letter.orders /\ params = letter.params
        BY <2>1 DEF IsRequest, Requests
    <2>3. PICK whole, inside :
             /\ whole = WholeOf(ctx, orders, params)
             /\ inside = InsideOf(ctx, orders, params)
        OBVIOUS
    <2>4. Fits(ctx, BusinessDegs(orders, params))
        BY <2>1, <2>2 DEF IsRequest, Business
    <2>5. whole \in Messages /\ inside \in Messages /\ IsOuter(whole, TextOf(inside))
        BY <2>3, <2>4, RequestIsText
    <2>6. /\ TheWhole = whole /\ TheInside = inside
          /\ TheWhole' = whole /\ TheInside' = inside
        BY <1>1, <2>2, <2>3 DEF TheWhole, TheInside
    <2>7. ReadsRequest(whole, inside)
        BY <2>1, <2>6
    <2>8. ReadsRequest(whole, inside)'
        BY <1>1, <2>5, <2>7, RequestReads DEF ExchangeInv
    <2>9. ReadsRequest(TheWhole, TheInside)'
        BY <2>6, <2>8 DEF ReadsRequest
    <2>10. IsRequest'
        BY <1>1, <2>1 DEF IsRequest, Business
    <2> QED BY <1>1, <1>2, <2>9, <2>10 DEF ExchangeInv
<1>4. CASE phase # "request"
    BY <1>1, <1>2, <1>4 DEF ExchangeInv
<1> QED BY <1>3, <1>4

\* ... and answering does.
LEMMA AnswerKeeps ==
    ASSUME ExchangeInv, BankWrites \/ ServerAnswers
    PROVE  ExchangeInv'
<1>1. phase' = "answer"
    BY DEF BankWrites, ServerAnswers
<1>2. CASE BankWrites
    <2>1. letter \in Letters /\ letter.kind = "answer" /\ Parse(AnswerBytes(letter))
        BY <1>2 DEF BankWrites, ExchangeInv
    <2>2. AnswerBytes(letter) \in Seq(STRING)
        BY <2>1, LettersAre
    <2>3. ParserInv'
        BY <2>1, <2>2, ParseBegins
    <2> QED BY <1>1, <2>3 DEF ExchangeInv
<1>3. CASE ServerAnswers
    <2>1. IsRequest /\ letter \in Letters /\ letter.kind = "request"
          /\ Parse(MockBytes(letter.ctx, RequestBytes))
        BY <1>3 DEF ServerAnswers, ExchangeInv, IsRequest, Requests
    <2>2. MockBytes(letter.ctx, RequestBytes) \in Seq(STRING)
        BY <2>1, LettersAre DEF IsRequest, RequestBytes
    <2>3. ParserInv'
        BY <2>1, <2>2, ParseBegins
    <2> QED BY <1>1, <2>3 DEF ExchangeInv
<1> QED BY <1>2, <1>3

\* In every exchange the parser is within a request as far as it has read it.
LEMMA ExchangeInvHolds == Spec => []ExchangeInv
<1>1. Init => ExchangeInv
    BY ExchangeBegins
<1>2. ExchangeInv /\ [Next]_exchangeVars => ExchangeInv'
    <2> SUFFICES ASSUME ExchangeInv, [Next]_exchangeVars PROVE ExchangeInv'
        OBVIOUS
    <2>1. ASSUME UNCHANGED <<parserVars, letter>>, phase' \in {phase, "refused", "panicked"}
          PROVE  ExchangeInv'
        <3>1. ParserInv'
            BY <2>1, ParserKeeps DEF ExchangeInv
        <3>2. ASSUME phase = "request", phase' = phase
              PROVE  IsRequest' /\ ReadsRequest(TheWhole, TheInside)'
            <4>1. IsRequest /\ ReadsRequest(TheWhole, TheInside)
                BY <3>2 DEF ExchangeInv
            <4>2. IsRequest' /\ TheWhole' = TheWhole /\ TheInside' = TheInside
                BY <2>1, <4>1 DEF IsRequest, Business, TheWhole, TheInside
            <4>3. \A r : Reads(r)' = Reads(r)
                BY <2>1 DEF Reads, parserVars, DataBegins, ReadsElement, ReadsBetween, ReadsTorn,
                    DegBefore, AtEnd
            <4> QED BY <2>1, <4>1, <4>2, <4>3 DEF ReadsRequest, parserVars
        <3> QED BY <2>1, <3>1, <3>2 DEF ExchangeInv
    <2>2. CASE UNCHANGED exchangeVars
        BY <2>1, <2>2 DEF exchangeVars
    <2>3. CASE Refuse \/ Panic
        BY <2>1, <2>3 DEF Refuse, Panic
    <2> QED BY <2>2, <2>3, BuildKeeps, ReadOnKeeps, AnswerKeeps DEF Next
<1> QED BY <1>1, <1>2, PTL DEF Spec

\* RoundTrip: for every context, every list of orders and every bank, what the
\* parser reads of a whole request is what build_message was given, outside the
\* envelope and inside.
THEOREM RoundTripHolds == Spec => []RoundTrip
<1>1. ExchangeInv => RoundTrip
    <2> SUFFICES ASSUME ExchangeInv, RequestRead
                 PROVE  /\ outer = AsRead(MessageSegments(letter.ctx, Business))
                        /\ segments = AsRead(InnerSegments(letter.ctx, Business))
        BY DEF RoundTrip
    <2>1. /\ IsRequest /\ ReadsRequest(TheWhole, TheInside)
          /\ mode = "done" /\ letter.cut # "is"
        BY DEF ExchangeInv, RequestRead, IsRead
    <2>2. level = "inner"
        BY <2>1 DEF ReadsRequest, ExchangeInv, ParserInv, ParserTypeOK
    <2>3. outer = TheWhole /\ segments = TheInside
        BY <2>1, <2>2 DEF ReadsRequest
    <2> QED BY <2>3 DEF TheWhole, TheInside, WholeOf, InsideOf, Business
<1> QED BY <1>1, ExchangeInvHolds, PTL

\* CutIsPrefix: of a request that is cut off anywhere the parser reads nothing
\* that was not sent: it stays within its bytes, and all but the last of the
\* segments it has read are those of the whole request.
THEOREM CutIsPrefixHolds == Spec => []CutIsPrefix
<1>1. ExchangeInv => CutIsPrefix
    <2> SUFFICES ASSUME ExchangeInv PROVE CutIsPrefix
        OBVIOUS
    <2>1. StaysInside
        BY DEF ExchangeInv, ParserInv
    <2>2. ASSUME phase = "request", level = "outer", mode # "done"
          PROVE  \A i \in 1..Len(segments) - 1 :
                    segments[i] = AsRead(MessageSegments(letter.ctx, Business))[i]
        <3>1. IsRequest /\ Reads(TheWhole)
            BY <2>2 DEF ExchangeInv, ReadsRequest
        <3>2. PICK ctx \in Contexts, orders \in Seq(Segments), params \in BankParameters :
                 ctx = letter.ctx /\ orders = letter.orders /\ params = letter.params
            BY <3>1 DEF IsRequest, Requests
        <3>3. PICK whole : whole = WholeOf(ctx, orders, params)
            OBVIOUS
        <3>4. Fits(ctx, BusinessDegs(orders, params))
            BY <3>1, <3>2 DEF IsRequest, Business
        <3>5. whole \in Messages
            BY <3>3, <3>4, RequestIsText
        <3>6. Reads(whole) /\ whole = AsRead(MessageSegments(letter.ctx, Business))
            BY <3>1, <3>2, <3>3 DEF TheWhole, WholeOf, Business
        <3>7. \A i \in 1..Len(segments) - 1 : segments[i] = whole[i]
            BY <3>5, <3>6, ReadingIsBeginning
        <3> QED BY <3>6, <3>7
    <2> QED BY <2>1, <2>2 DEF CutIsPrefix
<1> QED BY <1>1, ExchangeInvHolds, PTL

-----------------------------------------------------------------------------
(* How long a message is.                                                  *)

\* The same number of texts, each as long as the other.
SameLengths(f, g) ==
    /\ f \in Seq(Seq(STRING)) /\ g \in Seq(Seq(STRING)) /\ Len(f) = Len(g)
    /\ \A i \in 1..Len(f) : Len(f[i]) = Len(g[i])

\* Put together, they are as long ...
LEMMA FlattenSameLength ==
    ASSUME NEW f, NEW g, SameLengths(f, g)
    PROVE  Len(FlattenSeq(f)) = Len(FlattenSeq(g))
<1>1. /\ f \in Seq(Seq(STRING)) /\ g \in Seq(Seq(STRING))
      /\ \A i \in 1..Len(f) : Len(f[i]) = Len(g[i])
    BY DEF SameLengths
<1>2. PICK n \in Nat : n = Len(f) /\ n = Len(g)
    BY <1>1, LenProperties DEF SameLengths
<1> DEFINE P == {k \in Nat : k <= n => Len(From(f, n - k)) = Len(From(g, n - k))}
<1>3. 0 \in P
    <2>1. n - 0 = n
        BY <1>2
    <2>2. From(f, n) = <<>> /\ From(g, n) = <<>>
        BY <1>1, <1>2, FromStart
    <2> QED BY <2>1, <2>2
<1>4. ASSUME NEW k \in Nat, k \in P PROVE k + 1 \in P
    <2>1. SUFFICES ASSUME k + 1 <= n
                   PROVE  Len(From(f, n - (k + 1))) = Len(From(g, n - (k + 1)))
        OBVIOUS
    <2>2. PICK m, l : m = n - (k + 1) /\ l = n - k
        OBVIOUS
    <2>3. m \in 0..n - 1 /\ l \in 1..n /\ l \in 0..n /\ l = m + 1
        BY <2>1, <2>2
    <2>4. From(f, m) = f[l] \o From(f, l) /\ From(g, m) = g[l] \o From(g, l)
        BY <1>1, <1>2, <2>3, FromNext
    <2>5. /\ From(f, l) \in Seq(STRING) /\ From(g, l) \in Seq(STRING)
          /\ f[l] \in Seq(STRING) /\ g[l] \in Seq(STRING)
        <3>1. From(f, l) \in Seq(STRING)
            BY <1>1, <1>2, <2>3, FromType
        <3>2. From(g, l) \in Seq(STRING)
            BY <1>1, <1>2, <2>3, FromType
        <3>3. f[l] \in Seq(STRING)
            BY <1>1, <1>2, <2>3, ElementOfSeq
        <3>4. g[l] \in Seq(STRING)
            BY <1>1, <1>2, <2>3, ElementOfSeq
        <3> QED BY <3>1, <3>2, <3>3, <3>4
    <2>6. Len(f[l]) = Len(g[l])
        BY <1>1, <1>2, <2>3
    <2>7. Len(From(f, l)) = Len(From(g, l))
        <3>1. k <= n
            BY <2>1
        <3> QED BY <1>4, <2>2, <3>1
    <2>8. Len(From(f, m)) = Len(f[l]) + Len(From(f, l))
        BY <2>4, <2>5, ConcatProperties
    <2>9. Len(From(g, m)) = Len(g[l]) + Len(From(g, l))
        BY <2>4, <2>5, ConcatProperties
    <2> QED BY <2>2, <2>6, <2>7, <2>8, <2>9
<1> HIDE DEF P
<1>5. n \in P
    BY <1>2, <1>3, <1>4, SetInduction
<1>6. n - n = 0
    BY <1>2
<1>7. Len(From(f, 0)) = Len(From(g, 0))
    BY <1>2, <1>5, <1>6 DEF P
<1>8. From(f, 0) = FlattenSeq(f) /\ From(g, 0) = FlattenSeq(g)
    BY <1>1, FromStart
<1> QED BY <1>7, <1>8

\* ... and joined with a separator too.
LEMMA JoinedSameLength ==
    ASSUME NEW sep \in STRING, NEW f, NEW g, SameLengths(f, g)
    PROVE  Len(Joined(sep, f)) = Len(Joined(sep, g))
<1>1. /\ f \in Seq(Seq(STRING)) /\ g \in Seq(Seq(STRING)) /\ Len(f) = Len(g)
      /\ \A i \in 1..Len(f) : Len(f[i]) = Len(g[i])
    BY DEF SameLengths
<1>2. PICK x, y : x = JoinPieces(sep, f) /\ y = JoinPieces(sep, g)
    OBVIOUS
<1>3. /\ x \in Seq(Seq(STRING)) /\ y \in Seq(Seq(STRING)) /\ Len(x) = Len(f) /\ Len(y) = Len(g)
      /\ Joined(sep, f) = FlattenSeq(x) /\ Joined(sep, g) = FlattenSeq(y)
    BY <1>1, <1>2, JoinPiecesType
<1>4. ASSUME NEW i \in 1..Len(f) PROVE Len(x[i]) = Len(y[i])
    <2>1. f[i] \in Seq(STRING) /\ g[i] \in Seq(STRING) /\ Len(f[i]) = Len(g[i])
        BY <1>1, ElementOfSeq
    <2>2. CASE i = 1
        <3>1. i \in DOMAIN f /\ i \in DOMAIN g
            BY <1>1, LenProperties
        <3>2. x[i] = f[i]
            BY <1>2, <2>2, <3>1 DEF JoinPieces
        <3>3. y[i] = g[i]
            BY <1>2, <2>2, <3>1 DEF JoinPieces
        <3> QED BY <2>1, <3>2, <3>3
    <2>3. CASE i # 1
        <3>1. PICK s \in Seq(STRING) : s = <<sep>>
            BY SingleType
        <3>2. x[i] = s \o f[i] /\ y[i] = s \o g[i]
            <4>1. i \in 1..Len(g)
                BY <1>1
            <4>2. x[i] = <<sep>> \o f[i]
                BY <1>1, <1>2, <2>3, JoinPiecesAt
            <4>3. y[i] = <<sep>> \o g[i]
                BY <1>1, <1>2, <2>3, <4>1, JoinPiecesAt
            <4> QED BY <3>1, <4>2, <4>3
        <3>3. Len(x[i]) = Len(s) + Len(f[i])
            BY <2>1, <3>2, ConcatProperties
        <3>4. Len(y[i]) = Len(s) + Len(g[i])
            BY <2>1, <3>2, ConcatProperties
        <3> QED BY <2>1, <3>3, <3>4
    <2> QED BY <2>2, <2>3
<1>5. SameLengths(x, y)
    BY <1>1, <1>3, <1>4 DEF SameLengths
<1> QED BY <1>3, <1>5, FlattenSameLength

\* A word of plain text is one byte.
LEMMA WordLength ==
    ASSUME NEW w \in STRING, w \notin Special
    PROVE  SerializeDeg(One(w)) = <<w>>
<1>1. PICK d \in Seq(Sendable) : d = One(w)
    BY WordType
<1>2. d = <<Word(w)>> /\ Len(d) = 1 /\ d[1] = Word(w) /\ DOMAIN d = 1..1
    BY <1>1 DEF One
<1>3. PICK n : EndsAt(d, n) /\ TrimmedDeg(d) = SubSeq(d, 1, n)
    BY DegTrimmed
<1>4. n = 1
    <2>1. ~IsEmpty(d[1])
        BY <1>2 DEF IsEmpty, Word, Text
    <2>2. n \in 0..1 /\ \A m \in n + 1..1 : IsEmpty(d[m])
        <3>1. Len(d) = 1
            BY <1>2
        <3> QED BY <1>3, <3>1 DEF EndsAt
    <2> QED BY <2>1, <2>2
<1>5. TrimmedDeg(d) = d
    BY <1>2, <1>3, <1>4, SubSeqFull
<1>6. PICK s \in Seq(STRING) : s = <<w>>
    BY SingleType
<1>7. SerializeDe(Word(w)) = s
    <2>1. SerializeDe(Word(w)) = EscapeText(s)
        BY <1>6 DEF SerializeDe, Word, Text
    <2>2. EscapeText(s) = FlattenSeq(EscapePieces(s))
        BY DEF EscapeText, EscapePieces
    <2>3. Len(EscapePieces(s)) = 1 /\ EscapePieces(s) \in Seq(Seq(STRING))
        BY <1>6, EscapePiecesType
    <2>4. EscapePieces(s)[1] = s
        <3>1. s[1] = w /\ 1 \in 1..Len(s)
            BY <1>6
        <3>2. EscapePieces(s)[1] = <<s[1]>>
            BY <3>1, EscapePiecesAt
        <3> QED BY <1>6, <3>1, <3>2
    <2>5. EscapePieces(s) = <<s>>
        BY <2>3, <2>4
    <2>6. FlattenSeq(<<s>>) = s
        BY FlattenOne
    <2> QED BY <2>1, <2>2, <2>5, <2>6
<1>8. SerializeDeg(d) = Joined(":", <<s>>)
    <2>1. SerializeDeg(d) = Joined(":", [i \in DOMAIN d |-> SerializeDe(d[i])])
        BY <1>5 DEF SerializeDeg, TrimmedDeg
    <2>2. [i \in DOMAIN d |-> SerializeDe(d[i])] = <<s>>
        <3>1. PICK f : f = [i \in DOMAIN d |-> SerializeDe(d[i])]
            OBVIOUS
        <3>2. f = [i \in 1..1 |-> SerializeDe(d[i])]
            BY <1>2, <3>1
        <3>3. f = [i \in 1..1 |-> f[i]] /\ f[1] = SerializeDe(d[1])
            BY <3>2
        <3>4. f[1] = s
            BY <1>2, <1>7, <3>3
        <3>5. f = <<f[1]>>
            BY <3>3
        <3> QED BY <3>1, <3>4, <3>5
    <2> QED BY <2>1, <2>2
<1>9. Joined(":", <<s>>) = s
    <2>1. JoinPieces(":", <<s>>) = <<s>>
        BY DEF JoinPieces
    <2>2. Joined(":", <<s>>) = FlattenSeq(JoinPieces(":", <<s>>))
        BY DEF Joined, JoinPieces
    <2>3. FlattenSeq(<<s>>) = s
        BY FlattenOne
    <2> QED BY <2>1, <2>2, <2>3
<1> QED BY <1>1, <1>6, <1>8, <1>9

\* A segment whose last group is not empty is written with all its groups.
LEMMA WrittenWhole ==
    ASSUME NEW seg \in Seq(Seq(Sendable)), HasHeader(seg), ~DegIsEmpty(seg[Len(seg)])
    PROVE  \E texts \in Seq(Seq(STRING)) :
              /\ Len(texts) = Len(seg) /\ \A j \in 1..Len(seg) : texts[j] = SerializeDeg(seg[j])
              /\ SerializeSegment(seg) = Append(Joined("+", texts), "'")
<1>1. PICK n : SegEndsAt(seg, n) /\ TrimmedSegment(seg) = SubSeq(seg, 1, n)
    BY SegmentTrimmed
<1>2. PICK f : f = SegmentAsRead(seg)
    OBVIOUS
<1>3. /\ f \in Seq(Seq(Readable)) /\ Len(f) = n /\ n \in Nat
      /\ \A j \in 1..n : j \in 1..Len(seg) /\ f[j] = DegAsRead(seg[j])
      /\ SerializeSegment(seg) = SegmentText(f)
    BY <1>1, <1>2, SegmentRead
<1>4. n = Len(seg)
    <2>1. Len(seg) \in Nat
        BY LenProperties
    <2> QED BY <1>1, <1>3, <2>1 DEF SegEndsAt
<1>5. PICK texts \in Seq(Seq(STRING)) : texts = GroupTexts(f) /\ Len(texts) = n
    BY <1>3, GroupTextsType
<1>6. ASSUME NEW j \in 1..n PROVE texts[j] = SerializeDeg(seg[j])
    <2>1. texts[j] = Joined(":", ElementTexts(f[j]))
        BY <1>3, <1>5, GroupTextsType
    <2>2. seg[j] \in Seq(Sendable) /\ f[j] = DegAsRead(seg[j])
        BY <1>3, ElementOfSeq
    <2>3. Joined(":", ElementTexts(DegAsRead(seg[j]))) = SerializeDeg(seg[j])
        BY <2>2, DegIsSent
    <2> QED BY <2>1, <2>2, <2>3
<1> QED BY <1>3, <1>4, <1>5, <1>6 DEF SegmentText

\* The header of a message is as long whatever the size it names.
LEMMA HeaderLength ==
    ASSUME NEW m \in Numerals, NEW n \in Numerals, NEW dialog \in Texts, NEW number \in Numerals
    PROVE  Len(SerializeSegment(Hnhbk(m, dialog, number)))
              = Len(SerializeSegment(Hnhbk(n, dialog, number)))
<1>1. PICK x, y : x = Hnhbk(m, dialog, number) /\ y = Hnhbk(n, dialog, number)
    OBVIOUS
<1>2. IsSegment(x) /\ IsSegment(y)
    BY <1>1, HnhbkType
<1>3. Len(x) = 5 /\ Len(y) = 5 /\ \A j \in 1..5 : j # 2 => x[j] = y[j]
    BY <1>1 DEF Hnhbk
<1>4. x[2] = One(ToString(m)) /\ y[2] = One(ToString(n)) /\ x[5] = <<Number(number)>>
    BY <1>1 DEF Hnhbk
<1>5. ~DegIsEmpty(x[5]) /\ ~DegIsEmpty(y[5])
    BY <1>3, <1>4 DEF DegIsEmpty, IsEmpty, Number, Word, Text
<1>6. PICK s \in Seq(Seq(STRING)) :
         /\ Len(s) = Len(x) /\ \A j \in 1..Len(x) : s[j] = SerializeDeg(x[j])
         /\ SerializeSegment(x) = Append(Joined("+", s), "'")
    BY <1>2, <1>3, <1>5, WrittenWhole DEF IsSegment
<1>7. PICK t \in Seq(Seq(STRING)) :
         /\ Len(t) = Len(y) /\ \A j \in 1..Len(y) : t[j] = SerializeDeg(y[j])
         /\ SerializeSegment(y) = Append(Joined("+", t), "'")
    BY <1>2, <1>3, <1>5, WrittenWhole DEF IsSegment
<1>8. Len(s[2]) = 1 /\ Len(t[2]) = 1
    <2>1. PICK v \in STRING, w \in STRING :
             v = ToString(m) /\ w = ToString(n) /\ v \notin Special /\ w \notin Special
        BY NumeralType DEF Numerals
    <2>2. s[2] = SerializeDeg(One(v)) /\ t[2] = SerializeDeg(One(w))
        BY <1>3, <1>4, <1>6, <1>7, <2>1
    <2>3. s[2] = <<v>> /\ t[2] = <<w>>
        BY <2>1, <2>2, WordLength
    <2> QED BY <2>3
<1>9. ASSUME NEW j \in 1..5 PROVE Len(s[j]) = Len(t[j])
    BY <1>3, <1>6, <1>7, <1>8
<1>10. SameLengths(s, t)
    BY <1>3, <1>6, <1>7, <1>9 DEF SameLengths
<1>11. Len(Joined("+", s)) = Len(Joined("+", t))
    BY <1>10, SpecialType, JoinedSameLength
<1>12. Joined("+", s) \in Seq(STRING) /\ Joined("+", t) \in Seq(STRING) /\ "'" \in STRING
    BY SpecialType, JoinedType
<1>13. PICK p \in Seq(STRING), q \in Seq(STRING) : p = Joined("+", s) /\ q = Joined("+", t)
    BY <1>12
<1>14. Len(Append(p, "'")) = Len(p) + 1 /\ Len(Append(q, "'")) = Len(q) + 1
    BY <1>12, AppendProperties
<1> QED BY <1>1, <1>6, <1>7, <1>11, <1>13, <1>14

\* So the size that is measured is that of the message.
LEMMA SizeIsRight ==
    ASSUME NEW ctx \in Contexts, NEW business, IsBusiness(business), FitsInto(ctx, business),
           NEW m \in Numerals, NEW n \in Numerals
    PROVE  Len(SerializeMessage(Sized(ctx, business, m)))
              = Len(SerializeMessage(Sized(ctx, business, n)))
<1>1. PICK x, y : x = Sized(ctx, business, m) /\ y = Sized(ctx, business, n)
    OBVIOUS
<1>2. /\ x \in Writable /\ Len(x) = 4 /\ y \in Writable /\ Len(y) = 4
      /\ x[1] = Hnhbk(m, ctx.dialog, ctx.number) /\ y[1] = Hnhbk(n, ctx.dialog, ctx.number)
    BY <1>1, SizedIs
<1>3. x[2] = y[2] /\ x[3] = y[3] /\ x[4] = y[4]
    BY <1>1 DEF Sized, OuterSegments
<1>4. PICK p, q : p = SegmentTexts(AsRead(x)) /\ q = SegmentTexts(AsRead(y))
    OBVIOUS
<1>5. /\ SerializeMessage(x) = FlattenSeq(p) /\ SerializeMessage(y) = FlattenSeq(q)
    BY <1>2, <1>4, MessageIsSent DEF TextOf
<1>6. ASSUME NEW z \in Writable, Len(z) = 4
      PROVE  /\ SegmentTexts(AsRead(z)) \in Seq(Seq(STRING)) /\ Len(SegmentTexts(AsRead(z))) = 4
             /\ \A i \in 1..4 : SegmentTexts(AsRead(z))[i] = SerializeSegment(z[i])
    <2>1. PICK r : r = AsRead(z)
        OBVIOUS
    <2>2. r \in Seq(Seq(Seq(Readable))) /\ Len(r) = 4 /\ \A i \in 1..4 : r[i] = SegmentAsRead(z[i])
        BY <1>6, <2>1, MessageIsSent DEF Messages
    <2>3. /\ SegmentTexts(r) \in Seq(Seq(STRING)) /\ Len(SegmentTexts(r)) = 4
          /\ \A i \in 1..4 : SegmentTexts(r)[i] = SegmentText(r[i])
        BY <2>2, SegmentTextsType
    <2>4. \A i \in 1..4 : z[i] \in Seq(Seq(Sendable)) /\ HasHeader(z[i])
        BY <1>6, ElementOfSeq DEF Writable
    <2>5. ASSUME NEW i \in 1..4 PROVE SerializeSegment(z[i]) = SegmentText(r[i])
        BY <2>2, <2>4, SegmentIsSent
    <2> QED BY <2>1, <2>3, <2>5
<1>7. /\ p \in Seq(Seq(STRING)) /\ Len(p) = 4 /\ \A i \in 1..4 : p[i] = SerializeSegment(x[i])
      /\ q \in Seq(Seq(STRING)) /\ Len(q) = 4 /\ \A i \in 1..4 : q[i] = SerializeSegment(y[i])
    BY <1>2, <1>4, <1>6
<1>8. Len(p[1]) = Len(q[1])
    <2>1. ctx.dialog \in Texts /\ ctx.number \in Numerals
        BY ContextType
    <2>2. p[1] = SerializeSegment(Hnhbk(m, ctx.dialog, ctx.number))
        BY <1>2, <1>7
    <2>3. q[1] = SerializeSegment(Hnhbk(n, ctx.dialog, ctx.number))
        BY <1>2, <1>7
    <2> QED BY <2>1, <2>2, <2>3, HeaderLength
<1>9. p[2] = q[2] /\ p[3] = q[3] /\ p[4] = q[4]
    BY <1>3, <1>7
<1>10. SameLengths(p, q)
    BY <1>7, <1>8, <1>9 DEF SameLengths
<1> QED BY <1>1, <1>5, <1>10, FlattenSameLength

-----------------------------------------------------------------------------
(* The parts of a request agree.                                           *)

\* The number of a segment is read as it was written.
LEMMA NumberIs ==
    ASSUME NEW seg, IsSegment(seg), NEW k \in Numerals, seg[1][2] = Number(k)
    PROVE  SegmentNumber(SegmentAsRead(seg)) = k
<1>1. seg \in Seq(Seq(Sendable)) /\ HasHeader(seg) /\ Len(seg[1]) = 3
    BY DEF IsSegment
<1>2. 1 \in DOMAIN seg
    BY <1>1, EmptySeq, LenProperties DEF HasHeader
<1>3. seg[1] \in Seq(Sendable)
    BY <1>1, <1>2, LenProperties, ElementOfSeq
<1>4. 2 \in DOMAIN seg[1]
    BY <1>1, <1>3, LenProperties
<1>5. Get(DegAt(seg, 0), 1) = <<ToString(k)>>
    BY <1>2, <1>4 DEF Get, DeAt, DegAt, Number, Word, Text
<1>6. Get(DegAt(SegmentAsRead(seg), 0), 1) = <<ToString(k)>>
    BY <1>1, <1>5, SameValue
<1>7. NumOf(<<ToString(k)>>) = k
    BY NumeralIsRead DEF Numerals
<1> QED BY <1>6, <1>7 DEF SegmentNumber

\* A text of one element is read as it is.
LEMMA StrIs ==
    ASSUME NEW seg \in Seq(Seq(Sendable)), HasHeader(seg), NEW i \in Nat, i + 1 \in 1..Len(seg),
           NEW w, seg[i + 1] = One(w)
    PROVE  Str(SegmentAsRead(seg), i) = <<w>>
<1>1. Str(SegmentAsRead(seg), i) = Get(DegAt(seg, i), 0)
    BY SameValue DEF Str
<1>2. DegAt(seg, i) = One(w)
    BY LenProperties DEF DegAt
<1>3. Get(One(w), 0) = <<w>>
    BY DEF Get, DeAt, One, Word, Text
<1> QED BY <1>1, <1>2, <1>3

\* How many elements of a group are read.
LEMMA GroupLength ==
    ASSUME NEW d \in Seq(Sendable), NEW n, EndsAt(d, n), TrimmedDeg(d) = SubSeq(d, 1, n)
    PROVE  Len(DegAsRead(d)) = (IF n = 0 THEN 1 ELSE n)
<1> DEFINE t == TrimmedDeg(d)
           f == [i \in DOMAIN t |-> IF t[i] = Text(<<>>) THEN Empty ELSE t[i]]
<1>1. n \in 0..Len(d) /\ n \in Nat
    BY LenProperties DEF EndsAt
<1>2. t \in Seq(Sendable) /\ Len(t) = n
    BY <1>1, Beginning
<1>3. DegAsRead(d) = OrEmptyElement(f)
    BY DEF DegAsRead, TrimmedDeg
<1> HIDE DEF t
<1>4. DOMAIN t = 1..n
    BY <1>2, LenProperties
<1>5. f = [i \in 1..n |-> f[i]]
    BY <1>4
<1>6. PICK g : g = f
    OBVIOUS
<1> HIDE DEF f
<1>7. g = [i \in 1..n |-> g[i]] /\ DegAsRead(d) = OrEmptyElement(g)
    BY <1>3, <1>5, <1>6
<1>8. CASE n = 0
    <2>1. g = <<>>
        BY <1>7, <1>8
    <2>2. DegAsRead(d) = <<Empty>>
        BY <1>7, <2>1 DEF OrEmptyElement
    <2> QED BY <1>8, <2>2
<1>9. CASE n # 0
    <2>1. Len(g) = n
        BY <1>1, <1>7
    <2>2. g # <<>>
        BY <1>9, <2>1
    <2> QED BY <1>7, <1>9, <2>1, <2>2 DEF OrEmptyElement
<1> QED BY <1>8, <1>9

\* Two elements, one behind the other.
LEMMA TwoElements ==
    ASSUME NEW p, NEW t
    PROVE  <<p>> \o <<t>> = <<p, t>>
<1>1. PICK a, b, c, S : a = <<p>> /\ b = <<t>> /\ c = <<p, t>> /\ S = {p, t}
    OBVIOUS
<1>2. /\ a \in Seq(S) /\ b \in Seq(S) /\ c \in Seq(S)
      /\ Len(a) = 1 /\ Len(b) = 1 /\ Len(c) = 2
      /\ a[1] = p /\ b[1] = t /\ c[1] = p /\ c[2] = t
    BY <1>1
<1>3. PICK ab : ab = a \o b
    OBVIOUS
<1>4. /\ ab \in Seq(S) /\ Len(ab) = Len(a) + Len(b)
      /\ \A i \in 1..Len(a) + Len(b) : ab[i] = IF i <= Len(a) THEN a[i] ELSE b[i - Len(a)]
    BY <1>2, <1>3, ConcatProperties
<1>5. Len(ab) = 2 /\ ab[1] = p /\ ab[2] = t
    BY <1>2, <1>4
<1>6. ab = c
    <2>1. \A i \in 1..2 : i = 1 \/ i = 2
        OBVIOUS
    <2>2. \A i \in 1..Len(ab) : ab[i] = c[i]
        BY <1>2, <1>5, <2>1
    <2> QED BY <1>2, <1>4, <1>5, <2>2, SeqEqual
<1> QED BY <1>1, <1>3, <1>6

\* The last group of the signature.
LEMMA SignatureIsRead ==
    ASSUME NEW ctx \in Contexts, NEW k \in Numerals
    PROVE  LET signature == DegAt(SegmentAsRead(Hnsha(k, ctx)), 3)
           IN  /\ Get(signature, 0) = ctx.pin
               /\ IF ctx.tan = NoTan THEN Len(signature) <= 1
                  ELSE Len(signature) = 2 /\ Get(signature, 1) = ctx.tan
<1>1. PICK seg : seg = Hnsha(k, ctx)
    OBVIOUS
<1>2. IsSegment(seg) /\ seg \in Seq(Seq(Sendable)) /\ HasHeader(seg)
    BY <1>1, HnshaType DEF IsSegment
<1>3. PICK d : d = UserSignature(ctx)
    OBVIOUS
<1>4. Len(seg) = 4 /\ seg[4] = d
    BY <1>1, <1>3 DEF Hnsha
<1>5. d \in Seq(Sendable)
    <2>1. 4 \in 1..Len(seg)
        BY <1>4
    <2>2. seg[4] \in Seq(Sendable)
        BY <1>2, <2>1, ElementOfSeq
    <2> QED BY <1>4, <2>2
<1>6. PICK p, t : p = DeText(ctx.pin) /\ t = Text(ctx.tan)
    OBVIOUS
<1>7. d = IF ctx.tan = NoTan THEN <<p>> ELSE <<p, t>>
    <2>1. <<p>> \in Seq({p}) /\ <<p>> \o <<>> = <<p>>
        OBVIOUS
    <2>2. <<p>> \o <<t>> = <<p, t>>
        BY TwoElements
    <2> QED BY <1>3, <1>6, <2>1, <2>2 DEF UserSignature
<1>8. p.value = ctx.pin /\ t.value = ctx.tan /\ ~IsEmpty(t)
    BY <1>6 DEF DeText, Text, Empty, IsEmpty
<1>9. d[1] = p /\ 1 \in DOMAIN d /\ (ctx.tan # NoTan => d[2] = t /\ 2 \in DOMAIN d /\ Len(d) = 2)
      /\ (ctx.tan = NoTan => Len(d) = 1)
    BY <1>7
<1>10. DegAt(seg, 3) = d
    BY <1>2, <1>4, LenProperties DEF DegAt
<1>11. Get(d, 0) = ctx.pin /\ (ctx.tan # NoTan => Get(d, 1) = ctx.tan)
    BY <1>8, <1>9 DEF Get, DeAt
<1>12. PICK f : f = SegmentAsRead(seg)
    OBVIOUS
<1>13. Get(DegAt(f, 3), 0) = ctx.pin /\ (ctx.tan # NoTan => Get(DegAt(f, 3), 1) = ctx.tan)
    BY <1>2, <1>10, <1>11, <1>12, SameValue
<1>14. PICK n : SegEndsAt(seg, n) /\ TrimmedSegment(seg) = SubSeq(seg, 1, n)
    BY <1>2, SegmentTrimmed
<1>15. /\ f \in Seq(Seq(Readable)) /\ Len(f) = n /\ n \in Nat
       /\ \A j \in 1..n : f[j] = DegAsRead(seg[j])
    BY <1>2, <1>12, <1>14, SegmentRead
<1>16. DOMAIN f = 1..n /\ n \in 1..4
    BY <1>4, <1>14, <1>15, LenProperties DEF SegEndsAt
<1>17. PICK m : EndsAt(d, m) /\ TrimmedDeg(d) = SubSeq(d, 1, m)
    BY <1>5, DegTrimmed
<1>18. Len(DegAsRead(d)) = (IF m = 0 THEN 1 ELSE m) /\ m \in 0..Len(d)
    BY <1>5, <1>17, GroupLength DEF EndsAt
<1>19. CASE ctx.tan = NoTan
    <2>1. m \in 0..1
        BY <1>9, <1>18, <1>19
    <2>2. Len(DegAsRead(d)) <= 1
        BY <1>18, <2>1
    <2>3. CASE n = 4
        <3>1. DegAt(f, 3) = DegAsRead(d)
            BY <1>4, <1>15, <1>16, <2>3 DEF DegAt
        <3> QED BY <1>1, <1>12, <1>13, <1>19, <2>2, <3>1
    <2>4. CASE n # 4
        <3>1. DegAt(f, 3) = <<>>
            BY <1>16, <2>4 DEF DegAt
        <3>2. Len(DegAt(f, 3)) <= 1
            BY <3>1
        <3> QED BY <1>1, <1>12, <1>13, <1>19, <3>2
    <2> QED BY <2>3, <2>4
<1>20. CASE ctx.tan # NoTan
    <2>1. Len(d) = 2 /\ ~IsEmpty(d[2])
        BY <1>8, <1>9, <1>20
    <2>2. m = 2
        <3>1. m \in 0..2 /\ \A i \in m + 1..2 : IsEmpty(d[i])
            BY <1>17, <2>1 DEF EndsAt
        <3> QED BY <2>1, <3>1
    <2>3. ~DegIsEmpty(seg[4])
        BY <1>4, <1>9, <1>20, <2>1 DEF DegIsEmpty
    <2>4. n = 4
        <3>1. \A i \in n + 1..4 : DegIsEmpty(seg[i])
            BY <1>4, <1>14 DEF SegEndsAt
        <3> QED BY <1>16, <2>3, <3>1
    <2>5. DegAt(f, 3) = DegAsRead(d)
        BY <1>4, <1>15, <1>16, <2>4 DEF DegAt
    <2>6. Len(DegAt(f, 3)) = 2
        BY <1>18, <2>2, <2>5
    <2> QED BY <1>1, <1>12, <1>13, <1>20, <2>6
<1> QED BY <1>19, <1>20

\* The parts of a request, as they are read, agree with each other.
LEMMA MessageAgrees ==
    ASSUME NEW ctx \in Contexts, NEW business, IsBusiness(business), Fits(ctx, business)
    PROVE  LET outer4 == AsRead(MessageSegments(ctx, business))
               inner  == AsRead(InnerSegments(ctx, business))
               last   == Len(business) + 2
           IN  /\ Len(outer4) = 4 /\ Len(inner) = last
               /\ NumOf(Str(outer4[1], 1)) = Len(BuildMessageRaw(ctx, business))
               /\ Str(outer4[1], 4) = Str(outer4[4], 1)
               /\ SegmentNumber(outer4[4]) = last + 2
               /\ \A i \in 1..last : SegmentNumber(inner[i]) = i + 1
               /\ Str(inner[1], 3) = Str(inner[last], 1)
               /\ inner[last] = SegmentAsRead(Hnsha(last + 1, ctx))
<1>1. PICK size \in Numerals : size = SizeOf(ctx, business)
    BY SizeIsNumeral
<1>2. FitsInto(ctx, business)
    BY SizeIsNumeral
<1>3. PICK b : b = Len(business)
    OBVIOUS
<1>4. b \in Nat /\ b + 4 <= MaxNumeral /\ MaxNumeral \in Nat
    BY <1>3, LenProperties, NumeralAssumption DEF IsBusiness
<1>5. PICK k, l, e : k = b + 4 /\ l = b + 2 /\ e = b + 3
    OBVIOUS
<1>6. k \in Numerals /\ e \in Numerals /\ l \in Nat /\ k = l + 2 /\ e = l + 1 /\ l >= 2
    BY <1>4, <1>5 DEF Numerals
<1>7. PICK s : s = MessageSegments(ctx, business)
    OBVIOUS
<1>8. s = Sized(ctx, business, size)
    BY <1>1, <1>7 DEF MessageSegments
<1>9. /\ s \in Writable /\ Len(s) = 4
      /\ s[1] = Hnhbk(size, ctx.dialog, ctx.number) /\ s[4] = Hnhbs(k, ctx.number)
    BY <1>2, <1>3, <1>5, <1>8, SizedIs
<1>10. PICK o : o = AsRead(s)
    OBVIOUS
<1>11. Len(o) = 4 /\ o[1] = SegmentAsRead(s[1]) /\ o[4] = SegmentAsRead(s[4])
    BY <1>9, <1>10, MessageIsSent
<1>12. ctx.dialog \in Texts /\ ctx.number \in Numerals
    BY ContextType
<1>13. IsSegment(s[1]) /\ IsSegment(s[4])
    BY <1>6, <1>9, <1>12, HnhbkType, HnhbsType
<1>14. NumOf(Str(o[1], 1)) = Len(BuildMessageRaw(ctx, business))
    <2>1. s[1][1 + 1] = One(ToString(size)) /\ Len(s[1]) = 5 /\ 1 + 1 \in 1..Len(s[1])
        BY <1>9 DEF Hnhbk
    <2>2. Str(o[1], 1) = <<ToString(size)>>
        <3>1. PICK seg : seg = s[1]
            OBVIOUS
        <3>2. seg \in Seq(Seq(Sendable)) /\ HasHeader(seg) /\ 1 \in Nat
            BY <1>13, <3>1 DEF IsSegment
        <3>3. Str(SegmentAsRead(seg), 1) = <<ToString(size)>>
            BY <2>1, <3>1, <3>2, StrIs
        <3> QED BY <1>11, <3>1, <3>3
    <2>3. NumOf(<<ToString(size)>>) = size
        BY NumeralIsRead DEF Numerals
    <2>4. Len(SerializeMessage(Sized(ctx, business, size)))
             = Len(SerializeMessage(Sized(ctx, business, 0)))
        BY <1>2, SmallNumbers, SizeIsRight
    <2> QED BY <1>1, <1>7, <1>8, <2>2, <2>3, <2>4 DEF SizeOf, BuildMessageRaw
<1>15. PICK w : w = ToString(ctx.number)
    OBVIOUS
<1>16. Str(o[1], 4) = <<w>>
    <2>1. s[1][4 + 1] = One(w) /\ Len(s[1]) = 5 /\ 4 + 1 \in 1..Len(s[1])
        BY <1>9, <1>15 DEF Hnhbk, One, Number
    <2>2. PICK seg : seg = s[1]
        OBVIOUS
    <2>3. seg \in Seq(Seq(Sendable)) /\ HasHeader(seg) /\ 4 \in Nat
        BY <1>13, <2>2 DEF IsSegment
    <2>4. Str(SegmentAsRead(seg), 4) = <<w>>
        BY <2>1, <2>2, <2>3, StrIs
    <2> QED BY <1>11, <2>2, <2>4
<1>17. Str(o[4], 1) = <<w>>
    <2>1. s[4][1 + 1] = One(w) /\ Len(s[4]) = 2 /\ 1 + 1 \in 1..Len(s[4])
        BY <1>9, <1>15 DEF Hnhbs, One, Number
    <2> QED BY <1>11, <1>13, <2>1, StrIs DEF IsSegment
<1>18. SegmentNumber(o[4]) = k
    <2>1. s[4][1][2] = Number(k)
        BY <1>9 DEF Hnhbs, SegHeader
    <2> QED BY <1>6, <1>11, <1>13, <2>1, NumberIs
<1>19. PICK x : x = InnerSegments(ctx, business)
    OBVIOUS
<1>20. /\ x \in Writable /\ Len(x) = l
       /\ x[1] = Hnshk(2, ctx) /\ x[l] = Hnsha(e, ctx)
       /\ \A i \in 1..b : x[i + 1] = WithNumber(business[i], i + 2)
    BY <1>3, <1>5, <1>19, InnerIs
<1>21. PICK n : n = AsRead(x)
    OBVIOUS
<1>22. Len(n) = l /\ \A i \in 1..l : n[i] = SegmentAsRead(x[i])
    BY <1>20, <1>21, MessageIsSent
<1>23. IsSegment(x[1]) /\ IsSegment(x[l])
    BY <1>6, <1>20, SmallNumbers, HnshkType, HnshaType
<1>24. 1 \in 1..l /\ l \in 1..l
    BY <1>6
<1>25. ASSUME NEW i \in 1..l PROVE SegmentNumber(n[i]) = i + 1
    <2>1. CASE i = 1
        <3>1. x[1][1][2] = Number(2)
            BY <1>20 DEF Hnshk, SegHeader
        <3>2. SegmentNumber(SegmentAsRead(x[1])) = 2
            BY <1>23, <3>1, SmallNumbers, NumberIs
        <3> QED BY <1>22, <2>1, <3>2
    <2>2. CASE i = l
        <3>1. x[l][1][2] = Number(e)
            BY <1>20 DEF Hnsha, SegHeader
        <3>2. SegmentNumber(SegmentAsRead(x[l])) = e
            BY <1>6, <1>23, <3>1, NumberIs
        <3> QED BY <1>6, <1>22, <2>2, <3>2
    <2>3. CASE i \in 2..l - 1
        <3>1. PICK j, m : j = i - 1 /\ m = i + 1
            OBVIOUS
        <3>2. j \in 1..b /\ i = j + 1 /\ m = j + 2 /\ m \in Numerals
            BY <1>4, <1>5, <2>3, <3>1 DEF Numerals
        <3>3. x[i] = WithNumber(business[j], m)
            BY <1>20, <3>2
        <3>4. PICK seg : seg = business[j] /\ IsSegment(seg)
            BY <1>3, <3>2 DEF IsBusiness
        <3>5. IsSegment(WithNumber(seg, m)) /\ WithNumber(seg, m)[1][2] = Number(m)
            <4>1. m \in Numerals
                BY <3>2
            <4> QED BY <3>4, <4>1, WithNumberType
        <3>7. IsSegment(x[i]) /\ x[i][1][2] = Number(m)
            BY <3>3, <3>4, <3>5
        <3>6. SegmentNumber(SegmentAsRead(x[i])) = m
            BY <3>2, <3>7, NumberIs
        <3> QED BY <1>22, <3>1, <3>6
    <2> QED BY <1>6, <2>1, <2>2, <2>3
<1>26. Str(n[1], 3) = <<SecurityReference>>
    <2>1. x[1][3 + 1] = One(SecurityReference) /\ Len(x[1]) = 12 /\ 3 + 1 \in 1..Len(x[1])
        BY <1>20 DEF Hnshk
    <2>2. PICK seg : seg = x[1]
        OBVIOUS
    <2>3. seg \in Seq(Seq(Sendable)) /\ HasHeader(seg) /\ 3 \in Nat
        BY <1>23, <2>2 DEF IsSegment
    <2>4. Str(SegmentAsRead(seg), 3) = <<SecurityReference>>
        BY <2>1, <2>2, <2>3, StrIs
    <2> QED BY <1>22, <1>24, <2>2, <2>4
<1>27. Str(n[l], 1) = <<SecurityReference>>
    <2>1. x[l][1 + 1] = One(SecurityReference) /\ Len(x[l]) = 4 /\ 1 + 1 \in 1..Len(x[l])
        BY <1>20 DEF Hnsha
    <2>2. PICK seg : seg = x[l]
        OBVIOUS
    <2>3. seg \in Seq(Seq(Sendable)) /\ HasHeader(seg) /\ 1 \in Nat
        BY <1>23, <2>2 DEF IsSegment
    <2>4. Str(SegmentAsRead(seg), 1) = <<SecurityReference>>
        BY <2>1, <2>2, <2>3, StrIs
    <2> QED BY <1>22, <1>24, <2>2, <2>4
<1>28. n[l] = SegmentAsRead(Hnsha(e, ctx))
    BY <1>20, <1>22, <1>24
<1> QED BY <1>3, <1>5, <1>6, <1>7, <1>10, <1>11, <1>14, <1>16, <1>17, <1>18, <1>19, <1>21, <1>22,
           <1>25, <1>26, <1>27, <1>28

\* What the parser has read when it is done.
LEMMA ReadIsWhole ==
    ASSUME ExchangeInv, RequestRead
    PROVE  /\ IsRequest /\ outer = TheWhole /\ segments = TheInside
           /\ letter.ctx \in Contexts /\ letter.orders \in Seq(Segments)
           /\ letter.params \in BankParameters
           /\ IsBusiness(Business) /\ Fits(letter.ctx, Business)
           /\ outer = AsRead(MessageSegments(letter.ctx, Business))
           /\ segments = AsRead(InnerSegments(letter.ctx, Business))
<1>1. /\ IsRequest /\ ReadsRequest(TheWhole, TheInside)
      /\ mode = "done" /\ letter.cut # "is"
    BY DEF ExchangeInv, RequestRead, IsRead
<1>2. level = "inner"
    BY <1>1 DEF ReadsRequest, ExchangeInv, ParserInv, ParserTypeOK
<1>3. outer = TheWhole /\ segments = TheInside
    BY <1>1, <1>2 DEF ReadsRequest
<1>4. /\ letter.ctx \in Contexts /\ letter.orders \in Seq(Segments)
      /\ letter.params \in BankParameters
    BY <1>1 DEF IsRequest, Requests
<1>5. Fits(letter.ctx, Business)
    BY <1>1 DEF IsRequest
<1>6. IsBusiness(Business)
    BY <1>4, <1>5, RequestIsText DEF Business
<1> QED BY <1>1, <1>3, <1>4, <1>5, <1>6 DEF TheWhole, TheInside, WholeOf, InsideOf, Business

\* IsConsistent: for every request the size in its header, its numbers, the
\* references of its signature, the PIN and the TAN are those of the request.
THEOREM ConsistencyHolds == Spec => []IsConsistent
<1>1. ExchangeInv => IsConsistent
    <2> SUFFICES ASSUME ExchangeInv, RequestRead PROVE IsConsistent
        BY DEF IsConsistent
    <2>1. PICK ctx, business : ctx \in Contexts /\ ctx = letter.ctx /\ business = Business
        BY ReadIsWhole
    <2>2. ctx \in Contexts /\ IsBusiness(business) /\ Fits(ctx, business)
        BY <2>1, ReadIsWhole
    <2>3. PICK o, n : o = outer /\ n = segments
        OBVIOUS
    <2>4. o = AsRead(MessageSegments(ctx, business)) /\ n = AsRead(InnerSegments(ctx, business))
        BY <2>1, <2>3, ReadIsWhole
    <2>5. PICK last : last = Len(business) + 2
        OBVIOUS
    <2>6. /\ Len(o) = 4 /\ Len(n) = last
          /\ NumOf(Str(o[1], 1)) = Len(BuildMessageRaw(ctx, business))
          /\ Str(o[1], 4) = Str(o[4], 1) /\ SegmentNumber(o[4]) = last + 2
          /\ \A i \in 1..last : SegmentNumber(n[i]) = i + 1
          /\ Str(n[1], 3) = Str(n[last], 1) /\ n[last] = SegmentAsRead(Hnsha(last + 1, ctx))
        BY <2>2, <2>4, <2>5, MessageAgrees
    <2>7. BuildMessageRaw(ctx, business) = RequestBytes
        BY <2>1 DEF RequestBytes, BuildMessage, Business
    <2>8. DOMAIN n = 1..last
        <3>1. n \in Seq(Seq(Seq(Elements)))
            BY <2>3 DEF ExchangeInv, ParserInv, ParserTypeOK
        <3> QED BY <2>6, <3>1, LenProperties
    <2>9. last + 1 \in Numerals
        BY <2>2, <2>5, NumeralAssumption, LenProperties DEF IsBusiness, Numerals
    <2>10. PICK signature : signature = DegAt(n[last], 3)
        OBVIOUS
    <2>11. /\ Get(signature, 0) = ctx.pin
           /\ IF ctx.tan = NoTan THEN Len(signature) <= 1
              ELSE Len(signature) = 2 /\ Get(signature, 1) = ctx.tan
        <3>1. ctx \in Contexts
            BY <2>2
        <3> QED BY <2>6, <2>9, <2>10, <3>1, SignatureIsRead
    <2> QED BY <2>1, <2>3, <2>6, <2>7, <2>8, <2>10, <2>11 DEF IsConsistent
<1> QED BY <1>1, ExchangeInvHolds, PTL

-----------------------------------------------------------------------------
(* A message that is cut.                                                  *)

\* The types of the segments of a request.
Frame == <<"HNHBK", "HNVSK", "HNVSD", "HNHBS">>
IsFrame(o) == Len(o) = 4 /\ \A i \in 1..4 : o[i][1][1] = Word(Frame[i])

\* A request is read as these four.
LEMMA RequestIsFrame ==
    ASSUME NEW ctx \in Contexts, NEW business, IsBusiness(business), FitsInto(ctx, business),
           NEW size \in Numerals
    PROVE  IsFrame(AsRead(Sized(ctx, business, size)))
<1>1. PICK s, text, k : /\ s = Sized(ctx, business, size)
                        /\ text = SerializeMessage(InnerSegments(ctx, business))
                        /\ k = Len(business) + 4
    OBVIOUS
<1>2. /\ s \in Writable /\ Len(s) = 4
      /\ s[1] = Hnhbk(size, ctx.dialog, ctx.number) /\ s[2] = Hnvsk(ctx) /\ s[3] = Hnvsd(text)
      /\ s[4] = Hnhbs(k, ctx.number)
    BY <1>1, SizedIs
<1>3. /\ s[1][1][1] = Word("HNHBK") /\ s[2][1][1] = Word("HNVSK") /\ s[3][1][1] = Word("HNVSD")
      /\ s[4][1][1] = Word("HNHBS")
    BY <1>2 DEF Hnhbk, Hnvsk, Hnvsd, Hnhbs, SegHeader
<1>4. PICK o : o = AsRead(s)
    OBVIOUS
<1>5. Len(o) = 4 /\ \A i \in 1..4 : o[i] = SegmentAsRead(s[i])
    BY <1>2, <1>4, MessageIsSent
<1>6. ASSUME NEW i \in 1..4 PROVE o[i][1][1] = s[i][1][1]
    <2>1. PICK seg : seg = s[i]
        OBVIOUS
    <2>2. seg \in Seq(Seq(Sendable)) /\ HasHeader(seg)
        BY <1>2, <2>1, ElementOfSeq DEF Writable
    <2>3. SegmentAsRead(seg)[1][1] = seg[1][1]
        BY <2>2, SegmentIsSent
    <2> QED BY <1>5, <2>1, <2>3
<1>7. \A i \in 1..4 : i = 1 \/ i = 2 \/ i = 3 \/ i = 4
    OBVIOUS
<1>8. \A i \in 1..4 : s[i][1][1] = Word(Frame[i])
    BY <1>3, <1>7 DEF Frame
<1> QED BY <1>1, <1>4, <1>5, <1>6, <1>8 DEF IsFrame

\* Of a word the parser has all or nothing.
LEMMA TornWord ==
    ASSUME NEW x, NEW seg, TornOf(x, seg), HasNoHole(x), NEW w, seg[1][1] = Word(w)
    PROVE  x[1][1] = Word(w)
<1>1. PICK e : e = seg[1][1]
    OBVIOUS
<1>2. e.kind = "Text" /\ e.value = <<w>> /\ e = Text(<<w>>)
    BY <1>1 DEF Word, Text
<1>3. Pieces(e) = EscapePieces(<<w>>)
    BY <1>2 DEF Pieces
<1>4. Len(EscapePieces(<<w>>)) = 1
    <2>1. PICK s : s = <<w>>
        OBVIOUS
    <2>2. DOMAIN s = 1..1
        BY <2>1
    <2>3. EscapePieces(s) = [i \in 1..1 |-> IF s[i] \in Special THEN <<"?", s[i]>> ELSE <<s[i]>>]
        BY <2>2 DEF EscapePieces
    <2>4. PICK f : f = EscapePieces(s)
        OBVIOUS
    <2>5. DOMAIN f = 1..1 /\ f = [i \in 1..1 |-> f[i]]
        BY <2>3, <2>4
    <2>6. Len(f) = 1
        BY <2>5
    <2> QED BY <2>1, <2>4, <2>6
<1>5. CASE x[1][1] = e
    BY <1>1, <1>5
<1>6. CASE \E c \in 1..Len(Pieces(e)) : x[1][1] = Part(e, c)
    <2>1. x[1][1] = Part(e, 1)
        <3>1. Len(Pieces(e)) = 1
            BY <1>3, <1>4
        <3>2. PICK c \in 1..Len(Pieces(e)) : x[1][1] = Part(e, c)
            BY <1>6
        <3>3. c = 1
            BY <3>1
        <3> QED BY <3>2, <3>3
    <2>2. SubSeq(<<w>>, 1, 1) = <<w>>
        <3>1. <<w>> \in Seq({w}) /\ Len(<<w>>) = 1
            OBVIOUS
        <3> QED BY <3>1, SubSeqFull
    <2>3. Part(e, 1) = Text(SubSeq(<<w>>, 1, 1))
        BY <1>2 DEF Part
    <2> QED BY <1>2, <2>1, <2>2, <2>3 DEF Word
<1> QED BY <1>1, <1>5, <1>6 DEF TornOf

\* What was read of a request that is cut has the types of the whole, in order.
LEMMA LastOfCut ==
    ASSUME NEW r \in Messages, IsFrame(r), NEW o \in Seq(Seq(Seq(Elements))), IsCutOf(o, r),
           \A i \in DOMAIN o : HasNoHole(o[i]), o # <<>>
    PROVE  /\ Len(o) \in 1..4 /\ \A i \in 1..Len(o) - 1 : o[i] = r[i]
           /\ o[Len(o)][1][1] = Word(Frame[Len(o)])
<1>1. r \in Seq(Seq(Seq(Readable))) /\ Len(r) = 4
    BY DEF Messages, IsFrame
<1>2. Len(o) \in Nat /\ Len(o) # 0 /\ DOMAIN o = 1..Len(o)
    BY LenProperties, EmptySeq
<1>3. HasNoHole(o[Len(o)])
    <2>1. Len(o) \in DOMAIN o
        BY <1>2
    <2> QED BY <2>1
<1>4. ASSUME NEW n \in 0..4, o = SubSeq(r, 1, n)
      PROVE  /\ Len(o) \in 1..4 /\ \A i \in 1..Len(o) - 1 : o[i] = r[i]
             /\ o[Len(o)][1][1] = Word(Frame[Len(o)])
    <2>1. Len(o) = n /\ \A i \in 1..n : o[i] = r[i]
        BY <1>1, <1>4, Beginning
    <2>2. n \in 1..4 /\ o[n] = r[n]
        BY <1>2, <2>1
    <2>3. r[n][1][1] = Word(Frame[n])
        BY <2>2 DEF IsFrame
    <2>4. o[n][1][1] = Word(Frame[n])
        BY <2>2, <2>3
    <2>5. \A i \in 1..n - 1 : o[i] = r[i]
        BY <2>1
    <2> QED BY <2>1, <2>2, <2>4, <2>5
<1>5. ASSUME NEW n \in 1..4, NEW x, TornOf(x, r[n]), o = Append(SubSeq(r, 1, n - 1), x)
      PROVE  /\ Len(o) \in 1..4 /\ \A i \in 1..Len(o) - 1 : o[i] = r[i]
             /\ o[Len(o)][1][1] = Word(Frame[Len(o)])
    <2>1. PICK b : b = SubSeq(r, 1, n - 1)
        OBVIOUS
    <2>2. b \in Seq(Seq(Seq(Readable))) /\ Len(b) = n - 1 /\ \A i \in 1..n - 1 : b[i] = r[i]
        <3>1. n - 1 \in 0..Len(r)
            BY <1>1
        <3> QED BY <1>1, <2>1, <3>1, Beginning
    <2>3. Len(Append(b, x)) = Len(b) + 1 /\ Append(b, x)[Len(b) + 1] = x
          /\ \A i \in 1..Len(b) : Append(b, x)[i] = b[i]
        BY <2>2
    <2>4. Len(o) = n /\ o[n] = x /\ \A i \in 1..n - 1 : o[i] = r[i]
        BY <1>5, <2>1, <2>2, <2>3
    <2>5. r[n][1][1] = Word(Frame[n])
        BY DEF IsFrame
    <2>6. HasNoHole(x)
        BY <1>3, <2>4
    <2>7. x[1][1] = Word(Frame[n])
        BY <1>5, <2>5, <2>6, TornWord
    <2> QED BY <2>4, <2>7
<1> QED BY <1>1, <1>4, <1>5 DEF IsCutOf

\* The type of a segment is the word it begins with.
LEMMA TypeOfWord ==
    ASSUME NEW seg, seg \in Seq(Seq(Elements)), HasNoHole(seg), NEW w, seg[1][1] = Word(w)
    PROVE  SegmentType(seg) = w
<1>1. 1 \in DOMAIN seg
    BY EmptySeq, LenProperties DEF HasNoHole
<1>2. seg[1] \in Seq(Elements) /\ seg[1] # <<>>
    BY <1>1, LenProperties, ElementOfSeq DEF HasNoHole
<1>3. 1 \in DOMAIN seg[1]
    BY <1>2, EmptySeq, LenProperties
<1>4. DeAt(DegAt(seg, 0), 0) = Word(w)
    BY <1>1, <1>3 DEF DeAt, DegAt
<1>5. Word(w).kind = "Text" /\ Len(Word(w).value) = 1 /\ Word(w).value[1] = w
    BY DEF Word, Text
<1> QED BY <1>4, <1>5 DEF SegmentType

\* CutIsNoticed: a request that is cut off anywhere is reported by the audit,
\* unless all its segments are there and only the trailer is torn.
THEOREM CutIsNoticedHolds == Spec => []CutIsNoticed
<1>1. ExchangeInv => CutIsNoticed
    <2> SUFFICES ASSUME ExchangeInv, IsAudited, letter.cut = "is",
                        "PARSE-001" \notin AuditOfRequest, "HNHBS-001" \notin AuditOfRequest
                 PROVE  /\ Len(outer) = Len(AsRead(MessageSegments(letter.ctx, Business)))
                        /\ \A i \in 1..Len(AsRead(MessageSegments(letter.ctx, Business))) - 1 :
                              outer[i] = AsRead(MessageSegments(letter.ctx, Business))[i]
                        /\ Last(outer)[1][1] = Word("HNHBS")
        BY DEF CutIsNoticed
    <2>1. phase = "request" /\ mode = "done"
        BY DEF IsAudited, AuditOfRequest, Unparsed
    <2>2. "HNHBS-001" \notin HnhbsRule(outer)
        BY <2>1 DEF AuditOfRequest, ClientAudit
    <2>3. outer # <<>> /\ SegmentType(outer[Len(outer)]) = "HNHBS"
        BY <2>2 DEF HnhbsRule, Broken, Last
    <2>4. IsRequest /\ IsCutOf(outer, TheWhole)
        BY <2>1 DEF ExchangeInv, ReadsRequest
    <2>5. PICK ctx \in Contexts, orders \in Seq(Segments), params \in BankParameters :
             ctx = letter.ctx /\ orders = letter.orders /\ params = letter.params
        BY <2>4 DEF IsRequest, Requests
    <2>6. PICK business : business = BusinessDegs(orders, params)
        OBVIOUS
    <2>7. Fits(ctx, business)
        BY <2>4, <2>5, <2>6 DEF IsRequest, Business
    <2>8. PICK whole : whole = WholeOf(ctx, orders, params)
        OBVIOUS
    <2>9. IsBusiness(business) /\ whole \in Messages
        BY <2>6, <2>7, <2>8, RequestIsText
    <2>10. PICK size \in Numerals : size = SizeOf(ctx, business)
        BY <2>7, <2>9, SizeIsNumeral
    <2>11. IsFrame(AsRead(Sized(ctx, business, size)))
        BY <2>7, <2>9, SizeIsNumeral, RequestIsFrame
    <2>12. IsFrame(whole)
        BY <2>6, <2>8, <2>10, <2>11 DEF WholeOf, MessageSegments
    <2>13. whole = AsRead(MessageSegments(letter.ctx, Business)) /\ IsCutOf(outer, whole)
        BY <2>4, <2>5, <2>8 DEF TheWhole, WholeOf, Business
    <2>14. PICK o : o = outer
        OBVIOUS
    <2>15. o \in Seq(Seq(Seq(Elements))) /\ \A i \in DOMAIN o : HasNoHole(o[i])
        BY <2>14 DEF ExchangeInv, ParserInv, ParserTypeOK, NothingIsEmpty
    <2>16. /\ Len(o) \in 1..4 /\ \A i \in 1..Len(o) - 1 : o[i] = whole[i]
           /\ o[Len(o)][1][1] = Word(Frame[Len(o)])
        BY <2>3, <2>9, <2>12, <2>13, <2>14, <2>15, LastOfCut
    <2>17. SegmentType(o[Len(o)]) = Frame[Len(o)]
        <3>1. Len(o) \in DOMAIN o
            BY <2>15, <2>16, LenProperties
        <3>2. PICK seg, w : seg = o[Len(o)] /\ w = Frame[Len(o)]
            OBVIOUS
        <3>3. seg \in Seq(Seq(Elements)) /\ HasNoHole(seg) /\ seg[1][1] = Word(w)
            BY <2>15, <2>16, <3>1, <3>2, LenProperties, ElementOfSeq
        <3> QED BY <3>2, <3>3, TypeOfWord
    <2>18. Len(o) = 4
        <3>1. Frame[1] = "HNHBK" /\ Frame[2] = "HNVSK" /\ Frame[3] = "HNVSD"
            BY DEF Frame
        <3> QED BY <2>3, <2>14, <2>16, <2>17, <3>1
    <2>19. Last(o)[1][1] = Word("HNHBS")
        BY <2>16, <2>18 DEF Last, Frame
    <2> QED BY <2>12, <2>13, <2>14, <2>16, <2>18, <2>19 DEF IsFrame
<1> QED BY <1>1, ExchangeInvHolds, PTL

-----------------------------------------------------------------------------
(* The orders, as the bank reads them.                                     *)

\* The header of an order that was given its number.
LEMMA OrderIsRead ==
    ASSUME NEW seg, IsSegment(seg), NEW type, NEW version \in Numerals,
           seg[1] = SegHeader(type, 0, version), NEW m \in Numerals,
           NEW f, f = SegmentAsRead(WithNumber(seg, m))
    PROVE  /\ SegmentType(f) = type /\ SegmentVersion(f) = version
           /\ \A i \in Nat \ {0}, j \in Nat : Get(DegAt(f, i), j) = Get(DegAt(seg, i), j)
<1>1. PICK w : w = WithNumber(seg, m)
    OBVIOUS
<1>2. /\ IsSegment(w) /\ w[1] = [seg[1] EXCEPT ![2] = Number(m)] /\ w[1][1] = seg[1][1]
      /\ Len(w) = Len(seg) /\ \A j \in 2..Len(seg) : w[j] = seg[j]
    <2>1. /\ IsSegment(WithNumber(seg, m))
          /\ WithNumber(seg, m)[1] = [seg[1] EXCEPT ![2] = Number(m)]
          /\ WithNumber(seg, m)[1][1] = seg[1][1]
          /\ Len(WithNumber(seg, m)) = Len(seg)
          /\ \A j \in 2..Len(seg) : WithNumber(seg, m)[j] = seg[j]
        BY WithNumberType
    <2> QED BY <1>1, <2>1
<1>3. /\ w \in Seq(Seq(Sendable)) /\ HasHeader(w) /\ Len(w[1]) = 3
      /\ seg \in Seq(Seq(Sendable)) /\ HasHeader(seg)
    BY <1>2 DEF IsSegment
<1>4. f = SegmentAsRead(w)
    BY <1>1
<1>5. SegmentType(f) = type
    <2>1. w[1][1] = Word(type)
        BY <1>2 DEF SegHeader
    <2> QED BY <1>3, <1>4, <2>1, TypeRead
<1>6. SegmentVersion(f) = version
    <2>1. seg[1] = <<Word(type), Number(0), Number(version)>>
        BY DEF SegHeader
    <2>2. w[1][3] = Number(version)
        BY <1>2, <2>1
    <2>3. 1 \in DOMAIN w
        BY <1>3, EmptySeq, LenProperties DEF HasHeader
    <2>4. w[1] \in Seq(Sendable)
        BY <1>3, <2>3, LenProperties, ElementOfSeq
    <2>5. 3 \in DOMAIN w[1]
        BY <1>3, <2>4, LenProperties
    <2>6. Get(DegAt(w, 0), 2) = <<ToString(version)>>
        BY <2>2, <2>3, <2>5 DEF Get, DeAt, DegAt, Number, Word, Text
    <2>7. Get(DegAt(f, 0), 2) = <<ToString(version)>>
        <3>1. Get(DegAt(SegmentAsRead(w), 0), 2) = Get(DegAt(w, 0), 2)
            BY <1>3, SameValue
        <3> QED BY <1>4, <2>6, <3>1
    <2>8. NumOf(<<ToString(version)>>) = version
        BY NumeralIsRead DEF Numerals
    <2> QED BY <2>7, <2>8 DEF SegmentVersion
<1>7. ASSUME NEW i \in Nat \ {0}, NEW j \in Nat
      PROVE  Get(DegAt(f, i), j) = Get(DegAt(seg, i), j)
    <2>1. Get(DegAt(f, i), j) = Get(DegAt(w, i), j)
        BY <1>3, <1>4, SameValue
    <2>2. DOMAIN w = 1..Len(seg) /\ DOMAIN seg = 1..Len(seg) /\ Len(seg) \in Nat
        BY <1>2, <1>3, LenProperties
    <2>3. i + 1 \in 1..Len(seg) => i + 1 \in 2..Len(seg)
        OBVIOUS
    <2>4. DegAt(w, i) = DegAt(seg, i)
        BY <1>2, <2>2, <2>3 DEF DegAt
    <2> QED BY <2>1, <2>4
<1> QED BY <1>5, <1>6, <1>7

\* A group with an element that is not empty is read as a group.
LEMMA GroupIsRead ==
    ASSUME NEW seg, IsSegment(seg), Len(seg) >= 2, NEW d, d = seg[2],
           NEW n \in 1..Len(d), ~IsEmpty(d[n]), NEW m \in Numerals,
           NEW f, f = SegmentAsRead(WithNumber(seg, m))
    PROVE  DegAt(f, 1) = DegAsRead(d) /\ Len(DegAsRead(d)) >= n /\ d \in Seq(Sendable)
<1>1. PICK w : w = WithNumber(seg, m)
    OBVIOUS
<1>2. IsSegment(w) /\ Len(w) = Len(seg) /\ \A j \in 2..Len(seg) : w[j] = seg[j]
    <2>1. /\ IsSegment(WithNumber(seg, m)) /\ Len(WithNumber(seg, m)) = Len(seg)
          /\ \A j \in 2..Len(seg) : WithNumber(seg, m)[j] = seg[j]
        BY WithNumberType
    <2> QED BY <1>1, <2>1
<1>3. w \in Seq(Seq(Sendable)) /\ HasHeader(w) /\ seg \in Seq(Seq(Sendable)) /\ Len(seg) \in Nat
    BY <1>2, LenProperties DEF IsSegment
<1>4. w[2] = d /\ 2 \in 1..Len(w)
    BY <1>2, <1>3
<1>5. d \in Seq(Sendable)
    BY <1>3, <1>4, ElementOfSeq
<1>6. PICK e : SegEndsAt(w, e) /\ TrimmedSegment(w) = SubSeq(w, 1, e)
    BY <1>3, SegmentTrimmed
<1>7. /\ f \in Seq(Seq(Readable)) /\ Len(f) = e /\ e \in Nat
      /\ \A j \in 1..e : f[j] = DegAsRead(w[j])
    BY <1>1, <1>3, <1>6, SegmentRead
<1>8. DOMAIN d = 1..Len(d) /\ Len(d) \in Nat
    BY <1>5, LenProperties
<1>9. ~DegIsEmpty(w[2])
    BY <1>4, <1>8 DEF DegIsEmpty
<1>10. 2 \in 1..e
    <2>1. Len(w) \in Nat
        BY <1>3, LenProperties
    <2> QED BY <1>4, <1>6, <1>7, <1>9, <2>1 DEF SegEndsAt
<1>11. DegAt(f, 1) = DegAsRead(d)
    <2>1. 2 \in DOMAIN f
        BY <1>7, <1>10, LenProperties
    <2> QED BY <1>4, <1>7, <1>10, <2>1 DEF DegAt
<1>12. PICK k : EndsAt(d, k) /\ TrimmedDeg(d) = SubSeq(d, 1, k)
    BY <1>5, DegTrimmed
<1>13. k \in 0..Len(d) /\ k >= n
    BY <1>8, <1>12 DEF EndsAt
<1>14. Len(DegAsRead(d)) = (IF k = 0 THEN 1 ELSE k)
    BY <1>5, <1>12, GroupLength
<1> QED BY <1>5, <1>8, <1>11, <1>13, <1>14

\* The account by IBAN and BIC is read as it is.
LEMMA KtiIsRead ==
    ASSUME NEW account \in Accounts, account.iban # <<>>
    PROVE  DegAsRead(Kti(account)) = Kti(account) /\ Len(Kti(account)) = 2
           /\ ~IsEmpty(Kti(account)[1])
<1>1. PICK a, b : a = Text(account.iban) /\ b = Text(account.bic)
    OBVIOUS
<1>2. account.bic # <<>>
    BY DEF Accounts, NotEmpty
<1>3. a # Text(<<>>) /\ b # Text(<<>>) /\ ~IsEmpty(a) /\ ~IsEmpty(b)
    BY <1>1, <1>2 DEF Text, IsEmpty
<1>4. PICK d : d = Kti(account)
    OBVIOUS
<1>5. d = <<a, b>>
    BY <1>1, <1>4 DEF Kti
<1>6. d \in Seq(Sendable) /\ Len(d) = 2 /\ d[1] = a /\ d[2] = b
    <2>1. d \in Seq(Sendable)
        BY <1>4, AccountType
    <2>2. Len(d) = 2 /\ d[1] = a /\ d[2] = b
        BY <1>5
    <2> QED BY <2>1, <2>2
<1>7. PICK n : EndsAt(d, n) /\ TrimmedDeg(d) = SubSeq(d, 1, n)
    BY <1>6, DegTrimmed
<1>8. n = Len(d)
    BY <1>3, <1>6, <1>7 DEF EndsAt
<1>9. TrimmedDeg(d) = d
    BY <1>6, <1>7, <1>8, SubSeqFull
<1> DEFINE t == TrimmedDeg(d)
           f == [i \in DOMAIN t |-> IF t[i] = Text(<<>>) THEN Empty ELSE t[i]]
<1>10. DegAsRead(d) = OrEmptyElement(f)
    BY DEF DegAsRead, TrimmedDeg
<1>11. f = [i \in 1..2 |-> IF d[i] = Text(<<>>) THEN Empty ELSE d[i]]
    BY <1>6, <1>9, LenProperties
<1>12. PICK g : g = f
    OBVIOUS
<1> HIDE DEF f
<1>13. \A i \in 1..2 : i = 1 \/ i = 2
    OBVIOUS
<1>14. g = [i \in 1..2 |-> d[i]]
    BY <1>3, <1>6, <1>11, <1>12, <1>13
<1>15. g = d
    BY <1>5, <1>6, <1>14, LenProperties
<1>16. d # <<>>
    BY <1>5
<1> QED BY <1>3, <1>4, <1>6, <1>10, <1>12, <1>15, <1>16 DEF OrEmptyElement

\* What an order is made of.
LEMMA OrderIs ==
    ASSUME NEW seg, HasFields(seg), NEW params, NEW version, version = OrderVersion(seg, params),
           NEW o, o = Order(seg, params)
    PROVE  /\ IsSegment(o) /\ version \in Numerals /\ Len(o) >= 2
           /\ o[1] = SegHeader(seg.type, 0, version)
           /\ o[2] = IF TakesKti(seg, version) THEN Kti(seg.account) ELSE NationalDeg(seg.account)
<1>1. IsSegment(o) /\ version \in Numerals
    BY OrderType, OrderVersionType
<1>2. PICK h, a : /\ h = SegHeader(seg.type, 0, version)
                  /\ a = IF TakesKti(seg, version) THEN Kti(seg.account)
                         ELSE NationalDeg(seg.account)
    OBVIOUS
<1>3. PICK g : g = OrderFields(seg)
    OBVIOUS
<1>4. o = <<h, a>> \o g
    BY <1>2, <1>3 DEF Order
<1>5. g \in Seq(Seq(Sendable))
    BY <1>3, OrderFieldsType
<1>6. PICK S, s : s = <<h, a>> /\ S = Seq(Sendable) \cup {h, a}
    OBVIOUS
<1>7. s \in Seq(S) /\ Len(s) = 2 /\ s[1] = h /\ s[2] = a
    BY <1>6
<1>8. g \in Seq(S) /\ Len(g) \in Nat
    <2>1. \A i \in 1..Len(g) : g[i] \in S
        BY <1>5, <1>6, ElementOfSeq
    <2> QED BY <1>5, <2>1, LenProperties
<1>9. /\ Len(s \o g) = Len(s) + Len(g)
      /\ \A i \in 1..Len(s) + Len(g) : (s \o g)[i] = IF i <= Len(s) THEN s[i] ELSE g[i - Len(s)]
    BY <1>7, <1>8, ConcatProperties
<1>10. PICK u : u = s \o g
    OBVIOUS
<1>11. Len(u) >= 2 /\ u[1] = h /\ u[2] = a
    BY <1>7, <1>8, <1>9, <1>10
<1> QED BY <1>1, <1>2, <1>4, <1>6, <1>10, <1>11

\* An order is read in a version and with an account the bank takes.
LEMMA OrderIsFit ==
    ASSUME NEW seg, HasFields(seg), NEW params \in BankParameters,
           ~IsRefused(seg, params), ~Panics(seg, params), IsOrder(seg), NEW m \in Numerals,
           NEW f, f = SegmentAsRead(WithNumber(Order(seg, params), m)), params = letter.params
    PROVE  OrderFits(f, seg)
<1>1. PICK o, version : o = Order(seg, params) /\ version = OrderVersion(seg, params)
    OBVIOUS
<1>2. /\ IsSegment(o) /\ version \in Numerals /\ Len(o) >= 2
      /\ o[1] = SegHeader(seg.type, 0, version)
      /\ o[2] = IF TakesKti(seg, version) THEN Kti(seg.account) ELSE NationalDeg(seg.account)
    BY <1>1, OrderIs
<1>3. /\ SegmentType(f) = seg.type /\ SegmentVersion(f) = version
      /\ \A i \in Nat \ {0}, j \in Nat : Get(DegAt(f, i), j) = Get(DegAt(o, i), j)
    BY <1>1, <1>2, OrderIsRead
<1>4. seg.account \in Accounts
    BY DEF HasFields
<1>5. seg.type \in DOMAIN Negotiated =>
         ListedOf(seg.type) = {} \/ version \in ListedOf(seg.type)
    <2> SUFFICES ASSUME seg.type \in DOMAIN Negotiated, ListedOf(seg.type) # {}
                 PROVE  version \in ListedOf(seg.type)
        OBVIOUS
    <2>1. ListedOf(seg.type) =
              Listed(params, Negotiated[seg.type].params, Negotiated[seg.type].least)
        BY DEF ListedOf, Listed
    <2> QED BY <1>1, <2>1, OrdersAreBuiltAsListed
<1>6. TakesKti(seg, version) => DegAt(f, 1) = Kti(seg.account)
    <2> SUFFICES ASSUME TakesKti(seg, version)
                 PROVE  DegAt(f, 1) = Kti(seg.account)
        OBVIOUS
    <2>1. seg.account.iban # <<>>
        BY <1>1 DEF Panics
    <2>2. PICK d : d = Kti(seg.account)
        OBVIOUS
    <2>3. DegAsRead(d) = d /\ Len(d) = 2 /\ ~IsEmpty(d[1])
        BY <1>4, <2>1, <2>2, KtiIsRead
    <2>4. d = o[2] /\ 1 \in 1..Len(d)
        BY <1>2, <2>2, <2>3
    <2>5. DegAt(f, 1) = DegAsRead(d)
        BY <1>1, <1>2, <2>3, <2>4, GroupIsRead
    <2> QED BY <2>2, <2>3, <2>5
<1>7. ASSUME ~TakesKti(seg, version)
      PROVE  /\ Len(DegAt(f, 1)) >= 3
             /\ GetDe(f, 1, 2) = <<"280">>
             /\ seg.account.national # <<>> => GetDe(f, 1, 0) = seg.account.national.number
             /\ Len(seg.account.iban) = 3 => GetDe(f, 1, 0) = <<seg.account.iban[3]>>
    <2>1. PICK d, id : d = NationalDeg(seg.account) /\ id = NationalIdentity(seg.account)
        OBVIOUS
    <2>2. d = o[2]
        BY <1>2, <1>7, <2>1
    <2>3. d = <<DeText(id.number), Empty, Word("280"), DeText(id.blz)>>
        BY <2>1 DEF NationalDeg
    <2>4. Len(d) = 4 /\ d[1] = DeText(id.number) /\ d[3] = Word("280") /\ DOMAIN d = 1..4
        BY <2>3
    <2>5. 3 \in 1..Len(d) /\ ~IsEmpty(d[3])
        BY <2>4 DEF Word, Text, IsEmpty
    <2>6. DegAt(f, 1) = DegAsRead(d) /\ Len(DegAsRead(d)) >= 3
        BY <1>1, <1>2, <2>2, <2>5, GroupIsRead
    <2>7. DegAt(o, 1) = d
        <3>1. 2 \in DOMAIN o
            BY <1>2, LenProperties DEF IsSegment
        <3> QED BY <2>2, <3>1 DEF DegAt
    <2>8. Get(d, 2) = <<"280">> /\ Get(d, 0) = DeText(id.number).value
        BY <2>4 DEF Get, DeAt, Word, Text
    <2>9. DeText(id.number).value = id.number
        BY DEF DeText, Text, Empty
    <2>10. GetDe(f, 1, 2) = <<"280">> /\ GetDe(f, 1, 0) = id.number
        BY <1>3, <2>7, <2>8, <2>9 DEF GetDe
    <2>11. seg.account.national # <<>> => id.number = seg.account.national.number
        BY <2>1 DEF NationalIdentity
    <2>12. Len(seg.account.iban) = 3 => id.number = <<seg.account.iban[3]>>
        <3>1. Len(seg.account.iban) = 3 => seg.account.national = <<>>
            <4>1. Len(<<>>) # 3
                OBVIOUS
            <4> QED BY <1>4, <4>1 DEF Accounts
        <3> QED BY <2>1, <3>1 DEF NationalIdentity
    <2> QED BY <2>6, <2>10, <2>11, <2>12
<1> QED BY <1>3, <1>5, <1>6, <1>7 DEF OrderFits

\* Two sequences, one behind the other.
LEMMA Joins ==
    ASSUME NEW S, NEW s \in Seq(S), NEW t \in Seq(S), NEW u, u = s \o t
    PROVE  /\ u \in Seq(S) /\ Len(u) = Len(s) + Len(t) /\ Len(s) \in Nat /\ Len(t) \in Nat
           /\ \A i \in 1..Len(s) : u[i] = s[i]
           /\ \A i \in 1..Len(t) : u[Len(s) + i] = t[i]
<1>1. /\ s \o t \in Seq(S) /\ Len(s \o t) = Len(s) + Len(t)
      /\ \A i \in 1..Len(s) + Len(t) : (s \o t)[i] = IF i <= Len(s) THEN s[i] ELSE t[i - Len(s)]
    BY ConcatProperties
<1>2. Len(s) \in Nat /\ Len(t) \in Nat
    BY LenProperties
<1>3. \A i \in 1..Len(s) : u[i] = s[i]
    BY <1>1, <1>2
<1>4. ASSUME NEW i \in 1..Len(t) PROVE u[Len(s) + i] = t[i]
    <2>1. PICK j : j = Len(s) + i
        OBVIOUS
    <2>2. j \in 1..Len(s) + Len(t) /\ ~(j <= Len(s)) /\ j - Len(s) = i
        BY <1>2, <2>1
    <2> QED BY <1>1, <2>1, <2>2
<1> QED BY <1>1, <1>2, <1>3, <1>4

\* The groups of HKTAN from version 6 on.
LEMMA HktanIs ==
    ASSUME NEW seg, NEW params, params.hktan >= 6, NEW o, o = Hktan(seg, params),
           IsSegment(o)
    PROVE  /\ o[1] = SegHeader("HKTAN", 0, params.hktan)
           /\ 3 \in DOMAIN o /\ 6 \in DOMAIN o
           /\ o[3] = IF seg.process = "4" THEN One(seg.for) ELSE Nothing
           /\ o[6] = IF seg.process = "4" THEN Nothing ELSE OneText(seg.task)
           /\ IF seg.medium = <<>> THEN 12 \notin DOMAIN o
              ELSE 12 \in DOMAIN o /\ o[12] = OneText(seg.medium)
<1>1. PICK h, a, b, c, d, e, n :
         /\ h = SegHeader("HKTAN", 0, params.hktan) /\ a = One(seg.process) /\ b = One(seg.for)
         /\ c = OneText(seg.task) /\ d = OneText(seg.medium) /\ e = Nothing /\ n = One("N")
    OBVIOUS
<1>2. PICK S, s : S = {h, a, b, c, d, e, n} /\ s = <<h, a>>
    OBVIOUS
<1>3. s \in Seq(S) /\ Len(s) = 2 /\ s[1] = h
    BY <1>2
<1>4. PICK t : t = TanFields(seg, params.hktan)
    OBVIOUS
<1>5. /\ t \in Seq(S) /\ Len(t) = 6
      /\ t[1] = IF seg.process = "4" THEN b ELSE e
      /\ t[4] = IF seg.process = "4" THEN e ELSE c
    <2>1. CASE seg.process = "4"
        <3>1. PICK x, y : x = <<b>> /\ y = <<e, e, e, e, e>>
            OBVIOUS
        <3>2. x \in Seq(S) /\ Len(x) = 1 /\ x[1] = b
            BY <1>2, <3>1
        <3>3. y \in Seq(S) /\ Len(y) = 5 /\ y[3] = e
            BY <1>2, <3>1
        <3>4. t = x \o y
            BY <1>1, <1>4, <2>1, <3>1 DEF TanFields
        <3>5. /\ t \in Seq(S) /\ Len(t) = Len(x) + Len(y)
              /\ \A i \in 1..Len(x) : t[i] = x[i]
              /\ \A i \in 1..Len(y) : t[Len(x) + i] = y[i]
            <4>1. x \in Seq(S) /\ y \in Seq(S)
                BY <3>2, <3>3
            <4> QED BY <3>4, <4>1, Joins
        <3>6. t[1] = b /\ t[1 + 3] = e
            BY <3>2, <3>3, <3>5
        <3> QED BY <2>1, <3>2, <3>3, <3>5, <3>6
    <2>2. CASE seg.process # "4"
        <3>1. t = <<e, e, e, c, n, e>>
            BY <1>1, <1>4, <2>2 DEF TanFields
        <3>2. t \in Seq(S) /\ Len(t) = 6 /\ t[1] = e /\ t[4] = c
            BY <1>2, <3>1
        <3> QED BY <2>2, <3>2
    <2> QED BY <2>1, <2>2
<1>6. PICK u : u = s \o t
    OBVIOUS
<1>7. u \in Seq(S) /\ Len(u) = 8 /\ u[1] = h /\ u[3] = t[1] /\ u[6] = t[4]
    <2>1. /\ u \in Seq(S) /\ Len(u) = Len(s) + Len(t)
          /\ \A i \in 1..Len(s) : u[i] = s[i]
          /\ \A i \in 1..Len(t) : u[Len(s) + i] = t[i]
        <3>1. s \in Seq(S) /\ t \in Seq(S)
            BY <1>3, <1>5
        <3> QED BY <1>6, <3>1, Joins
    <2>2. u[2 + 1] = t[1] /\ u[2 + 4] = t[4] /\ u[1] = s[1]
        BY <1>3, <1>5, <2>1
    <2> QED BY <1>3, <1>5, <2>1, <2>2
<1>8. PICK m : m = TanMedium(seg, params.hktan)
    OBVIOUS
<1>9. o = u \o m
    BY <1>1, <1>2, <1>4, <1>6, <1>8 DEF Hktan
<1>10. CASE seg.medium = <<>>
    <2>1. m = <<>> /\ m \in Seq(S) /\ Len(m) = 0
        BY <1>8, <1>10, EmptySeq DEF TanMedium
    <2>2. o = u
        BY <1>7, <1>9, <2>1, ConcatEmptySeq
    <2>3. DOMAIN o = 1..8
        BY <1>7, <2>2, LenProperties
    <2> QED BY <1>1, <1>5, <1>7, <1>10, <2>2, <2>3
<1>11. CASE seg.medium # <<>>
    <2>1. PICK x, y : x = <<e, e, e>> /\ y = <<d>>
        OBVIOUS
    <2>2. x \in Seq(S) /\ Len(x) = 3
        BY <1>2, <2>1
    <2>3. y \in Seq(S) /\ Len(y) = 1 /\ y[1] = d
        BY <1>2, <2>1
    <2>4. m = x \o y
        BY <1>1, <1>8, <1>11, <2>1 DEF TanMedium
    <2>5. /\ m \in Seq(S) /\ Len(m) = Len(x) + Len(y)
          /\ \A i \in 1..Len(y) : m[Len(x) + i] = y[i]
        <3>1. x \in Seq(S) /\ y \in Seq(S)
            BY <2>2, <2>3
        <3> QED BY <2>4, <3>1, Joins
    <2>6. Len(m) = 4 /\ m[3 + 1] = d
        BY <2>2, <2>3, <2>5
    <2>7. /\ o \in Seq(S) /\ Len(o) = Len(u) + Len(m)
          /\ \A i \in 1..Len(u) : o[i] = u[i]
          /\ \A i \in 1..Len(m) : o[Len(u) + i] = m[i]
        <3>1. u \in Seq(S) /\ m \in Seq(S)
            BY <1>7, <2>5
        <3> QED BY <1>9, <3>1, Joins
    <2>8. Len(o) = 12 /\ o[1] = u[1] /\ o[3] = u[3] /\ o[6] = u[6] /\ o[8 + 4] = m[4]
        BY <1>7, <2>6, <2>7
    <2>9. DOMAIN o = 1..12
        BY <2>7, <2>8, LenProperties
    <2> QED BY <1>1, <1>5, <1>7, <1>11, <2>6, <2>8, <2>9
<1> QED BY <1>10, <1>11

\* The value of a group of one element.
LEMMA OneIsRead ==
    /\ \A w : Get(One(w), 0) = <<w>>
    /\ \A t : Get(OneText(t), 0) = t
    /\ Get(Nothing, 0) = <<>> /\ Get(<<>>, 0) = <<>>
<1>1. ASSUME NEW x PROVE Get(<<x>>, 0) = x.value
    BY DEF Get, DeAt
<1>2. ASSUME NEW w PROVE Get(One(w), 0) = <<w>>
    BY <1>1 DEF One, Word, Text
<1>3. ASSUME NEW t PROVE Get(OneText(t), 0) = t
    <2>1. DeText(t).value = t
        BY DEF DeText, Text, Empty
    <2> QED BY <1>1, <2>1 DEF OneText
<1>4. Get(Nothing, 0) = <<>>
    BY <1>1 DEF Nothing, Empty
<1>5. Get(<<>>, 0) = <<>>
    BY DEF Get, DeAt, Empty
<1> QED BY <1>2, <1>3, <1>4, <1>5

\* HKTAN is read with its task, its segment and its medium.
LEMMA HktanIsFit ==
    ASSUME NEW seg, NEW params \in BankParameters, IsSegment(Hktan(seg, params)),
           Hktan(seg, params)[1] = SegHeader("HKTAN", 0, params.hktan),
           seg.process = "4" => seg.task = <<>>, NEW m \in Numerals,
           NEW f, f = SegmentAsRead(WithNumber(Hktan(seg, params), m))
    PROVE  HktanFits(f, seg)
<1>1. PICK o, version : o = Hktan(seg, params) /\ version = params.hktan
    OBVIOUS
<1>2. version \in Numerals /\ IsSegment(o)
    BY <1>1 DEF BankParameters
<1>3. o[1] = SegHeader("HKTAN", 0, version)
    BY <1>1
<1>4. /\ SegmentVersion(f) = version
      /\ \A i \in Nat \ {0}, j \in Nat : Get(DegAt(f, i), j) = Get(DegAt(o, i), j)
    BY <1>1, <1>2, <1>3, OrderIsRead
<1> SUFFICES ASSUME version >= 6
             PROVE  /\ Str(f, 11) = seg.medium
                    /\ Str(f, 5) = seg.task
                    /\ Str(f, 2) = (IF seg.process = "4" THEN <<seg.for>> ELSE <<>>)
    BY <1>4 DEF HktanFits
<1>5. /\ 3 \in DOMAIN o /\ 6 \in DOMAIN o
      /\ o[3] = IF seg.process = "4" THEN One(seg.for) ELSE Nothing
      /\ o[6] = IF seg.process = "4" THEN Nothing ELSE OneText(seg.task)
      /\ IF seg.medium = <<>> THEN 12 \notin DOMAIN o
         ELSE 12 \in DOMAIN o /\ o[12] = OneText(seg.medium)
    BY <1>1, <1>2, HktanIs
<1>6. /\ Str(f, 11) = Get(DegAt(o, 11), 0) /\ Str(f, 5) = Get(DegAt(o, 5), 0)
      /\ Str(f, 2) = Get(DegAt(o, 2), 0)
    BY <1>4 DEF Str
<1>7. DegAt(o, 2) = o[3] /\ DegAt(o, 5) = o[6]
    BY <1>5 DEF DegAt
<1>8. Get(o[3], 0) = (IF seg.process = "4" THEN <<seg.for>> ELSE <<>>)
    BY <1>5, OneIsRead
<1>9. Get(o[6], 0) = seg.task
    BY <1>5, OneIsRead
<1>10. Get(DegAt(o, 11), 0) = seg.medium
    <2>1. CASE seg.medium = <<>>
        <3>1. DegAt(o, 11) = <<>>
            BY <1>5, <2>1 DEF DegAt
        <3> QED BY <2>1, <3>1, OneIsRead
    <2>2. CASE seg.medium # <<>>
        <3>1. DegAt(o, 11) = OneText(seg.medium)
            BY <1>5, <2>2 DEF DegAt
        <3> QED BY <3>1, OneIsRead
    <2> QED BY <2>1, <2>2
<1> QED BY <1>6, <1>7, <1>8, <1>9, <1>10

-----------------------------------------------------------------------------
\* Which segments are orders, and what the others are built from.
LEMMA KindsOfSegments ==
    ASSUME NEW seg \in Segments, NEW params \in BankParameters
    PROVE  /\ IsOrder(seg) => HasFields(seg) /\ ToDegs(seg, params) = Order(seg, params)
           /\ seg.type = "HKTAN" =>
                 /\ seg.process \in STRING /\ seg.for \in STRING
                 /\ seg.task \in Texts /\ seg.medium \in Texts
                 /\ seg.process = "4" => seg.task = <<>>
                 /\ ToDegs(seg, params) = Hktan(seg, params)
<1>2. CASE seg \in [type : {"HKIDN"}, blz : Texts, user : Texts, system : Texts]
    BY <1>2 DEF IsOrder
<1>3. CASE seg \in [type : {"HKVVB"}, bpd : Numerals, upd : Numerals, product : Texts]
    BY <1>3 DEF IsOrder
<1>4. CASE seg \in [type : {"HKTAN"}, process : {"4"}, for : STRING, task : {<<>>},
                    medium : Texts]
    <2>1. ~IsOrder(seg) /\ ToDegs(seg, params) = Hktan(seg, params)
        BY <1>4 DEF IsOrder, ToDegs
    <2> QED BY <1>4, <2>1, BuilderWords, EmptySeq DEF Texts
<1>5. CASE seg \in [type : {"HKTAN"}, process : {"2", "S"}, for : STRING, task : Texts,
                    medium : Texts]
    <2>1. ~IsOrder(seg) /\ ToDegs(seg, params) = Hktan(seg, params)
        BY <1>5 DEF IsOrder, ToDegs
    <2> QED BY <1>5, <2>1, BuilderWords
<1>6. CASE seg \in [type : {"HKSYN", "HKTAB", "HKSPA"}]
    BY <1>6 DEF IsOrder
<1>7. CASE seg \in [type : {"HKEND"}, dialog : Texts]
    BY <1>7 DEF IsOrder
<1>8. ASSUME HasFields(seg)
      PROVE  seg.type # "HKTAN" /\ ToDegs(seg, params) = Order(seg, params)
    BY <1>8 DEF ToDegs, HasFields
<1>9. CASE seg \in [type : {"HKSAL", "DKWVB"}, account : Accounts]
    BY <1>8, <1>9 DEF HasFields
<1>10. CASE seg \in [type : {"HKKAZ", "HKWDU"}, account : Accounts, from : Texts, to : Texts,
                     touchdown : Texts]
    BY <1>8, <1>10 DEF HasFields
<1>11. CASE seg \in [type : {"HKWPD"}, account : Accounts, currency : Texts, touchdown : Texts]
    BY <1>8, <1>11 DEF HasFields
<1>12. CASE seg \in [type : {"DKWDH"}, account : Accounts, isin : BOOLEAN, security : Texts,
                     date : Texts]
    BY <1>8, <1>12 DEF HasFields
<1>13. CASE seg \in [type : {"DKKKU"}, account : Accounts, card : Texts, from : Texts,
                     touchdown : Texts]
    BY <1>8, <1>13 DEF HasFields
<1> QED BY <1>2, <1>3, <1>4, <1>5, <1>6, <1>7, <1>9, <1>10, <1>11, <1>12, <1>13
    DEF Segments

\* Where an order is found among what was read.
LEMMA OrderAmongRead ==
    ASSUME ExchangeInv, RequestRead, NEW i \in DOMAIN letter.orders
    PROVE  /\ letter.orders[i] \in Segments /\ i + 2 \in Numerals
           /\ segments[i + 1] =
                 SegmentAsRead(WithNumber(ToDegs(letter.orders[i], letter.params), i + 2))
<1>1. PICK orders, params, ctx, business :
         orders = letter.orders /\ params = letter.params /\ ctx = letter.ctx /\ business = Business
    OBVIOUS
<1>2. /\ ctx \in Contexts /\ orders \in Seq(Segments) /\ params \in BankParameters
      /\ IsBusiness(business) /\ business = BusinessDegs(orders, params)
      /\ segments = AsRead(InnerSegments(ctx, business))
    BY <1>1, ReadIsWhole DEF Business
<1>3. /\ Len(business) = Len(orders)
      /\ \A j \in 1..Len(orders) : business[j] = ToDegs(orders[j], params)
    <2>1. Len(BusinessDegs(orders, params)) + 4 <= MaxNumeral
        BY <1>2 DEF IsBusiness
    <2>2. /\ Len(BusinessDegs(orders, params)) = Len(orders)
          /\ \A j \in 1..Len(orders) : BusinessDegs(orders, params)[j] = ToDegs(orders[j], params)
        BY <1>2, <2>1, BusinessBuilt
    <2> QED BY <1>2, <2>2
<1>4. PICK n : n = Len(orders)
    OBVIOUS
<1>5. n \in Nat /\ DOMAIN orders = 1..n /\ i \in 1..n /\ n + 4 <= MaxNumeral /\ MaxNumeral \in Nat
    BY <1>1, <1>2, <1>3, <1>4, LenProperties, NumeralAssumption DEF IsBusiness
<1>6. letter.orders[i] \in Segments
    BY <1>1, <1>2, <1>4, <1>5, ElementOfSeq
<1>7. i + 2 \in Numerals
    BY <1>5 DEF Numerals
<1>8. PICK inner : inner = InnerSegments(ctx, business)
    OBVIOUS
<1>9. /\ inner \in Writable /\ Len(inner) = n + 2
      /\ \A j \in 1..n : inner[j + 1] = WithNumber(business[j], j + 2)
    <2>1. /\ InnerSegments(ctx, business) \in Writable
          /\ Len(InnerSegments(ctx, business)) = Len(business) + 2
          /\ \A j \in 1..Len(business) :
                InnerSegments(ctx, business)[j + 1] = WithNumber(business[j], j + 2)
        BY <1>2, InnerIs
    <2> QED BY <1>3, <1>4, <1>8, <2>1
<1>10. \A j \in 1..n + 2 : segments[j] = SegmentAsRead(inner[j])
    BY <1>2, <1>8, <1>9, MessageIsSent
<1>11. PICK k : k = i + 1
    OBVIOUS
<1>12. k \in 1..n + 2
    BY <1>5, <1>11
<1>13. segments[k] = SegmentAsRead(inner[k])
    BY <1>10, <1>12
<1>14. inner[k] = WithNumber(business[i], i + 2)
    BY <1>5, <1>9, <1>11
<1>15. business[i] = ToDegs(letter.orders[i], letter.params)
    BY <1>1, <1>3, <1>4, <1>5
<1> QED BY <1>6, <1>7, <1>11, <1>13, <1>14, <1>15

\* OrdersFitTheBank: for every bank and every order that can be built, the bank
\* reads the order in a version it lists, if it lists one the client can build,
\* with the account as that version has it, and HKTAN with task and medium.
THEOREM OrdersFitHolds == Spec => []OrdersFitTheBank
<1>1. ExchangeInv => OrdersFitTheBank
    <2> SUFFICES ASSUME ExchangeInv, RequestRead, NEW i \in DOMAIN letter.orders
                 PROVE  /\ IsOrder(letter.orders[i]) =>
                              OrderFits(segments[i + 1], letter.orders[i])
                        /\ letter.orders[i].type = "HKTAN" =>
                              HktanFits(segments[i + 1], letter.orders[i])
        BY DEF OrdersFitTheBank
    <2>1. PICK sent, params, m, f :
             /\ sent = letter.orders[i] /\ params = letter.params /\ m = i + 2
             /\ f = segments[i + 1]
        OBVIOUS
    <2>2. /\ sent \in Segments /\ m \in Numerals
          /\ f = SegmentAsRead(WithNumber(ToDegs(sent, params), m))
        BY <2>1, OrderAmongRead
    <2>3. params \in BankParameters /\ ~IsRefused(sent, params) /\ ~Panics(sent, params)
        BY <2>1, ReadIsWhole DEF IsRequest, CanBuild
    <2>4. ASSUME IsOrder(sent) PROVE OrderFits(f, sent)
        <3>1. HasFields(sent) /\ ToDegs(sent, params) = Order(sent, params)
            BY <2>2, <2>3, <2>4, KindsOfSegments
        <3> QED BY <2>1, <2>2, <2>3, <2>4, <3>1, OrderIsFit
    <2>5. ASSUME sent.type = "HKTAN" PROVE HktanFits(f, sent)
        <3>1. /\ sent.process \in STRING /\ sent.for \in STRING
              /\ sent.task \in Texts /\ sent.medium \in Texts
              /\ sent.process = "4" => sent.task = <<>>
              /\ ToDegs(sent, params) = Hktan(sent, params)
            BY <2>2, <2>3, <2>5, KindsOfSegments
        <3>2. /\ IsSegment(Hktan(sent, params))
              /\ Hktan(sent, params)[1] = SegHeader("HKTAN", 0, params.hktan)
            BY <2>3, <3>1, HktanType
        <3> QED BY <2>2, <2>3, <3>1, <3>2, HktanIsFit
    <2> QED BY <2>1, <2>4, <2>5
<1> QED BY <1>1, ExchangeInvHolds, PTL
=============================================================================
