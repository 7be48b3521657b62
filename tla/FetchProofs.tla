----------------------------- MODULE FetchProofs -----------------------------
(***************************************************************************)
(* FetchInv is inductive, for every bank, every call and every number of   *)
(* polls; and what follows from it.                                        *)
(***************************************************************************)
EXTENDS Fetch, TLAPS

LEMMA PlanFacts ==
    /\ \A i \in 1..5 : Plan[i] \in Orders
    /\ \A op \in Orders : \E i \in 1..5 : Plan[i] = op
    /\ \A i, j \in 1..5 : Plan[i] = Plan[j] => i = j
BY DEF Plan, Orders

\* A running call is at one of the five orders.
LEMMA RunningOrder ==
    ASSUME TypeOK, Running
    PROVE  step \in 1..5 /\ Order \in Orders
<1>1. step \in 1..5
    BY DEF TypeOK, Running
<1> QED BY <1>1, PlanFacts DEF Order

LEMMA CallFacts ==
    ASSUME TypeOK
    PROVE  call.variant \in {"opts", "handler", "fetch", "alone"} /\ call.orders \subseteq Orders
BY DEF TypeOK, FetchCallTypes, Orders

\* A call that fails ends with what it has.
LEMMA FailKeepsInv ==
    ASSUME FetchInv, Fail, UNCHANGED <<call, data>>,
           told' \in BOOLEAN, skipped' \in SUBSET Orders, skipped \subseteq skipped',
           Running
    PROVE  FetchInv'
<1>1. TypeOK'
    BY DEF FetchInv, Fail, TypeOK, Running, Replies, NoReply, NoTouchdown
<1>2. PagesInOrder' /\ ~Running'
    BY DEF FetchInv, Fail, PagesInOrder, Running
<1>3. \A j \in Chosen' : j < step' /\ j # 6 => Kept(Plan[j])'
    BY DEF FetchInv, Fail, Kept, All, Chosen
<1> QED BY <1>1, <1>2, <1>3 DEF FetchInv, NoticeIsTrue, Position, ReplyIsTrue

\* An order that is left with its pages in order, and none missing unnoticed.
LEMMA LeaveKeepsInv ==
    ASSUME FetchInv, Running, NEW pages \in Seq(Nat), LeaveWith(pages),
           UNCHANGED <<call, data>>, told' = FALSE,
           skipped' \in SUBSET Orders, skipped \subseteq skipped',
           NEW op, op = Order,
           Len(pages) <= data.pages[op],
           \A i \in 1..Len(pages) : pages[i] = i - 1,
           Kept(op)'
    PROVE  FetchInv'
<1>1. step \in 1..5 /\ op \in Orders /\ op = Plan[step]
    BY RunningOrder DEF FetchInv, Order
<1>2. got' = [got EXCEPT ![op] = pages] /\ got \in [Orders -> Seq(Nat)]
    BY DEF FetchInv, TypeOK, LeaveWith
<1>3. step' \in 1..6 /\ step < step' /\ Follows(step, step')
    BY <1>1 DEF LeaveWith, Follows, Chosen
<1>4. TypeOK'
    <2>1. got' \in [Orders -> Seq(Nat)]
        BY <1>2
    <2> QED BY <1>3, <2>1 DEF FetchInv, LeaveWith, TypeOK, Running, Replies, NoReply, NoTouchdown
<1>5. PagesInOrder'
    BY <1>1, <1>2 DEF FetchInv, PagesInOrder
<1>6. \A j \in 1..5 : j # step => got'[Plan[j]] = got[Plan[j]]
    BY <1>1, <1>2, PlanFacts
<1>7. Position'
    <2> SUFFICES ASSUME Running' PROVE Position'
        BY DEF Position
    <2>1. step' \in 1..5
        BY <1>4 DEF TypeOK, Running
    <2>2. \A j \in step'..5 : got'[Plan[j]] = <<>>
        BY <1>1, <1>3, <1>6, <2>1 DEF FetchInv, Position
    <2>3. Len(got'[Plan[step']]) = 0
        BY <2>1, <2>2
    <2> QED BY <2>1, <2>2, <2>3 DEF Position, LeaveWith, Order, NoTouchdown
<1>8. ReplyIsTrue' /\ NoticeIsTrue'
    BY DEF LeaveWith, ReplyIsTrue, NoticeIsTrue, NoReply, NoTouchdown
<1>9. \A j \in Chosen' : j < step' /\ j # 6 => Kept(Plan[j])'
    <2> SUFFICES ASSUME NEW j \in Chosen', j < step', j # 6
                 PROVE  Kept(Plan[j])'
        OBVIOUS
    <2>1. j \in Chosen /\ j \in 1..5 /\ j <= step
        BY <1>1, <1>3 DEF Chosen, Follows
    <2>2. CASE j = step
        <3>1. Plan[j] = op
            BY <1>1, <2>2
        <3> QED BY <3>1
    <2>3. CASE j < step
        <3>1. Kept(Plan[j]) /\ got'[Plan[j]] = got[Plan[j]]
            BY <1>1, <1>6, <2>1, <2>3 DEF FetchInv
        <3> QED BY <3>1 DEF Kept, All
    <2> QED BY <1>1, <2>1, <2>2, <2>3
<1> QED BY <1>4, <1>5, <1>7, <1>8, <1>9 DEF FetchInv

\* The same at the end of an order, where transactions are parsed.
LEMMA FinishKeepsInv ==
    ASSUME FetchInv, Running, NEW pages \in Seq(Nat), Finish(pages),
           UNCHANGED <<call, data>>, told = FALSE, told' = FALSE,
           skipped' \in SUBSET Orders, skipped \subseteq skipped',
           NEW op, op = Order,
           Len(pages) <= data.pages[op],
           \A i \in 1..Len(pages) : pages[i] = i - 1,
           \/ Len(pages) = data.pages[op]
           \/ op \in skipped' /\ ~(op = "HKKAZ" /\ call.variant \in {"fetch", "handler"})
    PROVE  FetchInv'
<1>1. step \in 1..5 /\ op \in Orders /\ got \in [Orders -> Seq(Nat)]
    BY RunningOrder DEF FetchInv, TypeOK
<1>2. CASE Fail
    BY <1>2, FailKeepsInv
<1>3. CASE LeaveWith(pages)
    <2>1. got'[op] = pages
        BY <1>1, <1>3 DEF LeaveWith
    <2>2. Kept(op)'
        BY <2>1 DEF Kept, All
    <2> QED BY <1>3, <2>2, LeaveKeepsInv
<1>4. CASE LeaveWith(<<>>) /\ op = "HKKAZ" /\ ~data.readable
    <2>1. Kept(op)'
        BY <1>4 DEF Kept, All
    <2>2. data.pages[op] \in Nat
        BY <1>1 DEF FetchInv, TypeOK
    <2>3. /\ <<>> \in Seq(Nat) /\ Len(<<>>) <= data.pages[op]
          /\ \A i \in 1..Len(<<>>) : <<>>[i] = i - 1
        BY <2>2
    <2> QED BY <1>4, <2>1, <2>3, LeaveKeepsInv
<1> QED BY <1>2, <1>3, <1>4 DEF Finish

-----------------------------------------------------------------------------
LEMMA InitKeepsInv == Init => FetchInv
<1> SUFFICES ASSUME Init PROVE FetchInv
    OBVIOUS
<1>1. TypeOK
    <2>1. call \in FetchCallTypes /\ data \in [pages : [Orders -> Nat], readable : BOOLEAN]
        BY FetchCallAssumption, BankDataAssumption DEF Init
    <2>2. got \in [Orders -> Seq(Nat)]
        BY DEF Init
    <2>3. reply \in Replies
        BY DEF Init, Replies, NoReply, NoTouchdown
    <2> QED BY <2>1, <2>2, <2>3 DEF Init, TypeOK, NoTouchdown
<1>2. PagesInOrder
    BY BankDataAssumption DEF Init, PagesInOrder
<1>3. Position
    BY RunningOrder, <1>1, PlanFacts DEF Init, Position, NoTouchdown
<1>4. NoticeIsTrue /\ ReplyIsTrue
    BY DEF Init, NoticeIsTrue, ReplyIsTrue, NoReply, NoTouchdown
<1>5. \A j \in Chosen : ~(j < step /\ j # 6)
    BY DEF Init, Follows, Chosen
<1> QED BY <1>1, <1>2, <1>3, <1>4, <1>5 DEF FetchInv

\* What a step keeps of the orders already left when it touches neither them
\* nor the call.
LEMMA KeptStays ==
    ASSUME FetchInv, UNCHANGED <<call, data, step, got, skipped>>
    PROVE  /\ PagesInOrder'
           /\ \A j \in Chosen' : j < step' /\ j # 6 => Kept(Plan[j])'
BY DEF FetchInv, PagesInOrder, Kept, All, Chosen

\* Every step of a call that fetches keeps FetchInv: where the call stands and
\* what the reply on its way stands for.
THEOREM FetchStep == FetchInv /\ [Next]_vars => FetchInv'
<1> SUFFICES ASSUME FetchInv, [Next]_vars PROVE FetchInv'
    OBVIOUS
<1> USE DEF FetchInv
<1>1. CASE UNCHANGED vars
    BY <1>1 DEF vars, TypeOK, PagesInOrder, NoticeIsTrue, Position, ReplyIsTrue,
                Kept, All, Chosen, Running, Order
<1>2. CASE Ask
    <2>1. TypeOK'
        BY <1>2 DEF Ask, TypeOK
    <2>2. NoticeIsTrue' /\ Position' /\ ReplyIsTrue'
        BY <1>2 DEF Ask, NoticeIsTrue, Position, ReplyIsTrue, Running, Order, TypeOK
    <2> QED BY <1>2, <2>1, <2>2, KeptStays DEF Ask
<1>3. CASE ReceivePage
    <2> PICK op : op = Order
        OBVIOUS
    <2>1. /\ Running /\ told = FALSE /\ told' = FALSE /\ op \in Orders /\ step \in 1..5
          /\ UNCHANGED <<call, data, skipped>>
        BY <1>3, RunningOrder DEF ReceivePage, Returns, NoticeIsTrue, TypeOK
    <2>2. /\ reply.kind = "page" /\ reply.page = td /\ td < data.pages[op]
          /\ reply.touchdown = TouchdownAfter(td, data.pages[op])
        <3>1. reply.kind = "page"
            BY <1>3 DEF ReceivePage, Returns
        <3> QED BY <2>1, <3>1 DEF ReplyIsTrue
    <2>3. Len(got[op]) = td /\ asked \subseteq 0..td
        BY <2>1 DEF Position
    <2>4. /\ got \in [Orders -> Seq(Nat)] /\ td \in Nat /\ data.pages[op] \in Nat
          /\ got[op] \in Seq(Nat)
        BY <2>1 DEF TypeOK
    <2> DEFINE pages == Append(got[op], td)
    <2>5. pages \in Seq(Nat) /\ Len(pages) = td + 1 /\ Len(pages) <= data.pages[op]
        BY <2>2, <2>3, <2>4
    <2>6. \A i \in 1..Len(pages) : pages[i] = i - 1
        <3>1. \A i \in 1..Len(got[op]) : got[op][i] = i - 1
            BY <2>1 DEF PagesInOrder
        <3> QED BY <2>3, <2>4, <3>1
    <2>7. CASE reply.touchdown # NoTouchdown /\ op # "HKSAL"
        <3>1. /\ got' = [got EXCEPT ![op] = pages] /\ td' = td + 1 /\ at' = "call"
              /\ reply' = NoReply
              /\ UNCHANGED <<step, retried, polls, result, tan, asked>>
            BY <1>3, <2>2, <2>4, <2>7 DEF ReceivePage, TouchdownAfter
        <3> HIDE DEF pages
        <3>2. got' \in [Orders -> Seq(Nat)] /\ got'[op] = pages
            BY <2>1, <2>4, <2>5, <3>1
        <3>3. TypeOK'
            <4>1. reply' \in Replies /\ td' \in Nat
                BY <2>4, <3>1 DEF Replies, NoReply, NoTouchdown
            <4> QED BY <2>1, <3>1, <3>2, <4>1 DEF TypeOK
        <3>4. PagesInOrder'
            <4> SUFFICES ASSUME NEW o \in Orders
                         PROVE  /\ Len(got'[o]) <= data.pages[o]
                                /\ \A i \in 1..Len(got'[o]) : got'[o][i] = i - 1
                BY <2>1 DEF PagesInOrder
            <4>1. CASE o = op
                BY <2>5, <2>6, <3>2, <4>1
            <4>2. CASE o # op
                BY <2>4, <3>1, <4>2 DEF PagesInOrder
            <4> QED BY <4>1, <4>2
        <3>5. op = Plan[step] /\ \A j \in 1..5 : j # step => got'[Plan[j]] = got[Plan[j]]
            BY <2>1, <2>4, <3>1, PlanFacts DEF Order
        <3>6. Position'
            <4>1. Len(got'[Plan[step']]) = td'
                BY <2>5, <3>1, <3>2, <3>5
            <4>2. \A j \in (step' + 1)..5 : got'[Plan[j]] = <<>>
                BY <2>1, <3>1, <3>5 DEF Position
            <4>3. asked' \subseteq 0..td' /\ td' \notin asked'
                BY <2>3, <2>4, <3>1
            <4>4. retried' => Order' = "HKSAL"
                BY <2>1, <3>1 DEF Position, Order
            <4> QED BY <4>1, <4>2, <4>3, <4>4 DEF Position, Order
        <3>7. NoticeIsTrue' /\ ReplyIsTrue'
            BY <2>1, <3>1 DEF NoticeIsTrue, ReplyIsTrue, NoReply, NoTouchdown
        <3>8. \A j \in Chosen' : j < step' /\ j # 6 => Kept(Plan[j])'
            BY <2>1, <3>1, <3>5 DEF Chosen, Kept, All
        <3> QED BY <3>3, <3>4, <3>6, <3>7, <3>8
    <2>8. CASE ~(reply.touchdown # NoTouchdown /\ op # "HKSAL")
        <3>1. Finish(pages)
            BY <1>3, <2>2, <2>8 DEF ReceivePage
        <3> HIDE DEF pages
        <3>2. skipped' \in SUBSET Orders
            BY <2>1 DEF TypeOK
        <3>3. CASE reply.touchdown = NoTouchdown
            <4>1. Len(pages) = data.pages[op]
                BY <2>2, <2>4, <2>5, <3>3 DEF TouchdownAfter, NoTouchdown
            <4> QED BY <2>1, <2>5, <2>6, <3>1, <3>2, <4>1, FinishKeepsInv
        <3>4. CASE op = "HKSAL"
            <4>1. LeaveWith(pages) /\ Kept(op)'
                BY <3>1, <3>4 DEF Finish, Kept
            <4> QED BY <2>1, <2>5, <2>6, <3>2, <4>1, LeaveKeepsInv
        <3> QED BY <2>8, <3>3, <3>4
    <2> QED BY <2>7, <2>8
<1>4. CASE ReceiveNothing
    <2> PICK op : op = Order
        OBVIOUS
    <2>1. /\ Running /\ told = FALSE /\ told' = FALSE /\ op \in Orders
          /\ UNCHANGED <<call, data, skipped>> /\ Finish(got[op]) /\ got[op] \in Seq(Nat)
        BY <1>4, RunningOrder DEF ReceiveNothing, Returns, NoticeIsTrue, TypeOK
    <2>2. Len(got[op]) = data.pages[op]
        BY <1>4, <2>1 DEF ReceiveNothing, Returns, ReplyIsTrue, Position, TypeOK
    <2> QED BY <2>1, <2>2, FinishKeepsInv DEF PagesInOrder, TypeOK
<1>5. CASE NotifyAndWait
    <2>1. TypeOK'
        BY <1>5 DEF NotifyAndWait, TypeOK, Replies, NoReply, NoTouchdown
    <2>2. NoticeIsTrue' /\ Position' /\ ReplyIsTrue'
        BY <1>5 DEF NotifyAndWait, Returns, NoticeIsTrue, Position, ReplyIsTrue, Running,
                    Order, NoReply, NoTouchdown, TypeOK
    <2> QED BY <1>5, <2>1, <2>2, KeptStays DEF NotifyAndWait
<1>6. CASE PassOver
    <2> PICK op : op = Order
        OBVIOUS
    <2>1. /\ Running /\ told = FALSE /\ told' = FALSE /\ op \in Orders
          /\ UNCHANGED <<call, data>> /\ got[op] \in Seq(Nat)
          /\ skipped' = skipped \cup {op} /\ skipped' \in SUBSET Orders
        BY <1>6, RunningOrder DEF PassOver, Returns, NoticeIsTrue, TypeOK
    <2>2. CASE Fail
        BY <2>1, <2>2, FailKeepsInv
    <2>3. CASE Finish(got[op]) /\ ~(call.variant = "fetch" /\ op = "HKKAZ")
        <3>1. ~(op = "HKKAZ" /\ call.variant = "handler")
            BY <1>6, <2>1 DEF PassOver, WaitsForTan, Position
        <3> QED BY <2>1, <2>3, <3>1, FinishKeepsInv DEF PagesInOrder, TypeOK
    <2> QED BY <1>6, <2>2, <2>3 DEF PassOver
<1>7. CASE ReceiveError
    <2> PICK op : op = Order
        OBVIOUS
    <2>1. /\ Running /\ told = FALSE /\ told' = FALSE /\ op \in Orders
          /\ UNCHANGED <<call, data, skipped>> /\ got[op] \in Seq(Nat)
          /\ data.pages[op] \in Nat
        BY <1>7, RunningOrder DEF ReceiveError, Returns, NoticeIsTrue, TypeOK
    <2>2. CASE Fail
        BY <2>1, <2>2, FailKeepsInv DEF TypeOK
    <2>3. CASE ~Fatal /\ op \in {"HKWPD", "HKWDU"} /\ LeaveWith(<<>>)
        <3>1. got'[op] = <<>> /\ Kept(op)'
            BY <2>1, <2>3 DEF LeaveWith, Kept, Fatal, TypeOK
        <3>2. /\ <<>> \in Seq(Nat) /\ Len(<<>>) <= data.pages[op]
              /\ \A i \in 1..Len(<<>>) : <<>>[i] = i - 1
            BY <2>1
        <3> QED BY <2>1, <2>3, <3>1, <3>2, LeaveKeepsInv DEF TypeOK
    <2>4. CASE ~Fatal /\ op \notin {"HKWPD", "HKWDU"} /\ LeaveWith(got[op])
        <3>1. Kept(op)'
            BY <2>1, <2>4 DEF Kept, Fatal
        <3> QED BY <2>1, <2>4, <3>1, LeaveKeepsInv DEF TypeOK, PagesInOrder
    <2> QED BY <1>7, <2>2, <2>3, <2>4 DEF ReceiveError
<1>8. CASE Poll
    <2>1. TypeOK'
        BY <1>8 DEF Poll, TypeOK
    <2>2. NoticeIsTrue' /\ Position' /\ ReplyIsTrue'
        BY <1>8 DEF Poll, NoticeIsTrue, Position, ReplyIsTrue, Running, Order, TypeOK
    <2> QED BY <1>8, <2>1, <2>2, KeptStays DEF Poll
<1>9. CASE PollReturn
    <2>1. Running /\ at = "polled" /\ UNCHANGED <<call, data, skipped>>
        BY <1>9 DEF PollReturn
    <2>2. CASE StillPending /\ CountPoll(polls) < TanPollMax
        <3>1. /\ polls' = polls + 1 /\ at' = "wait" /\ reply' = NoReply
              /\ UNCHANGED <<step, td, retried, got, told, result, tan, asked>>
            BY <1>9, <2>2, PollAssumption DEF PollReturn, CountPoll, StillPending, Confirmed, TypeOK
        <3>2. TypeOK'
            BY <2>1, <3>1 DEF TypeOK, Replies, NoReply, NoTouchdown
        <3>3. NoticeIsTrue' /\ Position' /\ ReplyIsTrue'
            BY <2>1, <2>2, <3>1
               DEF StillPending, NoticeIsTrue, Position, ReplyIsTrue, Running, Order, NoReply, NoTouchdown
        <3> QED BY <2>1, <3>1, <3>2, <3>3, KeptStays
    <2>3. CASE Fail /\ told' = told
        BY <2>1, <2>3, FailKeepsInv DEF TypeOK
    <2>4. CASE Confirmed
        <3>1. /\ told' = FALSE /\ td' = td /\ retried' = (Order = "HKSAL")
              /\ at' = "call" /\ reply' = NoReply
              /\ UNCHANGED <<step, polls, got, result, tan, asked>>
            BY <1>9, <2>4 DEF PollReturn, RepeatPage, Fail, StillPending, Confirmed
        <3>2. TypeOK'
            BY <2>1, <3>1 DEF TypeOK, Replies, NoReply, NoTouchdown
        <3>3. NoticeIsTrue' /\ Position' /\ ReplyIsTrue'
            BY <2>1, <2>4, <3>1
               DEF Confirmed, NoticeIsTrue, Position, ReplyIsTrue, Running, Order, NoReply, NoTouchdown
        <3> QED BY <2>1, <3>1, <3>2, <3>3, KeptStays
    <2> QED BY <1>9, <2>2, <2>3, <2>4 DEF PollReturn
<1>10. CASE Drop
    <2>1. TypeOK'
        BY <1>10 DEF Drop, TypeOK, Running
    <2>2. NoticeIsTrue' /\ Position' /\ ReplyIsTrue'
        BY <1>10 DEF Drop, NoticeIsTrue, Position, ReplyIsTrue, Running
    <2> QED BY <1>10, <2>1, <2>2, KeptStays DEF Drop
<1>11. CASE Fails
    <2>1. TypeOK'
        BY <1>11 DEF Fails, Plain, TypeOK, Replies, NoReply, NoTouchdown
    <2>2. NoticeIsTrue' /\ Position' /\ ReplyIsTrue'
        BY <1>11
           DEF Fails, Plain, NoReply, NoTouchdown, NoticeIsTrue, Position, ReplyIsTrue, Running, Order
    <2> QED BY <1>11, <2>1, <2>2, KeptStays DEF Fails
<1>12. CASE UserApproves
    <2>1. TypeOK'
        BY <1>12 DEF UserApproves, TypeOK
    <2>2. NoticeIsTrue' /\ Position' /\ ReplyIsTrue'
        BY <1>12 DEF UserApproves, NoticeIsTrue, Position, ReplyIsTrue, Running, Order
    <2> QED BY <1>12, <2>1, <2>2, KeptStays DEF UserApproves
<1>13. ASSUME NEW r \in Replies, NEW t \in {"none", "wanted", "approved", "released"},
              Answer(r, t), ReplyIsTrue',
              at \in {"called", "polled"}, at = "polled" => t # "none",
              at = "polled" /\ t = "released" => r.kind \in {"confirmed", "error"}
       PROVE  FetchInv'
    <2>1. TypeOK'
        BY <1>13 DEF Answer, TypeOK
    <2>2. NoticeIsTrue' /\ Position'
        BY <1>13 DEF Answer, NoticeIsTrue, Position, Running, Order
    <2> QED BY <1>13, <2>1, <2>2, KeptStays DEF Answer
<1>14. CASE BankServes
    <2>1. at = "called" /\ Running /\ reply = NoReply /\ step \in 1..5 /\ Order \in Orders
        BY <1>14, RunningOrder DEF BankServes, Answer
    <2>2. Len(got[Order]) = td /\ td <= data.pages[Order]
        BY <2>1 DEF Position, PagesInOrder
    <2>3. td \in Nat /\ data.pages[Order] \in Nat
        BY <2>1 DEF TypeOK
    <2> DEFINE page == [kind |-> "page", page |-> td,
                        touchdown |-> TouchdownAfter(td, data.pages[Order])]
    <2>4. PICK t \in {"none", tan} :
             \/ td < data.pages[Order] /\ Answer(page, t)
             \/ td = data.pages[Order] /\ Answer(Plain("nothing"), t)
        BY <1>14, <2>2, <2>3 DEF BankServes
    <2>5. t \in {"none", "wanted", "approved", "released"}
        BY DEF TypeOK
    <2>6. CASE td < data.pages[Order] /\ Answer(page, t)
        <3>1. page \in Replies
            BY <2>3 DEF Replies, TouchdownAfter, NoTouchdown
        <3>2. /\ page.kind = "page" /\ page.page = td
              /\ page.touchdown = TouchdownAfter(td, data.pages[Order])
            OBVIOUS
        <3> HIDE DEF page
        <3>3. /\ reply' = page /\ at' = "called" /\ td' = td /\ td < data.pages[Order]
              /\ data' = data /\ Order' = Order
            BY <2>1, <2>6 DEF Answer, Order
        <3>4. ReplyIsTrue'
            BY <3>2, <3>3 DEF ReplyIsTrue
        <3> QED BY <1>13, <2>1, <2>5, <2>6, <3>1, <3>4
    <2>7. CASE td = data.pages[Order] /\ Answer(Plain("nothing"), t)
        <3>1. Plain("nothing") \in Replies /\ Plain("nothing").kind = "nothing"
            BY DEF Plain, NoReply, NoTouchdown, Replies
        <3>2. ReplyIsTrue'
            BY <2>1, <2>7, <3>1 DEF Answer, ReplyIsTrue, Order
        <3> QED BY <1>13, <2>1, <2>5, <2>7, <3>1, <3>2
    <2> QED BY <2>4, <2>6, <2>7
<1>15. CASE BankChallenges \/ BankRejects \/ BankStillWaits \/ BankConfirms
    <2>1. PICK kind \in {"tan", "error", "pending", "confirmed"},
               t \in {"none", "wanted", "approved", "released"} :
             /\ Answer(Plain(kind), t)
             /\ \/ kind = "tan" /\ at = "called" /\ t = "wanted"
                \/ kind = "error" /\ at \in {"called", "polled"} /\ t = tan
                \/ kind = "pending" /\ at = "polled" /\ t = "wanted"
                \/ kind = "confirmed" /\ at = "polled" /\ t = "released"
        BY <1>15 DEF BankChallenges, BankRejects, BankStillWaits, BankConfirms, TypeOK
    <2>2. Plain(kind) \in Replies /\ Plain(kind).kind = kind
        BY DEF Plain, NoReply, NoTouchdown, Replies
    <2>3. ReplyIsTrue'
        BY <2>1, <2>2 DEF Answer, ReplyIsTrue
    <2>4. at = "polled" => told /\ tan # "none"
        BY <2>1 DEF Answer, NoticeIsTrue
    <2> QED BY <1>13, <2>1, <2>2, <2>3, <2>4
<1> QED BY <1>1, <1>2, <1>3, <1>4, <1>5, <1>6, <1>7, <1>8, <1>9, <1>10, <1>11, <1>12,
           <1>14, <1>15
        DEF Next, ClientStep, BankStep

-----------------------------------------------------------------------------
\* The inductive invariant holds: a call always knows where its pages, its
\* TAN and its awaited reply stand.
THEOREM FetchHolds == Spec => []FetchInv
BY InitKeepsInv, FetchStep, PTL DEF Spec

\* The result holds the bank's pages in order, without repetition or gap.
THEOREM PagesComeInOrder == Spec => []PagesInOrder
<1>1. FetchInv => PagesInOrder
    BY DEF FetchInv
<1> QED BY <1>1, FetchHolds, PTL

\* An Ok result is not cut short unnoticed.
THEOREM NothingIsCutShort == Spec => []OkIsNotCutShort
<1>1. FetchInv => OkIsNotCutShort
    <2> SUFFICES ASSUME FetchInv, result = "ok", NEW op \in call.orders
                 PROVE  Kept(op)
        BY DEF OkIsNotCutShort
    <2>1. step = 6 /\ op \in Orders
        BY CallFacts DEF FetchInv, TypeOK
    <2>2. PICK i \in 1..5 : Plan[i] = op
        BY <2>1, PlanFacts
    <2> QED BY <2>1, <2>2 DEF FetchInv, Chosen
<1> QED BY <1>1, FetchHolds, PTL

\* The user has been told of a TAN exactly while the call waits for one.
THEOREM NoticesAreTrue == Spec => []NoticeIsTrue
<1>1. FetchInv => NoticeIsTrue
    BY DEF FetchInv
<1> QED BY <1>1, FetchHolds, PTL

\* A page is asked for again only when its TAN is released.
THEOREM RepeatsAreReleased == Spec => RepeatsOnlyReleased
<1>1. FetchInv /\ [Next]_vars =>
         [at = "call" /\ at' = "called" /\ td \in asked => tan = "released"]_vars
    <2> SUFFICES ASSUME FetchInv, [Next]_vars, at = "call", at' = "called", td \in asked
                 PROVE  tan = "released"
        OBVIOUS
    <2>1. Running
        BY DEF vars, Next, ClientStep, BankStep, Ask, ReceivePage, ReceiveNothing,
               NotifyAndWait, PassOver, ReceiveError, Poll, PollReturn, Returns, Drop,
               Fails, BankServes, BankChallenges, BankRejects, BankStillWaits,
               BankConfirms, UserApproves, Answer
    <2> QED BY <2>1 DEF FetchInv, Position
<1> QED BY <1>1, FetchHolds, PTL DEF Spec, RepeatsOnlyReleased
=============================================================================
