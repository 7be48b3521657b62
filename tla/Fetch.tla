-------------------------------- MODULE Fetch --------------------------------
(***************************************************************************)
(* Fetching data from an open dialog (workflow.rs): Dkb.fetch,             *)
(* fetch_with_opts, fetch_with_tan_handler, and fetch_holdings and         *)
(* fetch_depot_transactions called alone.                                  *)
(*                                                                         *)
(* One call runs a fixed list of orders.  Each order but the balance is a  *)
(* loop over pages, td (the touchdown point) being the page to ask for     *)
(* next.  Any request may be answered by a challenge; what is done then,   *)
(* and after an error, differs from order to order and from call to call.  *)
(*                                                                         *)
(* The dialog (FinTSDialog) is reduced to what its methods return; it is   *)
(* borrowed by the call, so nobody else sends in it.  A request whose      *)
(* answer is lost is never repeated, so that it makes no difference        *)
(* whether the bank processed it.  The bank is external.                   *)
(***************************************************************************)
EXTENDS Naturals, Sequences

CONSTANTS
    FetchCalls,   \* the calls the application makes, of FetchCallTypes
    BankData,     \* what banks hold: [pages, readable]
    TanPollMax    \* TAN_POLL_MAX: polls for one TAN, 30 in the code

Plan == <<"HKSAL", "HKKAZ", "HKWPD", "DKKKU", "HKWDU">>
Orders == {"HKSAL", "HKKAZ", "HKWPD", "DKKKU", "HKWDU"}

\* "fetch": Dkb.fetch; "opts": without, "handler": with a TAN callback;
\* "alone": one of the two depot loops.
FetchCallTypes ==
    [variant : {"opts", "handler"}, orders : SUBSET Orders]
    \cup [variant : {"fetch"}, orders : {{"HKSAL", "HKKAZ", "HKWPD"}}]
    \cup [variant : {"alone"}, orders : {{"HKWPD"}, {"HKWDU"}}]

ASSUME FetchCallAssumption == FetchCalls \subseteq FetchCallTypes
ASSUME PollAssumption == TanPollMax \in Nat \ {0}
ASSUME BankDataAssumption ==
    BankData \subseteq [pages : [Orders -> Nat], readable : BOOLEAN]

VARIABLES
    \* the call, and the bank's data: chosen at the start
    call, data,
    \* the order being fetched (an index of Plan), and where the call is:
    \* "call"/"called" around an order's request, "wait"/"polled" around a poll
    step, at,
    td, retried, polls,
    got,          \* pages in the vectors of the result, by order
    told,         \* argument of the last on_tan
    result,
    reply,        \* what the awaited method returns, or NoReply
    tan,          \* the TAN of the current order at the bank
    \* history: pages of the current order asked for, orders whose challenge
    \* was passed over
    asked, skipped

vars == <<call, data, step, at, td, retried, polls, got, told, result, reply,
          tan, asked, skipped>>

Order == Plan[step]

\* No touchdown point (Option::None): the first page is asked for, or was the
\* last one.
NoTouchdown == 0

NoReply == [kind |-> "none", page |-> 0, touchdown |-> NoTouchdown]
Replies == [kind : {"none", "page", "nothing", "tan", "error", "pending", "confirmed"},
            page : Nat, touchdown : Nat]
Plain(kind) == [NoReply EXCEPT !.kind = kind]

Running == result = "running"

\* The orders the caller chose, 6 being the end; j comes next after i.
Chosen == {k \in 1..5 : Plan[k] \in call.orders} \cup {6}
Follows(i, j) ==
    /\ j \in Chosen /\ i < j
    /\ \A k \in Chosen : i < k => j <= k

Init ==
    /\ call \in FetchCalls
    /\ data \in BankData
    /\ step \in 1..6 /\ Follows(0, step)
    /\ at = "call"
    /\ td = NoTouchdown /\ retried = FALSE /\ polls = 0
    /\ got = [op \in Orders |-> <<>>]
    /\ told = FALSE
    /\ result = IF step = 6 THEN "ok" ELSE "running"
    /\ reply = NoReply
    /\ tan = "none"
    /\ asked = {} /\ skipped = {}

-----------------------------------------------------------------------------
(* The client.                                                             *)

\* The call returns Err (the operator ? of the code).
Fail ==
    /\ result' = "err"
    /\ at' = "call" /\ reply' = NoReply
    /\ UNCHANGED <<step, td, retried, polls, got, tan, asked>>

\* The order is done, its vector holding the given pages.
LeaveWith(pages) ==
    /\ got' = [got EXCEPT ![Order] = pages]
    /\ \E j \in 1..6 :
          /\ Follows(step, j)
          /\ step' = j
          /\ result' = IF j = 6 THEN "ok" ELSE "running"
    /\ at' = "call" /\ reply' = NoReply
    /\ td' = NoTouchdown /\ retried' = FALSE /\ polls' = 0
    /\ tan' = "none" /\ asked' = {}

\* At the end of HKKAZ the statements are parsed: an error is Dkb.fetch's
\* error, and leaves the other calls without transactions.
Finish(pages) ==
    IF Order = "HKKAZ" /\ ~data.readable /\ pages # <<>>
    THEN IF call.variant = "fetch" THEN Fail ELSE LeaveWith(<<>>)
    ELSE LeaveWith(pages)

Ask ==
    /\ Running /\ at = "call"
    /\ at' = "called"
    /\ asked' = asked \cup {td}
    /\ UNCHANGED <<call, data, step, td, retried, polls, got, told, result, reply,
                   tan, skipped>>

Returns(kind) == Running /\ at = "called" /\ reply.kind = kind

\* The page asked for after a confirmed TAN.
RepeatFromStart(n) == NoTouchdown
RepeatPage(n) == n

ReceivePage ==
    LET pages == Append(got[Order], reply.page)
    IN  /\ Returns("page")
        /\ IF reply.touchdown # NoTouchdown /\ Order # "HKSAL"
           THEN /\ got' = [got EXCEPT ![Order] = pages]
                /\ td' = reply.touchdown
                /\ at' = "call" /\ reply' = NoReply
                /\ UNCHANGED <<step, retried, polls, result, tan, asked>>
           ELSE Finish(pages)
        /\ UNCHANGED <<call, data, told, skipped>>

ReceiveNothing ==
    /\ Returns("nothing")
    /\ Finish(got[Order])
    /\ UNCHANGED <<call, data, told, skipped>>

\* Challenges the callback is told of; the balance is retried once.
WaitsForTan == call.variant = "handler" /\ Order \in {"HKSAL", "HKKAZ"} /\ ~retried

NotifyAndWait ==
    /\ Returns("tan") /\ WaitsForTan
    /\ told' = TRUE
    /\ at' = "wait" /\ polls' = 0 /\ reply' = NoReply
    /\ UNCHANGED <<call, data, step, td, retried, got, result, tan, asked, skipped>>

\* Elsewhere a challenge ends the order with the pages so far; only Dkb.fetch
\* does not accept that of transactions.
PassOver ==
    /\ Returns("tan") /\ ~WaitsForTan
    /\ skipped' = skipped \cup {Order}
    /\ IF call.variant = "fetch" /\ Order = "HKKAZ" THEN Fail ELSE Finish(got[Order])
    /\ UNCHANGED <<call, data, told>>

\* An error ends the call for transactions and for a loop called alone; else
\* it ends the order, and the depot orders lose the pages they had.
FatalAlone == call.variant = "alone"
Fatal == Order = "HKKAZ" \/ call.variant = "alone"

ReceiveError ==
    /\ Returns("error")
    /\ IF Fatal THEN Fail
       ELSE LeaveWith(IF Order \in {"HKWPD", "HKWDU"} THEN <<>> ELSE got[Order])
    /\ UNCHANGED <<call, data, told, skipped>>

\* await_decoupled_tan.
Poll ==
    /\ Running /\ at = "wait"
    /\ at' = "polled"
    /\ UNCHANGED <<call, data, step, td, retried, polls, got, told, result, reply,
                   tan, asked, skipped>>

CountNoPoll(n) == n
CountPoll(n) == n + 1

\* poll_decoupled_tan returned Ok(false), Ok(true).
PendingOrFailed == reply.kind \in {"pending", "error"}
StillPending == reply.kind = "pending"
ConfirmedOrPending == reply.kind \in {"confirmed", "pending"}
Confirmed == reply.kind = "confirmed"

\* The confirmed order is asked for again: the same page, or the balance.
PollReturn ==
    /\ Running /\ at = "polled"
    /\ \/ /\ StillPending /\ CountPoll(polls) < TanPollMax
          /\ polls' = CountPoll(polls)
          /\ at' = "wait" /\ reply' = NoReply
          /\ UNCHANGED <<step, td, retried, got, told, result, tan, asked>>
       \/ /\ \/ StillPending /\ CountPoll(polls) >= TanPollMax
             \/ reply.kind = "error"
          /\ Fail
          /\ UNCHANGED told
       \/ /\ Confirmed
          /\ told' = FALSE
          /\ td' = RepeatPage(td)
          /\ retried' = (Order = "HKSAL")
          /\ at' = "call" /\ reply' = NoReply
          /\ UNCHANGED <<step, polls, got, result, tan, asked>>
    /\ UNCHANGED <<call, data, skipped>>

\* The application drops the future.
Drop ==
    /\ Running
    /\ result' = "dropped"
    /\ UNCHANGED <<call, data, step, at, td, retried, polls, got, told, reply, tan,
                   asked, skipped>>

\* The transport: a request fails, or its answer is lost.
Fails ==
    /\ Running /\ at \in {"called", "polled"} /\ reply.kind # "error"
    /\ reply' = Plain("error")
    /\ UNCHANGED <<call, data, step, at, td, retried, polls, got, told, result, tan,
                   asked, skipped>>

-----------------------------------------------------------------------------
(* The bank and the user (external).  A TAN is "wanted", "approved" by the *)
(* user, and "released" once the bank told the client so; it covers the    *)
(* page it was asked for, or the whole order.                              *)

Answer(r, t) ==
    /\ Running /\ reply = NoReply
    /\ reply' = r
    /\ tan' = t
    /\ UNCHANGED <<call, data, step, at, td, retried, polls, got, told, result,
                   asked, skipped>>

\* Where the bank says to go on after page n of m.
TouchdownAfter(n, m) == IF n + 1 < m THEN n + 1 ELSE NoTouchdown

BankServes ==
    /\ at = "called" /\ tan \in {"none", "released"}
    /\ \E t \in {"none", tan} :
          Answer(IF td < data.pages[Order]
                 THEN [kind |-> "page", page |-> td,
                       touchdown |-> TouchdownAfter(td, data.pages[Order])]
                 ELSE Plain("nothing"), t)

\* Also of the request that is repeated after its TAN, which carries HKTAN again.
BankChallenges ==
    at = "called" /\ tan \in {"none", "released"} /\ Answer(Plain("tan"), "wanted")

BankRejects == at \in {"called", "polled"} /\ Answer(Plain("error"), tan)

BankStillWaits == at = "polled" /\ tan = "wanted" /\ Answer(Plain("pending"), tan)

BankConfirms == at = "polled" /\ tan = "approved" /\ Answer(Plain("confirmed"), "released")

UserApproves ==
    /\ Running /\ tan = "wanted"
    /\ tan' = "approved"
    /\ UNCHANGED <<call, data, step, at, td, retried, polls, got, told, result, reply,
                   asked, skipped>>

-----------------------------------------------------------------------------
ClientStep ==
    \/ Ask \/ ReceivePage \/ ReceiveNothing \/ NotifyAndWait \/ PassOver
    \/ ReceiveError \/ Poll \/ PollReturn

BankStep ==
    \/ BankServes \/ BankChallenges \/ BankRejects \/ BankStillWaits
    \/ BankConfirms \/ UserApproves

Next == ClientStep \/ Drop \/ Fails \/ BankStep

Spec == Init /\ [][Next]_vars

\* The executor polls the future, and the HTTP client gives a request up
\* after 300 s.  Nothing is assumed of the bank and the user.
FairSpec == Spec /\ WF_vars(ClientStep) /\ WF_vars(Fails)

-----------------------------------------------------------------------------
(* Properties.                                                             *)

\* Every variable has its type.
TypeOK ==
    /\ call \in FetchCallTypes
    /\ data \in [pages : [Orders -> Nat], readable : BOOLEAN]
    /\ step \in 1..6
    /\ at \in {"call", "called", "wait", "polled"}
    /\ td \in Nat /\ retried \in BOOLEAN /\ polls \in Nat
    /\ got \in [Orders -> Seq(Nat)]
    /\ told \in BOOLEAN
    /\ result \in {"running", "ok", "err", "dropped"}
    /\ result = "ok" <=> step = 6
    /\ reply \in Replies
    /\ tan \in {"none", "wanted", "approved", "released"}
    /\ asked \in SUBSET Nat
    /\ skipped \in SUBSET Orders

\* The vectors of the result hold the bank's pages in order, none twice and
\* none left out between two others, wherever challenges, retries and errors
\* came between (the loops extend a vector and take over the touchdown point
\* only from a page that was received).
PagesInOrder ==
    \A op \in Orders :
        /\ Len(got[op]) <= data.pages[op]
        /\ \A i \in 1..Len(got[op]) : got[op][i] = i - 1

All(op) == Len(got[op]) = data.pages[op]

\* Nothing of an order is missing unnoticed: transactions, of Dkb.fetch and
\* with a TAN callback, are complete unless they cannot be parsed, and the
\* depot loops lose pages only to a challenge, or all of them to an error.
Kept(op) ==
    /\ op = "HKKAZ" /\ call.variant \in {"fetch", "handler"} => All(op) \/ ~data.readable
    /\ op \in {"HKWPD", "HKWDU"} =>
          All(op) \/ op \in skipped \/ (got[op] = <<>> /\ call.variant # "alone")

\* An Ok result is not cut short unnoticed, in any of its orders (the loops,
\* their breaks and the operators ? of the calls).
OkIsNotCutShort == result = "ok" => \A op \in call.orders : Kept(op)

\* While the call runs, the user has been told of a TAN exactly while it is
\* polled, and it is one the bank asked for and has not yet confirmed to the
\* client.
NoticeIsTrue ==
    Running =>
        /\ told <=> at \in {"wait", "polled"}
        /\ told => tan # "none"
        /\ told /\ tan = "released" => reply.kind \in {"confirmed", "error"}

\* A page that was asked for is asked for again only once its TAN is released,
\* so that no request starts a second TAN while one is open (await_decoupled_tan
\* comes back with Ok only on a confirmation).
RepeatsOnlyReleased ==
    [][at = "call" /\ at' = "called" /\ td \in asked => tan = "released"]_vars

\* A call that never returns is one in which the bank confirms one TAN after
\* another: it challenges the repeated page again each time, and nothing in the
\* loops bounds that.  A user who never approves (TAN_POLL_MAX), requests lost
\* (the timeout of the transport), errors and pages alone do not keep it running,
\* at a bank with finitely many pages that names the next one.
Terminates == <>~Running \/ []<><<BankConfirms>>_vars

\* An Ok result has all transactions (as Flow::confirm_and_fetch promises to
\* fetch everything).
EverythingFetched ==
    result = "ok" /\ "HKKAZ" \in call.orders /\ data.readable => All("HKKAZ")

-----------------------------------------------------------------------------
(* The inductive invariant: where a running call stands, and what the      *)
(* awaited reply stands for.                                               *)

Position ==
    Running =>
        /\ Len(got[Order]) = td
        /\ \A j \in (step + 1)..5 : got[Plan[j]] = <<>>
        /\ retried => Order = "HKSAL"
        /\ asked \subseteq 0..td
        /\ at = "call" /\ td \in asked => tan = "released"

ReplyIsTrue ==
    Running =>
        /\ reply.kind = "page" => /\ at = "called" /\ reply.page = td
                                 /\ td < data.pages[Order]
                                 /\ reply.touchdown = TouchdownAfter(td, data.pages[Order])
        /\ reply.kind = "nothing" => at = "called" /\ td = data.pages[Order]
        /\ reply.kind = "tan" => at = "called" /\ tan \in {"wanted", "approved"}
        /\ reply.kind = "error" => at \in {"called", "polled"}
        /\ reply.kind = "pending" => at = "polled" /\ tan \in {"wanted", "approved"}
        /\ reply.kind = "confirmed" => at = "polled" /\ tan = "released"

\* A call is where its replies and pages put it; every order it has left has
\* what Kept says.
FetchInv ==
    /\ TypeOK
    /\ PagesInOrder
    /\ NoticeIsTrue
    /\ Position
    /\ ReplyIsTrue
    /\ \A j \in Chosen : j < step /\ j # 6 => Kept(Plan[j])
=============================================================================
