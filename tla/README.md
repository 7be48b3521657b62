# Verification of fints-rs

fints-rs is a client for the German banking protocol FinTS 3.0, with a command
line and a mock bank. These modules specify it in TLA+, check it with TLC on small
instances, and prove its safety with TLAPS for every instance.

Paths below are those of the repository's crate, `src/src/...`.

## 1. The system

| part | state | operations | interacts with |
| --- | --- | --- | --- |
| `Dialog<S>` (`protocol.rs`) | dialog id, message number, system id, parameter caches; the typestate `New`, `Synced`, `Open`, `TanPending` | `sync`, `init`, `init_negotiate`, `init_no_tan`; `end`, `cancel`; `poll`, `submit_tan`; ten orders and `poll_decoupled_tan` | sends through the transport, ingests answers into `BankParams` |
| `Response` (`protocol.rs`, `types.rs`) | the segments and codes of one answer | `needs_tan`, `check_errors`, `get_tan_challenge`, `touchdown`, ... | every decision of `Dialog` |
| `BankParams` (`protocol.rs`) | versions of BPD and UPD, TAN methods, HIPINS, accounts, allowed and selected security function | `ingest_response`, `select_security_function`, `needs_tan`, `supported_version` | outlives a Dialog: the application passes it to the next one |
| segment parsers (`segments/response.rs`, `mt535.rs`, `mt536.rs`) | none | one function per segment or statement, reading by position | feed the caches and the results |
| message construction (`message.rs`, `segments/builder.rs`) | none | version and account format of each order, signature, envelope, size | called by `Dialog` for each request |
| wire format (`parser.rs`, `serializer.rs`) | of a parser: position, element, groups and segments so far | text to segments and back; an inner message is parsed by a second parser | messages and answers |
| transport (`transport.rs`) | HTTP client | `send` | one POST per request, 300 s timeout, no retry |
| workflow (`workflow.rs`) | loops over pages and TANs | `try_resume_init`, `initiate`, `fetch`, `await_decoupled_tan` | drives a Dialog |
| flow (`flow.rs`), DKB session (`dkb.rs`) | `FlowState`: a Dialog parked between two calls | `initiate`, `confirm_and_fetch` | drives the workflow |
| command line client (`bin/client.rs`) | one JSON file per session name, resume tokens in the user's hands; the devices registered at the bank | setup, sync, inspect, balance, transactions, holdings, sessions delete | each run drives Dialogs; runs share the files without a lock |
| mock bank (`bin/server.rs`) | behind one lock: dialogs with their message count, counters of dialogs and systems, random prefixes | one handler per POST: takes the lock to read the latency, sleeps without it, takes it again to answer | answers clients in tests and demonstrations |
| audit (`audit.rs`) | none | rules over a request or an answer, on its parsed segments | used by the command line and the tests |
| debug output (`debug.rs`), bank registry (`banks.rs`) | none | formatting, lookup | |

What is hard here:

* every `.await` may fail, and the request may have been processed all the same,
  or may be processed later, after younger requests;
* message numbers and dialog ids must be right for the bank to accept anything,
  and they are kept by hand in four methods that open dialogs and two that
  forget them;
* a Dialog becomes `Open` because an answer does *not* contain something, in
  four methods with four different combinations of tests;
* the caches survive a Dialog, are appended to by every answer, and only the
  versions announced in HKVVB keep them from growing;
* the function that signs a message has to follow the list the bank sent last;
* a failed attempt to resume is followed by a registration, while requests of
  the attempt may still be on their way;
* any of the requests of a fetch may need a TAN or fail between two pages, and
  what happens then differs from order to order and from call to call;
* one format is written and read in five places that share no code: serializer,
  parser, segment readers, audit and the mock bank, which searches the bytes;
  what is written at one position is read at another number;
* what a bank lists decides in which of several versions an order is built, and
  each version has another account format;
* the mock bank forgets everything in a restart while its clients go on, and
  works off requests in the order they wake up in;
* several runs of the command line may load, register, save and delete the same
  session, and each may be killed while it writes.

What makes each part correct: the Dialog numbers consecutively, never reuses a
number, says nothing after HKEND, and is open only where the bank admitted it;
the caches hold what the bank sent last, once, and the selected function is one
of the allowed; the workflow sends each order in an open dialog, repeats it only
after a confirmed TAN and does not report part of the data as all of it; the
flow never loses a Dialog it could still use; a message is read as what was
written, wherever it is read, and one that was cut off is noticed; orders fit
what the bank lists; the mock bank never mixes up two dialogs or two devices; a
session file names a device of its own user, unless its run was told to use
another's.

## 2. Modules

| module | models | role |
| --- | --- | --- |
| `FinTSResponse` | what the client reads from one answer | operators |
| `BankParams` | the caches and what an answer changes in them | operators |
| `FinTSDialog` | the Dialog of one client, the network, a bank | state machine and its properties |
| `Conversation` | what a bank may expect of one client's message stream | abstract specification |
| `FinTSDialogInv` | inductive invariants of `FinTSDialog`, one per question: numbers, admission, TAN, negotiation, selection, caches | checked by TLC and proved |
| `Flow` | `initiate` with its fallback, and who holds the Dialog until and during `confirm_and_fetch`; extends `FinTSDialog` | state machine and its properties |
| `Fetch` | one call that fetches: orders, pages, TANs, polls | state machine, its properties and inductive invariant |
| `WireFormat` | elements, escaping, the serializer | operators |
| `WireParser` | the parser, one step per character, and its second run on the envelope's content | state machine, part of `MessageExchange`; on its own `ParserSpec`, what the proofs are about |
| `SegmentBuilder` | every segment the client sends, and in which version | operators |
| `Envelope` | `build_message`: signature, numbering, size | operators |
| `SegmentReader` | the readers of `segments/response.rs` | operators |
| `Depot` | MT535, MT536 and the depot segments | operators |
| `Audit` | the rules of the audit over requests | operators |
| `ServerText` | what the mock bank finds in a request's bytes and what it answers | operators |
| `MessageExchange` | a message on its way; composes the eight modules above | state machine and its properties |
| `MockServer` | the mock bank with its clients, latency, lost requests and restarts | state machine and its properties |
| `Sessions` | concurrent runs of the command line on shared session files | state machine and its properties |
| `MCFinTSDialog`, `MCFlow`, `MCFetch`, `MCMessages`, `MCMockServer`, `MCSessions` | banks with one or two TAN methods; calls and banks' data; letters; clients; symmetries | constants for TLC |
| `FinTSDialogProofs` | types of `BankParams` and `FinTSDialog`, shapes of steps, methods; numbers, HKEND, the refinement of `Conversation` | proofs |
| `OpeningProofs` | TAN, negotiation, selection, caches, admission | proofs |
| `FlowProofs`, `FetchProofs`, `MockServerProofs`, `SessionsProofs` | the module of that name | proofs |
| `MessageProofs` | `WireParser` and the versions of `SegmentBuilder`; the text of a message and the parser on it | proofs |
| `ExchangeProofs` | `MessageExchange`: what is built, written, cut off, read and audited | proofs |

`Flow` composes: each of its steps is a step of `FinTSDialog`, or changes the
stage alone. `Fetch` is separate: it sees of a Dialog only what the order methods
and `poll_decoupled_tan` return, because a fetch borrows an open Dialog for
itself, and what it can get wrong is not the protocol but the data.
`MessageExchange` is below both: `FinTSDialog` has an answer as the record of what
is read from it, `MessageExchange` has the bytes it is read from. `MockServer` sees
of a message what the server's tables depend on, and `ServerText` is what it says.

### State and actions of `FinTSDialog`

| variable | code |
| --- | --- |
| `typestate` | the type parameter S of `Dialog<S>`; "none": no Dialog exists |
| `dialog_id`, `message_number`, `system_id`, `params` | the fields of the struct (`protocol.rs:545-556`) |
| `pending`, `answer` | the method that is suspended at `.await`, by the request it sent, and the answer that has arrived for it |
| `outcome` | what the last method returned |
| `challenge`, `stored`, `serial` | what the application keeps: the last TAN challenge, the result of `Dialog<Synced>::end`, the number of Dialogs created |
| `net`, `bank` | requests not yet processed, the bank's dialogs |
| `sent` | history: every request ever sent |

A method is a call action (it sends and suspends) and a return action (the rest
of its body, from the answer to its `Ok` or `Err`). `init_negotiate` awaits three
times and is `ProbeCall`, `ProbeReturn`, `ProbeEndReturn` and then `InitReturn`.
`sync`, `init`, `end`, ... take the Dialog by value: on `Err` it is gone
(`Consumed`). Orders and `poll_decoupled_tan` take `&mut self` and leave it with
its owner (`KeepsDialog`). `DropDialog` drops the Dialog or the running future at
any moment. `SendFails` is an `Err` of the transport at any moment; the request
stays in `net` and the bank may still process it, or never.

The ten orders are one pair of actions, `OrderCall(op, page)` and
`OrderReturn(op)`; what differs between them is in `BundlesHktan`, `PagedOrders`,
`AsksForTan` and `OrderVersion`.

The bank is external. Its actions may answer any request in any order, refuse,
end dialogs, ask for a TAN or grant an exemption, and announce the parameters
whose version the client does not have. Its dialogs have a phase and remember
whether orders were ever admitted (`auth`).

The application creates a Dialog with no system id, one it saved earlier
(`SavedIds`) or the one of its last sync dialog, and with empty parameters or
those of that dialog.

Left out: texts; the TAN medium; the order of segments in a message, except for
which segment it is; the raw copies of segments the caches keep for display.
Answers are records of what is read from them; an answer that cannot be read is
one without codes (`Readings`, switched by `UnreadableAnswers`).

### State and actions of `Flow`

`given` is the system id `initiate` is called with. `stage` is where the flow
stands: the await of `initiate` or `confirm_and_fetch` it is in, or the
`FlowState` between them.

| stage | code | actions |
| --- | --- | --- |
| "start", "resume" | `try_resume_init` | `BeginResume`, `Resume` |
| "register", "sync" | phase 1 of `initiate` | `BeginSync`, `Sync` |
| "reinit", "init" | phase 2 of `initiate` | `BeginInit`, `Initialise` |
| "waiting", "ready" | `FlowState::WaitingForTan`, `Authenticated`; the same of `Session` | `Confirm` |
| "poll", "fetch", "end" | `confirm_and_fetch_opts`, `confirm_and_fetch_holdings`, `Session::fetch`; `FlowState::Done` | `Polled`, `FetchOrders`, `FetchFails`, `EndFlow` |
| "lost" | `Session::fetch` after a pending poll, `Parks = FALSE` | `Abandon` |
| "done", "failed" | no Dialog is left | |

`Dkb` and `GenericBank` run the same steps in `initiate`; `Parks` is the one
difference between `Flow` and `Session` that a Dialog notices. `Abandon` is the
application dropping the Flow or the running future, at any stage.

### State and actions of `Fetch`

`step` is the order being fetched, `at` where the call is around a request or a
poll; `td` is the touchdown point, `retried` the second attempt for the balance,
`polls` the loop counter of `await_decoupled_tan`, `got` the vectors of the
result, `told` the argument of the last `on_tan`. `reply` is what the awaited
method returns and `tan` the bank's view of the TAN. The five loops are one set
of actions; what differs between orders and calls is in `WaitsForTan` (who waits
for a TAN), `PassOver` (what a challenge does otherwise), `Fatal` and
`ReceiveError` (what an error does) and `Finish` (unreadable statements). A
vector is the sequence of its pages. `got` is the parsed data: `raw_booked` and
`raw_pending` keep the pages of statements that cannot be parsed. One challenge
per order at a time; after a released TAN the bank serves the page it was asked
for, or asks for another TAN, since the repeated request carries HKTAN again, as
often as it likes.

### State and actions of `MessageExchange`

`letter` is what is sent: a request (`ctx`: dialog, number, PIN, TAN, ...; `orders`;
`params`: what the bank lists) or what a bank answers (`segs`, and what they
mean). `phase` says how far it is. The other variables are the fields and locals of
the parser: `data`, `pos`, `need_new_de`, the element, groups and segments under
construction, `mode` (where `parse_segments` and `parse_de` are), `level` (which of
the two parsers runs) and `outer` (what the first one returned).

`Build` is `build_message`; the request arrives whole, or cut off at any byte.
`Refuse` is a builder's `Err`, `Panic` an assertion. `ServerAnswers` is the mock bank's
handler on a request that was parsed, `BankWrites` an answer of another bank, in a
sound, a broken or no envelope, with line breaks or without. `ReadOn` is a step of
the parser.

A message is a sequence of symbols. A character the code looks for is a symbol of
its own: separators, the escape, the `@` of a binary, digits of its length, the line
feed, an umlaut, which is one byte in ISO-8859-1 and two in UTF-8. A word that no code
takes apart is one symbol; so a binary's length counts symbols. What the code decides by
the look of a value (an ISIN has twelve characters, a date eight digits) is
membership in a set of symbols (`Isins`, `Dates`, ...).

### State and actions of `MockServer`

`dialogs` (id to message count), `dialog_counter` and `system_counter` are the
fields of the server's state. An id is a prefix and a counter; `epoch` stands for the
prefixes, which the server draws at random when it starts. `requests` are the
connections that sleep for the latency, `answers` those on their way back, `client`
what each `Dialog` keeps. `Handle` is `handle_fints_request` from its second lock on:
nothing can come in between there. Before, the handler only reads the latency. `Drop`
is a handler whose connection is gone, `Restart` loses all tables. The clients open,
order, end and give up as `Dialog` does.

### State and actions of `Sessions`

`file` is the content of each session file: a `SessionFile`, `Absent`, `Empty` (opened
for writing) or `Torn`. `tokens` are the resume tokens printed, of which `MaxTokens` may
differ, `issued` the devices of the bank with their users, `run` the processes, with the
device of the session they loaded, whether that session is another user's (`foreign`) and
whether they have their file open. Two variables are history: `disturbed`, the names
whose file was last written by a run that failed or that was not alone, and `borrowed`,
the users for whom the bank opened a dialog under the device of another's session.
Whether a bank does that is its choice: it may open a dialog under any device, register
a new one, or refuse.

| action | code |
| --- | --- |
| `BeginFresh` | `setup`, `inspect`: no session is loaded |
| `BeginSync`, `BeginFetch` | `sync`, with `--resume-token` or the stored session; `balance`, `transactions`, `holdings` |
| `Resume`, `Register` | `initiate` of the workflow, which ends with the device of the session or a new one |
| `Fetched` | `confirm_and_fetch` |
| `PrintToken`, `OpenFile`, `WriteFile` | `--no-persist`; `save_session`, with the two system calls of `fs::write` |
| `Fail` | any `?`, Ctrl-C or crash, at any moment |
| `Delete` | `sessions delete` |

## 3. Runs

The runs of `FinTSDialog` are instances of `MCFinTSDialog`: functions 912 (decoupled), 921 and 999
(PIN only), one account, three dialog ids, one system id. Three ids are enough
for the probe dialog, the initialisation and the dialog of a second Dialog; ids
are symmetric. `CHECK_DEADLOCK FALSE`: the application stops after `MaxDialogs`.
The bank's UPD has version 3, of which 0 is read (`MCUpd`), as of the mock bank's HIUPA.

| run | question | bounds |
| --- | --- | --- |
| `two_dialogs` | are the caches, the negotiation and the TAN challenge consistent over two Dialogs, and do numbering and HKEND survive whatever the bank answers? (`TypeOK`, `NegotiationIsSound`, `SignedAsAllowed`, `LearnedOnce`, `TanPendingInStep`, `NumberingInv`, `NumbersNeverReused`, `EndIsLast`) | 2 Dialogs, numbers to 3, no orders, the list of functions varies, answers may be unreadable, a caller's preference or none |
| `one_dialog` | does a Dialog order only where it was admitted, and number without gap, and does it implement `Conversation`? (`AdmissionInv`, `OpenOnlyIfAdmitted`, `NumberedConsecutively`, `LeadsConversations`) | 1 Dialog, numbers to 4, HKSAL (PIN is enough), HKKAZ (TAN and pages), DKKKU (pages, no HKTAN), raw |

`MaxNumber` bounds the number a request may still be sent with; four messages of
a dialog are its opening, one or two orders or polls, and its end, which is
where the methods differ. The code's counter is a `u16`.

`MCFlow` has one TAN method (912, decoupled) and a bank that may or may not list
it. Four dialog ids are enough for the longest flow: a probe and an
initialisation to resume, a sync dialog, and the new initialisation; and
`MaxDialogs` is 3 because no flow creates more.

| run | question | bounds |
| --- | --- | --- |
| `flows` | does a Flow hold the Dialog it says, one the bank still knows, as a known device, after at most three openings? (`FlowTracksDialog`, `HeldDialogIsGood`, `DeviceIsKept`, `AtMostThreeTries`) | with and without a saved id, numbers to 4, HKSAL |
| `flows_return` | do `initiate`, the poll and the end return? (`CallsReturn`) | a Session (`Parks = FALSE`), numbers to 3, no orders, unreadable answers, no symmetry |
| `fetches` | is what a fetch returns the bank's data, are TANs waited for and told, does it end, unless the bank confirms TAN after TAN? (`FetchInv`, `PagesInOrder`, `OkIsNotCutShort`, `NoticeIsTrue`, `RepeatsOnlyReleased`, `Terminates`) | seven kinds of call, three banks with up to three pages an order, 3 polls |

Three pages have a first, a middle and a last one; three polls a first, a next
and a last one. The code polls 30 times.

| run | question | bounds |
| --- | --- | --- |
| `messages` | is a message read as it was written: by the parser (`RoundTrip`), in itself (`IsConsistent`), by the bank it is built for (`OrdersFitTheBank`), by the mock bank (`ServerReadsRequest`); are the answers of the mock bank and of other banks read as they were meant (`OpeningIsRead`, `OrdersAreAnswered`, `BankIsRead`); and what of a message that was cut off (`CutIsNoticed`, `CutIsPrefix`)? | the letters of `MCMessages` |
| `server` | are dialogs and devices kept apart, messages counted right and everyone answered? (`MockTypeOK`, `NoSharedDialog`, `NoSharedSystem`, `CountsAgree`, `EveryoneIsAnswered`) | two clients with 3 and 2 messages, one restart, one client whose name may have an umlaut |
| `sessions` | whose device does a session file name, and when can it not be read? (`SessionsTypeOK`, `DeviceIsUsers`, `UnreadableByAccident`) | 2 runs at a time, 2 users, 1 name, 2 devices, 2 tokens, symmetric |

The letters are every segment the client builds, at banks that list no version,
old, middle and new ones, with German, foreign and national accounts; PINs, TANs and
names that consist of separators, umlauts or nothing; openings with every
combination of parameter versions and PINs; pages; and answers of banks with the
segments of every reader, in the layouts the readers tell apart. A request is cut
at every symbol. `MessageExchange` treats one message: two never share a
parser. In `server` three messages are an opening, an order and an end, or two dialogs
in a row; the second client needs one dialog to be confused with. In `sessions` one
name is enough, as names share nothing but tokens and devices; `Runs` are processes
at a time, and each begins again without bound; two devices are one for each user, or
two of one user, and two tokens are two sessions to come from besides the file.

Four runs show that the code does not do what it says:

| run | what happens |
| --- | --- |
| `still_pending` | `poll` takes every answer without 3956 and without error for the confirmation. A bank that repeats 3955 while it waits makes it return `Confirmed`; the documentation names 3955 among the pending codes. |
| `everything_fetched` | a TAN asked for between two pages ends the loop of transactions, and the pages so far are returned as `Ok`. |
| `accounts_twice` | `parse_hiupa_version` reads the element after the version (`response.rs:680`; the test at `response.rs:975-978` pins 0 for version 7). The client goes on announcing version 0, the bank sends its accounts again, and `ingest_response` appends them: twice within one `init_negotiate`, by the probe and by the initialisation. |
| `national_account` | `require_iban` refuses HKWDU for national accounts from version 7 on, its builder asserts an IBAN from version 5 on: at a bank that lists 5 or 6 the client panics instead of returning an error. |

Other divergences are plain from the definitions and have no run of their own.

Of the protocol:

* An HNVSD that cannot be parsed is only logged, an empty body is an empty message;
  `init` and `init_no_tan` find no error in an answer without codes and open the
  Dialog (`protocol.rs:757`, `1519`; `Readings`).
* When the bank lists no function in the sync dialog, `initiate` sends HKTAN signed
  with 999 (`workflow.rs:307`), the composition `init_negotiate` refuses to send.
* HKTAN goes with every page of an order, not with the first one only (`BundlesHktan`
  does not depend on `page`; `protocol.rs:1088` says otherwise).
* `on_tan(false)` is not called when a poll fails or the TAN is not confirmed in time
  (`workflow.rs:715`, `746`; `told` stays true).
* A TAN asked for holdings is passed over although there is a callback
  (`WaitsForTan`; `workflow.rs:684-686`).
* `Session::fetch` consumes the session when the TAN is still pending (stage "lost";
  `dkb.rs:122` says to retry).

Of formats:

* Text is written in ISO-8859-1 and read as Windows-1252.
* The parser accepts a last segment without its terminator, so that a message cut
  within its trailer is not noticed by anything (the second disjunct of `CutIsNoticed`).
* `audit_server_response` looks for HIRMG in the outer segments only, where an
  enveloped answer has none. Requests other than an opening are always told that
  HKIDN and HKVVB are missing.
* The audit's rule on the FinTS version reads the dialog id (`audit.rs:283`: element 3 of
  the header instead of 2), so that every message the client builds breaks HNHBK-003
  (`HnhbkRules`).
* In MT536 every field outside the TRANSDET blocks of a transaction is lost, and a
  prefix comparison takes TRANSDET for a TRAN block (`Depot`).
* The mock bank writes HITANS as one group where the client expects several: its
  method 942 is read as a method "N" named "942". It does not unescape PIN and TAN, takes
  a message that is not UTF-8 for a new dialog each time, never removes a dialog
  at HKEND, and its options for TANs and errors are not used by anything.

Of the command line:

* `sync --user` on a session of another user opens the dialog under that session's
  device, and saves device and accounts for the user given (`client.rs:1159-1173`,
  `1240-1260`); only the bank can refuse, and the mock bank looks at neither user nor
  device. `DeviceIsUsers` says that this is the only way for a session to name
  another's device.
* A session that cannot be loaded counts as none (`.ok()`), and `save_session` is not
  atomic.
* `setup` saves no accounts (`client.rs:1111`), although `README.md:141` says it
  discovers them: `--all-accounts` fetches the first one only.
* A device registered by `inspect`, `balance`, `transactions` or `holdings` is not
  saved, so that the bank registers another one next time; `sync` recreates a session
  that was deleted meanwhile.

Fairness. A Dialog never acts on its own, so `Spec` has none. In `FairFlowSpec`
the steps of a running call are weakly fair (`Progress`), in the `FairSpec` of
`Fetch` the client's steps and the failure of a request: the executor polls a
future that is ready, and the HTTP client gives a request up after 300 s, so
that each await ends, by an answer or an error. Nothing is assumed of the
bank or the user, and nothing of the application, which may never confirm, or
drop a call at any time. In `MockServer` the request a client waits for
is handled at last, an answer is received and a lost request fails: the latency is
finite, each handler frees the lock it takes and never waits while it holds it, and
the HTTP client gives up after its time. Nothing forces a client to send or the
server to restart or not to.

`OkIsNotCutShort` says which losses are possible at all: those through a
challenge passed over, an error of an order that is not fatal, or statements
that cannot be parsed. `Terminates` says that a call returns or the bank confirms TANs
for ever: each confirmed TAN lets a page be repeated, and the bank may challenge the
repeated page again, which nothing in the code bounds. A user who never approves, polls
and lost requests cannot keep a call running. The banks have finitely many pages and
name the next one with each; the page loops have no bound of their own for others.
`AtMostThreeTries` is about banks that open no dialog, which is what a
wrong PIN looks like.

## 4. Proofs

Proved by TLAPS, for every set of ids, functions, accounts and orders, every
content of the bank's parameters, and every bound. Each inductive invariant was
checked by TLC on the instances of section 3 before it was proved, but for the one of
messages (below).

### The Dialog

* `TypeCorrect`: `Spec => []TypeOK`. Lemmas follow the structure of the module:
  the caches (at the head of `FinTSDialogProofs`), `Send`, `Consumed`, `Return`,
  `Reply`, then one per group of actions.
* Shapes. The actions of the client do few things to a Dialog: begin it, speak,
  learn from an answer, confirm a TAN, stay as it is, give it up, ... `ClientShape`
  says that each action has one of these shapes, `BankShape` the same of the bank;
  later invariants go through shapes, not through actions.
* `MethodsRunInTurn`: a method runs in its own typestate, and awaits an answer
  to its own request (`MethodInv`). What the types guarantee in the code is a
  theorem here, because it has to survive `Consumed`, lost requests and
  `init_negotiate`, which changes the dialog between its awaits.
* `NumberingHolds`, and from it `NumbersAreNeverReused` and `NothingFollowsTheEnd`.
  Neither property is inductive: that a number is new depends on
  `message_number` being above all numbers of the current dialog
  (`NumberAhead`), on the running request belonging to the current dialog, and,
  when an answer changes the dialog id, on that id never having been used
  (`AnswerNames`), which in turn rests on the bank issuing an id once
  (`IdsIssued`). They hold for unreadable answers too.
* `NumbersLeaveNoGap`, and from it `ClientsLeadConversations`: the refinement of
  `Conversation`, step by step. `CountingInv` adds that a Dialog which has a dialog
  has sent the message before its next one, and that no method concludes anything
  from an answer without a dialog id. The last holds for readable answers only, and
  so do the two theorems: after an answer without codes `init` opens a Dialog
  without an id, whose next message has number 2 in no dialog.
* `TanIsAwaitedOnBothSides`: while a Dialog waits for a TAN the bank's dialog does,
  and nothing but the awaited request is on its way into it (`IsWaiting`), so that
  nothing late can end the dialog unnoticed. For unreadable answers too.
* `NegotiationFitsItsProbe`: `NegotiationInv` says what is known after the answer
  to the probe and what after the answer to its HKEND, including that no
  initialisation of this Dialog was sent before.
* `DialogsAreSignedAsAllowed`: `SelectionInv` keeps the selected function allowed
  in the caches of a Dialog and in what a sync dialog leaves for the next one. It
  holds without an assumption, since every method that leaves a Dialog still to be
  initialised selects after it ingests.
* `ListsAreLearnedOnce`, for a bank whose BPD version is not 0, for unreadable answers
  too: a request announces the version in the caches, and its answer brings the
  parameters only together with a version they lack (`BringsBpd`). Caches thus hold the
  bank's parameters whole and once, or nothing of them. The same of the accounts is
  false, by the version read from HIUPA (run `accounts_twice`).
* `AdmissionHolds`, and from it `OpenMeansAdmitted`, for a bank that says 3956
  while it waits and for readable answers; the run `still_pending` shows that the
  first assumption cannot be dropped, and an answer without codes that the second
  cannot: it has no error, and `init` opens. The invariant
  carries what an answer may be taken for from the moment the bank sends it
  (`Supports`) to the moment the method returns.

### Flow and fetch

* `FlowUsesTheDialog`: `FlowSpec => Spec`. Every step of a flow is a step of the
  Dialog or a stutter, the ids it passes on being those the application has. The
  theorems above hold of flows by it (`FlowNumbersItsMessages`).
* `FlowAndDialogAgree` and `KnownDeviceStaysKnown`: `FlowTracksDialog` is inductive
  as it stands: each stage has its typestates and the requests it may await
  (`HeldAt`, `AwaitedAt`). `DeviceIsKept` needs that the Dialog that will send
  has an id (`DeviceInv`), which holds because an answer can replace an id but
  not take it away (`DeviceStaysKnown`).
* `FlowHoldsAGoodDialog` combines `FlowAndDialogAgree` with two theorems of the
  Dialog, `TanIsAwaitedOnBothSides` and `OpenMeansAdmitted`, and has the
  assumptions of the latter.
* `ThreeTriesAtMost`: `TriesInv` counts. At a bank that has opened nothing, a
  flow at a stage has sent at most `TriesAt(stage)` messages, every answer is an
  error, and the stages behind the sync dialog are not reached. For readable
  answers: one without codes lets a sync dialog succeed.
* `FetchHolds`, and from it `PagesComeInOrder`, `NothingIsCutShort`,
  `NoticesAreTrue` and `RepeatsAreReleased`, for any number of pages, any data, any
  set of calls and any number of polls. The invariant says where the call stands
  (`Position`: as many pages as the touchdown point says) and what the reply on
  its way stands for (`ReplyIsTrue`).

### Mock bank and command line

* `MockTypeCorrect`, `DialogsAreNotShared` and `SystemsAreNotShared`, for any number of
  clients, messages and restarts. Neither of the latter is inductive: an id may be on its
  way in an answer, or held in a request, long before or after a client has it. So the
  invariants say that every id in use anywhere was issued (`IsIssued`: below the
  counter, or of an older epoch) and is held by one client only (`HeldDialogs`,
  `HeldSystems`); a new one is above all of them, because counter and table change
  behind one lock and a restart has prefixes of its own.
* `CountsOfServerAndClientAgree`: a message counts when it is handled, not when it is
  sent, and those given up may still be handled. So what is below the client's number
  is the server's count and the messages asleep together (`Load`), and a client that
  never gave up has no message asleep but the one it waits for (`DialogIsCounted`).
  `AwaitInv` says who waits for what; that a dialog has one client, the theorem above,
  is needed in every step.
* `SessionsTypeCorrect`, `DevicesAreUsers` and `UnreadableOnlyByAccident`, for any number
  of runs, users, names and devices, and nothing is assumed of the devices the bank
  accepts. `DevicesAreUsers` needs that a run has a device of its user, registered or
  borrowed, or one it has not yet used, of a session of another user (`RunsWithOwn`).
  `UnreadableOnlyByAccident` needs that a file that somebody writes to alone is
  empty (`AloneIsEmpty`), so that nothing of an older content is left behind the new.

### Messages

`MessageProofs` is about any bytes:

* `ParserIsSafe`: the parser stays within its bytes (`StaysInside`), and leaves no empty
  group or segment in what it has read (`NothingIsEmpty`), on which every reader relies
  that takes element 0 of group 0 for the header. `BegunInv` says what is begun in each mode.
* `ParsingEnds`: every step leaves fewer steps (`StepsLeft`: of the bytes, and of the
  levels, of which an envelope adds one). Together with a parser that always has a
  next step until it is done, which TLC checks as the absence of deadlock, all texts
  are parsed in the end.
* `CutReadsAsTheWhole`: the steps on a text that was cut off are those on the whole
  text, up to the byte before the cut. An escape or a binary at the cut is
  an error, not another text.
* `OrdersAreBuiltAsListed`: the version of an order is the highest one that is listed
  and can be built; one that is not listed is used only if there is none.
* `OnlyHkwduPanics`: the run `national_account` shows one panic of a builder; the theorem says
  that it is the only one when the account has a BIC.

`ExchangeProofs` is about any request: any context, texts (separators, escapes and
umlauts among them), any number of orders, any bank, and a cut at any byte.

* `RoundTripHolds`: what the parser reads of a request is what `build_message` was
  given, outside the envelope and inside.
* `CutIsPrefixHolds` and `CutIsNoticedHolds`: of a request that is cut off nothing is
  read that was not sent, and the audit reports it, unless all its segments are there
  and only the trailer is torn.
* `ConsistencyHolds`: the size in the header, the numbers of segments and message, both
  ends of the signature, the PIN and the TAN.
* `OrdersFitHolds`: version and account format of every order, task and medium of HKTAN.

All five rest on one invariant, `ExchangeInv`: while a request is parsed, `Reads(r)`
says where the parser stands in the text of the message `r`: that what it has read are
the first segments of `r`, the groups before this one, the elements before this one and
a beginning of this one, and that what is left of the text is what is written for the
rest. A message that is cut off is read under the same invariant, as the text it has is
a beginning of the whole, and what can be read behind the cut is at most a torn last
segment (`TornOf`). Behind the end of the envelope, `ReadsRequest` says the same of the
inner message. The steps to it:

1. What a text is: `SerializeMessage` and `EscapeText` are folds of concatenations, and
   what is needed of them is what is left behind each place (`BehindGroup`,
   `BehindElement`, `PartFollows`). The induction is one over the number of pieces. The
   library's induction theorems take an operator, which no prover here can instantiate,
   but the set of the numbers a statement holds for is a value, so that well-founded
   induction over it can be used (`SetInduction`).
2. The first byte of what is left tells what it is (`IsClassified`): what a text escapes
   is never a separator, a binary is announced by its length.
3. Each step of the parser takes `Reads` to `Reads`, one lemma per action.
4. What the builders build can be written and read back (`Writable`, `AsRead`): each
   segment begins with its name, no name begins with a blank, and a binary is not longer
   than what a length can say.

Two properties were corrected on the way. `IsConsistent` said that the signature has one
element without a TAN and two with one; with an empty PIN and no TAN the group is
empty, as trailing empty elements are not written. `CutIsNoticed` said of a torn trailer
only that it was one; it now says that all segments before it are those of the request.

`ExchangeInv` itself is the one inductive invariant TLC cannot evaluate, since any torn
segment may stand last in it (`IsCutOf`); its consequences are the properties of
`messages`.

### Assumptions

The assumptions on constants are those named `...Assumption` in the modules, which TLC
evaluates in every run: the null values are not members of the sets they stand outside
of, and the bank's data is typed. Assumptions on the bank stand in the theorems that
need them. In the modules of messages they are:

* `NumeralAssumption`: numbers up to `MaxNumeral` are written as different symbols, none
  of them special. `MaxNumeral` bounds the numbers a message may contain, as the width
  of the code's integers does; 999, the number of HNVSD, is among them.
* `SymbolAssumption`, `BuilderWords`, `EnvelopeWords`: the literals that occur are
  strings. The provers know that two literals differ, but not that one is in `STRING`.
* `LettersAssumption`: a letter is a request or an answer; what has to be numbered in a
  request that can be built is at most `MaxNumeral` (`Fits`; the code writes the size in
  twelve digits); the mock bank's answer and a bank's are texts. What the last two contain
  is not assumed. Requests are those the types of the code allow: `Accounts` has no
  empty BIC, `Segments` the fields of the enum `Segment`.

The assumption that a restart draws new prefixes (`epoch`) is part of the model: the
code draws them at random and would not notice a repetition.

### Only model-checked

* `ServerReadsRequest`, `OpeningIsRead`, `OrdersAreAnswered`. The mock bank searches a
  request's bytes for marks such as `HNSHA:`. The three are about the letters of
  `MCMessages` and do not hold of all: for a user named HNSHA, whose name stands before
  a colon in HNSHK, the mock bank takes what follows there for the end of the signature.
* `BankIsRead`: each letter says what it means, so there is nothing to quantify over; that the
  readers agree with it is a computation.
* Liveness, `CallsReturn`, `Terminates` and `EveryoneIsAnswered`, which the prover cannot
  treat.

## 5. Not modelled

* The bank registry (`banks.rs`, `banks_generated.rs`): a generated table and a lookup.
  `error.rs`, `lib.rs`: declarations.
* The formatting of `debug.rs`, of reports and of the command line; prompts, checks of
  IBANs. One hazard lies there: logged texts are cut at a byte
  (`protocol.rs:609`, `bin/client.rs:803`, `851`), which panics within an umlaut.
* The text of MT940, which an external crate parses; only its separation into pages
  and whether it can be parsed occur. Amounts and dates likewise.
* Base64, TLS and HTTP: the transport returns an answer or an error.
* The overflow of the `u16` message number after 65535 messages of a dialog.
* The clock and the random references of messages.
* A bank that changes its parameters while a client has them: with a new BPD version
  `ingest_response` would append the new TAN methods behind the old ones.
* The rules of the audit over answers.
* The Python mock server under `tests/`, from which the Rust one was translated.

## 6. Plan

Every safety property of the state machines is proved, and every property of messages that
holds for all of them. Open are: that a reader of `SegmentReader` never looks behind
the end of a segment, given `NothingIsEmpty`; and a statement of what the mock bank reads
that holds for all requests, which needs the requests without its marks to be told apart.
