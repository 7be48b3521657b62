------------------------------ MODULE Sessions ------------------------------
(***************************************************************************)
(* The command line client (bin/client.rs) as its runs share what outlives *)
(* them: a file per session name, the resume tokens it printed, and the    *)
(* devices the bank has registered.  Several runs may be under way at once  *)
(* and each may be killed; nothing locks a file, and save_session truncates *)
(* it before it writes.                                                     *)
(***************************************************************************)
EXTENDS Integers, FiniteSets

CONSTANTS
    Runs,          \* processes of the client; each may run again and again
    Users,
    Names,         \* session names: --session, or the bank's BLZ
    Devices,       \* the system ids the bank can give out
    NoDevice,      \* system id "0"
    NoUser, NoName,
    Absent,        \* no such file, and the result of a load that failed
    Empty, Torn,   \* files load_session cannot parse
    MaxTokens      \* bound: resume tokens that differ

ASSUME DevicesAssumption == NoDevice \notin Devices
ASSUME UsersAssumption == NoUser \notin Users
ASSUME NamesAssumption == NoName \notin Names

VARIABLES
    file,          \* per name
    tokens,        \* the resume tokens printed with --no-persist
    issued,        \* the user the bank registered each device for, or NoUser
    run,           \* per process
    disturbed,     \* names whose file was left to an accident (history)
    borrowed       \* users with a device of another user's session (history)

sessionVars == <<file, tokens, issued, run, disturbed, borrowed>>

\* A SessionFile: whom it is for and the device it resumes with.
SessionFiles == [user : Users, system : Devices \cup {NoDevice}]

ASSUME FilesAssumption ==
    {Absent, Empty, Torn} \cap SessionFiles = {} /\ Absent \notin {Empty, Torn}

\* fetch: balance, transactions or holdings.
Commands == {"setup", "sync", "inspect", "fetch"}

\* foreign: the device a dialog is to be opened under comes from a session of
\* another user (--user); open: the run's descriptor is that of the file of its
\* name; alone: nobody else has had that file open for writing since.
RunStates ==
    [at : {"idle", "connect", "fetch", "save", "write"},
     command : Commands, name : Names \cup {NoName}, user : Users \cup {NoUser},
     system : Devices \cup {NoDevice}, foreign : BOOLEAN, token : BOOLEAN,
     open : BOOLEAN, alone : BOOLEAN]

NotRunning ==
    [at |-> "idle", command |-> "setup", name |-> NoName, user |-> NoUser,
     system |-> NoDevice, foreign |-> FALSE, token |-> FALSE, open |-> FALSE,
     alone |-> FALSE]

Init ==
    /\ file = [n \in Names |-> Absent]
    /\ tokens = {}
    /\ issued = [d \in Devices |-> NoUser]
    /\ run = [p \in Runs |-> NotRunning]
    /\ disturbed = {}
    /\ borrowed = {}

----------------------------------------------------------------------------
Load(n) == IF file[n] \in SessionFiles THEN file[n] ELSE Absent

Begin(p, command, n, user, system, foreign, token) ==
    /\ run' = [run EXCEPT ![p] =
          [at |-> "connect", command |-> command, name |-> n, user |-> user,
           system |-> system, foreign |-> foreign, token |-> token,
           open |-> FALSE, alone |-> FALSE]]
    /\ UNCHANGED <<file, tokens, issued, disturbed, borrowed>>

\* setup and inspect ask for the user and look at no session.
BeginFresh(p) ==
    /\ run[p].at = "idle"
    /\ \E n \in Names, user \in Users :
          \/ \E token \in BOOLEAN : Begin(p, "setup", n, user, NoDevice, FALSE, token)
          \/ Begin(p, "inspect", n, user, NoDevice, FALSE, FALSE)

DeviceOf(session) == IF session = Absent THEN NoDevice ELSE session.system

IsForeign(user, session) ==
    session # Absent /\ session.user # user /\ session.system # NoDevice

\* The user is the one given, who need not be the session's, or else the
\* session's; without either the run ends at once.  The device is the session's
\* whoever the user is.
BeginWith(p, command, n, session, token) ==
    \E user \in Users :
        Begin(p, command, n, user, DeviceOf(session), IsForeign(user, session), token)

\* Only sync looks at --resume-token, and only sync saves.
BeginSync(p) ==
    /\ run[p].at = "idle"
    /\ \E n \in Names, token \in BOOLEAN : \E session \in {Load(n)} \cup tokens :
          BeginWith(p, "sync", n, session, token)

BeginFetch(p) ==
    /\ run[p].at = "idle"
    /\ \E n \in Names : BeginWith(p, "fetch", n, Load(n), FALSE)

----------------------------------------------------------------------------
\* initiate.

\* Mutant: the run is over, its descriptor is not closed.
EndedOpen(p) == run' = [run EXCEPT ![p].at = "idle"]

Ended(p) == run' = [run EXCEPT ![p] = NotRunning]

\* Mutant: a device of the session, where there is one, is kept.
ConnectedAsLoaded(p, d) ==
    IF run[p].command = "inspect"
    THEN Ended(p)
    ELSE run' = [run EXCEPT ![p].system = IF @ = NoDevice THEN d ELSE @,
                            ![p].foreign = FALSE,
                            ![p].at = IF run[p].command = "setup" THEN "save" ELSE "fetch"]

Connected(p, d) ==
    IF run[p].command = "inspect"
    THEN Ended(p)
    ELSE run' = [run EXCEPT ![p].system = d,
                            ![p].foreign = FALSE,
                            ![p].at = IF run[p].command = "setup" THEN "save" ELSE "fetch"]

\* The bank opens a dialog under the device of the session, or assigns none and
\* the dialog keeps the stored one.  Nothing on either side need look at whose
\* device it is: the client does not, and a bank may take any (that of server.rs
\* does) or refuse it (Register, Fail).
Resume(p) ==
    /\ run[p].at = "connect"
    /\ Connected(p, run[p].system)
    /\ borrowed' = IF run[p].foreign
                   THEN borrowed \cup {<<run[p].user, run[p].system>>}
                   ELSE borrowed
    /\ UNCHANGED <<file, tokens, issued, disturbed>>

\* The bank registers a device; the opening that follows may still fail.
Register(p) ==
    /\ run[p].at = "connect"
    /\ \E d \in Devices :
          /\ issued[d] = NoUser
          /\ issued' = [issued EXCEPT ![d] = run[p].user]
          /\ Connected(p, d) \/ Ended(p)
    /\ UNCHANGED <<file, tokens, disturbed, borrowed>>

\* confirm_and_fetch: a TAN that is still pending is an error, too.
Fetched(p) ==
    /\ run[p].at = "fetch"
    /\ IF run[p].command = "sync" THEN run' = [run EXCEPT ![p].at = "save"] ELSE Ended(p)
    /\ UNCHANGED <<file, tokens, issued, disturbed, borrowed>>

----------------------------------------------------------------------------
\* Saving.

SavedBy(r) == [user |-> r.user, system |-> r.system]

PrintToken(p) ==
    /\ run[p].at = "save" /\ run[p].token
    /\ tokens' = tokens \cup {SavedBy(run[p])}
    /\ Cardinality(tokens') <= MaxTokens
    /\ Ended(p)
    /\ UNCHANGED <<file, issued, disturbed, borrowed>>

Writers(n) == {q \in Runs : run[q].open /\ run[q].name = n}

\* Mutant: what was there stays until it is overwritten.
TruncatedNot(content) == content

\* What opening a file for fs::write leaves of it.
Truncated(content) == Empty

OpenFile(p) ==
    LET n == run[p].name IN
    /\ run[p].at = "save" /\ ~run[p].token
    /\ file' = [file EXCEPT ![n] = Truncated(@)]
    /\ run' = [q \in Runs |->
          IF q = p THEN [run[q] EXCEPT !.at = "write", !.open = TRUE,
                                       !.alone = Writers(n) = {}]
          ELSE IF q \in Writers(n) THEN [run[q] EXCEPT !.alone = FALSE]
          ELSE run[q]]
    /\ UNCHANGED <<tokens, issued, disturbed, borrowed>>

\* From the start of the file: what was there before may be longer.
Written(content, session) == IF content = Empty THEN {session} ELSE {session, Torn}

WriteFile(p) ==
    LET n == run[p].name IN
    /\ run[p].at = "write"
    /\ IF run[p].open
       THEN \E content \in Written(file[n], SavedBy(run[p])) :
               file' = [file EXCEPT ![n] = content]
       ELSE file' = file
    /\ disturbed' = IF ~run[p].open THEN disturbed
                    ELSE IF run[p].alone THEN disturbed \ {n}
                    ELSE disturbed \cup {n}
    /\ Ended(p)
    /\ UNCHANGED <<tokens, issued, borrowed>>

----------------------------------------------------------------------------
\* An error of any step (?), Ctrl-C, a crash.  While the file is open its
\* content is what it happens to be.
Fail(p) ==
    LET n == run[p].name IN
    /\ run[p].at # "idle"
    /\ \/ file' = file
       \/ run[p].open /\ file' = [file EXCEPT ![n] = Torn]
    /\ disturbed' = IF run[p].open THEN disturbed \cup {n} ELSE disturbed
    /\ Ended(p)
    /\ UNCHANGED <<tokens, issued, borrowed>>

\* sessions delete: a run that has the file open goes on writing to a file
\* without a name.
Delete(n) ==
    /\ file[n] # Absent
    /\ file' = [file EXCEPT ![n] = Absent]
    /\ run' = [q \in Runs |->
          IF q \in Writers(n) THEN [run[q] EXCEPT !.open = FALSE] ELSE run[q]]
    /\ disturbed' = disturbed \ {n}
    /\ UNCHANGED <<tokens, issued, borrowed>>

Next ==
    \/ \E p \in Runs :
          \/ BeginFresh(p) \/ BeginSync(p) \/ BeginFetch(p)
          \/ Resume(p) \/ Register(p) \/ Fetched(p)
          \/ PrintToken(p) \/ OpenFile(p) \/ WriteFile(p)
          \/ Fail(p)
    \/ \E n \in Names : Delete(n)

Spec == Init /\ [][Next]_sessionVars

----------------------------------------------------------------------------
\* The state is well formed: the files of runs that are over are closed, and a
\* run that has had its file to itself is the only one that writes to it.
SessionsTypeOK ==
    /\ file \in [Names -> SessionFiles \cup {Absent, Empty, Torn}]
    /\ tokens \subseteq SessionFiles
    /\ issued \in [Devices -> Users \cup {NoUser}]
    /\ run \in [Runs -> RunStates]
    /\ disturbed \subseteq Names
    /\ borrowed \subseteq Users \X Devices
    /\ \A p \in Runs :
          /\ run[p].at # "idle" => run[p].name \in Names /\ run[p].user \in Users
          /\ run[p].foreign => run[p].system # NoDevice
          /\ run[p].open => run[p].at = "write"
          /\ run[p].alone /\ run[p].open => Writers(run[p].name) = {p}

IsOwn(user, d) == d = NoDevice \/ issued[d] = user \/ <<user, d>> \in borrowed

\* Whatever the order in which runs load, register, save, fail and delete: the
\* device a session file or a resume token names was registered for the user it
\* names, unless a run was given a --user other than that of its session and the
\* bank opened a dialog for that user under the session's device.  That one slip
\* is saved, and nothing else mixes the two: a bank that refuses the device makes
\* the run save the one it registers instead.
DeviceIsUsers ==
    /\ \A n \in Names : file[n] \in SessionFiles => IsOwn(file[n].user, file[n].system)
    /\ \A t \in tokens : IsOwn(t.user, t.system)

\* A session file that cannot be read is being written at the moment, or was
\* left by a run that failed while it wrote or by two that wrote at once; the
\* next run that has the file to itself repairs it.
UnreadableByAccident ==
    \A n \in Names : file[n] \in {Empty, Torn} => n \in disturbed \/ Writers(n) # {}

=============================================================================
