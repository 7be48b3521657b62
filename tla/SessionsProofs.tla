--------------------------- MODULE SessionsProofs ---------------------------
(***************************************************************************)
(* Theorems about Sessions, for any number of runs, users, session names   *)
(* and devices.                                                            *)
(***************************************************************************)
EXTENDS Sessions, TLAPS

-----------------------------------------------------------------------------
(* Types.                                                                  *)

RunOK(p) ==
    /\ run[p].at # "idle" => run[p].name \in Names /\ run[p].user \in Users
    /\ run[p].foreign => run[p].system # NoDevice
    /\ run[p].open => run[p].at = "write"
    /\ run[p].alone /\ run[p].open => Writers(run[p].name) = {p}

\* A step that changes one run, which has no file open afterwards, keeps the
\* conditions on the others: the writers become fewer.
LEMMA OneRunChanges ==
    ASSUME SessionsTypeOK, NEW p \in Runs, NEW r \in RunStates,
           run' = [run EXCEPT ![p] = r],
           r.at # "idle" => r.name \in Names /\ r.user \in Users,
           r.foreign => r.system # NoDevice,
           ~r.open
    PROVE  run' \in [Runs -> RunStates] /\ \A q \in Runs : RunOK(q)'
<1>1. run' \in [Runs -> RunStates]
    BY DEF SessionsTypeOK
<1>2. \A q \in Runs : q # p => run'[q] = run[q]
    BY DEF SessionsTypeOK
<1>3. run'[p] = r
    BY DEF SessionsTypeOK
<1>4. RunOK(p)'
    BY <1>3 DEF RunOK
<1>5. ASSUME NEW q \in Runs, q # p
      PROVE  RunOK(q)'
    <2>1. RunOK(q)
        BY DEF RunOK, SessionsTypeOK
    <2>2. ASSUME run'[q].alone, run'[q].open
          PROVE  {x \in Runs : run'[x].open /\ run'[x].name = run'[q].name} = {q}
        <3>1. {x \in Runs : run[x].open /\ run[x].name = run[q].name} = {q}
            BY <2>1, <2>2, <1>2, <1>5 DEF RunOK, Writers
        <3>2. \A x \in Runs : (run'[x].open /\ run'[x].name = run'[q].name) <=> x = q
            BY <3>1, <1>2, <1>3, <1>5, <2>2
        <3> QED BY <3>2
    <2>3. run'[q] = run[q]
        BY <1>2, <1>5
    <2> QED BY <2>1, <2>2, <2>3 DEF RunOK, Writers
<1> QED BY <1>1, <1>4, <1>5

LEMMA NotRunningIsARun == NotRunning \in RunStates /\ NotRunning.at = "idle" /\ ~NotRunning.open
                                /\ ~NotRunning.foreign
BY DEF NotRunning, RunStates, Commands

LEMMA TypeByParts ==
    ASSUME file' \in [Names -> SessionFiles \cup {Absent, Empty, Torn}],
           tokens' \subseteq SessionFiles,
           issued' \in [Devices -> Users \cup {NoUser}],
           run' \in [Runs -> RunStates],
           disturbed' \subseteq Names,
           borrowed' \subseteq Users \X Devices,
           \A q \in Runs : RunOK(q)'
    PROVE  SessionsTypeOK'
BY DEF SessionsTypeOK, RunOK

LEMMA EndedTypes ==
    ASSUME SessionsTypeOK, NEW p \in Runs, Ended(p)
    PROVE  run' \in [Runs -> RunStates] /\ \A q \in Runs : RunOK(q)'
BY OneRunChanges, NotRunningIsARun DEF Ended

LEMMA BeginTypes ==
    ASSUME SessionsTypeOK, NEW p \in Runs, NEW command \in Commands, NEW n \in Names,
           NEW user \in Users, NEW system \in Devices \cup {NoDevice},
           NEW foreign \in BOOLEAN, foreign => system # NoDevice, NEW token \in BOOLEAN,
           Begin(p, command, n, user, system, foreign, token)
    PROVE  SessionsTypeOK'
<1> DEFINE r == [at |-> "connect", command |-> command, name |-> n, user |-> user,
                 system |-> system, foreign |-> foreign, token |-> token,
                 open |-> FALSE, alone |-> FALSE]
<1>1. r \in RunStates
    BY DEF RunStates
<1>2. run' = [run EXCEPT ![p] = r] /\ UNCHANGED <<file, tokens, issued, disturbed, borrowed>>
    BY DEF Begin
<1>3. r.name \in Names /\ r.user \in Users /\ ~r.open /\ (r.foreign => r.system # NoDevice)
    OBVIOUS
<1> HIDE DEF r
<1>4. run' \in [Runs -> RunStates] /\ \A q \in Runs : RunOK(q)'
    BY <1>1, <1>2, <1>3, OneRunChanges
<1> QED BY <1>2, <1>4, TypeByParts DEF SessionsTypeOK

\* A session that a run begins with names a device, or is absent.
LEMMA LoadedIsASession ==
    ASSUME SessionsTypeOK, NEW n \in Names, NEW session \in {Load(n)} \cup tokens
    PROVE  DeviceOf(session) \in Devices \cup {NoDevice}
BY FilesAssumption DEF DeviceOf, SessionsTypeOK, Load, SessionFiles

LEMMA ForeignHasADevice ==
    ASSUME NEW user, NEW session
    PROVE  /\ IsForeign(user, session) \in BOOLEAN
           /\ IsForeign(user, session) => DeviceOf(session) # NoDevice
BY DEF IsForeign, DeviceOf

LEMMA ConnectedTypes ==
    ASSUME SessionsTypeOK, NEW p \in Runs, run[p].at = "connect",
           NEW d \in Devices \cup {NoDevice}, Connected(p, d)
    PROVE  run' \in [Runs -> RunStates] /\ \A q \in Runs : RunOK(q)'
<1>1. CASE Ended(p)
    BY <1>1, EndedTypes
<1>2. CASE ~Ended(p)
    <2> DEFINE r == [run[p] EXCEPT !.system = d, !.foreign = FALSE,
                        !.at = IF run[p].command = "setup" THEN "save" ELSE "fetch"]
    <2>1. run' = [run EXCEPT ![p] = r]
        BY <1>2 DEF Connected, SessionsTypeOK
    <2>2. run[p] \in RunStates /\ RunOK(p)
        BY DEF SessionsTypeOK, RunOK
    <2>3. r \in RunStates
        BY <2>2 DEF RunStates
    <2>4. r.name \in Names /\ r.user \in Users /\ ~r.open /\ (r.foreign => r.system # NoDevice)
        BY <2>2 DEF RunStates, RunOK
    <2> HIDE DEF r
    <2> QED BY <2>1, <2>3, <2>4, OneRunChanges
<1> QED BY <1>1, <1>2

LEMMA FetchedTypes ==
    ASSUME SessionsTypeOK, NEW p \in Runs, Fetched(p)
    PROVE  run' \in [Runs -> RunStates] /\ \A q \in Runs : RunOK(q)'
<1>1. CASE Ended(p)
    BY <1>1, EndedTypes
<1>2. CASE ~Ended(p)
    <2> DEFINE r == [run[p] EXCEPT !.at = "save"]
    <2>1. run' = [run EXCEPT ![p] = r]
        BY <1>2 DEF Fetched, SessionsTypeOK
    <2>2. run[p] \in RunStates /\ RunOK(p) /\ run[p].at = "fetch"
        BY DEF SessionsTypeOK, RunOK, Fetched
    <2>3. r \in RunStates
        BY <2>2 DEF RunStates
    <2>4. r.name \in Names /\ r.user \in Users /\ ~r.open /\ (r.foreign => r.system # NoDevice)
        BY <2>2 DEF RunStates, RunOK
    <2> HIDE DEF r
    <2> QED BY <2>1, <2>3, <2>4, OneRunChanges
<1> QED BY <1>1, <1>2

LEMMA SavedByIsASession ==
    ASSUME SessionsTypeOK, NEW p \in Runs, run[p].at # "idle"
    PROVE  SavedBy(run[p]) \in SessionFiles
BY DEF SessionsTypeOK, SavedBy, SessionFiles, RunStates

LEMMA OpenFileTypes ==
    ASSUME SessionsTypeOK, NEW p \in Runs, OpenFile(p)
    PROVE  SessionsTypeOK'
<1> DEFINE n == run[p].name
<1>1. n \in Names /\ run[p] \in RunStates /\ run[p].at = "save"
    BY DEF SessionsTypeOK, OpenFile
<1>2. run' = [q \in Runs |->
          IF q = p THEN [run[q] EXCEPT !.at = "write", !.open = TRUE,
                                       !.alone = Writers(n) = {}]
          ELSE IF q \in Writers(n) THEN [run[q] EXCEPT !.alone = FALSE]
          ELSE run[q]]
    BY DEF OpenFile
<1>3. run'[p] = [run[p] EXCEPT !.at = "write", !.open = TRUE, !.alone = Writers(n) = {}]
    BY <1>2
<1>4. \A q \in Runs : q # p /\ q \in Writers(n) => run'[q] = [run[q] EXCEPT !.alone = FALSE]
    BY <1>2
<1>5. \A q \in Runs : q # p /\ q \notin Writers(n) => run'[q] = run[q]
    BY <1>2
<1>6. ASSUME NEW q \in Runs
      PROVE  run'[q] \in RunStates
    <2>1. run[q] \in RunStates
        BY DEF SessionsTypeOK
    <2>2. CASE q = p
        BY <2>1, <2>2, <1>3 DEF RunStates
    <2>3. CASE q # p /\ q \in Writers(n)
        BY <2>1, <2>3, <1>4 DEF RunStates
    <2>4. CASE q # p /\ q \notin Writers(n)
        BY <2>1, <2>4, <1>5
    <2> QED BY <2>2, <2>3, <2>4
<1>7. run' \in [Runs -> RunStates]
    BY <1>2, <1>6
<1>8. \A q \in Runs : run[q] \in RunStates /\ RunOK(q)
    BY DEF SessionsTypeOK, RunOK
<1>9. \A q \in Runs : /\ run'[q].name = run[q].name /\ run'[q].user = run[q].user
                      /\ run'[q].system = run[q].system /\ run'[q].foreign = run[q].foreign
    <2> SUFFICES ASSUME NEW q \in Runs
                 PROVE  /\ run'[q].name = run[q].name /\ run'[q].user = run[q].user
                        /\ run'[q].system = run[q].system /\ run'[q].foreign = run[q].foreign
        OBVIOUS
    <2>1. run[q] \in RunStates
        BY <1>8
    <2>2. CASE q = p
        BY <2>1, <2>2, <1>3 DEF RunStates
    <2>3. CASE q # p /\ q \in Writers(n)
        BY <2>1, <2>3, <1>4 DEF RunStates
    <2>4. CASE q # p /\ q \notin Writers(n)
        BY <2>4, <1>5
    <2> QED BY <2>2, <2>3, <2>4
<1>10. \A q \in Runs : q # p => run'[q].open = run[q].open /\ run'[q].at = run[q].at
    BY <1>4, <1>5, <1>8 DEF RunStates
<1>11. run'[p].open /\ run'[p].at = "write" /\ (run'[p].alone <=> Writers(n) = {})
    BY <1>1, <1>3 DEF RunStates
<1>12. ASSUME NEW q \in Runs, run'[q].alone, run'[q].open
       PROVE  {x \in Runs : run'[x].open /\ run'[x].name = run'[q].name} = {q}
    <2>1. CASE q = p
        <3>1. \A x \in Runs : ~(run[x].open /\ run[x].name = n)
            BY <2>1, <1>12, <1>11 DEF Writers
        <3>2. \A x \in Runs : (run'[x].open /\ run'[x].name = run'[q].name) <=> x = q
            BY <2>1, <3>1, <1>9, <1>10, <1>11
        <3> QED BY <3>2
    <2>2. CASE q # p
        <3>1. q \notin Writers(n)
            BY <2>2, <1>12, <1>4, <1>8 DEF RunStates
        <3>2. run'[q] = run[q] /\ run[q].name # n
            BY <2>2, <3>1, <1>5, <1>12 DEF Writers
        <3>3. {x \in Runs : run[x].open /\ run[x].name = run[q].name} = {q}
            BY <3>2, <1>8, <1>12 DEF RunOK, Writers
        <3>4. \A x \in Runs : (run'[x].open /\ run'[x].name = run'[q].name) <=> x = q
            BY <2>2, <3>2, <3>3, <1>9, <1>10, <1>11
        <3> QED BY <3>4
    <2> QED BY <2>1, <2>2
<1>13. \A q \in Runs : RunOK(q)'
    BY <1>1, <1>8, <1>9, <1>10, <1>11, <1>12 DEF RunOK, Writers
<1>14. file' \in [Names -> SessionFiles \cup {Absent, Empty, Torn}]
    BY DEF OpenFile, Truncated, SessionsTypeOK
<1> QED BY <1>7, <1>13, <1>14, TypeByParts DEF OpenFile, SessionsTypeOK

LEMMA WriteFileTypes ==
    ASSUME SessionsTypeOK, NEW p \in Runs, WriteFile(p)
    PROVE  SessionsTypeOK'
<1>1. run[p].name \in Names /\ SavedBy(run[p]) \in SessionFiles
    BY SavedByIsASession DEF SessionsTypeOK, WriteFile
<1>2. file' \in [Names -> SessionFiles \cup {Absent, Empty, Torn}]
    BY <1>1 DEF WriteFile, Written, SessionsTypeOK
<1>3. disturbed' \subseteq Names
    BY <1>1 DEF WriteFile, SessionsTypeOK
<1>4. Ended(p) /\ UNCHANGED <<tokens, issued, borrowed>>
    BY DEF WriteFile
<1> QED BY <1>2, <1>3, <1>4, EndedTypes, TypeByParts DEF SessionsTypeOK

LEMMA FailTypes ==
    ASSUME SessionsTypeOK, NEW p \in Runs, Fail(p)
    PROVE  SessionsTypeOK'
<1>1. run[p].name \in Names
    BY DEF SessionsTypeOK, Fail
<1>2. file' \in [Names -> SessionFiles \cup {Absent, Empty, Torn}]
    BY <1>1 DEF Fail, SessionsTypeOK
<1>3. disturbed' \subseteq Names
    BY <1>1 DEF Fail, SessionsTypeOK
<1>4. Ended(p) /\ UNCHANGED <<tokens, issued, borrowed>>
    BY DEF Fail
<1> QED BY <1>2, <1>3, <1>4, EndedTypes, TypeByParts DEF SessionsTypeOK

LEMMA DeleteTypes ==
    ASSUME SessionsTypeOK, NEW n \in Names, Delete(n)
    PROVE  SessionsTypeOK'
<1>1. \A q \in Runs : run[q] \in RunStates /\ RunOK(q)
    BY DEF SessionsTypeOK, RunOK
<1>2. \A q \in Runs : q \in Writers(n) => run'[q] = [run[q] EXCEPT !.open = FALSE]
    BY DEF Delete
<1>3. \A q \in Runs : q \notin Writers(n) => run'[q] = run[q]
    BY DEF Delete
<1>4. ASSUME NEW q \in Runs
      PROVE  run'[q] \in RunStates
    <2>1. CASE q \in Writers(n)
        <3>1. run[q] \in RunStates
            BY <1>1
        <3>2. [run[q] EXCEPT !.open = FALSE] \in RunStates
            BY <3>1 DEF RunStates
        <3> QED BY <1>2, <2>1, <3>2
    <2>2. CASE q \notin Writers(n)
        BY <1>1, <1>3, <2>2
    <2> QED BY <2>1, <2>2
<1>5. run' \in [Runs -> RunStates]
    BY <1>4 DEF Delete
<1>6. \A q \in Runs : /\ run'[q].name = run[q].name /\ run'[q].user = run[q].user
                      /\ run'[q].system = run[q].system /\ run'[q].foreign = run[q].foreign
                      /\ run'[q].at = run[q].at /\ run'[q].alone = run[q].alone
                      /\ run'[q].open <=> run[q].open /\ run[q].name # n
    BY <1>1, <1>2, <1>3 DEF RunStates, Writers
<1>7. ASSUME NEW q \in Runs, run'[q].alone, run'[q].open
      PROVE  {x \in Runs : run'[x].open /\ run'[x].name = run'[q].name} = {q}
    <2>1. run[q].name # n /\ {x \in Runs : run[x].open /\ run[x].name = run[q].name} = {q}
        BY <1>1, <1>6, <1>7 DEF RunOK, Writers
    <2>2. \A x \in Runs : (run'[x].open /\ run'[x].name = run'[q].name) <=> x = q
        BY <2>1, <1>6, <1>7
    <2> QED BY <2>2
<1>8. \A q \in Runs : RunOK(q)'
    BY <1>1, <1>6, <1>7 DEF RunOK, Writers
<1>9. /\ file' \in [Names -> SessionFiles \cup {Absent, Empty, Torn}]
      /\ disturbed' \subseteq Names
    BY DEF Delete, SessionsTypeOK
<1> QED BY <1>5, <1>8, <1>9, TypeByParts DEF Delete, SessionsTypeOK

LEMMA TypeStep ==
    ASSUME SessionsTypeOK, [Next]_sessionVars
    PROVE  SessionsTypeOK'
<1>1. ASSUME NEW p \in Runs, BeginFresh(p)
      PROVE  SessionsTypeOK'
    BY <1>1, BeginTypes DEF BeginFresh, Commands
<1>2. ASSUME NEW p \in Runs, BeginSync(p)
      PROVE  SessionsTypeOK'
    BY <1>2, BeginTypes, LoadedIsASession, ForeignHasADevice DEF BeginSync, BeginWith, Commands
<1>3. ASSUME NEW p \in Runs, BeginFetch(p)
      PROVE  SessionsTypeOK'
    BY <1>3, BeginTypes, LoadedIsASession, ForeignHasADevice DEF BeginFetch, BeginWith, Commands
<1>4. ASSUME NEW p \in Runs, Resume(p)
      PROVE  SessionsTypeOK'
    <2>1. run[p].system \in Devices \cup {NoDevice}
        BY DEF SessionsTypeOK, RunStates
    <2>2. borrowed' \subseteq Users \X Devices
        BY <1>4, <2>1 DEF Resume, SessionsTypeOK
    <2> QED BY <1>4, <2>1, <2>2, ConnectedTypes, TypeByParts DEF Resume, SessionsTypeOK
<1>5. ASSUME NEW p \in Runs, Register(p)
      PROVE  SessionsTypeOK'
    <2>1. PICK d \in Devices : /\ issued' = [issued EXCEPT ![d] = run[p].user]
                               /\ Connected(p, d) \/ Ended(p)
        BY <1>5 DEF Register
    <2>2. issued' \in [Devices -> Users \cup {NoUser}]
        BY <1>5, <2>1 DEF Register, SessionsTypeOK, RunStates
    <2>3. run' \in [Runs -> RunStates] /\ \A q \in Runs : RunOK(q)'
        BY <1>5, <2>1, ConnectedTypes, EndedTypes DEF Register
    <2> QED BY <1>5, <2>2, <2>3, TypeByParts DEF Register, SessionsTypeOK
<1>6. ASSUME NEW p \in Runs, Fetched(p)
      PROVE  SessionsTypeOK'
    BY <1>6, FetchedTypes, TypeByParts DEF Fetched, SessionsTypeOK
<1>7. ASSUME NEW p \in Runs, PrintToken(p)
      PROVE  SessionsTypeOK'
    BY <1>7, SavedByIsASession, EndedTypes, TypeByParts DEF PrintToken, SessionsTypeOK
<1>8. ASSUME UNCHANGED sessionVars
      PROVE  SessionsTypeOK'
    BY <1>8 DEF sessionVars, SessionsTypeOK, Writers
<1> QED BY <1>1, <1>2, <1>3, <1>4, <1>5, <1>6, <1>7, <1>8, OpenFileTypes, WriteFileTypes,
           FailTypes, DeleteTypes DEF Next

LEMMA TypeInit == Init => SessionsTypeOK
BY NotRunningIsARun DEF Init, SessionsTypeOK, NotRunning

\* The state is well formed whatever the runs do, however many there are.
THEOREM SessionsTypeCorrect == Spec => []SessionsTypeOK
<1> QED BY TypeInit, TypeStep, PTL DEF Spec

-----------------------------------------------------------------------------
(* Devices.  A run has a device of its user, or one it has not used yet    *)
(* that is from a session of another; what is saved is the user and the    *)
(* device of a run that is past the opening of its dialog.                 *)

IsConnected(p) == run[p].at \in {"fetch", "save", "write"}

RunsWithOwn ==
    \A p \in Runs : /\ run[p].at # "idle" => run[p].foreign \/ IsOwn(run[p].user, run[p].system)
                    /\ IsConnected(p) => ~run[p].foreign

\* A user's devices stay the user's: the bank registers each for one user, for
\* good, and what is borrowed stays so.
LEMMA OwnKept ==
    ASSUME SessionsTypeOK, [Next]_sessionVars, NEW u \in Users, NEW d, IsOwn(u, d),
           d \in Devices \cup {NoDevice}
    PROVE  IsOwn(u, d)'
<1>1. borrowed \subseteq borrowed'
    BY DEF Next, sessionVars, BeginFresh, BeginSync, BeginFetch, BeginWith, Begin, Resume,
           Register, Fetched, PrintToken, OpenFile, WriteFile, Fail, Delete
<1>2. CASE \E p \in Runs : Register(p)
    <2>1. PICK p \in Runs, e \in Devices :
              issued[e] = NoUser /\ issued' = [issued EXCEPT ![e] = run[p].user]
        BY <1>2 DEF Register
    <2> QED BY <1>1, <2>1, UsersAssumption DEF IsOwn, SessionsTypeOK
<1>3. CASE ~\E p \in Runs : Register(p)
    <2>1. issued' = issued
        BY <1>3 DEF Next, sessionVars, BeginFresh, BeginSync, BeginFetch, BeginWith, Begin,
                    Resume, Fetched, PrintToken, OpenFile, WriteFile, Fail, Delete
    <2> QED BY <1>1, <2>1 DEF IsOwn
<1> QED BY <1>2, <1>3

\* Whose a device is after the step.
OwnThen(user, d) == d = NoDevice \/ issued'[d] = user \/ <<user, d>> \in borrowed'

\* What a step can make of a run: nothing to do with its device ...
KeptRun(q) ==
    /\ run[q].at # "idle" /\ (IsConnected(q)' => IsConnected(q))
    /\ run'[q].user = run[q].user /\ run'[q].system = run[q].system
    /\ run'[q].foreign = run[q].foreign

\* ... or one that begins, or goes on, with a device that is in order.
GoodRun(q) ==
    /\ run'[q].foreign \/ OwnThen(run'[q].user, run'[q].system)
    /\ IsConnected(q)' => ~run'[q].foreign

LEMMA OthersStay ==
    ASSUME SessionsTypeOK, NEW p \in Runs, NEW r, run' = [run EXCEPT ![p] = r],
           NEW q \in Runs, q # p
    PROVE  run'[q] = run[q]
BY DEF SessionsTypeOK

LEMMA SameIsKept ==
    ASSUME NEW q \in Runs, run'[q] = run[q], run'[q].at # "idle"
    PROVE  KeptRun(q)
BY DEF KeptRun, IsConnected

LEMMA EndedIsOver ==
    ASSUME SessionsTypeOK, NEW p \in Runs, Ended(p), NEW q \in Runs, run'[q].at # "idle"
    PROVE  KeptRun(q)
<1>1. q # p
    BY DEF Ended, SessionsTypeOK, NotRunning
<1> QED BY <1>1, OthersStay, SameIsKept DEF Ended

LEMMA AfterConnecting ==
    ASSUME SessionsTypeOK, NEW p \in Runs, NEW d \in Devices \cup {NoDevice},
           Connected(p, d) \/ Ended(p), OwnThen(run[p].user, d),
           NEW q \in Runs, run'[q].at # "idle"
    PROVE  KeptRun(q) \/ GoodRun(q)
<1>1. CASE Ended(p)
    BY <1>1, EndedIsOver
<1>2. CASE ~Ended(p) /\ q = p
    <2>1. run[p] \in RunStates
        BY DEF SessionsTypeOK
    <2>2. run' = [run EXCEPT ![p].system = d, ![p].foreign = FALSE,
                            ![p].at = IF run[p].command = "setup" THEN "save" ELSE "fetch"]
        BY <1>2 DEF Connected
    <2>3. run'[p].user = run[p].user /\ run'[p].system = d /\ ~run'[p].foreign
        BY <2>1, <2>2 DEF SessionsTypeOK, RunStates
    <2> QED BY <1>2, <2>3 DEF GoodRun
<1>3. CASE ~Ended(p) /\ q # p
    <2>1. run'[q] = run[q]
        BY <1>3 DEF Connected, SessionsTypeOK
    <2> QED BY <2>1, SameIsKept
<1> QED BY <1>1, <1>2, <1>3

\* A run that begins is a new one under way to the bank.
LEMMA BeginsAre ==
    ASSUME NEW p \in Runs, BeginFresh(p) \/ BeginSync(p) \/ BeginFetch(p)
    PROVE  \E command, n, user, system, foreign, token :
                  Begin(p, command, n, user, system, foreign, token)
<1>1. CASE BeginFresh(p)
    BY <1>1 DEF BeginFresh
<1>2. CASE BeginSync(p)
    BY <1>2 DEF BeginSync, BeginWith
<1>3. CASE BeginFetch(p)
    BY <1>3 DEF BeginFetch, BeginWith
<1> QED BY <1>1, <1>2, <1>3

\* With a session of its user it has a device of its user.
LEMMA SessionIsOwn ==
    ASSUME SessionsTypeOK, DeviceIsUsers, NEW n \in Names, NEW session \in {Load(n)} \cup tokens,
           NEW user \in Users
    PROVE  IsForeign(user, session) \/ IsOwn(user, DeviceOf(session))
<1>1. CASE session = Absent
    BY <1>1 DEF DeviceOf, IsOwn
<1>2. CASE session # Absent
    <2>1. IsOwn(session.user, session.system)
        BY <1>2 DEF Load, DeviceIsUsers
    <2> QED BY <1>2, <2>1 DEF IsForeign, DeviceOf, IsOwn
<1> QED BY <1>1, <1>2

LEMMA BegunWith ==
    ASSUME SessionsTypeOK, DeviceIsUsers, NEW p \in Runs,
           BeginFresh(p) \/ BeginSync(p) \/ BeginFetch(p)
    PROVE  \E command, n, user, system, token : \E foreign \in BOOLEAN :
               /\ Begin(p, command, n, user, system, foreign, token)
               /\ foreign \/ IsOwn(user, system)
<1>1. CASE BeginFresh(p)
    <2>1. \A user : IsOwn(user, NoDevice)
        BY DEF IsOwn
    <2> QED BY <1>1, <2>1 DEF BeginFresh
<1>2. CASE BeginSync(p)
    <2>1. PICK n \in Names, token \in BOOLEAN : \E session \in {Load(n)} \cup tokens :
              BeginWith(p, "sync", n, session, token)
        BY <1>2 DEF BeginSync
    <2>2. PICK session \in {Load(n)} \cup tokens : BeginWith(p, "sync", n, session, token)
        BY <2>1
    <2>3. PICK user \in Users :
              Begin(p, "sync", n, user, DeviceOf(session), IsForeign(user, session), token)
        BY <2>2 DEF BeginWith
    <2> QED BY <2>3, SessionIsOwn, ForeignHasADevice
<1>3. CASE BeginFetch(p)
    <2>1. PICK n \in Names : BeginWith(p, "fetch", n, Load(n), FALSE)
        BY <1>3 DEF BeginFetch
    <2>2. PICK user \in Users :
              Begin(p, "fetch", n, user, DeviceOf(Load(n)), IsForeign(user, Load(n)), FALSE)
        BY <2>1 DEF BeginWith
    <2>3. /\ IsForeign(user, Load(n)) \in BOOLEAN
          /\ IsForeign(user, Load(n)) \/ IsOwn(user, DeviceOf(Load(n)))
        BY SessionIsOwn, ForeignHasADevice
    <2> QED BY <2>2, <2>3
<1> QED BY <1>1, <1>2, <1>3

LEMMA RunsAfter ==
    ASSUME SessionsTypeOK, DeviceIsUsers, RunsWithOwn, [Next]_sessionVars,
           NEW q \in Runs, run'[q].at # "idle"
    PROVE  KeptRun(q) \/ GoodRun(q)
<1>1. ASSUME NEW p \in Runs, BeginFresh(p) \/ BeginSync(p) \/ BeginFetch(p)
      PROVE  KeptRun(q) \/ GoodRun(q)
    <2>1. PICK command, n, user, system, token : \E foreign \in BOOLEAN :
              /\ Begin(p, command, n, user, system, foreign, token)
              /\ foreign \/ IsOwn(user, system)
        BY <1>1, BegunWith
    <2>2. PICK foreign \in BOOLEAN :
              /\ Begin(p, command, n, user, system, foreign, token)
              /\ foreign \/ IsOwn(user, system)
        BY <2>1
    <2> DEFINE r == [at |-> "connect", command |-> command, name |-> n, user |-> user,
                     system |-> system, foreign |-> foreign, token |-> token,
                     open |-> FALSE, alone |-> FALSE]
    <2>3. /\ run' = [run EXCEPT ![p] = r]
          /\ r.at = "connect" /\ r.user = user /\ r.system = system /\ r.foreign = foreign
        BY <2>2 DEF Begin
    <2> HIDE DEF r
    <2>4. CASE q = p
        <3>1. run'[q] = r
            BY <2>3, <2>4 DEF SessionsTypeOK
        <3>2. foreign \/ OwnThen(user, system)
            BY <2>2 DEF Begin, IsOwn, OwnThen
        <3> QED BY <2>3, <3>1, <3>2 DEF GoodRun, IsConnected
    <2>5. CASE q # p
        BY <2>3, <2>5, OthersStay, SameIsKept
    <2> QED BY <2>4, <2>5
<1>2. ASSUME NEW p \in Runs, Resume(p)
      PROVE  KeptRun(q) \/ GoodRun(q)
    <2>1. run[p].system \in Devices \cup {NoDevice}
        BY DEF SessionsTypeOK, RunStates
    <2>2. OwnThen(run[p].user, run[p].system)
        BY <1>2 DEF Resume, RunsWithOwn, IsOwn, OwnThen
    <2> QED BY <1>2, <2>1, <2>2, AfterConnecting DEF Resume
<1>3. ASSUME NEW p \in Runs, Register(p)
      PROVE  KeptRun(q) \/ GoodRun(q)
    <2>1. PICK d \in Devices : /\ issued' = [issued EXCEPT ![d] = run[p].user]
                               /\ Connected(p, d) \/ Ended(p)
        BY <1>3 DEF Register
    <2>2. OwnThen(run[p].user, d)
        BY <2>1 DEF OwnThen, SessionsTypeOK
    <2> QED BY <2>1, <2>2, AfterConnecting
<1>4. ASSUME NEW p \in Runs, Fetched(p)
      PROVE  KeptRun(q)
    <2>1. CASE Ended(p)
        BY <2>1, EndedIsOver
    <2>2. CASE ~Ended(p)
        <3>1. run' = [run EXCEPT ![p].at = "save"] /\ run[p].at = "fetch"
            BY <1>4, <2>2 DEF Fetched
        <3>2. run[p] \in RunStates
            BY DEF SessionsTypeOK
        <3>3. CASE q = p
            BY <3>1, <3>2, <3>3 DEF SessionsTypeOK, RunStates, KeptRun, IsConnected
        <3>4. CASE q # p
            BY <3>1, <3>4 DEF SessionsTypeOK, KeptRun, IsConnected
        <3> QED BY <3>3, <3>4
    <2> QED BY <2>1, <2>2
<1>5. ASSUME NEW p \in Runs, PrintToken(p) \/ WriteFile(p) \/ Fail(p)
      PROVE  KeptRun(q)
    BY <1>5, EndedIsOver DEF PrintToken, WriteFile, Fail
<1>6. ASSUME NEW p \in Runs, OpenFile(p)
      PROVE  KeptRun(q)
    <2>1. run[q] \in RunStates
        BY DEF SessionsTypeOK
    <2>2. CASE q = p
        BY <1>6, <2>1, <2>2 DEF OpenFile, RunStates, KeptRun, IsConnected
    <2>3. CASE q # p /\ q \in Writers(run[p].name)
        BY <1>6, <2>1, <2>3 DEF OpenFile, RunStates, KeptRun, IsConnected
    <2>4. CASE q # p /\ q \notin Writers(run[p].name)
        BY <1>6, <2>4 DEF OpenFile, KeptRun, IsConnected
    <2> QED BY <2>2, <2>3, <2>4
<1>7. ASSUME NEW n \in Names, Delete(n)
      PROVE  KeptRun(q)
    <2>1. run[q] \in RunStates
        BY DEF SessionsTypeOK
    <2>2. CASE q \in Writers(n)
        BY <1>7, <2>1, <2>2 DEF Delete, RunStates, KeptRun, IsConnected
    <2>3. CASE q \notin Writers(n)
        BY <1>7, <2>3 DEF Delete, KeptRun, IsConnected
    <2> QED BY <2>2, <2>3
<1>8. ASSUME UNCHANGED sessionVars
      PROVE  KeptRun(q)
    BY <1>8, SameIsKept DEF sessionVars
<1> QED BY <1>1, <1>2, <1>3, <1>4, <1>5, <1>6, <1>7, <1>8 DEF Next

\* What a step can put into a file or a token.
LEMMA NewlySaved ==
    ASSUME SessionsTypeOK, [Next]_sessionVars, NEW session \in SessionFiles,
           \/ session \in tokens' \ tokens
           \/ \E n \in Names : file'[n] = session /\ file[n] # session
    PROVE  \E p \in Runs : IsConnected(p) /\ session = SavedBy(run[p])
<1>1. CASE \E p \in Runs : PrintToken(p)
    BY <1>1 DEF PrintToken, IsConnected
<1>2. CASE \E p \in Runs : WriteFile(p)
    BY <1>2, FilesAssumption DEF WriteFile, Written, SessionsTypeOK, IsConnected
<1>3. CASE \E p \in Runs : OpenFile(p) \/ Fail(p)
    BY <1>3, FilesAssumption DEF OpenFile, Truncated, Fail, SessionsTypeOK
<1>4. CASE \E n \in Names : Delete(n)
    BY <1>4, FilesAssumption DEF Delete, SessionsTypeOK
<1>5. CASE UNCHANGED <<file, tokens>>
    BY <1>5
<1> QED BY <1>1, <1>2, <1>3, <1>4, <1>5 DEF Next, sessionVars, BeginFresh, BeginSync,
           BeginFetch, BeginWith, Begin, Resume, Register, Fetched

LEMMA DeviceStep ==
    ASSUME SessionsTypeOK, SessionsTypeOK', DeviceIsUsers, RunsWithOwn, [Next]_sessionVars
    PROVE  DeviceIsUsers' /\ RunsWithOwn'
<1>1. ASSUME NEW p \in Runs, run[p].at # "idle"
      PROVE  run[p].user \in Users /\ run[p].system \in Devices \cup {NoDevice}
    BY <1>1 DEF SessionsTypeOK, RunStates
<1>2. ASSUME NEW u \in Users, NEW d \in Devices \cup {NoDevice}, IsOwn(u, d)
      PROVE  OwnThen(u, d)
    BY <1>2, OwnKept DEF IsOwn, OwnThen
<1>3. ASSUME NEW session \in SessionFiles,
             \/ session \in tokens'
             \/ \E n \in Names : file'[n] = session
      PROVE  OwnThen(session.user, session.system)
    <2>1. session.user \in Users /\ session.system \in Devices \cup {NoDevice}
        BY DEF SessionFiles
    <2>2. CASE session \in tokens \/ \E n \in Names : file[n] = session
        BY <1>2, <2>1, <2>2 DEF DeviceIsUsers
    <2>3. CASE session \notin tokens /\ \A n \in Names : file[n] # session
        <3>1. PICK p \in Runs : IsConnected(p) /\ session = SavedBy(run[p])
            BY <1>3, <2>3, NewlySaved
        <3>2. session.user = run[p].user /\ session.system = run[p].system
            BY <3>1 DEF SavedBy
        <3>3. IsOwn(run[p].user, run[p].system)
            BY <3>1 DEF RunsWithOwn, IsConnected
        <3> QED BY <1>2, <2>1, <3>2, <3>3
    <2> QED BY <2>2, <2>3
<1>4. DeviceIsUsers'
    BY <1>3 DEF DeviceIsUsers, IsOwn, OwnThen, SessionsTypeOK
<1>5. ASSUME NEW q \in Runs, run'[q].at # "idle"
      PROVE  GoodRun(q)
    <2>1. CASE KeptRun(q)
        BY <1>1, <1>2, <2>1 DEF KeptRun, GoodRun, RunsWithOwn
    <2> QED BY <1>5, <2>1, RunsAfter
<1>6. RunsWithOwn'
    BY <1>5 DEF RunsWithOwn, GoodRun, IsOwn, OwnThen, IsConnected
<1> QED BY <1>4, <1>6

\* A session file and a resume token name a device that was registered for their
\* user, or that the bank has opened a dialog under for that user although it
\* came from the session of another, whatever the order in which any number of
\* runs load, register, save, fail and delete.
THEOREM DevicesAreUsers == Spec => []DeviceIsUsers
<1>1. Init => DeviceIsUsers /\ RunsWithOwn
    BY FilesAssumption DEF Init, DeviceIsUsers, RunsWithOwn, IsConnected, NotRunning
<1> QED BY <1>1, DeviceStep, SessionsTypeCorrect, PTL DEF Spec

-----------------------------------------------------------------------------
(* Unreadable files.  A run that has had its file to itself finds it as it *)
(* left it when it opened it.                                              *)

AloneIsEmpty == \A p \in Runs : run[p].open /\ run[p].alone => file[run[p].name] = Empty

\* The writers of a file when one run, which has no file open afterwards, has
\* changed.
LEMMA WritersAfterEnd ==
    ASSUME SessionsTypeOK, NEW p \in Runs, Ended(p)
    PROVE  /\ \A q \in Runs : q # p => run'[q] = run[q]
           /\ ~run'[p].open
BY DEF Ended, SessionsTypeOK, NotRunning

\* Steps that leave files alone.
LEMMA QuietStep ==
    ASSUME AloneIsEmpty, UnreadableByAccident, UNCHANGED <<file, disturbed>>,
           \A q \in Runs : /\ run'[q].open <=> run[q].open
                           /\ run[q].open => run'[q].name = run[q].name
                                             /\ run'[q].alone = run[q].alone
    PROVE  AloneIsEmpty' /\ UnreadableByAccident'
<1>1. AloneIsEmpty'
    BY DEF AloneIsEmpty
<1>2. ASSUME NEW n \in Names, file'[n] \in {Empty, Torn}, n \notin disturbed'
      PROVE  Writers(n)' # {}
    <2>1. PICK q \in Runs : run[q].open /\ run[q].name = n
        BY <1>2 DEF UnreadableByAccident, Writers
    <2>2. run'[q].open /\ run'[q].name = n
        BY <2>1
    <2> QED BY <2>2 DEF Writers
<1> QED BY <1>1, <1>2 DEF UnreadableByAccident

\* A step that changes one run only, which has no file open.
LEMMA QuietRun ==
    ASSUME SessionsTypeOK, AloneIsEmpty, UnreadableByAccident, UNCHANGED <<file, disturbed>>,
           NEW p \in Runs, ~run[p].open, ~run'[p].open,
           \A q \in Runs : q # p => run'[q] = run[q]
    PROVE  AloneIsEmpty' /\ UnreadableByAccident'
<1>1. \A q \in Runs : /\ run'[q].open <=> run[q].open
                      /\ run[q].open => run'[q].name = run[q].name
                                        /\ run'[q].alone = run[q].alone
    OBVIOUS
<1> QED BY <1>1, QuietStep

LEMMA OpenFileIsNoAccident ==
    ASSUME SessionsTypeOK, AloneIsEmpty, UnreadableByAccident, NEW p \in Runs, OpenFile(p)
    PROVE  AloneIsEmpty' /\ UnreadableByAccident'
<1> DEFINE n == run[p].name
<1>1. n \in Names /\ \A q \in Runs : run[q] \in RunStates
    BY DEF SessionsTypeOK, OpenFile
<1>2. file' = [file EXCEPT ![n] = Empty] /\ disturbed' = disturbed
    BY DEF OpenFile, Truncated
<1>3. run'[p].open /\ run'[p].name = n
    BY <1>1 DEF OpenFile, RunStates
<1>4. ASSUME NEW q \in Runs, q # p
      PROVE  /\ run'[q].name = run[q].name /\ run'[q].open = run[q].open
             /\ run'[q].open /\ run'[q].alone => run[q].alone /\ run[q].name # n
    <2>1. CASE q \in Writers(n)
        BY <1>1, <1>4, <2>1 DEF OpenFile, RunStates
    <2>2. CASE q \notin Writers(n)
        BY <1>4, <2>2 DEF OpenFile, Writers
    <2> QED BY <2>1, <2>2
<1>5. \A m \in Names : file'[m] = IF m = n THEN Empty ELSE file[m]
    BY <1>1, <1>2 DEF SessionsTypeOK
<1>6. ASSUME NEW q \in Runs, run'[q].open, run'[q].alone
      PROVE  file'[run'[q].name] = Empty
    <2>1. CASE q = p
        BY <1>1, <1>3, <1>5, <2>1
    <2>2. CASE q # p
        <3>1. run[q].name \in Names
            BY <1>4, <1>6, <2>2 DEF SessionsTypeOK
        <3> QED BY <1>4, <1>5, <1>6, <2>2, <3>1 DEF AloneIsEmpty
    <2> QED BY <2>1, <2>2
<1>7. ASSUME NEW m \in Names, file'[m] \in {Empty, Torn}, m \notin disturbed'
      PROVE  \E q \in Runs : run'[q].open /\ run'[q].name = m
    <2>1. CASE m = n
        BY <1>3, <2>1
    <2>2. CASE m # n
        <3>1. PICK q \in Runs : run[q].open /\ run[q].name = m
            BY <1>2, <1>5, <1>7, <2>2 DEF UnreadableByAccident, Writers
        <3> QED BY <1>3, <1>4, <3>1
    <2> QED BY <2>1, <2>2
<1>8. AloneIsEmpty'
    BY <1>6 DEF AloneIsEmpty
<1>9. UnreadableByAccident'
    BY <1>7 DEF UnreadableByAccident, Writers
<1> QED BY <1>8, <1>9

\* A run ends, and the file of its name is what one of the two says.
LEMMA EndIsNoAccident ==
    ASSUME SessionsTypeOK, AloneIsEmpty, UnreadableByAccident, NEW p \in Runs, Ended(p),
           NEW n \in Names, n = run[p].name, run[p].open,
           \A m \in Names : m # n => file'[m] = file[m] /\ (m \in disturbed' <=> m \in disturbed),
           file'[n] \notin {Empty, Torn} \/ n \in disturbed',
           run[p].alone \/ n \in disturbed'
    PROVE  AloneIsEmpty' /\ UnreadableByAccident'
<1>1. \A q \in Runs : q # p => run'[q] = run[q]
    BY WritersAfterEnd
<1>2. ~run'[p].open
    BY WritersAfterEnd
<1>3. ASSUME NEW q \in Runs, run'[q].open, run'[q].alone
      PROVE  file'[run'[q].name] = Empty
    <2>1. q # p /\ run'[q] = run[q]
        BY <1>1, <1>2, <1>3
    <2>2. run[q].name \in Names /\ Writers(run[q].name) = {q}
        BY <1>3, <2>1 DEF SessionsTypeOK
    <2>3. run[q].name # n
        BY <2>1, <2>2 DEF Writers
    <2> QED BY <1>3, <2>1, <2>2, <2>3 DEF AloneIsEmpty
<1>4. ASSUME NEW m \in Names, file'[m] \in {Empty, Torn}, m \notin disturbed'
      PROVE  \E q \in Runs : run'[q].open /\ run'[q].name = m
    <2>1. m # n
        BY <1>4
    <2>2. PICK q \in Runs : run[q].open /\ run[q].name = m
        BY <1>4, <2>1 DEF UnreadableByAccident, Writers
    <2> QED BY <1>1, <2>1, <2>2
<1>5. AloneIsEmpty'
    BY <1>3 DEF AloneIsEmpty
<1>6. UnreadableByAccident'
    BY <1>4 DEF UnreadableByAccident, Writers
<1> QED BY <1>5, <1>6

LEMMA WriteFileIsNoAccident ==
    ASSUME SessionsTypeOK, AloneIsEmpty, UnreadableByAccident, NEW p \in Runs, WriteFile(p)
    PROVE  AloneIsEmpty' /\ UnreadableByAccident'
<1> DEFINE n == run[p].name
<1>1. n \in Names /\ run[p].open \in BOOLEAN /\ SavedBy(run[p]) \in SessionFiles
    BY SavedByIsASession DEF SessionsTypeOK, WriteFile, RunStates
<1>2. CASE ~run[p].open
    <2>1. file' = file
        BY <1>2 DEF WriteFile
    <2>2. disturbed' = disturbed
        BY <1>2 DEF WriteFile
    <2>3. Ended(p)
        BY DEF WriteFile
    <2> QED BY <1>2, <2>1, <2>2, <2>3, WritersAfterEnd, QuietRun
<1>3. CASE run[p].open
    <2>1. PICK content \in Written(file[n], SavedBy(run[p])) : file' = [file EXCEPT ![n] = content]
        BY <1>3 DEF WriteFile
    <2>2. file'[n] = content /\ \A m \in Names : m # n => file'[m] = file[m]
        BY <1>1, <2>1 DEF SessionsTypeOK
    <2>3. CASE run[p].alone
        <3>1. content = SavedBy(run[p])
            BY <1>3, <2>1, <2>3 DEF AloneIsEmpty, Written
        <3>2. file'[n] \notin {Empty, Torn}
            BY <1>1, <2>2, <3>1, FilesAssumption
        <3>3. disturbed' = disturbed \ {n} /\ Ended(p)
            BY <1>3, <2>3 DEF WriteFile
        <3> HIDE DEF n
        <3> QED BY <1>1, <1>3, <2>2, <2>3, <3>2, <3>3, EndIsNoAccident DEF n
    <2>4. CASE ~run[p].alone
        <3>1. disturbed' = disturbed \cup {n} /\ Ended(p)
            BY <1>3, <2>4 DEF WriteFile
        <3> QED BY <1>1, <1>3, <2>2, <3>1, EndIsNoAccident
    <2> QED BY <2>3, <2>4
<1> QED BY <1>1, <1>2, <1>3

LEMMA FailIsNoAccident ==
    ASSUME SessionsTypeOK, AloneIsEmpty, UnreadableByAccident, NEW p \in Runs, Fail(p)
    PROVE  AloneIsEmpty' /\ UnreadableByAccident'
<1> DEFINE n == run[p].name
<1>1. n \in Names /\ run[p].open \in BOOLEAN /\ Ended(p)
    BY DEF SessionsTypeOK, Fail, RunStates
<1>2. CASE ~run[p].open
    <2>1. UNCHANGED <<file, disturbed>>
        BY <1>2 DEF Fail
    <2> QED BY <1>1, <1>2, <2>1, WritersAfterEnd, QuietRun
<1>3. CASE run[p].open
    <2>1. disturbed' = disturbed \cup {n} /\ \A m \in Names : m # n => file'[m] = file[m]
        BY <1>3 DEF Fail, SessionsTypeOK
    <2> QED BY <1>1, <1>3, <2>1, EndIsNoAccident
<1> QED BY <1>1, <1>2, <1>3

LEMMA DeleteIsNoAccident ==
    ASSUME SessionsTypeOK, AloneIsEmpty, UnreadableByAccident, NEW n \in Names, Delete(n)
    PROVE  AloneIsEmpty' /\ UnreadableByAccident'
<1>1. \A m \in Names : file'[m] = IF m = n THEN Absent ELSE file[m]
    BY DEF Delete, SessionsTypeOK
<1>2. ASSUME NEW q \in Runs
      PROVE  /\ run'[q].name = run[q].name /\ run'[q].alone = run[q].alone
             /\ run'[q].open <=> run[q].open /\ run[q].name # n
    <2>1. run[q] \in RunStates
        BY DEF SessionsTypeOK
    <2>2. CASE q \in Writers(n)
        BY <2>1, <2>2 DEF Delete, RunStates, Writers
    <2>3. CASE q \notin Writers(n)
        BY <2>3 DEF Delete, Writers
    <2> QED BY <2>2, <2>3
<1>3. ASSUME NEW q \in Runs, run'[q].open, run'[q].alone
      PROVE  file'[run'[q].name] = Empty
    <2>1. run[q].name \in Names /\ run[q].name # n
        BY <1>2, <1>3 DEF SessionsTypeOK
    <2> QED BY <1>1, <1>2, <1>3, <2>1 DEF AloneIsEmpty
<1>4. ASSUME NEW m \in Names, file'[m] \in {Empty, Torn}, m \notin disturbed'
      PROVE  \E q \in Runs : run'[q].open /\ run'[q].name = m
    <2>1. m # n /\ file[m] \in {Empty, Torn} /\ m \notin disturbed
        BY <1>1, <1>4, FilesAssumption DEF Delete
    <2>2. PICK q \in Runs : run[q].open /\ run[q].name = m
        BY <2>1 DEF UnreadableByAccident, Writers
    <2> QED BY <1>2, <2>1, <2>2
<1>5. AloneIsEmpty'
    BY <1>3 DEF AloneIsEmpty
<1>6. UnreadableByAccident'
    BY <1>4 DEF UnreadableByAccident, Writers
<1> QED BY <1>5, <1>6

LEMMA AccidentStep ==
    ASSUME SessionsTypeOK, AloneIsEmpty, UnreadableByAccident, [Next]_sessionVars
    PROVE  AloneIsEmpty' /\ UnreadableByAccident'
<1>1. ASSUME NEW p \in Runs, ~run[p].open, UNCHANGED <<file, disturbed>>,
             NEW r, run' = [run EXCEPT ![p] = r], ~r.open
      PROVE  AloneIsEmpty' /\ UnreadableByAccident'
    <2>1. ~run'[p].open /\ \A q \in Runs : q # p => run'[q] = run[q]
        BY <1>1 DEF SessionsTypeOK
    <2> QED BY <1>1, <2>1, QuietRun
<1>2. \A p \in Runs : run[p].at # "write" => ~run[p].open
    BY DEF SessionsTypeOK
<1>3. ASSUME NEW p \in Runs, BeginFresh(p) \/ BeginSync(p) \/ BeginFetch(p)
      PROVE  AloneIsEmpty' /\ UnreadableByAccident'
    <2>1. PICK command, n, user, system, foreign, token :
                  Begin(p, command, n, user, system, foreign, token)
        BY <1>3, BeginsAre
    <2>2. UNCHANGED <<file, disturbed>>
        BY <2>1 DEF Begin
    <2>3. run[p].at = "idle"
        BY <1>3 DEF BeginFresh, BeginSync, BeginFetch
    <2>4. ~run[p].open
        BY <1>2, <2>3
    <2> DEFINE r == [at |-> "connect", command |-> command, name |-> n, user |-> user,
                     system |-> system, foreign |-> foreign, token |-> token,
                     open |-> FALSE, alone |-> FALSE]
    <2>5. run' = [run EXCEPT ![p] = r] /\ ~r.open
        BY <2>1 DEF Begin
    <2> HIDE DEF r
    <2> QED BY <1>1, <2>2, <2>4, <2>5
<1>4. ASSUME NEW p \in Runs, Resume(p) \/ Register(p) \/ Fetched(p) \/ PrintToken(p)
      PROVE  AloneIsEmpty' /\ UnreadableByAccident'
    <2>1. ~run[p].open /\ UNCHANGED <<file, disturbed>>
        BY <1>2, <1>4 DEF Resume, Register, Fetched, PrintToken
    <2>2. CASE Ended(p)
        BY <2>1, <2>2, WritersAfterEnd, QuietRun
    <2>3. CASE ~Ended(p)
        <3>1. \/ \E d : run' = [run EXCEPT ![p].system = d, ![p].foreign = FALSE,
                     ![p].at = IF run[p].command = "setup" THEN "save" ELSE "fetch"]
              \/ run' = [run EXCEPT ![p].at = "save"]
            BY <1>4, <2>3 DEF Resume, Register, Fetched, PrintToken, Connected
        <3>2. run[p] \in RunStates
            BY DEF SessionsTypeOK
        <3>3. run \in [Runs -> RunStates]
            BY DEF SessionsTypeOK
        <3>4. run'[p].open = run[p].open
            <4>1. CASE run' = [run EXCEPT ![p].at = "save"]
                BY <3>2, <3>3, <4>1 DEF RunStates
            <4>2. ASSUME NEW d, run' = [run EXCEPT ![p].system = d, ![p].foreign = FALSE,
                             ![p].at = IF run[p].command = "setup" THEN "save" ELSE "fetch"]
                  PROVE  run'[p].open = run[p].open
                BY <3>2, <3>3, <4>2 DEF RunStates
            <4> QED BY <3>1, <4>1, <4>2
        <3>5. \A q \in Runs : q # p => run'[q] = run[q]
            BY <3>1, <3>3
        <3> QED BY <2>1, <3>4, <3>5, QuietRun
    <2> QED BY <2>2, <2>3
<1>5. ASSUME UNCHANGED sessionVars
      PROVE  AloneIsEmpty' /\ UnreadableByAccident'
    BY <1>5, QuietStep DEF sessionVars
<1> QED BY <1>3, <1>4, <1>5, OpenFileIsNoAccident, WriteFileIsNoAccident, FailIsNoAccident,
           DeleteIsNoAccident DEF Next

\* A session file that cannot be read is the work of a run that failed while it
\* wrote, or of several that wrote at once; a run alone repairs it.
THEOREM UnreadableOnlyByAccident == Spec => []UnreadableByAccident
<1>1. Init => AloneIsEmpty /\ UnreadableByAccident
    BY FilesAssumption DEF Init, AloneIsEmpty, UnreadableByAccident, NotRunning
<1> QED BY <1>1, AccidentStep, SessionsTypeCorrect, PTL DEF Spec
=============================================================================
