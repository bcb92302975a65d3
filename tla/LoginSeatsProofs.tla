--------------------------- MODULE LoginSeatsProofs --------------------------
(***************************************************************************)
(* What signing in and out comes to, for any number of users, clients,     *)
(* threads and tokens: it implements SeatRegistry, and the audit table     *)
(* agrees with Redis.                                                      *)
(***************************************************************************)
EXTENDS LoginSeats, LoginSessionsProofs

-----------------------------------------------------------------------------
(* Every step but one only takes tokens away: it maps to Release or to a     *)
(* stutter. The one is the last call of a login, and the seat its thread has *)
(* held since its check (SeatOK of the inductive invariant) makes it a Grant.*)

\* The step returns no token, changes no owner of a returned one, and makes none
\* of them honoured.
OnlyTakes ==
    /\ answered' = answered /\ raced \subseteq raced'
    /\ \A t \in answered : owner'[t] = owner[t] /\ (auth'[t] > 0 => auth[t] > 0)

\* Nobody holds a token at the start.
LEMMA RegistryInit == Init => Registry!Init
<1> SUFFICES ASSUME Init PROVE Registry!Init OBVIOUS
<1>1. SeatsOf = [u \in Users |-> {}]
  BY DEF Init, SeatsOf, SeatToken
<1> QED BY <1>1 DEF Init, Registry!Init

\* Of the one token a user holds, a step that only takes leaves it or nothing.
LEMMA TakingReleases ==
  ASSUME IInv, OnlyTakes
  PROVE  Registry!Next
<1> DEFINE gone == {u \in Users : SeatsOf'[u] # SeatsOf[u]}
<1>1. ASSUME NEW u \in Users PROVE SeatsOf'[u] = IF u \in gone THEN {} ELSE SeatsOf[u]
  <2>1. SeatsOf'[u] \subseteq SeatsOf[u]
    BY DEF SeatsOf, SeatToken, OnlyTakes
  <2>2. \A s, t \in SeatsOf[u] : s = t
    BY DEF SeatsOf, OneSeat, IInv, SessionInv
  <2> QED BY <2>1, <2>2
<1>2. SeatsOf' = [u \in Users |-> IF u \in gone THEN {} ELSE SeatsOf[u]]
  BY <1>1 DEF SeatsOf
<1>3. gone \in SUBSET Users
  OBVIOUS
<1>4. Registry!Release(gone)
  BY <1>2 DEF Registry!Release, OnlyTakes
<1> QED BY <1>3, <1>4 DEF Registry!Next

\* SaveActiveSession's EXPIRE: the token is about to be returned to a user who
\* holds none, or who does not count any more.
LEMMA ExpireGrants ==
  ASSUME IInv, NEW p \in Threads, LoginExpire(p)
  PROVE  Registry!Next
<1> PICK t : t = job[p].token
  OBVIOUS
<1>1. pc[p] = "expire" /\ UNCHANGED <<auth, owner, raced>>
  BY DEF LoginExpire
<1>2. CASE answered' = answered
  BY <1>1, <1>2, TakingReleases DEF OnlyTakes
<1>3. CASE answered' = answered \cup {t}
  <2>1. /\ t \in issued \ answered /\ t \in Tokens
        /\ owner[t] = job[p].user /\ job[p].user \in Users
    BY <1>1 DEF IInv, TypeOK, SessionInv, ThreadsInv, TokenOK, JobOK, SignInPcs, LoginPcs
  <2>2. ASSUME NEW u \in Users, u # owner[t] \/ ~SeatToken(t)' PROVE SeatsOf'[u] = SeatsOf[u]
    BY <1>1, <1>3, <2>1, <2>2 DEF SeatsOf, SeatToken
  <2>3. CASE SeatToken(t)'
    <3>1. owner[t] \notin raced /\ Held(owner[t]) = {}
      BY <1>1, <2>1, <2>3 DEF SeatToken, IInv, SessionInv, ThreadsInv, SeatOK, SignInPcs
    <3>2. SeatsOf[owner[t]] = {}
      BY <2>1, <3>1 DEF SeatsOf, SeatToken, Held
    <3>3. SeatsOf'[owner[t]] = {t}
      BY <1>1, <1>3, <2>1, <2>3, <3>1 DEF SeatsOf, SeatToken, Held
    <3>4. SeatsOf' = [SeatsOf EXCEPT ![owner[t]] = {t}]
      BY <2>1, <2>2, <3>3 DEF SeatsOf
    <3> QED BY <1>3, <2>1, <3>2, <3>4 DEF Registry!Next, Registry!Grant
  <2>4. CASE ~SeatToken(t)'
    <3>1. SeatsOf' = SeatsOf
      BY <2>2, <2>4 DEF SeatsOf
    <3> QED BY <1>3, <2>1, <3>1 DEF Registry!Next, Registry!Grant
  <2> QED BY <2>3, <2>4
<1>4. answered' = answered \/ answered' = answered \cup {t}
  BY DEF LoginExpire, RedisCall
<1> QED BY <1>2, <1>3, <1>4

\* SET auth:<token>: of a token nobody was given yet.
LEMMA AuthTakes ==
  ASSUME IInv, NEW p \in Threads, LoginAuth(p)
  PROVE  OnlyTakes
<1>1. job[p].token \notin answered
  BY DEF LoginAuth, IInv, SessionInv, ThreadsInv, TokenOK, SignInPcs
<1>2. \/ UNCHANGED <<auth, owner>>
      \/ /\ auth' = [auth EXCEPT ![job[p].token] = TTL]
         /\ owner' = [owner EXCEPT ![job[p].token] = job[p].user]
  BY DEF LoginAuth, RedisCall
<1>3. answered' = answered /\ raced' = raced
  BY DEF LoginAuth, history
<1> QED BY <1>1, <1>2, <1>3 DEF OnlyTakes, IInv, TypeOK

\* Every other step of a thread.
LEMMA ThreadTakes ==
  ASSUME IInv, NEW p \in Threads, Step(p), ~LoginExpire(p)
  PROVE  OnlyTakes
<1>1. CASE LoginAuth(p)
  BY <1>1, AuthTakes
<1>2. CASE LoginSeat(p)
  BY <1>2 DEF LoginSeat, OnlyTakes, redis
<1>3. CASE QuitAuth(p)
  <2>1. auth' = auth \/ auth' = [auth EXCEPT ![job[p].token] = 0]
    BY <1>3 DEF QuitAuth, RedisCall
  <2>2. UNCHANGED <<owner, answered, raced>>
    BY <1>3 DEF QuitAuth
  <2>3. auth \in [Tokens -> 0..TTL] /\ answered \subseteq Tokens
    BY DEF IInv, TypeOK
  <2>4. \A t \in answered : auth'[t] > 0 => auth[t] > 0
    BY <2>1, <2>3
  <2> QED BY <2>2, <2>4 DEF OnlyTakes
<1>4. CASE ~LoginAuth(p) /\ ~LoginSeat(p) /\ ~QuitAuth(p)
  <2>1. UNCHANGED <<auth, owner, answered>>
    BY <1>4 DEF Step, LoginStep, QuitStep, Take, LoginCheck, LoginRow, LoginCommit, LoginHmset,
       Send, Activity, Validate, QuitRow, QuitSess, CopyStep, CreateBackup, RecoverDB,
       StopActiveSession, redis, history
  <2>2. raced' = raced \/ \E c, a : Arrive(c, a)
    BY <1>4 DEF Step, LoginStep, QuitStep, Take, LoginCheck, LoginRow, LoginCommit, LoginHmset,
       Send, Activity, Validate, QuitRow, QuitSess, CopyStep, CreateBackup, RecoverDB,
       StopActiveSession, Finish, history
  <2>3. raced \subseteq raced'
    BY <2>2 DEF Arrive
  <2> QED BY <2>1, <2>3 DEF OnlyTakes
<1> QED BY <1>1, <1>2, <1>3, <1>4

\* Every step of the system is a step of the registry.
LEMMA RegistryStep ==
  ASSUME IInv, Next
  PROVE  Registry!Next
<1>1. CASE Tick
  <2>1. \A t \in answered : owner'[t] = owner[t] /\ (auth'[t] > 0 => auth[t] > 0)
    BY <1>1, TTLAssumption DEF Tick, Older, IInv, TypeOK
  <2> QED BY <1>1, <2>1, TakingReleases DEF OnlyTakes, Tick, history
<1>2. ASSUME NEW p \in Threads, Step(p) PROVE Registry!Next
  BY <1>2, ExpireGrants, ThreadTakes, TakingReleases
<1>3. ASSUME NEW c \in Clients, ClientStep(c) PROVE Registry!Next
  <2>1. UNCHANGED <<auth, owner, answered, raced>>
    BY <1>3 DEF ClientStep, SendLogin, ReadLoginReply, SendRequest, CloseWindow, ClientDies,
       ClientStarts, redis, history
  <2> QED BY <2>1, TakingReleases DEF OnlyTakes
<1>4. CASE Crash
  BY <1>4, TakingReleases DEF Crash, OnlyTakes, redis
<1>5. ASSUME NEW r \in Recoveries, Restore(r) PROVE Registry!Next
  BY <1>5, TakingReleases DEF Restore, DropTables, CreateTables, CopyTables, OnlyTakes, redis, history
<1> QED BY <1>1, <1>2, <1>3, <1>4, <1>5 DEF Next

\* Signing in implements the registry: Login hands a token to a user only while he
\* holds none, never one it has handed out before, and no token comes back.
THEOREM SignInIsRegistry == Spec => ImplementsRegistry
<1>1. IInv /\ [Next]_vars => [Registry!Next]_(Registry!vars)
  <2>1. CASE Next BY <2>1, RegistryStep
  <2>2. CASE UNCHANGED vars
    BY <2>2 DEF vars, redis, history, Registry!vars, SeatsOf, SeatToken
  <2> QED BY <2>1, <2>2
<1> QED BY <1>1, RegistryInit, Invariance, PTL DEF Spec, ImplementsRegistry, Registry!Spec

-----------------------------------------------------------------------------
(* The audit table permission_app.sessions against Redis: OneOpenRow and     *)
(* LiveTokenHasRow. RowInv is inductive together with IInv. Most steps are   *)
(* quiet: they leave the rows alone and move nobody in or out of the calls   *)
(* RowInv speaks of. The others are the insert and its commit, the end of a  *)
(* login, the two first steps of a quit, a backup, the steps of a recovery   *)
(* and of its pg_restore, and a crash.                                       *)

RowPcs == {"commit", "auth", "hmset", "expire"}

\* A thread that will be between the insert of a row and the end of its login is
\* there already, and one that closes a session stays at it.
Quiet ==
    /\ UNCHANGED <<openRows, dump, unrowed, row>>
    /\ mixed \subseteq mixed'
    /\ halfQuit \subseteq halfQuit'
    /\ \A q \in Threads :
          /\ pc[q] \in {"q_auth", "commit"} => pc'[q] = pc[q] /\ job'[q] = job[q]
          /\ pc'[q] \in RowPcs => /\ job'[q] = job[q] /\ pc[q] \in RowPcs
                                  /\ pc'[q] = "commit" <=> pc[q] = "commit"

\* No row, no token at the start.
LEMMA RowInit == Init => RowInv
<1> SUFFICES ASSUME Init PROVE RowInv OBVIOUS
<1>1. FewRows
  <2>1. \A u \in Users : openRows[u] = 0 /\ dump[u] = 0
    BY DEF Init
  <2>2. 0 <= 1
    OBVIOUS
  <2> QED BY Zenon, <2>1, <2>2 DEF FewRows
<1>2. \A p \in Threads : RowOK(p)
  BY DEF Init, RowOK
<1>3. LiveTokenHasRow
  BY DEF Init, LiveTokenHasRow, SeatToken
<1>4. RestoreOK
  BY DEF Init, RestoreOK, Restoring
<1> QED BY <1>1, <1>2, <1>3, <1>4 DEF RowInv

\* What a step keeps of the recoveries that leaves them, the rows and those about to
\* be committed as they are.
LEMMA RestoreStays ==
  ASSUME RowInv, UNCHANGED <<tables, mixed, openRows>>,
         \A q \in Threads : row'[q] => row[q] /\ job'[q].user = job[q].user
  PROVE  RestoreOK'
BY DEF RowInv, RestoreOK, Restoring, tables

\* What a quiet step that gives nobody a token keeps.
LEMMA QuietKeeps ==
  ASSUME IInv, RowInv, OnlyTakes, Quiet, RestoreOK'
  PROVE  RowInv'
<1>1. FewRows'
  BY DEF RowInv, OnlyTakes, Quiet, FewRows
<1>2. ASSUME NEW q \in Threads PROVE RowOK(q)'
  <2>1. /\ RowOK(q) /\ row'[q] = row[q] /\ raced \subseteq raced'
        /\ openRows' = openRows /\ unrowed' = unrowed /\ mixed \subseteq mixed'
    BY DEF RowInv, OnlyTakes, Quiet
  <2>2. /\ pc[q] = "commit" => pc'[q] = "commit"
        /\ pc'[q] \in RowPcs => /\ job'[q] = job[q] /\ pc[q] \in RowPcs
                                /\ pc'[q] = "commit" <=> pc[q] = "commit"
    BY DEF Quiet
  <2> QED BY <2>1, <2>2 DEF RowOK, RowPcs
<1>3. LiveTokenHasRow'
  <2> SUFFICES ASSUME NEW t \in Tokens, SeatToken(t)', owner'[t] \notin halfQuit' \cup unrowed'
               PROVE  \/ openRows'[owner'[t]] > 0
                      \/ \E p \in Threads : /\ pc'[p] = "q_auth" /\ job'[p].user = owner'[t]
                                            /\ job'[p].token = t
    BY DEF LiveTokenHasRow
  <2>1. SeatToken(t) /\ owner'[t] = owner[t] /\ owner[t] \notin halfQuit \cup unrowed
    BY DEF SeatToken, OnlyTakes, Quiet
  <2>2. \/ openRows[owner[t]] > 0
        \/ \E p \in Threads : pc[p] = "q_auth" /\ job[p].user = owner[t] /\ job[p].token = t
    BY <2>1 DEF RowInv, LiveTokenHasRow
  <2> QED BY <2>1, <2>2 DEF Quiet
<1> QED BY <1>1, <1>2, <1>3 DEF RowInv

\* In a quiet step a thread about to commit keeps its task.
LEMMA QuietRestore ==
  ASSUME RowInv, Quiet, UNCHANGED <<tables, mixed>>
  PROVE  RestoreOK'
<1>1. ASSUME NEW q \in Threads, row'[q] PROVE row[q] /\ job'[q].user = job[q].user
  BY <1>1 DEF RowInv, RowOK, Quiet
<1> QED BY <1>1, RestoreStays DEF Quiet

\* The beginning of a recovery: it is the only one, or everybody is mixed.
LEMMA BeginRestores ==
  ASSUME IInv, RowInv, NEW p \in Threads, Validate(p), Quiet
  PROVE  RestoreOK'
<1> PICK r : r = recoveries + 1
  OBVIOUS
<1>1. CASE UNCHANGED <<tables, mixed>>
  BY <1>1, QuietRestore
<1>2. CASE /\ r \in Recoveries /\ recoveries' = r /\ table' = table
           /\ restore' = [restore EXCEPT ![r] = "drop"]
           /\ mixed' = IF \E q \in Recoveries : Restoring(q) THEN Users ELSE mixed
  <2>1. restore \in [Recoveries -> {"none", "drop", "create", "copy", "exited"}] /\ recoveries \in Nat
    BY DEF IInv, TypeOK
  <2>2. /\ restore'[r] = "drop"
        /\ \A q \in Recoveries : q # r => restore'[q] = restore[q]
    BY <1>2, <2>1
  <2>3. \A q \in Recoveries : q > recoveries => restore[q] = "none"
    BY DEF RowInv, RestoreOK
  <2>4. \A q \in Recoveries : q > recoveries' => q > recoveries /\ q # r
    BY <1>2, <2>1, BoundAssumption DEF Recoveries
  <2>5. ASSUME NEW q \in Threads, row'[q] PROVE row[q] /\ job'[q].user = job[q].user
    BY <2>5 DEF RowInv, RowOK, Quiet
  <2>6. ASSUME NEW q \in Recoveries, restore'[q] \in {"create", "copy"}, NEW u \in Users \ mixed'
        PROVE  openRows'[u] = 0 /\ \A t \in Threads : row'[t] => job'[t].user # u
    <3>1. restore[q] \in {"create", "copy"} /\ u \notin mixed
      BY <1>2, <2>2, <2>6
    <3> QED BY <2>5, <2>6, <3>1 DEF RowInv, RestoreOK, Quiet
  <2>7. mixed' # Users => \A q \in Recoveries : ~Restoring(q)
    BY <1>2
  <2> QED BY <2>2, <2>3, <2>4, <2>6, <2>7 DEF RestoreOK, Restoring
<1> QED BY <1>1, <1>2 DEF Validate, tables

\* The calls of a thread that are quiet.
LEMMA QuietStep ==
  ASSUME IInv, NEW p \in Threads,
         \/ Take(p) \/ LoginCheck(p) \/ LoginSeat(p) \/ LoginAuth(p) \/ LoginHmset(p)
         \/ Send(p) \/ Activity(p) \/ Validate(p) \/ QuitSess(p)
  PROVE  OnlyTakes /\ Quiet /\ (Validate(p) \/ UNCHANGED <<tables, mixed>>)
<1>1. Step(p) /\ ~LoginExpire(p)
  BY DEF Step, LoginStep, QuitStep, Take, LoginCheck, LoginSeat, LoginAuth, LoginHmset,
     Send, Activity, Validate, QuitSess, LoginExpire
<1>2. OnlyTakes
  BY <1>1, ThreadTakes
<1>3. UNCHANGED <<openRows, dump, unrowed, row, halfQuit>> /\ (Validate(p) \/ UNCHANGED <<tables, mixed>>)
  BY DEF rows, Take, LoginCheck, LoginSeat, LoginAuth, LoginHmset, Send, Activity, Validate,
     QuitSess, history
<1>6. mixed \subseteq mixed'
  BY <1>3 DEF Validate, IInv, TypeOK
<1>4. /\ pc[p] \notin {"q_auth", "commit"}
      /\ pc' = [pc EXCEPT ![p] = pc'[p]]
      /\ \A q \in Threads : q # p => job'[q] = job[q]
  <2>1. pc \in [Threads -> LoginPcs \cup QuitPcs \cup CopyPcs \cup {"idle", "activity", "validate", "send"}]
    BY DEF IInv, TypeOK
  <2>2. job \in [Threads -> Jobs \cup {NoJob}]
    BY DEF IInv, TypeOK
  <2>3. \E l : pc' = [pc EXCEPT ![p] = l]
    BY DEF Take, LoginCheck, LoginSeat, LoginAuth, LoginHmset, Send, Activity, Validate,
       QuitSess, Goto, Reply, Idle, Finish, RedisCall
  <2>4. job' = job \/ \E j : job' = [job EXCEPT ![p] = j] \/ job' = [job EXCEPT ![p].token = j]
    BY DEF Take, LoginCheck, LoginSeat, LoginAuth, LoginHmset, Send, Activity, Validate,
       QuitSess, Idle, Finish
  <2>5. pc[p] \notin {"q_auth", "commit"}
    BY DEF Take, LoginCheck, LoginSeat, LoginAuth, LoginHmset, Send, Activity, Validate,
       QuitSess
  <2> QED BY <2>1, <2>2, <2>3, <2>4, <2>5
<1>5. pc'[p] \in RowPcs => /\ job'[p] = job[p] /\ pc[p] \in RowPcs
                           /\ pc'[p] # "commit"
  <2>1. pc \in [Threads -> LoginPcs \cup QuitPcs \cup CopyPcs \cup {"idle", "activity", "validate", "send"}]
    BY DEF IInv, TypeOK
  <2>2. CASE LoginAuth(p) \/ LoginHmset(p)
    BY <2>1, <2>2 DEF LoginAuth, LoginHmset, RedisCall, Goto, Reply, RowPcs
  <2>3. CASE LoginCheck(p) \/ LoginSeat(p) \/ Send(p) \/ Activity(p) \/ Validate(p) \/ QuitSess(p)
    BY <2>1, <2>3 DEF LoginCheck, LoginSeat, Send, Activity, Validate, QuitSess, RedisCall,
       Goto, Reply, Idle, Finish, RowPcs
  <2>4. CASE Take(p)
    <3>1. Head(queue) \in Jobs
      BY <2>4 DEF Take, IInv, TypeOK
    <3> QED BY <2>1, <2>4, <3>1 DEF Take, FirstPc, Jobs, RowPcs
  <2> QED BY <2>2, <2>3, <2>4
<1> QED BY <1>2, <1>3, <1>4, <1>5, <1>6 DEF Quiet, IInv, TypeOK

\* What the rest of the steps does to the other threads and the other users:
\* the rows of their users, and they, stay as they are.
LEMMA RowStays ==
  ASSUME NEW q \in Threads, RowOK(q), pc'[q] = pc[q], job'[q] = job[q], row'[q] = row[q],
         raced \subseteq raced', mixed \subseteq mixed',
         pc[q] \in RowPcs /\ job[q].user \notin raced =>
             /\ openRows'[job[q].user] = openRows[job[q].user]
             /\ job[q].user \in unrowed' <=> job[q].user \in unrowed
  PROVE  RowOK(q)'
BY DEF RowOK, RowPcs

\* The insert of AddSession: between the stages of a recovery its user is mixed.
LEMMA LoginRowKeepsRows ==
  ASSUME IInv, RowInv, NEW p \in Threads, LoginRow(p)
  PROVE  RowInv'
<1> PICK u : u = job[p].user
  OBVIOUS
<1>1. /\ pc[p] = "row"
      /\ UNCHANGED <<auth, owner, openRows, dump, unrowed, tables, job, answered, raced, halfQuit>>
  BY DEF LoginRow, redis, history
<1>2. \/ /\ row' = [row EXCEPT ![p] = (openRows[u] = 0)]
         /\ pc' = [pc EXCEPT ![p] = "commit"]
         /\ table # "gone"
         /\ mixed' = IF openRows[u] = 0 /\ table = "empty" THEN mixed \cup {u} ELSE mixed
      \/ row' = row /\ pc' = [pc EXCEPT ![p] = "send"] /\ mixed' = mixed
  BY DEF LoginRow, Goto, Reply
<1>3. /\ pc \in [Threads -> LoginPcs \cup QuitPcs \cup CopyPcs \cup {"idle", "activity", "validate", "send"}]
      /\ row \in [Threads -> BOOLEAN] /\ table \in {"whole", "gone", "empty"} /\ mixed \subseteq Users
  BY DEF IInv, TypeOK
<1>4. mixed \subseteq mixed' /\ u \in Users
  BY <1>1, <1>2 DEF IInv, SessionInv, ThreadsInv, JobOK, LoginPcs
<1>5. ASSUME NEW q \in Threads PROVE RowOK(q)'
  <2>1. CASE q # p
    BY <1>1, <1>2, <1>3, <1>4, <2>1, RowStays DEF RowInv
  <2>2. CASE q = p /\ row' = row
    BY <1>1, <1>2, <1>3, <2>2 DEF RowInv, RowOK
  <2>3. CASE q = p /\ row' # row
    BY <1>1, <1>2, <1>3, <2>3 DEF RowInv, RowOK
  <2> QED BY <2>1, <2>2, <2>3
<1>6. LiveTokenHasRow'
  <2>1. \A q \in Threads : pc[q] = "q_auth" => pc'[q] = "q_auth"
    BY <1>1, <1>2, <1>3
  <2> QED BY <1>1, <2>1 DEF RowInv, LiveTokenHasRow, SeatToken
<1>7. RestoreOK'
  <2>1. CASE row' = row
    BY <1>1, <1>2, <1>4, <2>1 DEF RowInv, RestoreOK, Restoring, tables
  <2>2. CASE row' # row
    <3>1. ASSUME NEW r \in Recoveries, restore[r] \in {"create", "copy"}, u \notin mixed'
          PROVE  ~row'[p]
      <4>1. table = "empty"
        BY <1>2, <1>3, <1>4, <2>2, <3>1 DEF RowInv, RestoreOK
      <4> QED BY <1>2, <1>3, <2>2, <3>1, <4>1
    <3>2. \A q \in Threads : q # p => row'[q] = row[q]
      BY <1>2, <1>3
    <3>3. ASSUME NEW r \in Recoveries, restore'[r] \in {"create", "copy"}, NEW v \in Users \ mixed'
          PROVE  openRows'[v] = 0 /\ \A q \in Threads : row'[q] => job'[q].user # v
      BY <1>1, <1>4, <3>1, <3>2, <3>3 DEF RowInv, RestoreOK, tables
    <3>4. mixed' # Users => mixed # Users
      BY <1>2, <1>3, <1>4
    <3> QED BY <1>1, <3>3, <3>4 DEF RowInv, RestoreOK, Restoring, tables
  <2> QED BY <2>1, <2>2
<1>8. FewRows'
  BY <1>1, <1>4 DEF RowInv, FewRows
<1> QED BY <1>5, <1>6, <1>7, <1>8 DEF RowInv

\* Its commit: the user whose sign-in is alone has exactly one open row after it.
LEMMA LoginCommitKeepsRows ==
  ASSUME IInv, RowInv, NEW p \in Threads, LoginCommit(p)
  PROVE  RowInv'
<1> PICK u : u = job[p].user
  OBVIOUS
<1>1. /\ pc[p] = "commit" /\ UNCHANGED <<auth, owner, dump, mixed, tables, job, answered, raced, halfQuit>>
      /\ pc' = [pc EXCEPT ![p] = "auth"] /\ row' = [row EXCEPT ![p] = FALSE]
      /\ openRows' = IF row[p] THEN [openRows EXCEPT ![u] = @ + 1] ELSE openRows
      /\ unrowed' = IF row[p] THEN unrowed \ {u} ELSE unrowed
  BY DEF LoginCommit, redis, history, Goto
<1>2. /\ pc \in [Threads -> LoginPcs \cup QuitPcs \cup CopyPcs \cup {"idle", "activity", "validate", "send"}]
      /\ row \in [Threads -> BOOLEAN] /\ openRows \in [Users -> Nat]
  BY DEF IInv, TypeOK
<1>3. u \in Users /\ JobOK(p) /\ SeatOK(p) /\ RowOK(p)
  BY <1>1 DEF IInv, SessionInv, ThreadsInv, JobOK, LoginPcs, RowInv
<1>4. u \notin raced => /\ u \notin mixed => openRows'[u] <= 1
                        /\ openRows'[u] > 0 \/ u \in unrowed'
  <2>1. u \notin raced => /\ row[p] => openRows[u] = 0 \/ u \in mixed
                          /\ openRows[u] = 0 => row[p] \/ u \in unrowed
                          /\ u \notin mixed => openRows[u] <= 1
                          /\ openRows[u] \in Nat
    BY <1>1, <1>2, <1>3 DEF RowOK, RowInv, FewRows
  <2>2. CASE row[p]
    BY <1>1, <1>2, <1>3, <2>1, <2>2
  <2>3. CASE ~row[p]
    BY <1>1, <2>1, <2>3
  <2> QED BY <2>2, <2>3
<1>5. \A v \in Users : v # u => openRows'[v] = openRows[v] /\ (v \in unrowed' <=> v \in unrowed)
  BY <1>1, <1>2
<1>6. ASSUME NEW q \in Threads PROVE RowOK(q)'
  <2>1. CASE q = p
    BY <1>1, <1>2, <1>4, <2>1 DEF RowOK
  <2>2. CASE q # p
    <3>1. pc'[q] = pc[q] /\ job'[q] = job[q] /\ row'[q] = row[q] /\ RowOK(q)
      BY <1>1, <1>2, <2>2 DEF RowInv
    <3>2. ASSUME pc[q] \in RowPcs, job[q].user \notin raced
          PROVE  /\ openRows'[job[q].user] = openRows[job[q].user]
                 /\ job[q].user \in unrowed' <=> job[q].user \in unrowed
      <4>1. job[q].user \in Users
        BY <3>2 DEF IInv, SessionInv, ThreadsInv, JobOK, LoginPcs, RowPcs
      <4>2. Handles(q, job[q].user)
        BY <3>2 DEF Handles, SignInPcs, RowPcs
      <4>3. job[q].user # u
        BY <1>1, <1>3, <2>2, <3>2, <4>2 DEF SeatOK, SignInPcs
      <4> QED BY <1>5, <4>1, <4>3
    <3> QED BY <1>1, <3>1, <3>2, RowStays
  <2> QED BY <2>1, <2>2
<1>7. LiveTokenHasRow'
  <2> SUFFICES ASSUME NEW t \in Tokens, SeatToken(t)', owner'[t] \notin halfQuit' \cup unrowed'
               PROVE  \/ openRows'[owner'[t]] > 0
                      \/ \E q \in Threads : /\ pc'[q] = "q_auth" /\ job'[q].user = owner'[t]
                                            /\ job'[q].token = t
    BY DEF LiveTokenHasRow
  <2>1. /\ SeatToken(t) /\ owner'[t] = owner[t] /\ owner[t] \in Users
        /\ owner[t] \notin halfQuit \cup unrowed'
    BY <1>1 DEF SeatToken, IInv, SessionInv, AnsweredInv
  <2>2. owner[t] # u => \/ openRows[owner[t]] > 0
                       \/ \E q \in Threads : /\ pc[q] = "q_auth" /\ job[q].user = owner[t]
                                             /\ job[q].token = t
    BY <1>5, <2>1 DEF RowInv, LiveTokenHasRow
  <2>3. \A q \in Threads : pc[q] = "q_auth" => pc'[q] = "q_auth"
    BY <1>1, <1>2
  <2>4. owner[t] \notin raced
    BY <2>1 DEF SeatToken
  <2> QED BY <1>1, <1>4, <1>5, <2>1, <2>2, <2>3, <2>4
<1>8. FewRows'
  BY <1>1, <1>4, <1>5 DEF RowInv, FewRows
<1>9. RestoreOK'
  <2>1. \A q \in Threads : row'[q] => row[q]
    BY <1>1, <1>2
  <2>2. ASSUME NEW r \in Recoveries, restore'[r] \in {"create", "copy"}, NEW v \in Users \ mixed'
        PROVE  openRows'[v] = 0 /\ \A q \in Threads : row'[q] => job'[q].user # v
    <3>1. openRows[v] = 0 /\ (row[p] => u # v)
      BY <1>1, <2>2 DEF RowInv, RestoreOK, tables
    <3>2. openRows'[v] = openRows[v]
      BY <1>1, <1>5, <2>2, <3>1
    <3> QED BY <1>1, <2>1, <2>2, <3>1, <3>2 DEF RowInv, RestoreOK, tables
  <2> QED BY <1>1, <2>2 DEF RowInv, RestoreOK, Restoring, tables
<1> QED BY <1>6, <1>7, <1>8, <1>9 DEF RowInv

\* The end of a login: the token it returns has the row its commit made sure of.
LEMMA LoginExpireKeepsRows ==
  ASSUME IInv, RowInv, NEW p \in Threads, LoginExpire(p)
  PROVE  RowInv'
<1> PICK new : new = job[p].token
  OBVIOUS
<1>1. /\ pc[p] = "expire" /\ UNCHANGED <<auth, owner, job, row, raced, halfQuit>>
      /\ UNCHANGED <<openRows, dump, unrowed, mixed, tables>>
      /\ pc' = [pc EXCEPT ![p] = "send"]
      /\ answered' \subseteq answered \cup {new}
  BY DEF LoginExpire, RedisCall, Reply, rows
<1>2. pc \in [Threads -> LoginPcs \cup QuitPcs \cup CopyPcs \cup {"idle", "activity", "validate", "send"}]
  BY DEF IInv, TypeOK
<1>3. /\ owner[new] = job[p].user
      /\ job[p].user \notin raced \cup unrowed => openRows[job[p].user] > 0
  BY <1>1 DEF IInv, SessionInv, ThreadsInv, TokenOK, RowInv, RowOK
<1>4. ASSUME NEW q \in Threads PROVE RowOK(q)'
  BY <1>1, <1>2 DEF RowInv, RowOK
<1>5. LiveTokenHasRow'
  <2> SUFFICES ASSUME NEW t \in Tokens, SeatToken(t)', owner'[t] \notin halfQuit' \cup unrowed'
               PROVE  \/ openRows'[owner'[t]] > 0
                      \/ \E q \in Threads : /\ pc'[q] = "q_auth" /\ job'[q].user = owner'[t]
                                            /\ job'[q].token = t
    BY DEF LiveTokenHasRow
  <2>1. CASE t = new
    BY <1>1, <1>3, <2>1 DEF SeatToken
  <2>2. CASE t # new
    <3>1. SeatToken(t)
      BY <1>1, <2>2 DEF SeatToken
    <3>2. \A q \in Threads : pc[q] = "q_auth" => pc'[q] = "q_auth"
      BY <1>1, <1>2
    <3> QED BY <1>1, <3>1, <3>2 DEF RowInv, LiveTokenHasRow
  <2> QED BY <2>1, <2>2
<1>6. FewRows'
  BY <1>1 DEF RowInv, FewRows
<1>7. RestoreOK'
  BY <1>1, RestoreStays
<1> QED BY <1>4, <1>5, <1>6, <1>7 DEF RowInv

\* UpdateExitTime: the one token left is the one its quit is about to delete.
LEMMA QuitRowKeepsRows ==
  ASSUME IInv, RowInv, NEW p \in Threads, QuitRow(p)
  PROVE  RowInv'
<1> PICK u : u = job[p].user
  OBVIOUS
<1>1. /\ pc[p] = "q_row" /\ UNCHANGED <<auth, owner, row, answered, raced, halfQuit>>
      /\ UNCHANGED <<dump, unrowed, mixed, tables>>
      /\ pc' = [pc EXCEPT ![p] = "q_auth"]
      /\ \/ openRows' = [openRows EXCEPT ![u] = 0] /\ job' = job
         \/ openRows' = openRows /\ job' = job
         \/ openRows' = openRows /\ job' = [job EXCEPT ![p].user = NoUser]
  BY DEF QuitRow, redis, history, Goto
<1>2. /\ pc \in [Threads -> LoginPcs \cup QuitPcs \cup CopyPcs \cup {"idle", "activity", "validate", "send"}]
      /\ job \in [Threads -> Jobs \cup {NoJob}] /\ openRows \in [Users -> Nat]
  BY DEF IInv, TypeOK
<1>3. u \in Users /\ SeatOK(p) /\ Handles(p, u)
  BY <1>1 DEF IInv, SessionInv, ThreadsInv, JobOK, Handles, QuitPcs
<1>4. ASSUME NEW q \in Threads PROVE RowOK(q)'
  <2>1. CASE q = p
    BY <1>1, <1>2, <2>1 DEF RowInv, RowOK
  <2>2. CASE q # p
    <3>1. pc'[q] = pc[q] /\ job'[q] = job[q] /\ row'[q] = row[q] /\ RowOK(q)
      BY <1>1, <1>2, <2>2 DEF RowInv
    <3>2. ASSUME pc[q] \in RowPcs, job[q].user \notin raced
          PROVE  openRows'[job[q].user] = openRows[job[q].user]
      <4>1. job[q].user # u
        BY <1>3, <2>2, <3>2 DEF IInv, SessionInv, ThreadsInv, SeatOK, SignInPcs, RowPcs
      <4>2. job[q].user \in Users
        BY <3>2 DEF IInv, SessionInv, ThreadsInv, JobOK, LoginPcs, RowPcs
      <4> QED BY <1>1, <1>2, <4>1, <4>2
    <3> QED BY <1>1, <3>1, <3>2, RowStays
  <2> QED BY <2>1, <2>2
<1>5. LiveTokenHasRow'
  <2> SUFFICES ASSUME NEW t \in Tokens, SeatToken(t)', owner'[t] \notin halfQuit' \cup unrowed'
               PROVE  \/ openRows'[owner'[t]] > 0
                      \/ \E q \in Threads : /\ pc'[q] = "q_auth" /\ job'[q].user = owner'[t]
                                            /\ job'[q].token = t
    BY DEF LiveTokenHasRow
  <2>1. SeatToken(t) /\ owner'[t] = owner[t] /\ owner[t] \notin halfQuit \cup unrowed /\ owner[t] \in Users
    BY <1>1 DEF SeatToken, IInv, SessionInv, AnsweredInv
  <2>2. CASE openRows' = [openRows EXCEPT ![u] = 0] /\ job' = job /\ owner[t] = u
    <3>1. t \in Held(u) /\ u \notin raced
      BY <2>1, <2>2 DEF Held, SeatToken
    <3>2. t = job[p].token
      BY <1>1, <1>3, <3>1 DEF SeatOK
    <3> QED BY <1>1, <1>2, <2>1, <2>2, <3>2
  <2>3. CASE openRows'[owner[t]] = openRows[owner[t]]
    <3>1. \/ openRows[owner[t]] > 0
          \/ \E q \in Threads : pc[q] = "q_auth" /\ job[q].user = owner[t] /\ job[q].token = t
      BY <2>1 DEF RowInv, LiveTokenHasRow
    <3>2. \A q \in Threads : pc[q] = "q_auth" => pc'[q] = "q_auth" /\ job'[q] = job[q]
      BY <1>1, <1>2
    <3> QED BY <2>1, <2>3, <3>1, <3>2
  <2> QED BY <1>1, <1>2, <2>1, <2>2, <2>3
<1>6. FewRows'
  BY <1>1, <1>2 DEF RowInv, FewRows
<1>7. RestoreOK'
  <2>1. \A q \in Threads : row'[q] => job'[q].user = job[q].user
    BY <1>1, <1>2 DEF RowInv, RowOK
  <2>2. \A v \in Users : openRows[v] = 0 => openRows'[v] = 0
    BY <1>1, <1>2
  <2> QED BY <1>1, <2>1, <2>2 DEF RowInv, RestoreOK, Restoring, tables
<1> QED BY <1>4, <1>5, <1>6, <1>7 DEF RowInv

\* DEL auth:<token>: the token is dead, or its user has half quit.
LEMMA QuitAuthKeepsRows ==
  ASSUME IInv, RowInv, NEW p \in Threads, QuitAuth(p)
  PROVE  RowInv'
<1> PICK gone : gone = job[p].token
  OBVIOUS
<1>1. /\ pc[p] = "q_auth" /\ UNCHANGED <<owner, row, answered, raced>>
      /\ UNCHANGED <<openRows, dump, unrowed, mixed, tables, job>>
      /\ \/ auth' = [auth EXCEPT ![gone] = 0] /\ halfQuit' = halfQuit
         \/ auth' = auth /\ halfQuit' = halfQuit \cup ({job[p].user} \cap Users)
      /\ \E l \in {"q_sess", "send"} : pc' = [pc EXCEPT ![p] = l]
  BY DEF QuitAuth, RedisCall, Goto, Reply, rows
<1>2. /\ pc \in [Threads -> LoginPcs \cup QuitPcs \cup CopyPcs \cup {"idle", "activity", "validate", "send"}]
      /\ job \in [Threads -> Jobs \cup {NoJob}] /\ auth \in [Tokens -> 0..TTL]
  BY DEF IInv, TypeOK
<1>3. ASSUME NEW q \in Threads PROVE RowOK(q)'
  <2>1. CASE q = p
    BY <1>1, <1>2, <2>1 DEF RowInv, RowOK
  <2>2. CASE q # p
    <3>1. pc'[q] = pc[q] /\ job'[q] = job[q] /\ row'[q] = row[q] /\ RowOK(q)
      BY <1>1, <1>2, <2>2 DEF RowInv
    <3> QED BY <1>1, <3>1, RowStays
  <2> QED BY <2>1, <2>2
<1>4. LiveTokenHasRow'
  <2> SUFFICES ASSUME NEW t \in Tokens, SeatToken(t)', owner'[t] \notin halfQuit' \cup unrowed'
               PROVE  \/ openRows'[owner'[t]] > 0
                      \/ \E q \in Threads : /\ pc'[q] = "q_auth" /\ job'[q].user = owner'[t]
                                            /\ job'[q].token = t
    BY DEF LiveTokenHasRow
  <2>1. /\ auth'[t] > 0 /\ auth[t] > 0 /\ owner'[t] = owner[t] /\ owner[t] \in Users
        /\ owner[t] \notin halfQuit \cup unrowed /\ SeatToken(t)
    BY <1>1, <1>2 DEF SeatToken, IInv, SessionInv, AnsweredInv
  <2>2. \/ openRows[owner[t]] > 0
        \/ \E q \in Threads : pc[q] = "q_auth" /\ job[q].user = owner[t] /\ job[q].token = t
    BY <2>1 DEF RowInv, LiveTokenHasRow
  <2>3. ~(job[p].user = owner[t] /\ gone = t)
    BY <1>1, <1>2, <2>1
  <2>4. \A q \in Threads : q # p => pc'[q] = pc[q] /\ job'[q] = job[q]
    BY <1>1, <1>2
  <2> QED BY <1>1, <2>1, <2>2, <2>3, <2>4
<1>5. FewRows'
  BY <1>1 DEF RowInv, FewRows
<1>6. RestoreOK'
  BY <1>1, RestoreStays
<1> QED BY <1>3, <1>4, <1>5, <1>6 DEF RowInv

\* What keeps LiveTokenHasRow and RowOK while rows go: whoever loses his is remembered in
\* unrowed, and no thread moves but p, which is none of those the rows speak of.
LEMMA RowsGo ==
  ASSUME IInv, RowInv, NEW p, pc[p] \in CopyPcs \/ p \notin Threads,
         \A q \in Threads : q # p => pc'[q] = pc[q] /\ job'[q] = job[q],
         p \in Threads => pc'[p] \in {"idle", "stop"},
         UNCHANGED <<auth, owner, row, answered, halfQuit, mixed>>, raced \subseteq raced',
         openRows' \in [Users -> Nat], unrowed \subseteq unrowed',
         \A u \in Users : openRows[u] > 0 /\ openRows'[u] = 0 => u \in unrowed',
         \A q \in Threads : row[q] => openRows'[job[q].user] = 0 \/ job[q].user \in mixed \cup raced
  PROVE  LiveTokenHasRow' /\ \A q \in Threads : RowOK(q)'
<1>1. openRows \in [Users -> Nat]
  BY DEF IInv, TypeOK
<1>2. \A u \in Users : openRows[u] > 0 => openRows'[u] > 0 \/ u \in unrowed'
  BY <1>1
<1>3. ASSUME NEW q \in Threads PROVE RowOK(q)'
  <2>1. CASE q = p
    BY <2>1 DEF RowInv, RowOK, CopyPcs
  <2>2. CASE q # p /\ pc[q] \notin RowPcs
    BY <2>2 DEF RowInv, RowOK, RowPcs
  <2>3. CASE q # p /\ pc[q] \in RowPcs
    <3>1. RowOK(q) /\ pc'[q] = pc[q] /\ job'[q] = job[q] /\ row'[q] = row[q]
      BY <2>3 DEF RowInv
    <3>2. job[q].user \in Users
      BY <2>3 DEF IInv, SessionInv, ThreadsInv, JobOK, LoginPcs, RowPcs
    <3>3. openRows'[job[q].user] = 0 => openRows[job[q].user] = 0 \/ job[q].user \in unrowed'
      BY <1>1, <3>2
    <3> QED BY <1>2, <3>1, <3>2, <3>3 DEF RowOK
  <2> QED BY <2>1, <2>2, <2>3
<1>4. LiveTokenHasRow'
  <2> SUFFICES ASSUME NEW t \in Tokens, SeatToken(t)', owner'[t] \notin halfQuit' \cup unrowed'
               PROVE  \/ openRows'[owner'[t]] > 0
                      \/ \E q \in Threads : /\ pc'[q] = "q_auth" /\ job'[q].user = owner'[t]
                                            /\ job'[q].token = t
    BY DEF LiveTokenHasRow
  <2>1. /\ SeatToken(t) /\ owner'[t] = owner[t] /\ owner[t] \in Users
        /\ owner[t] \notin halfQuit \cup unrowed
    BY DEF SeatToken, IInv, SessionInv, AnsweredInv
  <2>2. \/ openRows[owner[t]] > 0
        \/ \E q \in Threads : pc[q] = "q_auth" /\ job[q].user = owner[t] /\ job[q].token = t
    BY <2>1 DEF RowInv, LiveTokenHasRow
  <2>3. \A q \in Threads : pc[q] = "q_auth" => pc'[q] = "q_auth" /\ job'[q] = job[q]
    BY DEF CopyPcs
  <2> QED BY <1>2, <2>1, <2>2, <2>3
<1> QED BY <1>3, <1>4

\* CreateBackup, and what RecoverDB itself does.
LEMMA CopyKeepsRows ==
  ASSUME IInv, RowInv, NEW p \in Threads, CopyStep(p)
  PROVE  RowInv'
<1>1. /\ UNCHANGED <<auth, owner, row, answered, halfQuit, mixed, tables>>
      /\ raced' = raced \/ Arrive(job[p].client, "Data")
      /\ pc[p] \in CopyPcs
  BY DEF CopyStep, CreateBackup, RecoverDB, StopActiveSession, Finish, CopyPcs, rows, redis, history
<1>2. raced \subseteq raced'
  BY <1>1 DEF Arrive
<1>3. /\ pc \in [Threads -> LoginPcs \cup QuitPcs \cup CopyPcs \cup {"idle", "activity", "validate", "send"}]
      /\ job \in [Threads -> Jobs \cup {NoJob}]
      /\ openRows \in [Users -> Nat] /\ dump \in [Users -> Nat]
  BY DEF IInv, TypeOK
<1>4. /\ pc'[p] \in {"idle", "stop"}
      /\ \A q \in Threads : q # p => pc'[q] = pc[q] /\ job'[q] = job[q]
  BY <1>3 DEF CopyStep, CreateBackup, RecoverDB, StopActiveSession, Finish, Idle, Goto
<1>5. /\ \/ openRows' = openRows /\ unrowed' = unrowed
         \/ openRows' \in {openRows, [u \in Users |-> 0]} /\ Unrowed
      /\ dump' = dump \/ dump' = openRows
  BY DEF CopyStep, CreateBackup, RecoverDB, StopActiveSession, rows
<1>6. openRows' = openRows \/ openRows' = [u \in Users |-> 0]
  BY <1>5
<1>7. /\ openRows' \in [Users -> Nat] /\ unrowed \subseteq unrowed'
      /\ \A u \in Users : openRows[u] > 0 /\ openRows'[u] = 0 => u \in unrowed'
  BY <1>3, <1>5 DEF Unrowed
<1>8. ASSUME NEW q \in Threads, row[q]
      PROVE  openRows'[job[q].user] = 0 \/ job[q].user \in mixed \cup raced
  <2>1. pc[q] = "commit" /\ (openRows[job[q].user] = 0 \/ job[q].user \in mixed \cup raced)
    BY <1>8 DEF RowInv, RowOK
  <2>2. job[q].user \in Users
    BY <2>1 DEF IInv, SessionInv, ThreadsInv, JobOK, LoginPcs
  <2> QED BY <1>6, <2>1, <2>2
<1>9. LiveTokenHasRow' /\ \A q \in Threads : RowOK(q)'
  BY <1>1, <1>2, <1>4, <1>7, <1>8, RowsGo
<1>10. FewRows'
  <2>1. \A u \in Users \ (raced' \cup mixed') : openRows[u] <= 1 /\ dump[u] <= 1
    BY <1>1, <1>2 DEF RowInv, FewRows
  <2>2. 0 <= 1
    OBVIOUS
  <2> QED BY <1>5, <1>6, <2>1, <2>2 DEF FewRows
<1>11. RestoreOK'
  <2>1. ASSUME NEW q \in Threads, row'[q] PROVE row[q] /\ job'[q].user = job[q].user
    <3>1. q # p
      BY <1>1, <2>1 DEF RowInv, RowOK, CopyPcs
    <3> QED BY <1>1, <1>4, <2>1, <3>1
  <2>2. \A v \in Users : openRows[v] = 0 => openRows'[v] = 0
    BY <1>6
  <2> QED BY <1>1, <2>1, <2>2 DEF RowInv, RestoreOK, Restoring, tables
<1> QED BY <1>9, <1>10, <1>11 DEF RowInv

\* pg_restore: no transaction has a row it has not committed when the tables go, and
\* COPY finds rows of nobody but the mixed.
LEMMA RestoreKeepsRows ==
  ASSUME IInv, RowInv, NEW r \in Recoveries, Restore(r)
  PROVE  RowInv'
<1>1. /\ UNCHANGED <<auth, owner, dump, row, pc, job, answered, raced, halfQuit, mixed, recoveries>>
      /\ restore[r] \in {"drop", "create", "copy"}
  BY DEF Restore, DropTables, CreateTables, CopyTables, redis, threads, history
<1>2. /\ restore \in [Recoveries -> {"none", "drop", "create", "copy", "exited"}]
      /\ openRows \in [Users -> Nat] /\ dump \in [Users -> Nat] /\ recoveries \in Nat
      /\ row \in [Threads -> BOOLEAN]
  BY DEF IInv, TypeOK
<1>3. mixed # Users => \A q \in Recoveries : q # r => ~Restoring(q)
  BY <1>1 DEF RowInv, RestoreOK, Restoring
<1>4. /\ \A q \in Recoveries : q # r => restore'[q] = restore[q]
      /\ restore'[r] # "none"
  BY <1>2 DEF Restore, DropTables, CreateTables, CopyTables
<1>5. \A q \in Recoveries : q > recoveries' => restore'[q] = "none"
  BY <1>1, <1>4 DEF RowInv, RestoreOK
<1>6. ASSUME NEW q \in Threads, row[q], pc[q] # "commit" PROVE FALSE
  BY <1>6 DEF RowInv, RowOK
<1>7. ASSUME NEW q \in Threads, row[q], openRows' = openRows
      PROVE  openRows'[job[q].user] = 0 \/ job[q].user \in mixed \cup raced
  BY <1>7 DEF RowInv, RowOK
<1>8. PICK nobody : nobody \notin Threads
  BY NoSetContainsEverything
<1>9. CASE DropTables(r)
  <2>1. /\ openRows' = [u \in Users |-> 0] /\ Unrowed /\ table' = "gone" /\ restore'[r] = "create"
        /\ \A q \in Threads : ~row[q]
    BY <1>2, <1>6, <1>9 DEF DropTables
  <2>2. LiveTokenHasRow' /\ \A q \in Threads : RowOK(q)'
    <3>1. openRows' \in [Users -> Nat] /\ unrowed \subseteq unrowed'
          /\ \A u \in Users : openRows[u] > 0 /\ openRows'[u] = 0 => u \in unrowed'
      BY <1>2, <2>1 DEF Unrowed
    <3> QED BY <1>1, <1>8, <2>1, <3>1, RowsGo
  <2>3. FewRows'
    <3>1. \A u \in Users : openRows'[u] <= 1
      BY <2>1
    <3> QED BY <1>1, <3>1 DEF RowInv, FewRows
  <2>4. RestoreOK'
    BY <1>1, <1>3, <1>4, <1>5, <2>1 DEF RestoreOK, Restoring
  <2> QED BY <2>2, <2>3, <2>4 DEF RowInv
<1>10. CASE CreateTables(r)
  <2>1. /\ UNCHANGED <<openRows, unrowed>> /\ restore[r] = "create" /\ restore'[r] = "copy"
        /\ table' = IF table = "gone" THEN "empty" ELSE table
    BY <1>2, <1>10 DEF CreateTables
  <2>2. LiveTokenHasRow' /\ \A q \in Threads : RowOK(q)'
    BY <1>1, <1>2, <1>7, <1>8, <2>1, RowsGo
  <2>3. FewRows'
    BY <1>1, <2>1 DEF RowInv, FewRows
  <2>4. mixed # Users => table' = "empty"
    BY <2>1 DEF RowInv, RestoreOK
  <2>5. \A q \in Recoveries : restore'[q] \in {"create", "copy"} => restore[q] \in {"create", "copy"}
    BY <1>4, <2>1
  <2>6. RestoreOK'
    BY <1>1, <1>3, <1>4, <1>5, <2>1, <2>4, <2>5 DEF RowInv, RestoreOK, Restoring
  <2> QED BY <2>2, <2>3, <2>6 DEF RowInv
<1>11. CASE CopyTables(r)
  <2>1. /\ UNCHANGED unrowed /\ restore[r] = "copy" /\ restore'[r] = "exited"
        /\ openRows' = [u \in Users |-> openRows[u] + dump[u]] \/ openRows' = openRows
    BY <1>2, <1>11 DEF CopyTables
  <2>2. \A u \in Users \ mixed : openRows[u] = 0 /\ \A q \in Threads : row[q] => job[q].user # u
    BY <2>1 DEF RowInv, RestoreOK
  <2>3. openRows' \in [Users -> Nat] /\ \A u \in Users : openRows[u] > 0 => openRows'[u] > 0
    BY <1>2, <2>1
  <2>4. ASSUME NEW q \in Threads, row[q] PROVE job[q].user \in mixed
    <3>1. job[q].user \in Users
      BY <1>6, <2>4 DEF IInv, SessionInv, ThreadsInv, JobOK, LoginPcs
    <3> QED BY <2>2, <2>4, <3>1
  <2>5. LiveTokenHasRow' /\ \A q \in Threads : RowOK(q)'
    <3>1. \A u \in Users : openRows[u] > 0 /\ openRows'[u] = 0 => u \in unrowed'
      BY <1>2, <2>3
    <3> QED BY <1>1, <1>8, <2>1, <2>3, <2>4, <3>1, RowsGo
  <2>6. FewRows'
    BY <1>1, <1>2, <2>1, <2>2 DEF RowInv, FewRows
  <2>7. RestoreOK'
    <3>1. CASE mixed = Users
      BY <1>1, <1>5, <3>1 DEF RestoreOK
    <3>2. CASE mixed # Users
      BY <1>1, <1>3, <1>4, <1>5, <2>1, <3>2 DEF RestoreOK, Restoring
    <3> QED BY <3>1, <3>2
  <2> QED BY <2>5, <2>6, <2>7 DEF RowInv
<1> QED BY <1>9, <1>10, <1>11 DEF Restore

\* A crash: the quits it cuts short are remembered in halfQuit.
LEMMA CrashKeepsRows ==
  ASSUME IInv, RowInv, Crash
  PROVE  RowInv'
<1>1. /\ UNCHANGED <<auth, owner, openRows, dump, unrowed, mixed, tables, answered, raced>>
      /\ pc' = [p \in Threads |-> "idle"] /\ row' = [p \in Threads |-> FALSE]
      /\ halfQuit' = halfQuit \cup {u \in Users :
                        \E p \in Threads : pc[p] = "q_auth" /\ job[p].user = u}
  BY DEF Crash, redis, rows
<1>2. \A q \in Threads : RowOK(q)'
  BY <1>1 DEF RowOK
<1>3. LiveTokenHasRow'
  <2> SUFFICES ASSUME NEW t \in Tokens, SeatToken(t)', owner'[t] \notin halfQuit' \cup unrowed'
               PROVE  openRows'[owner'[t]] > 0
    BY DEF LiveTokenHasRow
  <2>1. SeatToken(t) /\ owner'[t] = owner[t] /\ owner[t] \in Users
    BY <1>1 DEF SeatToken, IInv, SessionInv, AnsweredInv
  <2> QED BY <1>1, <2>1 DEF RowInv, LiveTokenHasRow
<1>4. FewRows'
  BY <1>1 DEF RowInv, FewRows
<1>5. RestoreOK'
  BY <1>1, RestoreStays
<1> QED BY <1>2, <1>3, <1>4, <1>5 DEF RowInv

\* The clock and the clients touch no thread and no row.
LEMMA OutsideKeepsRows ==
  ASSUME IInv, RowInv, Tick \/ \E c \in Clients : ClientStep(c)
  PROVE  RowInv'
<1>1. CASE Tick
  <2>1. \A t \in answered : auth'[t] > 0 => auth[t] > 0
    BY <1>1, TTLAssumption DEF Tick, Older, IInv, TypeOK
  <2>2. OnlyTakes /\ Quiet
    BY <1>1, <2>1 DEF OnlyTakes, Quiet, Tick, threads, rows, history
  <2> QED BY <1>1, <2>2, QuietKeeps, QuietRestore DEF Tick, rows
<1>2. ASSUME NEW c \in Clients, ClientStep(c) PROVE RowInv'
  <2>1. UNCHANGED <<redis, rows, threads, history>>
    BY <1>2 DEF ClientStep, SendLogin, ReadLoginReply, SendRequest, CloseWindow, ClientDies,
       ClientStarts
  <2>2. OnlyTakes /\ Quiet
    BY <2>1 DEF OnlyTakes, Quiet, redis, rows, threads, history
  <2> QED BY <2>1, <2>2, QuietKeeps, QuietRestore DEF rows
<1> QED BY <1>1, <1>2

\* Every step keeps the rows in order.
LEMMA RowsKept ==
  ASSUME IInv, RowInv, [Next]_vars
  PROVE  RowInv'
<1>1. ASSUME NEW p \in Threads, Step(p) PROVE RowInv'
  BY <1>1, QuietStep, QuietKeeps, QuietRestore, BeginRestores, LoginRowKeepsRows, LoginCommitKeepsRows, LoginExpireKeepsRows,
     QuitRowKeepsRows, QuitAuthKeepsRows, CopyKeepsRows DEF Step, LoginStep, QuitStep
<1>2. CASE UNCHANGED vars
  <2>1. OnlyTakes /\ Quiet
    BY <1>2 DEF vars, redis, rows, threads, history, OnlyTakes, Quiet
  <2> QED BY <1>2, <2>1, QuietKeeps, QuietRestore DEF vars, rows
<1> QED BY <1>1, <1>2, OutsideKeepsRows, CrashKeepsRows, RestoreKeepsRows DEF Next

\* The rows stay in order along every behaviour: pg_restore commits its statements one by
\* one, and between DROP and COPY the table has rows of nobody but the mixed.
THEOREM RowsInOrder == Spec => []RowInv
<1>1. IInv /\ RowInv /\ [Next]_vars => RowInv'
  BY RowsKept
<1> QED BY <1>1, RowInit, Invariance, PTL DEF Spec

\* AddSession's EXISTS and the commit that follows it leave a user whose sign-ins
\* do not overlap, and who did not sign in between the stages of a recovery, with one
\* open row at most, whatever fails between the calls.
THEOREM OneRowPerUser == Spec => []OneOpenRow
<1>1. RowInv => OneOpenRow
  BY DEF RowInv, FewRows, RowOK, OneOpenRow, Handles
<1> QED BY <1>1, RowsInOrder, PTL

\* No token is honoured without its row in the audit table, but for the quits that
\* closed the row and were cut short before they deleted the token, and for whom a
\* recovery took the row from.
THEOREM TokensHaveRows == Spec => []LiveTokenHasRow
<1>1. RowInv => LiveTokenHasRow
  BY DEF RowInv
<1> QED BY <1>1, RowsInOrder, PTL
=============================================================================
