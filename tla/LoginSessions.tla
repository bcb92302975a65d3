---------------------------- MODULE LoginSessions ----------------------------
(***************************************************************************)
(* Who is signed in: the Login, QuitSession, MakeDBCopy and RecoverDB      *)
(* handlers of the server's Worker, and the checks every request makes,    *)
(* as the threads of the pool interleave them, over the three places that  *)
(* record a sign-in:                                                       *)
(*                                                                         *)
(*   auth:<token>     Redis key, its value the user's id, TTL 3600 s;      *)
(*                    the only thing a request is authorised by            *)
(*   session:<id>     Redis hash, TTL 3600 s; its existence is the "seat"  *)
(*                    a second login is refused for                        *)
(*   permission_app.sessions   PostgreSQL rows, open while exit_at IS NULL *)
(*                                                                         *)
(* One action is one call on Redis or one PostgreSQL transaction (or the   *)
(* statement that fixes its outcome and its commit, where another thread   *)
(* can tell them apart). What is published on users:activity is in         *)
(* ClientWindow; what the other requests do is in PermissionStore.         *)
(***************************************************************************)
EXTENDS Integers, Sequences

CONSTANTS
    Users,      \* accounts of permission_app.users
    Clients,    \* running copies of the Qt client, one connection each
    Threads,    \* threads of the pool (NUMBER_OF_THREADS)
    Tokens,     \* the uuids GenerateToken may return, each at most once
    TTL,        \* the 3600 seconds, counted in ticks of the model
    NoUser,     \* the id -1 that UserID returns when its query fails
    NoToken,    \* no token: a login form, an idle thread
    MaxQueue,   \* bound: tasks waiting in the pool
    MaxLogins,  \* bound: login requests sent
    MaxTroubles, \* bound: failing calls on Redis or PostgreSQL, restarts and recoveries
    MaxRecoveries \* bound: recoveries

\* Answers that are not a token: Login's (both "Invalid ..." texts are one) and
\* "Data", whatever else a request is answered.
Texts == {"Invalid", "Session exists", "Error", "Data"}

ASSUME TTLAssumption == TTL \in Nat \ {0}
ASSUME NameAssumption ==
    /\ NoUser \notin Users
    /\ NoToken \notin Tokens \cup Texts
    /\ Tokens \cap Texts = {}
ASSUME BoundAssumption == {MaxQueue, MaxLogins, MaxTroubles, MaxRecoveries} \subseteq Nat

Recoveries == 1..MaxRecoveries

Forever == TTL + 1   \* a key that exists and has no TTL
Answers == Tokens \cup Texts

VARIABLES
    auth,       \* token -> time to live of auth:<token>, 0 when there is no key
    owner,      \* token -> the user id stored in auth:<token>
    session,    \* user -> time to live of session:<id>, 0 when there is no key
    openRows,   \* user -> committed rows of sessions with exit_at NULL
    dump,       \* user -> open rows in the backup file, at first an old and empty one
    table,      \* the tables of the schema: "whole", "gone", or "empty" (made again)
    restore,    \* recovery -> what its pg_restore does next
    queue,      \* tasks posted to the pool, first in first out
    pc,         \* thread -> the call its handler makes next
    job,        \* thread -> the task it works on
    row,        \* thread -> AddSession has inserted a row, not yet committed
    answer,     \* thread -> what it is about to send
    child,      \* thread -> the recovery whose pg_restore it waits for, or 0
    client,     \* client -> what its window shows
    pending,    \* client -> logins it has sent and was sent no answer to
    issued,     \* tokens GenerateToken has returned
    answered,   \* history: tokens Login has returned
    raced,      \* history: users whose sign-in overlapped their own sign-in/out,
                \*   or whose form took another user's honoured token for its own
    halfQuit,   \* history: users whose row a quit closed and whose token it left
    unrowed,    \* history: users whose open row a recovery took away
    mixed,      \* history: users whose row came between the stages of a recovery
    logins, troubles, recoveries   \* counters of the bounds

redis    == <<auth, owner, session>>
tables   == <<table, restore, recoveries>>
rows     == <<openRows, dump, unrowed, mixed, tables>>
threads  == <<pc, job, row, answer, child>>
forms    == <<client, pending>>
history  == <<issued, answered, raced, halfQuit>>
counters == <<logins, troubles>>
vars == <<redis, rows, queue, threads, forms, history, counters>>

Jobs == [op: {"Login", "Request", "Quit"}, client: Clients,
         user: Users \cup {NoUser}, token: Answers \cup {NoToken}]
NoJob == [op |-> "None"]

LoginPcs == {"check", "seat", "row", "commit", "auth", "hmset", "expire"}
QuitPcs  == {"q_row", "q_auth", "q_sess"}
CopyPcs  == {"backup", "restore", "stop"}
\* From the check of the seat to the moment the seat is taken for TTL.
SignInPcs == {"row", "commit", "auth", "hmset", "expire"}

Live(t) == t \in Tokens /\ auth[t] > 0

\* A pg_restore at work.
Restoring(r) == restore[r] \in {"drop", "create", "copy"}

\* Thread p is signing user u in or out right now.
Handles(p, u) == /\ pc[p] \in SignInPcs \cup QuitPcs
                 /\ job[p].user = u

-----------------------------------------------------------------------------
Init ==
    /\ auth = [t \in Tokens |-> 0]
    /\ owner = [t \in Tokens |-> NoUser]
    /\ session = [u \in Users |-> 0]
    /\ openRows = [u \in Users |-> 0] /\ dump = openRows
    /\ table = "whole" /\ restore = [r \in Recoveries |-> "none"]
    /\ queue = <<>>
    /\ pc = [p \in Threads |-> "idle"]
    /\ job = [p \in Threads |-> NoJob]
    /\ row = [p \in Threads |-> FALSE]
    /\ answer = [p \in Threads |-> NoToken]
    /\ child = [p \in Threads |-> 0]
    /\ client = [c \in Clients |-> [st |-> "hello", user |-> NoUser, token |-> NoToken]]
    /\ pending = [c \in Clients |-> 0]
    /\ issued = {} /\ answered = {} /\ raced = {} /\ halfQuit = {} /\ unrowed = {} /\ mixed = {}
    /\ logins = 0 /\ troubles = 0 /\ recoveries = 0

-----------------------------------------------------------------------------
(* Redis expires keys. *)
Older(ttl) == IF ttl \in 1..TTL THEN ttl - 1 ELSE ttl

Tick ==
    /\ \/ \E t \in Tokens : auth[t] > 0
       \/ \E u \in Users : session[u] \in 1..TTL
    /\ auth' = [t \in Tokens |-> Older(auth[t])]
    /\ session' = [u \in Users |-> Older(session[u])]
    /\ UNCHANGED <<owner, rows, queue, threads, forms, history, counters>>

-----------------------------------------------------------------------------
(* The client. *)
Post(tasks) ==
    /\ Len(queue) + Len(tasks) <= MaxQueue
    /\ queue' = queue \o tasks

Task(op, c, u, t) == [op |-> op, client |-> c, user |-> u, token |-> t]

Show(c, st, u, t) == client' = [client EXCEPT ![c] = [st |-> st, user |-> u, token |-> t]]

\* LoginButtonClicked: send Login, then block in ReadResponse.
SendLogin(c, u) ==
    /\ client[c].st = "hello"
    /\ logins < MaxLogins
    /\ logins' = logins + 1
    /\ Post(<<Task("Login", c, u, NoToken)>>)
    /\ Show(c, "waiting", u, NoToken)
    /\ pending' = [pending EXCEPT ![c] = @ + 1]
    /\ UNCHANGED <<redis, rows, threads, history, troubles>>

\* An answer reaches client c. A form that waits in ReadResponse takes whatever
\* comes next, were it the answer to what the window before it asked last; or
\* the async_read that Connect started takes it, whose HandleMessage has
\* nothing to do for a form: then the form stays frozen unless more comes.
Arrive(c, a) ==
    \/ /\ client[c].st = "waiting"
       /\ Show(c, "answered", client[c].user, a)
       /\ raced' = IF Live(a) /\ owner[a] # client[c].user
                   THEN raced \cup {client[c].user} ELSE raced
    \/ UNCHANGED <<client, raced>>

\* ReadResponse returns: two answers keep the form, any other one is the token
\* of a new main window, which asks for the role and the files at once. The
\* second message is lost if it lies behind the first (ServerFraming).
ReadLoginReply(c) ==
    LET u == client[c].user
        a == client[c].token
    IN  /\ client[c].st = "answered"
        /\ \/ /\ a \in {"Invalid", "Session exists"}
              /\ Show(c, "hello", NoUser, NoToken)
              /\ UNCHANGED queue
           \/ /\ a \notin {"Invalid", "Session exists"}
              /\ Show(c, "main", u, a)
              /\ \/ Post(<<Task("Request", c, u, a), Task("Request", c, u, a)>>)
                 \/ Post(<<Task("Request", c, u, a)>>)
        /\ UNCHANGED <<redis, rows, threads, pending, history, counters>>

\* Any button of the main window.
SendRequest(c) ==
    /\ client[c].st = "main"
    /\ Post(<<Task("Request", c, client[c].user, client[c].token)>>)
    /\ UNCHANGED <<redis, rows, threads, forms, history, counters>>

\* closeEvent sends QuitSession and does not wait.
CloseWindow(c) ==
    /\ client[c].st = "main"
    /\ Post(<<Task("Quit", c, client[c].user, client[c].token)>>)
    /\ Show(c, "hello", NoUser, NoToken)
    /\ UNCHANGED <<redis, rows, threads, pending, history, counters>>

\* The process is killed or the connection breaks: no QuitSession.
ClientDies(c) ==
    /\ client[c].st # "hello" /\ client[c].st # "gone"
    /\ Show(c, "gone", NoUser, NoToken)
    /\ UNCHANGED <<redis, rows, queue, threads, pending, history, counters>>

\* The slot's next process has a connection of its own: nothing of the old one
\* is under way any more.
ClientStarts(c) ==
    /\ client[c].st = "gone"
    /\ \A i \in DOMAIN queue : queue[i].client # c
    /\ \A p \in Threads : pc[p] # "idle" => job[p].client # c
    /\ Show(c, "hello", NoUser, NoToken)
    /\ UNCHANGED <<redis, rows, queue, threads, pending, history, counters>>

-----------------------------------------------------------------------------
(* The pool. *)
FirstPc(op) == CASE op = "Login"   -> "check"
                 [] op = "Request" -> "activity"
                 [] op = "Quit"    -> "validate"

Take(p) ==
    /\ pc[p] = "idle"
    /\ queue # <<>>
    /\ job' = [job EXCEPT ![p] = Head(queue)]
    /\ pc' = [pc EXCEPT ![p] = FirstPc(Head(queue).op)]
    /\ queue' = Tail(queue)
    /\ UNCHANGED <<redis, rows, row, answer, child, forms, history, counters>>

Goto(p, l) == pc' = [pc EXCEPT ![p] = l]

Idle(p) == /\ pc' = [pc EXCEPT ![p] = "idle"]
           /\ job' = [job EXCEPT ![p] = NoJob]

Reply(p, a) == /\ pc' = [pc EXCEPT ![p] = "send"]
               /\ answer' = [answer EXCEPT ![p] = a]

\* The handler is done and its answer is on its way to the client.
Finish(p, a) == Idle(p) /\ Arrive(job[p].client, a)

\* One of the troubles there may be: in a handler, a call that throws an
\* exception the handler catches.
Fault == /\ troubles < MaxTroubles
         /\ troubles' = troubles + 1

\* A call that must fail because of cond, and may fail without it.
FailsIf(cond) == IF cond THEN UNCHANGED troubles ELSE Fault

-----------------------------------------------------------------------------
(* Worker::Login and Worker::CreateSession. *)

\* UserID and GetSaltAndPassword; with UserID's -1 CreateSession looks at
\* session:-1 and then violates the foreign key of sessions. During a recovery
\* there is nobody to find; while there is no table GetSaltAndPassword throws
\* out of the thread (Crash).
LoginCheck(p) ==
    /\ pc[p] = "check"
    /\ table # "gone"
    /\ \/ Reply(p, "Invalid") /\ UNCHANGED troubles
       \/ table = "whole" /\ Goto(p, "seat") /\ UNCHANGED <<answer, troubles>>
       \/ Fault /\ \E a \in {"Error", "Session exists"} : Reply(p, a)
    /\ UNCHANGED <<redis, rows, queue, job, row, child, forms, history, logins>>

\* Mutant: IsUserActive is not asked.
LoginSeatUnchecked(p) ==
    /\ pc[p] = "seat"
    /\ \E t \in Tokens \ issued :
          /\ issued' = issued \cup {t}
          /\ job' = [job EXCEPT ![p].token = t]
    /\ Goto(p, "row")
    /\ UNCHANGED <<redis, rows, queue, row, answer, child, forms, answered, raced, halfQuit, counters>>

\* Mutant: GenerateToken returns a uuid it has returned before.
LoginSeatReused(p) ==
    /\ pc[p] = "seat"
    /\ session[job[p].user] = 0
    /\ \E t \in Tokens :
          /\ issued' = issued \cup {t}
          /\ job' = [job EXCEPT ![p].token = t]
    /\ Goto(p, "row")
    /\ UNCHANGED <<redis, rows, queue, row, answer, child, forms, answered, raced, halfQuit, counters>>

\* IsUserActive.
LoginSeat(p) ==
    LET u == job[p].user
    IN  /\ pc[p] = "seat"
        /\ \/ /\ session[u] # 0
              /\ Reply(p, "Session exists")
              /\ UNCHANGED <<job, issued, raced>>
           \/ /\ session[u] = 0
              /\ \E t \in Tokens \ issued :
                    /\ issued' = issued \cup {t}
                    /\ job' = [job EXCEPT ![p].token = t]
              /\ raced' = IF \E q \in Threads : Handles(q, u) THEN raced \cup {u} ELSE raced
              /\ Goto(p, "row")
              /\ UNCHANGED answer
        /\ UNCHANGED <<redis, rows, queue, row, child, forms, answered, halfQuit, counters>>

\* Mutant: AddSession without its EXISTS.
LoginRowAlways(p) ==
    /\ pc[p] = "row"
    /\ row' = [row EXCEPT ![p] = TRUE]
    /\ Goto(p, "commit")
    /\ UNCHANGED <<redis, rows, queue, job, answer, child, forms, history, counters>>

\* AddSession inserts a row unless a committed one is open; its FALSE is ignored.
\* In a table that a recovery has made again it sees none of the rows to come.
LoginRow(p) ==
    LET u == job[p].user
        none == openRows[u] = 0
    IN  /\ pc[p] = "row"
        /\ \/ /\ table # "gone"
              /\ row' = [row EXCEPT ![p] = none]
              /\ mixed' = IF none /\ table = "empty" THEN mixed \cup {u} ELSE mixed
              /\ Goto(p, "commit")
              /\ UNCHANGED <<answer, troubles>>
           \/ FailsIf(table = "gone") /\ Reply(p, "Error") /\ UNCHANGED <<row, mixed>>
        /\ UNCHANGED <<redis, openRows, dump, unrowed, tables, queue, job, child, forms,
                       history, logins>>

\* Mutant: the function returns before work.commit(), as GetSaltAndPassword does.
LoginCommitLost(p) ==
    /\ pc[p] = "commit"
    /\ row' = [row EXCEPT ![p] = FALSE]
    /\ Goto(p, "auth")
    /\ UNCHANGED <<redis, rows, queue, job, answer, child, forms, history, counters>>

LoginCommit(p) ==
    /\ pc[p] = "commit"
    /\ openRows' = IF row[p] THEN [openRows EXCEPT ![job[p].user] = @ + 1] ELSE openRows
    /\ unrowed' = IF row[p] THEN unrowed \ {job[p].user} ELSE unrowed
    /\ row' = [row EXCEPT ![p] = FALSE]
    /\ Goto(p, "auth")
    /\ UNCHANGED <<redis, dump, mixed, tables, queue, job, answer, child, forms, history, counters>>

\* Thread p's next Redis call, with its effect Do if it is executed; the
\* handler goes on to Ok, or to Failed when the call throws. A call that throws
\* may have been executed: what is lost then is its reply.
RedisCall(Do, Undone, Ok, Failed) ==
    \/ Do /\ Ok /\ UNCHANGED troubles
    \/ (Do \/ Undone) /\ Failed /\ Fault

\* Mutant: SET without EX.
LoginAuthForever(p) ==
    /\ pc[p] = "auth"
    /\ auth' = [auth EXCEPT ![job[p].token] = Forever]
    /\ owner' = [owner EXCEPT ![job[p].token] = job[p].user]
    /\ Goto(p, "hmset")
    /\ UNCHANGED <<session, rows, queue, job, row, answer, child, forms, history, counters>>

\* Mutant: the exception of SET ends the request and nothing is answered.
LoginAuthSilent(p) ==
    LET t == job[p].token
    IN  /\ pc[p] = "auth"
        /\ RedisCall(auth' = [auth EXCEPT ![t] = TTL] /\ owner' = [owner EXCEPT ![t] = job[p].user],
                     UNCHANGED <<auth, owner>>,
                     Goto(p, "hmset") /\ UNCHANGED job,
                     Idle(p))
        /\ UNCHANGED <<session, rows, queue, row, answer, child, forms, history, logins>>

\* SET auth:<token> <id> EX 3600
LoginAuth(p) ==
    LET t == job[p].token
    IN  /\ pc[p] = "auth"
        /\ RedisCall(auth' = [auth EXCEPT ![t] = TTL] /\ owner' = [owner EXCEPT ![t] = job[p].user],
                     UNCHANGED <<auth, owner>>,
                     Goto(p, "hmset") /\ UNCHANGED answer,
                     Reply(p, "Error"))
        /\ UNCHANGED <<session, rows, queue, job, row, child, forms, history, logins>>

\* HMSET and HSET make the key without a TTL, and keep the TTL of a key there is.
Touch(ttl) == IF ttl = 0 THEN Forever ELSE ttl

\* SaveActiveSession: HMSET session:<id>, then EXPIRE, which needs the key.
LoginHmset(p) ==
    /\ pc[p] = "hmset"
    /\ RedisCall(session' = [session EXCEPT ![job[p].user] = Touch(@)],
                 UNCHANGED session,
                 Goto(p, "expire") /\ UNCHANGED answer,
                 Reply(p, "Error"))
    /\ UNCHANGED <<auth, owner, rows, queue, job, row, child, forms, history, logins>>

LoginExpire(p) ==
    LET t == job[p].token
    IN  /\ pc[p] = "expire"
        /\ RedisCall(session' = [session EXCEPT ![job[p].user] = IF @ = 0 THEN 0 ELSE TTL],
                     UNCHANGED session,
                     Reply(p, t) /\ answered' = answered \cup {t},
                     Reply(p, "Error") /\ UNCHANGED answered)
        /\ UNCHANGED <<auth, owner, rows, queue, job, row, child, forms,
                       issued, raced, halfQuit, logins>>

\* SendResponse of Login and of QuitSession.
Send(p) ==
    /\ pc[p] = "send"
    /\ Finish(p, answer[p])
    /\ answer' = [answer EXCEPT ![p] = NoToken]
    /\ pending' = IF job[p].op = "Login" THEN [pending EXCEPT ![job[p].client] = @ - 1] ELSE pending
    /\ UNCHANGED <<redis, rows, queue, row, child, issued, answered, halfQuit, counters>>

-----------------------------------------------------------------------------
(* ProccessOperation: UpdateActivity comes before ValidateRequest. *)

\* Mutant: a request renews its token, before anybody looked whether it is live.
ActivityRenews(p) ==
    /\ pc[p] = "activity"
    /\ session' = [session EXCEPT ![job[p].user] = Touch(@)]
    /\ auth' = [t \in Tokens |-> IF t = job[p].token THEN TTL ELSE auth[t]]
    /\ Goto(p, "validate")
    /\ UNCHANGED <<owner, rows, queue, job, row, answer, child, forms, history, counters>>

\* UserID, which finds nobody during a recovery, and HSET session:<id>.
Activity(p) ==
    /\ pc[p] = "activity"
    /\ Goto(p, "validate")
    /\ \/ session' = [session EXCEPT ![job[p].user] = Touch(@)] /\ UNCHANGED troubles
       \/ FailsIf(table # "whole") /\ UNCHANGED session
    /\ UNCHANGED <<auth, owner, rows, queue, job, row, answer, child, forms, history, logins>>

\* Without the key the request is dropped and nothing is answered. A request of
\* root may be one for a backup or a recovery, which starts a pg_restore.
Validate(p) ==
    LET j == job[p]
        r == recoveries + 1
    IN  /\ pc[p] = "validate"
        /\ \/ /\ ~Live(j.token)
              /\ Idle(p)
              /\ UNCHANGED <<tables, mixed, child, client, raced, troubles>>
           \/ /\ Live(j.token) /\ j.op = "Quit"
              /\ Goto(p, "q_row")
              /\ UNCHANGED <<job, tables, mixed, child, client, raced, troubles>>
           \/ /\ Live(j.token) /\ j.op = "Request"
              /\ Finish(p, "Data")
              /\ UNCHANGED <<tables, mixed, child, troubles>>
           \/ /\ Live(j.token) /\ j.op = "Request" /\ MaxRecoveries > 0
              /\ Goto(p, "backup")
              /\ UNCHANGED <<job, tables, mixed, child, client, raced, troubles>>
           \/ /\ Live(j.token) /\ j.op = "Request" /\ r \in Recoveries
              /\ Fault
              /\ recoveries' = r
              /\ restore' = [restore EXCEPT ![r] = "drop"]
              /\ mixed' = IF \E q \in Recoveries : Restoring(q) THEN Users ELSE mixed
              /\ child' = [child EXCEPT ![p] = r]
              /\ Goto(p, "restore")
              /\ UNCHANGED <<job, table, client, raced>>
        /\ UNCHANGED <<redis, openRows, dump, unrowed, queue, row, answer, pending,
                       issued, answered, halfQuit, logins>>

(* Worker::Quit. *)

\* Mutant: a quit closes one row.
QuitRowCountsDown(p) ==
    /\ pc[p] = "q_row"
    /\ openRows' = [openRows EXCEPT ![job[p].user] = @ - 1]
    /\ Goto(p, "q_auth")
    /\ UNCHANGED <<redis, dump, unrowed, mixed, tables, queue, job, row, answer, child, forms, history, counters>>

\* UserID, then UpdateExitTime on every row of the user, then the commit. When
\* UserID finds nobody the rest is done for its -1 or 0; when UpdateExitTime
\* fails the rest is done all the same.
QuitRow(p) ==
    /\ pc[p] = "q_row"
    /\ \/ openRows' = [openRows EXCEPT ![job[p].user] = 0] /\ UNCHANGED <<job, troubles>>
       \/ Fault /\ UNCHANGED <<openRows, job>>
       \/ /\ FailsIf(table # "whole")
          /\ job' = [job EXCEPT ![p].user = NoUser]
          /\ UNCHANGED openRows
    /\ Goto(p, "q_auth")
    /\ UNCHANGED <<redis, dump, unrowed, mixed, tables, queue, row, answer, child, forms, history, logins>>

\* Mutant: each DEL with a try of its own, the seat given up all the same.
QuitAuthGoesOn(p) ==
    /\ pc[p] = "q_auth"
    /\ RedisCall(auth' = [auth EXCEPT ![job[p].token] = 0], UNCHANGED auth,
                 Goto(p, "q_sess"), Goto(p, "q_sess"))
    /\ UNCHANGED <<owner, session, rows, queue, job, row, answer, child, forms, history, logins>>

\* DEL auth:<token>; an exception skips DEL session:<id>. The answer is the
\* token either way.
QuitAuth(p) ==
    LET t == job[p].token
    IN  /\ pc[p] = "q_auth"
        /\ RedisCall(auth' = [auth EXCEPT ![t] = 0] /\ UNCHANGED halfQuit,
                     UNCHANGED auth /\ halfQuit' = halfQuit \cup ({job[p].user} \cap Users),
                     Goto(p, "q_sess") /\ UNCHANGED answer,
                     Reply(p, t))
        /\ UNCHANGED <<owner, session, rows, queue, job, row, child, forms,
                       issued, answered, raced, logins>>

\* DEL session:<id>
QuitSess(p) ==
    LET u == job[p].user
    IN  /\ pc[p] = "q_sess"
        /\ \/ session' = [v \in Users |-> IF v = u THEN 0 ELSE session[v]] /\ UNCHANGED troubles
           \/ UNCHANGED session /\ Fault
        /\ Reply(p, job[p].token)
        /\ UNCHANGED <<auth, owner, rows, queue, job, row, child, forms, history, logins>>

-----------------------------------------------------------------------------
(* Worker::CreateBackup and Worker::RecoverDB. *)

\* pg_dump: what is committed. One that finds no table is not followed: the file
\* keeps what it holds.
CreateBackup(p) ==
    /\ pc[p] = "backup"
    /\ \/ table # "gone" /\ dump' = openRows /\ UNCHANGED troubles
       \/ FailsIf(table = "gone") /\ UNCHANGED dump
    /\ Finish(p, "Data")
    /\ UNCHANGED <<redis, openRows, unrowed, mixed, tables, queue, row, answer, child, pending,
                   issued, answered, halfQuit, logins>>

\* Users who had an open row and have none.
Unrowed == unrowed' = unrowed \cup {u \in Users : openRows[u] > 0 /\ openRows'[u] = 0}

\* pg_restore -c is a process of its own, and each of its statements commits by
\* itself. First the tables are dropped, when no transaction has them.
DropTables(r) ==
    /\ restore[r] = "drop"
    /\ \A q \in Threads : pc[q] # "commit"
    /\ restore' = [restore EXCEPT ![r] = "create"]
    /\ table' = "gone"
    /\ openRows' = [u \in Users |-> 0]
    /\ Unrowed
    /\ UNCHANGED <<redis, dump, mixed, recoveries, queue, threads, forms, history, counters>>

\* Then they are made again: whoever comes now finds them, and finds them empty.
CreateTables(r) ==
    /\ restore[r] = "create"
    /\ restore' = [restore EXCEPT ![r] = "copy"]
    /\ table' = IF table = "gone" THEN "empty" ELSE table
    /\ UNCHANGED <<redis, openRows, dump, unrowed, mixed, recoveries, queue, threads,
                   forms, history, counters>>

\* The rows of the file are added to those there are, unless COPY fails.
CopyTables(r) ==
    /\ restore[r] = "copy"
    /\ restore' = [restore EXCEPT ![r] = "exited"]
    /\ \/ /\ table # "gone"
          /\ table' = "whole"
          /\ openRows' = [u \in Users |-> openRows[u] + dump[u]]
          /\ UNCHANGED troubles
       \/ /\ FailsIf(table = "gone")
          /\ table' = IF table = "gone" THEN table ELSE "whole"
          /\ UNCHANGED openRows
    /\ UNCHANGED <<redis, dump, unrowed, mixed, recoveries, queue, threads, forms, history,
                   logins>>

Restore(r) == DropTables(r) \/ CreateTables(r) \/ CopyTables(r)

\* c.wait(). One statement that failed, a key that is there twice say, and the
\* exit code is not 0: "Error", and StopActiveSession is skipped.
RecoverDB(p) ==
    /\ pc[p] = "restore"
    /\ restore[child[p]] = "exited"
    /\ child' = [child EXCEPT ![p] = 0]
    /\ \/ Goto(p, "stop") /\ UNCHANGED <<job, client, raced>>
       \/ Finish(p, "Data")
    /\ UNCHANGED <<redis, rows, queue, row, answer, pending, issued, answered, halfQuit, counters>>

\* DeleteActiveSessions: the rows, and nothing of what Redis holds.
StopActiveSession(p) ==
    /\ pc[p] = "stop"
    /\ \/ openRows' = [u \in Users |-> 0] /\ UNCHANGED troubles
       \/ UNCHANGED openRows /\ Fault
    /\ Unrowed
    /\ Finish(p, "Data")
    /\ UNCHANGED <<redis, dump, mixed, tables, queue, row, answer, child, pending,
                   issued, answered, halfQuit, logins>>

-----------------------------------------------------------------------------
\* An exception leaves a thread of the pool (std::terminate) and the server is
\* started again by hand: Redis and the committed rows are what is left, and a
\* pg_restore at work goes on.
Crash ==
    /\ Fault
    /\ queue' = <<>>
    /\ pc' = [p \in Threads |-> "idle"]
    /\ job' = [p \in Threads |-> NoJob]
    /\ row' = [p \in Threads |-> FALSE]
    /\ answer' = [p \in Threads |-> NoToken]
    /\ child' = [p \in Threads |-> 0]
    /\ client' = [c \in Clients |-> [st |-> "hello", user |-> NoUser, token |-> NoToken]]
    /\ pending' = [c \in Clients |-> 0]
    /\ halfQuit' = halfQuit \cup {u \in Users :
                      \E p \in Threads : pc[p] = "q_auth" /\ job[p].user = u}
    /\ UNCHANGED <<redis, rows, issued, answered, raced, logins>>

LoginStep(p) ==
    \/ LoginCheck(p) \/ LoginSeat(p) \/ LoginRow(p) \/ LoginCommit(p)
    \/ LoginAuth(p) \/ LoginHmset(p) \/ LoginExpire(p)
QuitStep(p) == QuitRow(p) \/ QuitAuth(p) \/ QuitSess(p)
CopyStep(p) == CreateBackup(p) \/ RecoverDB(p) \/ StopActiveSession(p)
Step(p) == Take(p) \/ LoginStep(p) \/ Activity(p) \/ Validate(p) \/ QuitStep(p) \/ CopyStep(p) \/ Send(p)

ClientStep(c) ==
    \/ \E u \in Users : SendLogin(c, u)
    \/ ReadLoginReply(c) \/ SendRequest(c) \/ CloseWindow(c)
    \/ ClientDies(c) \/ ClientStarts(c)

Next == \/ Tick
        \/ \E p \in Threads : Step(p)
        \/ \E r \in Recoveries : Restore(r)
        \/ \E c \in Clients : ClientStep(c)
        \/ Crash

Spec == Init /\ [][Next]_vars

\* The pool's threads and pg_restore run and Redis expires keys; nobody has to
\* use a client.
Fairness == /\ WF_vars(Tick)
            /\ \A p \in Threads : WF_vars(Step(p))
            /\ \A r \in Recoveries : WF_vars(Restore(r))
FairSpec == Spec /\ Fairness

-----------------------------------------------------------------------------
(* Properties. *)

TypeOK ==
    /\ auth \in [Tokens -> 0..TTL]
    /\ owner \in [Tokens -> Users \cup {NoUser}]
    /\ session \in [Users -> 0..Forever]
    /\ openRows \in [Users -> Nat] /\ dump \in [Users -> Nat]
    /\ table \in {"whole", "gone", "empty"}
    /\ restore \in [Recoveries -> {"none", "drop", "create", "copy", "exited"}]
    /\ queue \in Seq(Jobs)
    /\ pc \in [Threads -> LoginPcs \cup QuitPcs \cup CopyPcs \cup
                          {"idle", "activity", "validate", "send"}]
    /\ job \in [Threads -> Jobs \cup {NoJob}]
    /\ row \in [Threads -> BOOLEAN]
    /\ answer \in [Threads -> Answers \cup {NoToken}]
    /\ child \in [Threads -> 0..MaxRecoveries]
    /\ client \in [Clients -> [st: {"hello", "waiting", "answered", "main", "gone"},
                               user: Users \cup {NoUser}, token: Answers \cup {NoToken}]]
    /\ pending \in [Clients -> Int]
    /\ issued \subseteq Tokens /\ answered \subseteq Tokens
    /\ raced \subseteq Users /\ halfQuit \subseteq Users
    /\ unrowed \subseteq Users /\ mixed \subseteq Users
    /\ logins \in Nat /\ troubles \in Nat /\ recoveries \in Nat

\* A token some client was given and Redis still honours, of a user whose
\* sign-ins and sign-outs never overlapped each other, and who signs out only
\* with tokens of his own.
SeatToken(t) == t \in answered /\ auth[t] > 0 /\ owner[t] \notin raced

\* While a token Login has returned is honoured by ValidateRequest, the seat
\* that makes IsUserActive refuse another login is taken, and stays so at least
\* as long as the token does: whatever fails, crashes or expires.
LiveTokenGuarded == \A t \in Tokens : SeatToken(t) => session[owner[t]] >= auth[t]

\* A user is signed in at one client at a time: CreateSession's check holds
\* back a second token until the first one is dead. (Two logins that overlap
\* both pass the check: raced.)
OneSeat == \A s, t \in Tokens :
              SeatToken(s) /\ SeatToken(t) /\ owner[s] = owner[t] => s = t

\* AddSession and UpdateExitTime keep one open row per user, the insert about
\* to be committed included, and whatever a recovery brings back. (One whose row
\* is inserted between the stages of a recovery does not find the row that COPY
\* is going to bring: mixed.)
OneOpenRow == \A u \in Users \ (raced \cup mixed) :
    /\ openRows[u] <= 1
    /\ \A p \in Threads : Handles(p, u) /\ row[p] => openRows[u] = 0

\* The audit table agrees with Redis: whose token is honoured has an open row,
\* but for a quit that is between closing the row and deleting the token, or
\* was cut short there; and for those whose row a recovery took away, until a row
\* is inserted for them again: RecoverDB leaves them their tokens.
LiveTokenHasRow == \A t \in Tokens :
    LET u == owner[t]
    IN  SeatToken(t) /\ u \notin halfQuit \cup unrowed =>
            \/ openRows[u] > 0
            \/ \E p \in Threads : pc[p] = "q_auth" /\ job[p].user = u /\ job[p].token = t

\* A token that expired or was signed out is never honoured again: nothing a
\* handler still in flight does revives auth:<token>.
DeadTokenStaysDead == [][\A t \in answered : auth[t] = 0 => auth'[t] = 0]_vars

\* No token is honoured for ever, however busy its user keeps it: a request
\* does not prolong auth:<token>.
TokenEnds == \A t \in Tokens : auth[t] > 0 ~> auth[t] = 0

\* The server sends every login it has read an answer, whatever fails, unless it
\* goes down: no branch of Login leaves the form waiting for nothing.
LoginAnswered == \A c \in Clients : pending[c] > 0 ~> pending[c] = 0

\* hello_window.cpp:96 "User already authorized": a seat that will not expire
\* by itself refuses a login only while somebody holds, or is just getting or
\* giving back, a token of that user.
RefusedOnlyIfSignedIn == \A p \in Threads :
    LET u == job[p].user
    IN  pc[p] = "seat" /\ session[u] = Forever =>
            \/ \E t \in Tokens : auth[t] > 0 /\ owner[t] = u
            \/ \E q \in Threads \ {p} : Handles(q, u)

\* hello_window.cpp:99 "Success login": the main window holds a token.
SuccessHasToken == \A c \in Clients : client[c].st = "main" => client[c].token \in Tokens
-----------------------------------------------------------------------------
(* The invariant that carries LiveTokenGuarded, OneSeat and the two statements *)
(* about rows (its induction is in LoginSessionsProofs).                       *)

\* Token t in the hands of user u: one that Login returned, and if it is still
\* honoured his own, or he is one of those whose form took another's.
Fits(t, u) == t \in Tokens =>
    t \in answered /\ (auth[t] > 0 => owner[t] = u \/ u \in raced)

\* A task names a user, and a token that fits him.
TaskOK(j) ==
    /\ j.user \in Users
    /\ j.op # "Login" => Fits(j.token, j.user)

QueueInv == \A i \in 1..Len(queue) : TaskOK(queue[i])

ClientInv == \A c \in Clients :
    /\ client[c].st \in {"waiting", "answered", "main"} => client[c].user \in Users
    /\ client[c].st \in {"answered", "main"} => Fits(client[c].token, client[c].user)

JobOK(p) ==
    /\ pc[p] # "idle" => job[p] \in Jobs
    /\ pc[p] \in LoginPcs => job[p].op = "Login" /\ job[p].user \in Users
    /\ pc[p] \in {"activity", "validate"} => job[p].op # "Login" /\ TaskOK(job[p])
    /\ pc[p] \in QuitPcs =>
           /\ job[p].op = "Quit" /\ job[p].token \in answered
           /\ pc[p] = "q_row" => job[p].user \in Users
           /\ job[p].user \in Users => owner[job[p].token] = job[p].user \/ job[p].user \in raced

\* A token is one login's own until it is answered.
TokenOK(p) ==
    /\ pc[p] \in SignInPcs => job[p].token \in issued \ answered
    /\ pc[p] \in {"hmset", "expire"} => owner[job[p].token] = job[p].user
    /\ pc[p] = "send" /\ answer[p] \in Tokens => answer[p] \in answered

TokensDiffer == \A p, q \in Threads :
    p # q /\ pc[p] \in SignInPcs /\ pc[q] \in SignInPcs => job[p].token # job[q].token

AnsweredInv == answered \subseteq issued /\ \A t \in answered : owner[t] \in Users

\* The usable tokens of user u that a login has returned.
Held(u) == {t \in answered : auth[t] > 0 /\ owner[t] = u}

\* Between the check and the taking of the seat nobody else gets one, and
\* between the deletion of the token and of the seat nobody has one.
SeatOK(p) ==
    LET u == job[p].user
    IN  /\ pc[p] \in SignInPcs /\ u \notin raced =>
               /\ Held(u) = {}
               /\ \A q \in Threads : q # p => ~Handles(q, u)
               /\ session[u] \in {0, Forever}
               /\ pc[p] = "expire" => session[u] = Forever
        /\ pc[p] \in {"q_row", "q_auth"} /\ u \in Users \ raced => Held(u) \subseteq {job[p].token}
        /\ pc[p] = "q_sess" /\ u \in Users \ raced => Held(u) = {}

ThreadsInv == \A p \in Threads : JobOK(p) /\ TokenOK(p) /\ SeatOK(p)

SessionInv == /\ QueueInv /\ ClientInv /\ ThreadsInv /\ TokensDiffer /\ AnsweredInv
              /\ LiveTokenGuarded /\ OneSeat

\* A sign-in that will insert a row is the user's only open one; after its commit
\* there is one.
RowOK(p) ==
    LET u == job[p].user
    IN  /\ row[p] => pc[p] = "commit"
        /\ pc[p] = "commit" /\ u \notin raced =>
              /\ row[p] => openRows[u] = 0 \/ u \in mixed
              /\ openRows[u] = 0 => row[p] \/ u \in unrowed
        /\ pc[p] \in {"auth", "hmset", "expire"} /\ u \notin raced \cup unrowed => openRows[u] > 0

\* Between DROP and COPY the table holds rows of nobody but the mixed, and one
\* recovery is under way, unless two that overlapped made everybody mixed.
RestoreOK ==
    /\ \A r \in Recoveries : restore[r] \in {"create", "copy"} =>
          \A u \in Users \ mixed :
              /\ openRows[u] = 0
              /\ \A p \in Threads : row[p] => job[p].user # u
    /\ \A r \in Recoveries : r > recoveries => restore[r] = "none"
    /\ mixed # Users => \A r \in Recoveries :
          /\ restore[r] = "create" => table = "gone"
          /\ restore[r] = "copy" => table # "whole"
          /\ \A q \in Recoveries : Restoring(r) /\ Restoring(q) => r = q

\* One open row at most, and one in the file.
FewRows == \A u \in Users \ (raced \cup mixed) : openRows[u] <= 1 /\ dump[u] <= 1

RowInv == /\ FewRows
          /\ \A p \in Threads : RowOK(p)
          /\ RestoreOK
          /\ LiveTokenHasRow
=============================================================================
