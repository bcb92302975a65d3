----------------------------- MODULE ClientWindow -----------------------------
(***************************************************************************)
(* The list of users in the main window, and who is online in it.  It is   *)
(* kept from two sources: the answer to GetUsersList, which the server     *)
(* makes by asking Redis for one user's session:<id> after another and     *)
(* which comes through AnswerStream; and the channel users:activity, on    *)
(* which a Login publishes before it takes its seat, a QuitSession after   *)
(* it has given it up, and nobody when a key expires, or when the HSET of  *)
(* UpdateActivity makes it again.                                          *)
(***************************************************************************)
EXTENDS AnswerStream

CONSTANTS
    Users,
    Workers,      \* other clients' requests the server is at
    MaxTurns      \* bound: logins, quits, changes nobody tells, and chunks that are cut

ASSUME WindowAssumption == MaxTurns \in Nat

GetRole == 3
GetUsersList == 8
GetGroupsList == 9

VARIABLES
    seat,      \* user -> session:<id> exists
    task,      \* worker -> [kind, user] or [kind |-> "none"]
    channel,   \* events published, and not yet consumed by the window
    list,      \* what was asked of Redis for the GetUsersList that is being made
    answer,    \* answer -> the list in it
    row,       \* user -> what the table says; no users when there is no table
    changes,   \* bound
    late,      \* history: by answer, the users its list may be wrong about
    doubt      \* history: the users the table may be wrong about

feed == <<seat, task, channel, list, answer, row, changes, late, doubt>>
vars == <<stream, feed>>

Idle == [kind |-> "none"]
Busy(u) == \E w \in Workers : task[w] # Idle /\ task[w].user = u
LoggingIn(u) == \E w \in Workers : task[w] = [kind |-> "login", user |-> u]
Told(u) == \E i \in DOMAIN channel : channel[i].user = u

\* The lists that were asked about u and are not on the screen.
OnTheWay(u) == {m \in Answers : Op[m] = GetUsersList /\ m >= msg
                    /\ (m <= wrote \/ (m = wrote + 1 /\ u \in DOMAIN list))}

\* Those lists may be wrong about the users us.
Late(us) ==
    late' = IF us = {} THEN late ELSE [m \in Answers |-> late[m] \cup {u \in us : m \in OnTheWay(u)}]

\* So may be what comes of the events, or the table that there is.
Doubt(us) == doubt' = doubt \cup us /\ Late(us)

WInit ==
    /\ Init
    /\ seat \in [Users -> BOOLEAN]
    /\ task = [w \in Workers |-> Idle]
    /\ channel = <<>>
    /\ list = <<>> /\ answer = [m \in Answers |-> <<>>]
    /\ row = <<>>
    /\ changes = 0
    /\ late = [m \in Answers |-> {}] /\ doubt = {}

-----------------------------------------------------------------------------
(* The server, for other clients. *)

Change == changes + cuts < MaxTurns /\ changes' = changes + 1

Publish(u, event) == channel' = Append(channel, [user |-> u, event |-> event])

\* Two at a time are at the seat of one user.
Overlap(u) == IF Busy(u) THEN {u} ELSE {}

\* Login, of the right password: LoginEvent.
LoginEvent(w, u) ==
    /\ Change /\ task[w] = Idle
    /\ Publish(u, "login")
    /\ task' = [task EXCEPT ![w] = [kind |-> "login", user |-> u]]
    /\ Doubt(Overlap(u))
    /\ UNCHANGED <<stream, seat, list, answer, row>>

\* CreateSession: not when there is a session, nor when PostgreSQL has one.
CreateSession(w) ==
    LET u == task[w].user
    IN  /\ task[w].kind = "login"
        /\ \/ seat' = [seat EXCEPT ![u] = TRUE] /\ Doubt({})
           \/ UNCHANGED seat /\ Doubt(IF seat[u] THEN {} ELSE {u})
        /\ task' = [task EXCEPT ![w] = Idle]
        /\ UNCHANGED <<stream, channel, list, answer, row, changes>>

\* QuitSession: the DELs.
DeleteSession(w, u) ==
    /\ Change /\ task[w] = Idle
    /\ seat' = [seat EXCEPT ![u] = FALSE]
    /\ task' = [task EXCEPT ![w] = [kind |-> "quit", user |-> u]]
    /\ Doubt(Overlap(u))
    /\ UNCHANGED <<stream, channel, list, answer, row>>

\* Mutant: the payload of LoginEvent.
QuitEventAsLogin(w) ==
    /\ task[w].kind = "quit"
    /\ Publish(task[w].user, "login")
    /\ task' = [task EXCEPT ![w] = Idle]
    /\ UNCHANGED <<stream, seat, list, answer, row, changes, late, doubt>>

QuitEvent(w) ==
    /\ task[w].kind = "quit"
    /\ Publish(task[w].user, "quit")
    /\ task' = [task EXCEPT ![w] = Idle]
    /\ UNCHANGED <<stream, seat, list, answer, row, changes, late, doubt>>

\* The key expires, or UpdateActivity makes it again.
Untold(u) ==
    /\ Change
    /\ seat' = [seat EXCEPT ![u] = ~seat[u]]
    /\ Doubt({u})
    /\ UNCHANGED <<stream, task, channel, list, answer, row>>

-----------------------------------------------------------------------------
(* The server, for this client. *)

\* The window asked for answer m: at once, or when it had its role.
Requested(m) ==
    Op[m] \in {GetUsersList, GetGroupsList} => \E i \in DOMAIN shown : shown[i].op = GetRole

\* GetUsersList, in the loop over the users: EXISTS session:<id>.
Ask(u) ==
    /\ wrote < Len(Op) /\ Op[wrote + 1] = GetUsersList /\ Requested(wrote + 1)
    /\ u \notin DOMAIN list
    /\ list' = [v \in DOMAIN list \cup {u} |-> IF v = u THEN seat[u] ELSE list[v]]
    /\ late' = [late EXCEPT ![wrote + 1] = IF LoggingIn(u) /\ ~Told(u) THEN @ \cup {u} ELSE @]
    /\ UNCHANGED <<stream, seat, task, channel, answer, row, changes, doubt>>

Answer ==
    /\ Write
    /\ Requested(wrote')
    /\ Op[wrote'] = GetUsersList => DOMAIN list = Users
    /\ answer' = [answer EXCEPT ![wrote'] = list]
    /\ list' = <<>>
    /\ UNCHANGED <<seat, task, channel, row, changes, late, doubt>>

-----------------------------------------------------------------------------
(* The window. *)

\* OnGetUsersList, with answer m: a new table.
LoadJsonToTableView(m) ==
    /\ row' = answer[m]
    /\ doubt' = late[m] \cup {u \in doubt : Told(u) \/ Busy(u)}

\* A chunk of the stream: what it shows is the list of users only when it is all
\* there, and that answer.
ReadChunk(m2, o2) ==
    /\ o2 # 0 => changes + cuts < MaxTurns
    /\ Chunk(m2, o2)
    /\ IF shown' # shown /\ shown'[Len(shown')].op = GetUsersList
                         /\ Op[msg] = GetUsersList /\ shown'[Len(shown')].miss = 0
       THEN LoadJsonToTableView(msg)
       ELSE UNCHANGED <<row, doubt>>
    /\ UNCHANGED <<seat, task, channel, list, answer, changes, late>>

\* The subscriber's next message: the row of its user, when there is one.
RedisMessageReceived ==
    /\ reading # "crashed" /\ channel # <<>>
    /\ channel' = Tail(channel)
    /\ row' = [v \in DOMAIN row |->
                 IF v = Head(channel).user THEN Head(channel).event = "login" ELSE row[v]]
    /\ Late({Head(channel).user})
    /\ UNCHANGED <<stream, seat, task, list, answer, changes, doubt>>

WNext ==
    \/ \E w \in Workers, u \in Users : LoginEvent(w, u) \/ DeleteSession(w, u)
    \/ \E w \in Workers : CreateSession(w) \/ QuitEvent(w)
    \/ \E u \in Users : Untold(u) \/ Ask(u)
    \/ Answer
    \/ \E p \in Places : ReadChunk(p[1], p[2])
    \/ RedisMessageReceived

WSpec == WInit /\ [][WNext]_vars

-----------------------------------------------------------------------------
(* Properties. *)

Quiet(u) == ~Busy(u) /\ ~Told(u)

\* When nothing about a user is under way any more, the table says whether there
\* is a session of that user; but for those an event about whom overtook the list
\* on its way to the window, or was behind the seat it was about when the list was
\* made; those at whose seat two requests were at a time; those whose login was
\* refused after it was published; and those whose key expired, or was made again.
TableIsTrue ==
    \A u \in DOMAIN row : Quiet(u) /\ u \notin doubt => row[u] = seat[u]
=============================================================================
