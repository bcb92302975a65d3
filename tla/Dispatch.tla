------------------------------- MODULE Dispatch -------------------------------
(***************************************************************************)
(* What becomes of a request between ReadMessage and SendResponse: the io  *)
(* thread, one Session and Worker per connection, the tasks of the pool and*)
(* what they share.                                                        *)
(*                                                                         *)
(* A task holds the raw address of its Session, not a reference to it.  It *)
(* uses the one pqxx connection of whatever Worker is there, one           *)
(* transaction after the other, and answers through the one static string  *)
(* `result' of ProccessOperation.  A request that meets a Session that is  *)
(* gone is undefined behaviour: the process ends, or the thread goes on    *)
(* with what the freed memory says, or the task comes to nothing; or the   *)
(* memory is another Session by then, and the task runs on that one.       *)
(***************************************************************************)
EXTENDS Integers, Sequences

CONSTANTS
    Clients,     \* client processes, one connection each
    Addrs,       \* places of the heap for a Session and its Worker
    Threads,     \* threads of the pool
    None,        \* no client, no thread, no request
    MaxSends,    \* bound: requests of each client
    Queries,     \* bound: transactions of one handler
    MaxFaults    \* bound: PostgreSQL or Redis fails, and nothing catches it

ASSUME DispatchAssumption ==
    /\ None \notin Clients \cup Threads \cup (Clients \X Nat) /\ Addrs # {}
    /\ MaxSends \in [Clients -> Nat] /\ MaxFaults \in Nat /\ Queries \in Nat \ {0}

Requests == UNION {{c} \X (1..MaxSends[c]) : c \in Clients}
Tasks == [req: Requests, addr: Addrs]

VARIABLES
    at,          \* address -> the client of the Session that lives there
    linked,      \* address -> its pqxx connection is connected
    busy,        \* address -> the thread whose pqxx::work is open on it
    line,        \* client -> its connection
    sent, read,  \* client -> requests it has sent, and ReadMessage has read
    queue,       \* tasks posted to the pool
    pc, task,    \* thread -> where it is, and with what
    query,       \* thread -> transactions its handler has made
    result,      \* the static string: whose answer it holds
    answers,     \* what was sent: the request, to whom, whose answer it was
    down,        \* the process has ended
    faults,      \* PostgreSQL or Redis failed
    over,        \* history: requests whose handler has answered or refused
    astray,      \* history: requests that met freed memory or a taken connection
    hasty,       \* history: clients that sent before the last request was over
    torn,        \* history: clients whose Session went while tasks of it were left
    raced        \* history: requests that used `result' while a thread assigned it

session == <<at, linked, busy, line>>
wire    == <<sent, read, queue>>
threads == <<pc, task, query>>
history == <<over, astray, hasty, torn, raced>>
vars == <<session, wire, threads, result, answers, down, faults, history>>

-----------------------------------------------------------------------------
Init ==
    /\ at = [a \in Addrs |-> None] /\ linked = [a \in Addrs |-> FALSE]
    /\ busy = [a \in Addrs |-> None]
    /\ line = [c \in Clients |-> "none"]
    /\ sent = [c \in Clients |-> 0] /\ read = [c \in Clients |-> 0]
    /\ queue = <<>>
    /\ pc = [t \in Threads |-> "idle"] /\ task = [t \in Threads |-> None]
    /\ query = [t \in Threads |-> 0]
    /\ result = None /\ answers = {} /\ down = FALSE /\ faults = 0
    /\ over = {} /\ astray = {} /\ hasty = {} /\ torn = {} /\ raced = {}

Running(t) == pc[t] # "idle"

\* Tasks of client c are in the queue or in a thread's hands.
Left(c) == \/ \E i \in DOMAIN queue : queue[i].req[1] = c
           \/ \E t \in Threads : Running(t) /\ task[t].req[1] = c

-----------------------------------------------------------------------------
(* The clients. *)

SendCommand(c) ==
    /\ ~down /\ line[c] = "open" /\ sent[c] < MaxSends[c]
    /\ sent' = [sent EXCEPT ![c] = @ + 1]
    /\ hasty' = IF \A k \in 1..sent[c] : <<c, k>> \in over THEN hasty ELSE hasty \cup {c}
    /\ UNCHANGED <<session, read, queue, threads, result, answers, down, faults, over, astray, torn, raced>>

\* ~HelloWindow sends Quit; or the connection breaks.
Leave(c, how) ==
    /\ ~down /\ line[c] = "open"
    /\ line' = [line EXCEPT ![c] = how]
    /\ UNCHANGED <<at, linked, busy, wire, threads, result, answers, down, faults, history>>

-----------------------------------------------------------------------------
(* The io thread. *)

\* PostgreSQL or Redis is gone, where nothing catches what the call throws.
Broken ==
    /\ faults < MaxFaults /\ faults' = faults + 1
    /\ down' = TRUE
    /\ UNCHANGED <<session, wire, threads, result, answers, history>>

\* Worker::Worker connects to PostgreSQL and prepares the queries.
Connect(a) == linked' = [linked EXCEPT ![a] = TRUE]

\* AcceptConnections makes a Session, in memory that may have been another's;
\* nothing catches the exception of a Worker that cannot connect.
Accept(c, a) ==
    /\ ~down /\ line[c] = "none" /\ at[a] = None
    /\ \/ Broken
       \/ /\ at' = [at EXCEPT ![a] = c]
          /\ line' = [line EXCEPT ![c] = "open"]
          /\ Connect(a)
          /\ UNCHANGED <<busy, wire, threads, result, answers, down, faults, history>>

\* ReadMessage with a request: a task that knows the Session by its address.
ReadMessage(c, a) ==
    /\ ~down /\ at[a] = c /\ line[c] \in {"open", "quit", "lost"}
    /\ read[c] < sent[c]
    /\ read' = [read EXCEPT ![c] = @ + 1]
    /\ queue' = Append(queue, [req |-> <<c, read[c] + 1>>, addr |-> a])
    /\ UNCHANGED <<session, sent, threads, result, answers, down, faults, history>>

\* ReadMessage with a Quit: of a client that had signed in it disconnects from
\* the database, here and now, and reads the string for NotifyObservers: undefined
\* while a thread assigns it.
ReadQuit(c, a) ==
    LET writers == {q \in Threads : pc[q] = "write"}
    IN  /\ ~down /\ at[a] = c /\ line[c] = "quit" /\ read[c] = sent[c]
        /\ line' = [line EXCEPT ![c] = "closing"]
        /\ torn' = IF Left(c) THEN torn \cup {c} ELSE torn
        /\ \/ linked' = linked /\ UNCHANGED <<raced, down>>
           \/ /\ linked' = [linked EXCEPT ![a] = FALSE]
              /\ raced' = raced \cup {task[q].req : q \in writers}
              /\ \E crash \in BOOLEAN : (crash => writers # {}) /\ down' = crash
        /\ UNCHANGED <<at, busy, wire, threads, result, answers, faults, over, astray, hasty>>

\* Mutant: the last reference goes before Quit is read, when the client has no
\* request on the wire: the handler of ReadMessage without its `self'.
DestroyEarly(c, a) ==
    /\ ~down /\ at[a] = c /\ line[c] \in {"open", "closing", "lost"} /\ read[c] = sent[c]
    /\ at' = [at EXCEPT ![a] = None]
    /\ linked' = [linked EXCEPT ![a] = FALSE]
    /\ busy' = [busy EXCEPT ![a] = None]
    /\ line' = [line EXCEPT ![c] = "closed"]
    /\ torn' = IF Left(c) /\ line[c] # "open" THEN torn \cup {c} ELSE torn
    /\ UNCHANGED <<wire, threads, result, answers, down, faults, over, astray, hasty, raced>>

\* The last reference to the Session goes with the handler of ReadMessage, after
\* a Quit or an error: ~Worker.
Destroy(c, a) ==
    /\ ~down /\ at[a] = c /\ line[c] \in {"closing", "lost"}
    /\ at' = [at EXCEPT ![a] = None]
    /\ linked' = [linked EXCEPT ![a] = FALSE]
    /\ busy' = [busy EXCEPT ![a] = None]
    /\ line' = [line EXCEPT ![c] = "closed"]
    /\ torn' = IF Left(c) THEN torn \cup {c} ELSE torn
    /\ UNCHANGED <<wire, threads, result, answers, down, faults, over, astray, hasty, raced>>

-----------------------------------------------------------------------------
(* The threads of the pool. *)

Goto(t, l) == pc' = [pc EXCEPT ![t] = l] /\ UNCHANGED <<task, query>>

\* The task is done with, and the thread takes the next.
Rest(t) ==
    /\ pc' = [pc EXCEPT ![t] = "idle"]
    /\ task' = [task EXCEPT ![t] = None]
    /\ query' = [query EXCEPT ![t] = 0]

\* What can come of a step on memory that was freed, but for its being in use
\* again, or on a connection that has another transaction: the process ends, the
\* task comes to nothing, or the thread goes on.
Stray(t, next) ==
    /\ \/ down' = TRUE /\ UNCHANGED threads
       \/ Rest(t) /\ UNCHANGED down
       \/ next # "idle" /\ Goto(t, next) /\ UNCHANGED down
    /\ astray' = astray \cup {task[t].req}
    /\ UNCHANGED <<session, wire, result, answers, faults, over, hasty, torn, raced>>

\* An exception leaves ProccessOperation and the thread: std::terminate.
Terminate ==
    /\ down' = TRUE
    /\ UNCHANGED <<session, wire, threads, result, answers, faults, history>>

Take(t) ==
    /\ ~down /\ pc[t] = "idle" /\ queue # <<>>
    /\ queue' = Tail(queue)
    /\ task' = [task EXCEPT ![t] = Head(queue)]
    /\ pc' = [pc EXCEPT ![t] = "begin"]
    /\ UNCHANGED <<session, sent, read, query, result, answers, down, faults, history>>

\* `Security warning': ValidateRequest knows the token no more, and there is no
\* answer.
Refuse(t) ==
    /\ query[t] = 0 /\ Goto(t, "tail") /\ over' = over \cup {task[t].req}
    /\ UNCHANGED <<at, linked, line, wire, result, answers, down, faults, astray, hasty, torn, raced>>

\* Mutant: what the pqxx::work throws is caught, and the request goes with it.
BeginCaught(t) ==
    LET a == task[t].addr
    IN  /\ ~down /\ pc[t] = "begin"
        /\ \/ (at[a] = None \/ busy[a] # None) /\ Stray(t, "end")
           \/ /\ at[a] # None /\ ~linked[a]
              /\ Rest(t)
              /\ UNCHANGED <<session, wire, result, answers, down, faults, history>>
           \/ at[a] # None /\ Broken
           \/ /\ at[a] # None /\ linked[a] /\ busy[a] = None
              /\ busy' = [busy EXCEPT ![a] = t]
              /\ Goto(t, "end")
              /\ UNCHANGED <<at, linked, line, wire, result, answers, down, faults, history>>

\* pqxx::work work(*_connection), outside the try: only on a connection that is
\* up, and one at a time; two at once are a data race, where pqxx does not find
\* out and throw.  A QuitSession is refused before its first transaction.
Begin(t) ==
    LET a == task[t].addr
    IN  /\ ~down /\ pc[t] = "begin"
        /\ \/ (at[a] = None \/ busy[a] # None) /\ Stray(t, "end")
           \/ at[a] # None /\ ~linked[a] /\ Terminate
           \/ at[a] # None /\ Broken
           \/ at[a] # None /\ Refuse(t) /\ UNCHANGED busy
           \/ /\ at[a] # None /\ linked[a] /\ busy[a] = None
              /\ busy' = [busy EXCEPT ![a] = t]
              /\ Goto(t, "end")
              /\ UNCHANGED <<at, linked, line, wire, result, answers, down, faults, history>>

\* Mutant: the handler goes round once more.
OnwardMore(t) ==
    /\ query' = [query EXCEPT ![t] = @ + 1]
    /\ \E next \in {"begin", "write"} : pc' = [pc EXCEPT ![t] = next]
    /\ UNCHANGED task

\* One transaction is behind the handler: to the next, or to the answer.
Onward(t) ==
    /\ query' = [query EXCEPT ![t] = @ + 1]
    /\ \E next \in {"begin", "write"} :
          /\ next = "begin" => query[t] + 1 < Queries
          /\ pc' = [pc EXCEPT ![t] = next]
    /\ UNCHANGED task

\* Mutant: the work lives as long as the Worker, not as the function.
EndOpen(t) ==
    /\ ~down /\ pc[t] = "end"
    /\ Onward(t)
    /\ UNCHANGED <<session, wire, result, answers, down, faults, history>>

\* Mutant: no `break' after `Security warning'.
EndUnbroken(t) ==
    LET a == task[t].addr
    IN  /\ ~down /\ pc[t] = "end" /\ busy[a] = t
        /\ busy' = [busy EXCEPT ![a] = None]
        /\ Onward(t)
        /\ over' = IF query[t] = 0 THEN over \cup {task[t].req} ELSE over
        /\ UNCHANGED <<at, linked, line, wire, result, answers, down, faults, astray, hasty, torn, raced>>

\* The transaction is over, well or not: what it throws is caught, but for the
\* commit of some, which come after the catch.  Nothing catches what Redis throws
\* either: in ValidateRequest, LoginEvent and IsUserActive.  After the first
\* transaction, UpdateActivity's, ValidateRequest may refuse the request.
End(t) ==
    LET a == task[t].addr
    IN  /\ ~down /\ pc[t] = "end"
        /\ \/ busy[a] # t /\ Stray(t, "write")
           \/ busy[a] = t /\ ~linked[a] /\ Terminate
           \/ busy[a] = t /\ Broken
           \/ /\ busy[a] = t
              /\ busy' = [busy EXCEPT ![a] = None]
              /\ \/ Refuse(t)
                 \/ Onward(t) /\ UNCHANGED <<at, linked, line, wire, result, answers, down, faults, history>>

\* Mutant: a branch that has no answer of its own.
WriteNothing(t) ==
    /\ ~down /\ pc[t] = "write"
    /\ Goto(t, "send")
    /\ UNCHANGED <<session, wire, result, answers, down, faults, history>>

\* result = ...: undefined when another thread is at it, which may end the
\* process.
Write(t) ==
    LET users == {q \in Threads \ {t} : pc[q] \in {"write", "send", "tail"}}
    IN  /\ ~down /\ pc[t] = "write"
        /\ result' = task[t].req
        /\ Goto(t, "send")
        /\ raced' = IF users = {} THEN raced ELSE raced \cup {task[q].req : q \in users \cup {t}}
        /\ \E crash \in BOOLEAN : (crash => users # {}) /\ down' = crash
        /\ UNCHANGED <<session, wire, answers, faults, over, astray, hasty, torn>>

\* SendResponse(command._op, {result}): to the socket of the Worker that is there.
SendResponse(t) ==
    LET a == task[t].addr
    IN  /\ ~down /\ pc[t] = "send"
        /\ \/ at[a] = None /\ Stray(t, "tail")
           \/ /\ at[a] # None
              /\ answers' = answers \cup {[req |-> task[t].req, to |-> at[a], data |-> result]}
              /\ over' = over \cup {task[t].req}
              /\ Goto(t, "tail")
              /\ UNCHANGED <<session, wire, result, down, faults, astray, hasty, torn, raced>>

\* NotifyObservers("Result: " + result): the Worker is used once more.
Finish(t) ==
    LET a == task[t].addr
    IN  /\ ~down /\ pc[t] = "tail"
        /\ \/ at[a] = None /\ Stray(t, "idle")
           \/ /\ at[a] # None
              /\ Rest(t)
              /\ UNCHANGED <<session, wire, result, answers, down, faults, history>>

Step(t) ==
    \/ Take(t) \/ Begin(t) \/ End(t) \/ Write(t) \/ SendResponse(t) \/ Finish(t)

Next ==
    \/ \E t \in Threads : Step(t)
    \/ \E c \in Clients : SendCommand(c) \/ Leave(c, "quit") \/ Leave(c, "lost")
    \/ \E c \in Clients, a \in Addrs :
          Accept(c, a) \/ ReadMessage(c, a) \/ ReadQuit(c, a) \/ Destroy(c, a)

Spec == Init /\ [][Next]_vars

-----------------------------------------------------------------------------
(* Properties. *)

Lines == {"none", "open", "quit", "lost", "closing", "closed"}
Pcs == {"idle", "begin", "end", "write", "send", "tail"}

TypeOK ==
    /\ at \in [Addrs -> Clients \cup {None}] /\ linked \in [Addrs -> BOOLEAN]
    /\ busy \in [Addrs -> Threads \cup {None}]
    /\ line \in [Clients -> Lines]
    /\ sent \in [Clients -> Nat] /\ read \in [Clients -> Nat]
    /\ \A c \in Clients : read[c] <= sent[c] /\ sent[c] <= MaxSends[c]
    /\ queue \in Seq(Tasks)
    /\ pc \in [Threads -> Pcs] /\ task \in [Threads -> Tasks \cup {None}]
    /\ query \in [Threads -> 0..Queries]
    /\ result \in Requests \cup {None}
    /\ answers \subseteq [req: Requests, to: Clients, data: Requests \cup {None}]
    /\ down \in BOOLEAN /\ faults \in Nat
    /\ over \subseteq Requests /\ astray \subseteq Requests /\ raced \subseteq Requests
    /\ hasty \subseteq Clients /\ torn \subseteq Clients

\* An answer goes to the client that asked, though a task knows its Session by
\* an address only; unless that client left while the task was about.
AnswersHome == \A x \in answers : x.to = x.req[1] \/ x.req[1] \in torn

\* What is sent from the shared string was put there for this request, but for
\* a request that met another thread at the string: never an answer of the past.
AnswersFresh == \A x \in answers : x.data = x.req \/ x.req \in raced

\* As long as clients await their answers, and those that leave leave nothing
\* undone, the server stays up, but for a race for the shared string and for what
\* PostgreSQL or Redis throws where nothing catches it.
DownHasCause == down => faults > 0 \/ raced # {} \/ hasty # {} \/ torn # {}

\* A request that was read is answered or refused, or its task is still about, or
\* it went astray: at memory that was freed, or at a connection that was not free.
\* It goes astray only if its client did not await its answers, or if a client
\* left a task behind, which may then run on another's Session.
NoneForgotten ==
    /\ \A c \in Clients : \A k \in 1..read[c] :
          \/ <<c, k>> \in over \cup astray
          \/ \E i \in DOMAIN queue : queue[i].req = <<c, k>>
          \/ \E t \in Threads : Running(t) /\ task[t].req = <<c, k>>
    /\ \A r \in astray : r[1] \in hasty \/ torn # {}
=============================================================================
