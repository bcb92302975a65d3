---------------------------- MODULE DispatchProofs ----------------------------
(***************************************************************************)
(* What Dispatch promises, proved for any numbers of clients, requests,    *)
(* threads, addresses and transactions.  Everything is said of the tasks   *)
(* that are about, in the queue or in a thread's hands.                    *)
(***************************************************************************)
EXTENDS DispatchBoard, SequenceTheorems, TLAPS

Posted == {queue[i] : i \in DOMAIN queue}
Held   == {task[t] : t \in {q \in Threads : Running(q)}}
About  == Posted \cup Held

-----------------------------------------------------------------------------
(* The inductive invariant. *)

\* Types, and where a handler is in its transactions.
ThreadTyped ==
    /\ pc \in [Threads -> Pcs] /\ query \in [Threads -> 0..Queries]
    /\ task \in [Threads -> Tasks \cup {None}]
    /\ \A t \in Threads :
          /\ pc[t] = "idle" => query[t] = 0
          /\ pc[t] \in {"begin", "end"} => query[t] < Queries
          /\ Running(t) => task[t] \in Tasks

Typed == TypeOK /\ ThreadTyped

\* A task, and an answer, is of a request that was read.
WasRead ==
    /\ \A x \in About : x.req[2] <= read[x.req[1]]
    /\ \A r \in over : r[2] <= read[r[1]]

\* A request has one task, which is in the queue or in one thread's hands.
OneTaskEach ==
    /\ \A i, j \in DOMAIN queue : queue[i].req = queue[j].req => i = j
    /\ \A t \in Threads : Running(t) =>
          /\ \A i \in DOMAIN queue : queue[i].req # task[t].req
          /\ \A q \in Threads : Running(q) /\ task[q].req = task[t].req => q = t

\* A task's address is its client's, until that client leaves it behind.
AtHome == \A x \in About : at[x.addr] = x.req[1] \/ x.req[1] \in torn

\* A Session is connected until its Quit was read.
Connected == \A a \in Addrs : at[a] # None =>
    /\ line[at[a]] # "none"
    /\ line[at[a]] \in {"open", "quit", "lost"} => linked[a]

\* Who is about to send has the string, or was disturbed.
HasString == \A t \in Threads :
    pc[t] = "send" => result = task[t].req \/ task[t].req \in raced

\* A handler that is through has answered or refused, or went astray.
Answered == \A t \in Threads : pc[t] = "tail" => task[t].req \in over \cup astray

\* One that is not through has not.
Unanswered ==
    /\ \A x \in Posted : x.req \notin over
    /\ \A t \in Threads : pc[t] \in {"begin", "end", "write", "send"} => task[t].req \notin over

\* Who has always awaited his answers has them all but the last.
Awaited == \A c \in Clients \ hasty : \A k \in 1..sent[c] - 1 : <<c, k>> \in over

\* A transaction is open for the thread that is in it.
OwnBusy == \A a \in Addrs : busy[a] # None =>
    pc[busy[a]] = "end" /\ task[busy[a]].addr = a

\* While nobody has left a task behind, a task's connection is up, ...
Linked == torn = {} => \A x \in About : linked[x.addr]

\* ... and a client that awaits its answers has no other transaction on it.
OwnConnection == torn = {} =>
    \A t \in Threads : pc[t] = "end" => busy[task[t].addr] = t \/ task[t].req[1] \in hasty

IInv == /\ Typed /\ WasRead /\ OneTaskEach /\ AtHome /\ Connected /\ HasString
        /\ Answered /\ Unanswered /\ Awaited /\ AnswersHome /\ AnswersFresh /\ NoneForgotten
        /\ OwnBusy /\ Linked /\ OwnConnection /\ DownHasCause

-----------------------------------------------------------------------------
(* Requests, tasks and the queue. *)

\* A request is a pair of a client and a number.
LEMMA RequestIs ==
    ASSUME NEW r \in Requests
    PROVE  /\ r[1] \in Clients /\ r[2] \in 1..MaxSends[r[1]]
           /\ r = <<r[1], r[2]>>
<1>1. PICK c \in Clients : r \in {c} \X (1..MaxSends[c])
  BY DEF Requests
<1> QED BY <1>1

LEMMA IsRequest ==
    ASSUME NEW c \in Clients, NEW k \in 1..MaxSends[c]
    PROVE  <<c, k>> \in Requests
  BY DEF Requests

LEMMA TaskIs ==
    ASSUME NEW x \in Tasks
    PROVE  x.req \in Requests /\ x.addr \in Addrs /\ x.req[1] \in Clients /\ x.req[2] \in Nat
<1>1. x.req \in Requests /\ x.addr \in Addrs
  BY DEF Tasks
<1>2. x.req[1] \in Clients /\ x.req[2] \in 1..MaxSends[x.req[1]]
  BY <1>1, RequestIs
<1>3. MaxSends[x.req[1]] \in Nat
  BY <1>2, DispatchAssumption
<1> QED BY <1>1, <1>2, <1>3

LEMMA NoneIsNone == None \notin Clients /\ None \notin Threads /\ None \notin Requests
<1>1. None \notin Clients /\ None \notin Threads /\ None \notin Clients \X Nat
  BY DispatchAssumption
<1>2. ASSUME None \in Requests PROVE FALSE
  <2>1. None[1] \in Clients /\ None[2] \in 1..MaxSends[None[1]] /\ None = <<None[1], None[2]>>
    BY <1>2, RequestIs
  <2>2. MaxSends[None[1]] \in Nat
    BY <2>1, DispatchAssumption
  <2>3. <<None[1], None[2]>> \in Clients \X Nat
    BY <2>1, <2>2
  <2> QED BY <1>1, <2>1, <2>3
<1> QED BY <1>1, <1>2

\* What is about is a task.
LEMMA AboutTasks ==
    ASSUME Typed
    PROVE  About \subseteq Tasks
<1>1. queue \in Seq(Tasks) /\ \A t \in Threads : Running(t) => task[t] \in Tasks
  BY DEF Typed, TypeOK, ThreadTyped
<1>2. Posted \subseteq Tasks
  BY <1>1 DEF Posted
<1> QED BY <1>1, <1>2 DEF About, Held

\* The queue grows by one task at its end ...
LEMMA Appended ==
    ASSUME NEW q \in Seq(Tasks), NEW x \in Tasks
    PROVE  /\ Append(q, x) \in Seq(Tasks)
           /\ DOMAIN Append(q, x) = 1..Len(q) + 1 /\ DOMAIN q = 1..Len(q) /\ Len(q) \in Nat
           /\ \A i \in 1..Len(q) : Append(q, x)[i] = q[i]
           /\ Append(q, x)[Len(q) + 1] = x
  BY AppendProperties

\* ... and is served from its front.
LEMMA Served ==
    ASSUME NEW q \in Seq(Tasks), q # <<>>
    PROVE  /\ Tail(q) \in Seq(Tasks) /\ Head(q) \in Tasks /\ Head(q) = q[1]
           /\ Len(q) \in Nat \ {0}
           /\ DOMAIN Tail(q) = 1..Len(q) - 1 /\ DOMAIN q = 1..Len(q)
           /\ \A i \in 1..Len(q) - 1 : Tail(q)[i] = q[i + 1]
<1>1. /\ Len(q) \in Nat /\ Len(q) # 0 /\ DOMAIN q = 1..Len(q)
      /\ Head(q) = q[1] /\ Head(q) \in Tasks /\ Tail(q) \in Seq(Tasks)
      /\ Len(Tail(q)) = Len(q) - 1
  BY HeadTailProperties, EmptySeq
<1>2. \A i \in 1..Len(q) - 1 : Tail(q)[i] = q[i + 1]
  BY HeadTailProperties
<1>3. DOMAIN Tail(q) = 1..Len(Tail(q))
  BY <1>1, LenProperties
<1> QED BY <1>1, <1>2, <1>3

-----------------------------------------------------------------------------
(* Types. *)

LEMMA TypedInit == Init => Typed
<1> SUFFICES ASSUME Init PROVE Typed
  OBVIOUS
<1>1. queue \in Seq(Tasks)
  BY DEF Init
<1>2. \A c \in Clients : MaxSends[c] \in Nat
  BY DispatchAssumption
<1>3. ThreadTyped
  <2>1. Queries \in Nat
    BY DispatchAssumption
  <2> QED BY <2>1 DEF Init, ThreadTyped, Running, Pcs
<1>4. \A c \in Clients : read[c] <= sent[c] /\ sent[c] <= MaxSends[c]
  <2>1. \A c \in Clients : read[c] = 0 /\ sent[c] = 0
    BY DEF Init
  <2>2. \A n \in Nat : 0 <= n
    OBVIOUS
  <2> QED BY <1>2, <2>1, <2>2
<1>5. /\ at \in [Addrs -> Clients \cup {None}] /\ linked \in [Addrs -> BOOLEAN]
      /\ busy \in [Addrs -> Threads \cup {None}] /\ line \in [Clients -> Lines]
      /\ sent \in [Clients -> Nat] /\ read \in [Clients -> Nat]
  BY DEF Init, Lines
<1>6. /\ result \in Requests \cup {None}
      /\ answers \subseteq [req: Requests, to: Clients, data: Requests \cup {None}]
      /\ down \in BOOLEAN /\ faults \in Nat
      /\ over \subseteq Requests /\ astray \subseteq Requests /\ raced \subseteq Requests /\ hasty \subseteq Clients /\ torn \subseteq Clients
  BY DEF Init
<1> QED BY <1>1, <1>3, <1>4, <1>5, <1>6 DEF Typed, TypeOK, ThreadTyped

\* A thread's next place, query and task.
LEMMA TypedThread ==
    ASSUME Typed, NEW t \in Threads, NEW l \in Pcs, NEW q \in 0..Queries, NEW x \in Tasks \cup {None},
           pc' = [pc EXCEPT ![t] = l], query' = [query EXCEPT ![t] = q],
           task' = [task EXCEPT ![t] = x],
           l = "idle" => q = 0,
           l \in {"begin", "end"} => q < Queries,
           l # "idle" => x \in Tasks
    PROVE  ThreadTyped'
  BY DEF Typed, TypeOK, ThreadTyped, Running

LEMMA TypedGoto ==
    ASSUME Typed, NEW t \in Threads, NEW l \in Pcs \ {"idle"}, Running(t), Goto(t, l),
           l \in {"begin", "end"} => query[t] < Queries
    PROVE  ThreadTyped'
  BY DEF Typed, TypeOK, ThreadTyped, Running, Goto

LEMMA TypedRest ==
    ASSUME Typed, NEW t \in Threads, Rest(t)
    PROVE  ThreadTyped'
<1>1. Queries \in Nat
  BY DispatchAssumption
<1> QED BY <1>1 DEF Typed, TypeOK, ThreadTyped, Running, Rest, Pcs

LEMMA TypedOnward ==
    ASSUME Typed, NEW t \in Threads, pc[t] = "end", Onward(t)
    PROVE  ThreadTyped'
<1>1. Queries \in Nat /\ query[t] \in 0..Queries /\ query[t] < Queries
  BY DispatchAssumption DEF Typed, TypeOK, ThreadTyped
<1> QED BY <1>1 DEF Typed, TypeOK, ThreadTyped, Running, Onward, Pcs

\* What a step on freed memory leaves.
LEMMA TypedStray ==
    ASSUME Typed, NEW t \in Threads, NEW l \in Pcs, Running(t), Stray(t, l),
           l \in {"begin", "end"} => query[t] < Queries
    PROVE  Typed'
<1>1. task[t].req \in Requests
  BY TaskIs DEF Typed, ThreadTyped
<1>2. astray' \subseteq Requests
  BY <1>1 DEF Stray, Typed, TypeOK, ThreadTyped
<1>3. ThreadTyped'
  <2>1. CASE UNCHANGED threads
    BY <2>1 DEF Typed, TypeOK, ThreadTyped, Running, threads
  <2>2. CASE Rest(t)
    BY <2>2, TypedRest
  <2>3. CASE l # "idle" /\ Goto(t, l)
    BY <2>3, TypedGoto
  <2> QED BY <2>1, <2>2, <2>3 DEF Stray
<1>4. down' \in BOOLEAN
  BY DEF Stray, Typed, TypeOK, ThreadTyped
<1> QED BY <1>2, <1>3, <1>4 DEF Stray, Typed, TypeOK, ThreadTyped, session, wire, vars, Running

\* The process ends.
LEMMA TypedEnd ==
    ASSUME Typed, Broken \/ Terminate
    PROVE  Typed'
<1>1. /\ UNCHANGED <<at, linked, busy, line, sent, read, queue, pc, task, query>>
      /\ UNCHANGED <<result, answers, over, astray, hasty, torn, raced>>
  BY DEF Broken, Terminate, session, wire, threads, history
<1>2. down' = TRUE /\ faults' \in Nat
  BY DEF Broken, Terminate, Typed, TypeOK
<1>3. ThreadTyped'
  BY <1>1 DEF Typed, ThreadTyped, Running
<1> QED BY <1>1, <1>2, <1>3 DEF Typed, TypeOK

\* The request is refused.
LEMMA TypedRefuse ==
    ASSUME Typed, NEW t \in Threads, Running(t), Refuse(t), busy' \in [Addrs -> Threads \cup {None}]
    PROVE  Typed'
<1>1. task[t].req \in Requests /\ "tail" \in Pcs \ {"idle"}
  BY TaskIs DEF Typed, ThreadTyped, Pcs
<1>2. over' \subseteq Requests
  BY <1>1 DEF Refuse, Typed, TypeOK
<1>3. ThreadTyped'
  BY <1>1, TypedGoto DEF Refuse
<1> QED BY <1>2, <1>3 DEF Refuse, Typed, TypeOK, ThreadTyped, wire, Running

LEMMA TypedStep ==
    ASSUME Typed, NEW t \in Threads, Step(t)
    PROVE  Typed'
<1>1. ASSUME Broken \/ Terminate PROVE Typed'
  BY <1>1, TypedEnd
<1>2. CASE Take(t)
  <2>1. Head(queue) \in Tasks /\ Tail(queue) \in Seq(Tasks)
    BY <1>2, Served DEF Take, Typed, TypeOK, ThreadTyped
  <2>2. query' = [query EXCEPT ![t] = 0] /\ 0 \in 0..Queries /\ 0 < Queries
    BY <1>2, DispatchAssumption DEF Take, Typed, TypeOK, ThreadTyped
  <2>3. /\ pc' = [pc EXCEPT ![t] = "begin"] /\ task' = [task EXCEPT ![t] = Head(queue)]
        /\ "begin" \in Pcs
    BY <1>2 DEF Take, Pcs
  <2>4. ThreadTyped'
    BY <2>1, <2>2, <2>3, TypedThread
  <2> QED BY <1>2, <2>1, <2>4 DEF Take, Typed, TypeOK, ThreadTyped, session, history, Running
<1>3. CASE Begin(t)
  <2>1. Running(t) /\ query[t] < Queries /\ "end" \in Pcs \ {"idle"} /\ task[t].addr \in Addrs
    BY <1>3, TaskIs DEF Begin, Running, Typed, ThreadTyped, Pcs
  <2>2. CASE Stray(t, "end")
    BY <2>1, <2>2, TypedStray
  <2>3. CASE busy' = [busy EXCEPT ![task[t].addr] = t] /\ Goto(t, "end")
             /\ UNCHANGED <<at, linked, line, wire, result, answers, down, faults, history>>
    <3>1. busy' \in [Addrs -> Threads \cup {None}]
      BY <2>1, <2>3 DEF Typed, TypeOK, ThreadTyped
    <3>2. ThreadTyped'
      BY <2>1, <2>3, TypedGoto
    <3> QED BY <2>3, <3>1, <3>2 DEF Typed, TypeOK, ThreadTyped, wire, history, Running
  <2>4. CASE Refuse(t) /\ UNCHANGED busy
    BY <2>1, <2>4, TypedRefuse DEF Typed, TypeOK
  <2> QED BY <1>1, <1>3, <2>2, <2>3, <2>4 DEF Begin
<1>4. CASE End(t)
  <2>1. Running(t) /\ {"write", "tail"} \subseteq Pcs \ {"idle"} /\ task[t].addr \in Addrs /\ task[t].req \in Requests
    BY <1>4, TaskIs DEF End, Running, Typed, ThreadTyped, Pcs
  <2>2. CASE Stray(t, "write")
    BY <2>1, <2>2, TypedStray
  <2>3. CASE busy' = [busy EXCEPT ![task[t].addr] = None]
    <3>1. busy' \in [Addrs -> Threads \cup {None}]
      BY <2>1, <2>3 DEF Typed, TypeOK, ThreadTyped
    <3>2. CASE Refuse(t)
      BY <2>1, <3>1, <3>2, TypedRefuse
    <3>3. CASE Onward(t) /\ UNCHANGED <<at, linked, line, wire, result, answers, down, faults, history>>
      <4>1. ThreadTyped'
        BY <1>4, <3>3, TypedOnward DEF End
      <4> QED BY <3>1, <3>3, <4>1 DEF Typed, TypeOK, ThreadTyped, wire, history, Running
    <3>4. CASE busy[task[t].addr] # t \/ ~linked[task[t].addr] \/ Broken
      BY <1>1, <1>4, <2>2, <3>2, <3>3, <3>4 DEF End
    <3> QED BY <1>4, <3>2, <3>3, <3>4 DEF End
  <2> QED BY <1>1, <1>4, <2>2, <2>3 DEF End
<1>5. CASE Write(t)
  <2>1. Running(t) /\ "send" \in Pcs \ {"idle"} /\ task[t].req \in Requests
    BY <1>5, TaskIs DEF Write, Running, Typed, ThreadTyped, Pcs
  <2>2. Goto(t, "send")
    BY <1>5 DEF Write
  <2>3. raced' \subseteq Requests
    <3>1. \A q \in Threads : pc[q] \in {"write", "send", "tail"} => task[q].req \in Requests
      BY TaskIs DEF Typed, ThreadTyped, Running
    <3> QED BY <1>5, <2>1, <3>1 DEF Write, Typed, TypeOK, ThreadTyped
  <2>4. down' \in BOOLEAN /\ result' \in Requests \cup {None}
    BY <1>5, <2>1 DEF Write
  <2>5. ThreadTyped'
    BY <2>1, <2>2, TypedGoto
  <2> QED BY <1>5, <2>3, <2>4, <2>5 DEF Write, Typed, TypeOK, ThreadTyped, session, wire, Running
<1>6. CASE SendResponse(t)
  <2>1. Running(t) /\ "tail" \in Pcs \ {"idle"} /\ task[t].addr \in Addrs /\ task[t].req \in Requests
    BY <1>6, TaskIs DEF SendResponse, Running, Typed, ThreadTyped, Pcs
  <2>2. CASE Stray(t, "tail")
    BY <2>1, <2>2, TypedStray
  <2>3. CASE /\ at[task[t].addr] # None
             /\ answers' = answers \cup {[req |-> task[t].req, to |-> at[task[t].addr], data |-> result]}
             /\ over' = over \cup {task[t].req}
             /\ Goto(t, "tail")
             /\ UNCHANGED <<session, wire, result, down, faults, astray, hasty, torn, raced>>
    <3>1. over' \subseteq Requests
      BY <2>1, <2>3 DEF Typed, TypeOK, ThreadTyped
    <3>2. at[task[t].addr] \in Clients /\ result \in Requests \cup {None}
      BY <2>1, <2>3 DEF Typed, TypeOK, ThreadTyped
    <3>3. answers' \subseteq [req: Requests, to: Clients, data: Requests \cup {None}]
      BY <2>1, <2>3, <3>2 DEF Typed, TypeOK, ThreadTyped
    <3>4. ThreadTyped'
      BY <2>1, <2>3, TypedGoto
    <3> QED BY <2>3, <3>1, <3>3, <3>4 DEF Typed, TypeOK, ThreadTyped, session, wire, Running
  <2> QED BY <1>6, <2>2, <2>3 DEF SendResponse
<1>7. CASE Finish(t)
  <2>1. Running(t) /\ "idle" \in Pcs
    BY <1>7 DEF Finish, Running, Pcs
  <2>2. CASE Stray(t, "idle")
    BY <2>1, <2>2, TypedStray
  <2>3. CASE Rest(t) /\ UNCHANGED <<session, wire, result, answers, down, faults, history>>
    <3>1. ThreadTyped'
      BY <2>3, TypedRest
    <3> QED BY <2>3, <3>1 DEF Typed, TypeOK, ThreadTyped, session, wire, history, Running
  <2> QED BY <1>7, <2>2, <2>3 DEF Finish
<1> QED BY <1>2, <1>3, <1>4, <1>5, <1>6, <1>7 DEF Step

\* The clients and the io thread.
Outside(c, a) ==
    \/ SendCommand(c) \/ Leave(c, "quit") \/ Leave(c, "lost")
    \/ Accept(c, a) \/ ReadMessage(c, a) \/ ReadQuit(c, a) \/ Destroy(c, a)

LEMMA TypedOutside ==
    ASSUME Typed, NEW c \in Clients, NEW a \in Addrs,
           Outside(c, a)
    PROVE  Typed'
<1>1. CASE SendCommand(c)
  <2>1. MaxSends[c] \in Nat /\ sent[c] \in Nat /\ read[c] \in Nat /\ read[c] <= sent[c]
    BY DispatchAssumption DEF Typed, TypeOK, ThreadTyped
  <2>2. hasty' \subseteq Clients
    BY <1>1 DEF SendCommand, Typed, TypeOK, ThreadTyped
  <2>3. sent' \in [Clients -> Nat] /\ \A d \in Clients : read'[d] <= sent'[d] /\ sent'[d] <= MaxSends[d]
    BY <1>1, <2>1, DispatchAssumption DEF SendCommand, Typed, TypeOK, ThreadTyped
  <2> QED BY <1>1, <2>2, <2>3 DEF SendCommand, Typed, TypeOK, ThreadTyped, session, threads, Running
<1>2. CASE Leave(c, "quit") \/ Leave(c, "lost")
  BY <1>2 DEF Leave, Typed, TypeOK, ThreadTyped, wire, threads, history, Running, Lines
<1>3. CASE Accept(c, a)
  <2>1. CASE Broken
    BY <2>1, TypedEnd
  <2>2. CASE ~Broken
    <3>1. /\ at' = [at EXCEPT ![a] = c] /\ line' = [line EXCEPT ![c] = "open"] /\ Connect(a)
          /\ UNCHANGED <<busy, wire, threads, result, answers, down, faults, history>>
      BY <1>3, <2>2 DEF Accept
    <3>2. at' \in [Addrs -> Clients \cup {None}] /\ linked' \in [Addrs -> BOOLEAN] /\ line' \in [Clients -> Lines]
      BY <3>1 DEF Connect, Typed, TypeOK, Lines
    <3> QED BY <3>1, <3>2 DEF Typed, TypeOK, ThreadTyped, wire, threads, history, Running
  <2> QED BY <2>1, <2>2
<1>4. CASE ReadMessage(c, a)
  <2>1. MaxSends[c] \in Nat /\ sent[c] \in Nat /\ read[c] \in Nat /\ read[c] < sent[c] /\ sent[c] <= MaxSends[c]
    BY <1>4, DispatchAssumption DEF ReadMessage, Typed, TypeOK, ThreadTyped
  <2>2. <<c, read[c] + 1>> \in Requests
    BY <2>1, IsRequest
  <2>3. [req |-> <<c, read[c] + 1>>, addr |-> a] \in Tasks
    BY <2>2 DEF Tasks
  <2>4. queue' \in Seq(Tasks)
    BY <1>4, <2>3, Appended DEF ReadMessage, Typed, TypeOK, ThreadTyped
  <2>5. read' \in [Clients -> Nat] /\ \A d \in Clients : read'[d] <= sent'[d]
    BY <1>4, <2>1 DEF ReadMessage, Typed, TypeOK, ThreadTyped
  <2> QED BY <1>4, <2>4, <2>5 DEF ReadMessage, Typed, TypeOK, ThreadTyped, session, threads, history, Running
<1>5. CASE ReadQuit(c, a)
  <2>1. \/ linked' = linked /\ UNCHANGED <<raced, down>>
        \/ /\ linked' = [linked EXCEPT ![a] = FALSE]
           /\ raced' = raced \cup {task[q].req : q \in {p \in Threads : pc[p] = "write"}}
           /\ down' \in BOOLEAN
    BY <1>5 DEF ReadQuit
  <2>2. raced' \subseteq Requests
    <3>1. \A q \in Threads : pc[q] = "write" => task[q].req \in Requests
      BY TaskIs DEF Typed, ThreadTyped, Running
    <3>2. raced \subseteq Requests
      BY DEF Typed, TypeOK
    <3> QED BY <2>1, <3>1, <3>2
  <2>3. down' \in BOOLEAN /\ linked' \in [Addrs -> BOOLEAN] /\ torn' \subseteq Clients
    <3>1. torn' \subseteq Clients
      BY <1>5 DEF ReadQuit, Typed, TypeOK
    <3>2. down \in BOOLEAN /\ linked \in [Addrs -> BOOLEAN]
      BY DEF Typed, TypeOK
    <3> QED BY <2>1, <3>1, <3>2
  <2>4. line' \in [Clients -> Lines]
    BY <1>5 DEF ReadQuit, Typed, TypeOK, ThreadTyped, Lines
  <2> QED BY <1>5, <2>2, <2>3, <2>4 DEF ReadQuit, Typed, TypeOK, ThreadTyped, wire, threads, Running
<1>6. CASE Destroy(c, a)
  BY <1>6 DEF Destroy, Typed, TypeOK, ThreadTyped, wire, threads, Running, Lines
<1> QED BY <1>1, <1>2, <1>3, <1>4, <1>5, <1>6 DEF Outside

-----------------------------------------------------------------------------
(* What the steps have in common. *)

\* A step of a thread: it takes a task, or goes on with its own, or is done
\* with it, which is then over.
Shape(t) ==
    /\ UNCHANGED <<at, linked, line, sent, read, hasty, torn>>
    /\ \A q \in Threads \ {t} : pc'[q] = pc[q] /\ task'[q] = task[q]
    /\ over \subseteq over' /\ astray \subseteq astray' /\ raced \subseteq raced'
    /\ \/ Take(t)
       \/ /\ UNCHANGED queue /\ Running(t)
          /\ \/ pc'[t] # "idle" /\ task'[t] = task[t]
             \/ pc'[t] = "idle" /\ (pc[t] = "tail" \/ task[t].req \in astray')
    /\ \/ UNCHANGED over
       \/ over' = over \cup {task[t].req} /\ pc[t] \in {"begin", "end", "send"} /\ pc'[t] = "tail"
    /\ Write(t) \/ (UNCHANGED result /\ (pc'[t] = "send" => pc[t] = "send"))
    /\ pc[t] = "tail" => pc'[t] \in {"tail", "idle"}
    /\ pc'[t] = "tail" => pc[t] = "tail" \/ task[t].req \in over' \cup astray'
    /\ SendResponse(t) \/ UNCHANGED answers

LEMMA ShapeStray ==
    ASSUME Typed, NEW t \in Threads, NEW l \in Pcs \ {"send"}, Running(t), Stray(t, l),
           pc[t] = "tail" => l = "idle"
    PROVE  Shape(t)
<1>1. pc \in [Threads -> Pcs] /\ task \in [Threads -> Tasks \cup {None}]
  BY DEF Typed, TypeOK
<1>2. /\ UNCHANGED <<at, linked, line, sent, read, hasty, torn, queue, raced, result, answers, over>>
      /\ astray' = astray \cup {task[t].req}
  BY DEF Stray, session, wire
<1>3. \/ UNCHANGED <<pc, task>>
      \/ pc' = [pc EXCEPT ![t] = "idle"] /\ task' = [task EXCEPT ![t] = None]
      \/ l # "idle" /\ pc' = [pc EXCEPT ![t] = l] /\ task' = task
  BY DEF Stray, threads, Rest, Goto
<1> QED BY <1>1, <1>2, <1>3 DEF Shape, Running

LEMMA ShapeEnd ==
    ASSUME NEW t \in Threads, Running(t), Broken \/ Terminate
    PROVE  Shape(t)
<1>1. UNCHANGED <<at, linked, line, sent, read, hasty, torn, queue, raced, result, answers, over, astray, pc, task>>
  BY DEF Broken, Terminate, session, wire, threads, history
<1> QED BY <1>1 DEF Shape, Running

LEMMA ShapeRefuse ==
    ASSUME Typed, NEW t \in Threads, pc[t] \in {"begin", "end"}, Refuse(t)
    PROVE  Shape(t)
<1>1. pc \in [Threads -> Pcs] /\ task \in [Threads -> Tasks \cup {None}]
  BY DEF Typed, TypeOK
<1> QED BY <1>1 DEF Refuse, Goto, Shape, Running, wire

LEMMA Shapes ==
    ASSUME Typed, NEW t \in Threads, Step(t)
    PROVE  Shape(t)
<1>1. pc \in [Threads -> Pcs] /\ task \in [Threads -> Tasks \cup {None}]
  BY DEF Typed, TypeOK
<1>2. CASE Take(t)
  <2>1. UNCHANGED <<at, linked, line, sent, read, hasty, torn, raced, result, answers, over, astray>>
    BY <1>2 DEF Take, session, history
  <2>2. /\ \A q \in Threads \ {t} : pc'[q] = pc[q] /\ task'[q] = task[q]
        /\ pc[t] = "idle" /\ pc'[t] = "begin"
    BY <1>1, <1>2 DEF Take
  <2> QED BY <1>2, <2>1, <2>2 DEF Shape
<1>3. CASE Begin(t)
  <2>1. Running(t) /\ pc[t] = "begin"
    BY <1>3 DEF Begin, Running
  <2>2. CASE Stray(t, "end")
    BY <2>1, <2>2, ShapeStray DEF Pcs
  <2>3. CASE Goto(t, "end") /\ UNCHANGED <<at, linked, line, wire, result, answers, down, faults, history>>
    BY <1>1, <2>1, <2>3 DEF Shape, Goto, wire, history
  <2> QED BY <1>3, <2>1, <2>2, <2>3, ShapeEnd, ShapeRefuse DEF Begin
<1>4. CASE End(t)
  <2>1. Running(t) /\ pc[t] = "end"
    BY <1>4 DEF End, Running
  <2>2. CASE Stray(t, "write")
    BY <2>1, <2>2, ShapeStray DEF Pcs
  <2>3. CASE Onward(t) /\ UNCHANGED <<at, linked, line, wire, result, answers, down, faults, history>>
    <3>1. /\ \A q \in Threads \ {t} : pc'[q] = pc[q] /\ task'[q] = task[q]
          /\ pc'[t] \in {"begin", "write"} /\ task'[t] = task[t]
      BY <1>1, <2>3 DEF Onward
    <3> QED BY <2>1, <2>3, <3>1 DEF Shape, wire, history
  <2> QED BY <1>4, <2>1, <2>2, <2>3, ShapeEnd, ShapeRefuse DEF End
<1>5. CASE Write(t)
  <2>1. Running(t) /\ pc[t] = "write" /\ Goto(t, "send") /\ raced \subseteq raced'
    BY <1>5 DEF Write, Running
  <2>2. UNCHANGED <<at, linked, line, sent, read, hasty, torn, queue, answers, over, astray>>
    BY <1>5 DEF Write, session, wire
  <2>3. /\ \A q \in Threads \ {t} : pc'[q] = pc[q] /\ task'[q] = task[q]
        /\ pc'[t] = "send" /\ task'[t] = task[t]
    BY <1>1, <2>1 DEF Goto
  <2> QED BY <1>5, <2>1, <2>2, <2>3 DEF Shape
<1>6. CASE SendResponse(t)
  <2>1. Running(t) /\ pc[t] = "send"
    BY <1>6 DEF SendResponse, Running
  <2>2. CASE Stray(t, "tail")
    BY <2>1, <2>2, ShapeStray DEF Pcs
  <2>3. CASE /\ over' = over \cup {task[t].req} /\ Goto(t, "tail")
             /\ UNCHANGED <<session, wire, result, down, faults, astray, hasty, torn, raced>>
    BY <1>1, <1>6, <2>1, <2>3 DEF Shape, Goto, session, wire
  <2> QED BY <1>6, <2>2, <2>3 DEF SendResponse
<1>7. CASE Finish(t)
  <2>1. Running(t) /\ pc[t] = "tail"
    BY <1>7 DEF Finish, Running
  <2>2. CASE Stray(t, "idle")
    BY <2>1, <2>2, ShapeStray DEF Pcs
  <2>3. CASE Rest(t) /\ UNCHANGED <<session, wire, result, answers, down, faults, history>>
    BY <1>1, <2>1, <2>3 DEF Shape, Rest, session, wire, history
  <2> QED BY <1>7, <2>2, <2>3 DEF Finish
<1> QED BY <1>2, <1>3, <1>4, <1>5, <1>6, <1>7 DEF Step

\* A step of a client or the io thread leaves the threads, their answers and the
\* string alone; only ReadMessage has a task for them.
LEMMA OutsideShape ==
    ASSUME NEW c \in Clients, NEW a \in Addrs, Outside(c, a)
    PROVE  /\ UNCHANGED <<pc, task, over, astray, result, answers>>
           /\ hasty \subseteq hasty' /\ torn \subseteq torn' /\ raced \subseteq raced'
           /\ ReadMessage(c, a) \/ UNCHANGED <<read, queue>>
           /\ SendCommand(c) \/ UNCHANGED sent
<1>1. CASE SendCommand(c)
  BY <1>1 DEF SendCommand, threads
<1>2. CASE Leave(c, "quit") \/ Leave(c, "lost")
  BY <1>2 DEF Leave, wire, threads, history
<1>3. CASE Accept(c, a)
  BY <1>3 DEF Accept, Broken, wire, threads, history
<1>4. CASE ReadMessage(c, a)
  BY <1>4 DEF ReadMessage, threads, history
<1>5. CASE ReadQuit(c, a)
  BY <1>5 DEF ReadQuit, wire, threads
<1>6. CASE Destroy(c, a)
  BY <1>6 DEF Destroy, wire, threads
<1> QED BY <1>1, <1>2, <1>3, <1>4, <1>5, <1>6 DEF Outside

\* Nothing is about that was not, but for the request that ReadMessage reads.
LEMMA AboutAfterStep ==
    ASSUME Typed, NEW t \in Threads, Shape(t)
    PROVE  About' \subseteq About /\ Posted' \subseteq Posted
<1>1. CASE Take(t)
  <2>1. queue \in Seq(Tasks) /\ queue # <<>> /\ queue' = Tail(queue) /\ pc[t] = "idle"
        /\ pc' = [pc EXCEPT ![t] = "begin"] /\ task' = [task EXCEPT ![t] = Head(queue)]
        /\ pc \in [Threads -> Pcs] /\ task \in [Threads -> Tasks \cup {None}]
    BY <1>1 DEF Take, Typed, TypeOK
  <2>2. /\ DOMAIN queue = 1..Len(queue) /\ DOMAIN queue' = 1..Len(queue) - 1 /\ Len(queue) \in Nat \ {0}
        /\ Head(queue) = queue[1] /\ \A i \in 1..Len(queue) - 1 : queue'[i] = queue[i + 1]
    BY <2>1, Served
  <2>3. ASSUME NEW i \in DOMAIN queue' PROVE queue'[i] \in Posted
    <3>1. i + 1 \in DOMAIN queue /\ queue'[i] = queue[i + 1]
      BY <2>2, <2>3
    <3> QED BY <3>1 DEF Posted
  <2>4. Head(queue) \in Posted
    <3>1. 1 \in DOMAIN queue
      BY <2>2
    <3> QED BY <2>2, <3>1 DEF Posted
  <2>5. \A q \in Threads : pc'[q] # "idle" => task'[q] \in About
    <3>1. task'[t] = Head(queue) /\ \A q \in Threads \ {t} : task'[q] = task[q] /\ pc'[q] = pc[q]
      BY <2>1
    <3> QED BY <2>4, <3>1 DEF About, Held, Running
  <2> QED BY <2>3, <2>5 DEF About, Held, Posted, Running
<1>2. CASE UNCHANGED queue
  <2>1. Posted' = Posted
    BY <1>2 DEF Posted
  <2>2. \A q \in Threads : pc'[q] # "idle" => (pc[q] # "idle" /\ task'[q] = task[q]) \/ Take(t)
    BY DEF Shape, Running
  <2>3. CASE ~Take(t)
    BY <2>1, <2>2, <2>3 DEF About, Held, Running
  <2> QED BY <1>1, <2>3
<1> QED BY <1>1, <1>2 DEF Shape

LEMMA AboutAfterRead ==
    ASSUME Typed, NEW c \in Clients, NEW a \in Addrs, ReadMessage(c, a)
    PROVE  /\ Posted' \subseteq Posted \cup {[req |-> <<c, read[c] + 1>>, addr |-> a]}
           /\ About' \subseteq About \cup {[req |-> <<c, read[c] + 1>>, addr |-> a]}
           /\ <<c, read[c] + 1>> \in Requests
<1>1. MaxSends[c] \in Nat /\ sent[c] \in Nat /\ read[c] \in Nat /\ read[c] < sent[c] /\ sent[c] <= MaxSends[c]
  BY DispatchAssumption DEF ReadMessage, Typed, TypeOK
<1>2. <<c, read[c] + 1>> \in Requests
  BY <1>1, IsRequest
<1>3. [req |-> <<c, read[c] + 1>>, addr |-> a] \in Tasks
  BY <1>2 DEF Tasks
<1>4. PICK new \in Tasks : new = [req |-> <<c, read[c] + 1>>, addr |-> a]
  BY <1>3
<1>5. /\ queue' = Append(queue, new) /\ UNCHANGED <<pc, task>> /\ queue \in Seq(Tasks)
  BY <1>4 DEF ReadMessage, threads, Typed, TypeOK
<1>6. /\ DOMAIN queue' = 1..Len(queue) + 1 /\ DOMAIN queue = 1..Len(queue) /\ Len(queue) \in Nat
      /\ \A i \in 1..Len(queue) : queue'[i] = queue[i]
      /\ queue'[Len(queue) + 1] = new
  BY <1>5, Appended
<1>7. \A i \in DOMAIN queue' : queue'[i] \in Posted \cup {new}
  BY <1>6 DEF Posted
<1>8. Posted' \subseteq Posted \cup {new}
  BY <1>7 DEF Posted
<1>9. Held' = Held
  BY <1>5 DEF Held, Running
<1> QED BY <1>2, <1>4, <1>8, <1>9 DEF About

\* What is left of a client is about.
LEMMA LeftIs ==
    ASSUME NEW c, NEW x \in About, x.req[1] = c
    PROVE  Left(c)
  BY DEF Left, About, Posted, Held, Running

LEMMA HeldAbout ==
    ASSUME NEW t \in Threads, Running(t)
    PROVE  task[t] \in About
  BY DEF About, Held

-----------------------------------------------------------------------------
(* Requests and their tasks. *)

\* A step of a thread that takes no task leaves each thread idle or with its own.
LEMMA Keeps ==
    ASSUME NEW t \in Threads, Shape(t), ~Take(t), NEW q \in Threads, pc'[q] # "idle"
    PROVE  pc[q] # "idle" /\ task'[q] = task[q]
  BY DEF Shape, Running

LEMMA WasReadStep ==
    ASSUME Typed, WasRead, NEW t \in Threads, Shape(t)
    PROVE  WasRead'
<1>1. About' \subseteq About /\ read' = read
  BY AboutAfterStep DEF Shape
<1>2. \A r \in over' : r[2] <= read[r[1]]
  <2>1. CASE over' = over
    BY <2>1 DEF WasRead
  <2>2. CASE Running(t) /\ over' = over \cup {task[t].req}
    BY <2>2, HeldAbout DEF WasRead
  <2> QED BY <2>1, <2>2 DEF Shape, Running
<1> QED BY <1>1, <1>2 DEF WasRead

LEMMA WasReadOutside ==
    ASSUME Typed, WasRead, NEW c \in Clients, NEW a \in Addrs, Outside(c, a)
    PROVE  WasRead'
<1>1. over' = over /\ task' = task /\ pc' = pc
  BY OutsideShape
<1>2. CASE UNCHANGED <<read, queue>>
  BY <1>1, <1>2 DEF WasRead, About, Posted, Held, Running
<1>3. CASE ReadMessage(c, a)
  <2>1. read \in [Clients -> Nat] /\ read' = [read EXCEPT ![c] = @ + 1]
    BY <1>3 DEF ReadMessage, Typed, TypeOK
  <2>2. \A d \in Clients : read[d] \in Nat /\ read'[d] \in Nat /\ read[d] <= read'[d]
    BY <2>1
  <2>3. \A r \in Requests : r[2] <= read[r[1]] => r[2] <= read'[r[1]]
    <3>1. SUFFICES ASSUME NEW r \in Requests, r[2] <= read[r[1]] PROVE r[2] <= read'[r[1]]
      OBVIOUS
    <3>2. r[1] \in Clients /\ r[2] \in 1..MaxSends[r[1]]
      BY RequestIs
    <3>3. r[2] \in Nat
      BY <3>2, DispatchAssumption
    <3> QED BY <2>2, <3>1, <3>2, <3>3
  <2>4. over \subseteq Requests /\ \A x \in About : x.req \in Requests
    BY AboutTasks, TaskIs DEF Typed, TypeOK
  <2>5. \A r \in over' : r[2] <= read'[r[1]]
    BY <1>1, <2>3, <2>4 DEF WasRead
  <2>6. read[c] + 1 <= read'[c]
    BY <2>1
  <2>7. \A x \in About : x.req[2] <= read'[x.req[1]]
    BY <2>3, <2>4 DEF WasRead
  <2>8. \A x \in About' : x.req[2] <= read'[x.req[1]]
    <3>1. PICK new : new = [req |-> <<c, read[c] + 1>>, addr |-> a]
      OBVIOUS
    <3>2. new.req = <<c, read[c] + 1>>
      BY <3>1
    <3>3. new.req[1] = c /\ new.req[2] = read[c] + 1
      BY <3>2
    <3>4. About' \subseteq About \cup {new}
      BY <1>3, <3>1, AboutAfterRead
    <3> QED BY <2>6, <2>7, <3>3, <3>4
  <2> QED BY <2>5, <2>8 DEF WasRead
<1> QED BY <1>2, <1>3, OutsideShape

\* A request that is read now is not about yet, and not over.
LEMMA Fresh ==
    ASSUME Typed, WasRead, NEW c \in Clients
    PROVE  <<c, read[c] + 1>> \notin over /\ \A x \in About : x.req # <<c, read[c] + 1>>
<1>1. read[c] \in Nat
  BY DEF Typed, TypeOK
<1>2. ~(read[c] + 1 <= read[c])
  BY <1>1
<1>3. \A r : r = <<c, read[c] + 1>> => r[1] = c /\ r[2] = read[c] + 1
  OBVIOUS
<1> QED BY <1>2, <1>3 DEF WasRead

LEMMA OneTaskEachStep ==
    ASSUME Typed, OneTaskEach, NEW t \in Threads, Shape(t)
    PROVE  OneTaskEach'
<1>1. CASE ~Take(t)
  <2>1. queue' = queue
    BY <1>1 DEF Shape
  <2> QED BY <1>1, <2>1, Keeps DEF OneTaskEach, Running
<1>2. CASE Take(t)
  <2>1. queue \in Seq(Tasks) /\ queue # <<>> /\ queue' = Tail(queue) /\ pc[t] = "idle"
        /\ task'[t] = Head(queue) /\ \A q \in Threads \ {t} : task'[q] = task[q] /\ pc'[q] = pc[q]
    BY <1>2 DEF Take, Typed, TypeOK
  <2>2. /\ DOMAIN queue = 1..Len(queue) /\ DOMAIN queue' = 1..Len(queue) - 1 /\ Len(queue) \in Nat \ {0}
        /\ Head(queue) = queue[1] /\ \A i \in 1..Len(queue) - 1 : queue'[i] = queue[i + 1]
    BY <2>1, Served
  <2>3. \A i \in DOMAIN queue' : i + 1 \in DOMAIN queue /\ queue'[i] = queue[i + 1] /\ i + 1 # 1 /\ i \in Nat
    BY <2>2
  <2>4. 1 \in DOMAIN queue
    BY <2>2
  <2>5. ASSUME NEW i \in DOMAIN queue', NEW j \in DOMAIN queue', queue'[i].req = queue'[j].req PROVE i = j
    <3>1. i + 1 = j + 1
      BY <2>3, <2>5 DEF OneTaskEach
    <3> QED BY <2>3, <3>1
  <2>6. ASSUME NEW q \in Threads, pc'[q] # "idle"
        PROVE  \A i \in DOMAIN queue' : queue'[i].req # task'[q].req
    <3>1. CASE q = t
      BY <2>1, <2>2, <2>3, <2>4, <3>1 DEF OneTaskEach
    <3>2. CASE q # t
      BY <2>1, <2>3, <2>6, <3>2 DEF OneTaskEach, Running
    <3> QED BY <3>1, <3>2
  <2>7. ASSUME NEW q \in Threads, pc'[q] # "idle", NEW p \in Threads, pc'[p] # "idle", task'[p].req = task'[q].req
        PROVE  p = q
    <3>1. \A u \in Threads \ {t} : pc'[u] # "idle" => task'[u].req # task'[t].req
      BY <2>1, <2>2, <2>4 DEF OneTaskEach, Running
    <3>2. CASE p = t \/ q = t
      BY <2>7, <3>1, <3>2
    <3>3. CASE p # t /\ q # t
      BY <2>1, <2>7, <3>3 DEF OneTaskEach, Running
    <3> QED BY <3>2, <3>3
  <2> QED BY <2>5, <2>6, <2>7 DEF OneTaskEach, Running
<1> QED BY <1>1, <1>2

LEMMA OneTaskEachOutside ==
    ASSUME Typed, WasRead, OneTaskEach, NEW c \in Clients, NEW a \in Addrs, Outside(c, a)
    PROVE  OneTaskEach'
<1>1. task' = task /\ pc' = pc
  BY OutsideShape
<1>2. CASE UNCHANGED queue
  BY <1>1, <1>2 DEF OneTaskEach, Running
<1>3. CASE ReadMessage(c, a)
  <2>1. PICK new \in Tasks : new = [req |-> <<c, read[c] + 1>>, addr |-> a]
    BY <1>3, AboutAfterRead DEF Tasks
  <2>2. queue' = Append(queue, new) /\ queue \in Seq(Tasks)
    BY <1>3, <2>1 DEF ReadMessage, Typed, TypeOK
  <2>3. /\ DOMAIN queue' = 1..Len(queue) + 1 /\ DOMAIN queue = 1..Len(queue) /\ Len(queue) \in Nat
        /\ \A i \in 1..Len(queue) : queue'[i] = queue[i]
        /\ queue'[Len(queue) + 1] = new
    BY <2>2, Appended
  <2>4. \A x \in About : x.req # new.req
    BY <2>1, Fresh
  <2>5. \A i \in DOMAIN queue' : (i = Len(queue) + 1 /\ queue'[i] = new) \/ (i \in DOMAIN queue /\ queue'[i] = queue[i])
    BY <2>3
  <2>6. \A i \in DOMAIN queue : queue[i].req # new.req
    BY <2>4 DEF About, Posted
  <2>7. \A q \in Threads : Running(q) => task[q].req # new.req
    BY <2>4, HeldAbout
  <2>8. \A i, j \in DOMAIN queue' : queue'[i].req = queue'[j].req => i = j
    BY <2>5, <2>6 DEF OneTaskEach
  <2>9. \A q \in Threads : Running(q) => \A i \in DOMAIN queue' : queue'[i].req # task[q].req
    BY <2>5, <2>7 DEF OneTaskEach
  <2> QED BY <1>1, <2>8, <2>9 DEF OneTaskEach, Running
<1> QED BY <1>2, <1>3, OutsideShape

\* The first half of NoneForgotten: a request is over, astray or about.
Kept == \A c \in Clients : \A k \in 1..read[c] :
    \/ <<c, k>> \in over \cup astray
    \/ \E i \in DOMAIN queue : queue[i].req = <<c, k>>
    \/ \E t \in Threads : Running(t) /\ task[t].req = <<c, k>>

LEMMA KeptStep ==
    ASSUME Typed, Answered, Kept, NEW t \in Threads, Shape(t)
    PROVE  Kept'
<1>1. read' = read /\ over \subseteq over' /\ astray \subseteq astray'
  BY DEF Shape
<1> SUFFICES ASSUME NEW c \in Clients, NEW k \in 1..read[c], <<c, k>> \notin over' \cup astray'
             PROVE  \/ \E i \in DOMAIN queue' : queue'[i].req = <<c, k>>
                    \/ \E q \in Threads : pc'[q] # "idle" /\ task'[q].req = <<c, k>>
  BY <1>1 DEF Kept, Running
<1>2. CASE \E q \in Threads : Running(q) /\ task[q].req = <<c, k>>
  <2>1. PICK q \in Threads : Running(q) /\ task[q].req = <<c, k>>
    BY <1>2
  <2>2. CASE q = t
    <3>1. ~Take(t)
      BY <2>1, <2>2 DEF Take, Running
    <3>2. ~(pc[t] = "tail" \/ task[t].req \in astray')
      BY <1>1, <2>1, <2>2 DEF Answered
    <3> QED BY <2>1, <2>2, <3>1, <3>2 DEF Shape
  <2>3. CASE q # t
    BY <2>1, <2>3 DEF Shape, Running
  <2> QED BY <2>2, <2>3
<1>3. CASE \E i \in DOMAIN queue : queue[i].req = <<c, k>>
  <2>1. PICK i \in DOMAIN queue : queue[i].req = <<c, k>>
    BY <1>3
  <2>2. CASE ~Take(t)
    BY <2>1, <2>2 DEF Shape
  <2>3. CASE Take(t)
    <3>1. queue \in Seq(Tasks) /\ queue # <<>> /\ queue' = Tail(queue)
          /\ task'[t] = Head(queue) /\ pc'[t] = "begin"
      BY <2>3 DEF Take, Typed, TypeOK
    <3>2. /\ DOMAIN queue = 1..Len(queue) /\ DOMAIN queue' = 1..Len(queue) - 1 /\ Len(queue) \in Nat \ {0}
          /\ Head(queue) = queue[1] /\ \A j \in 1..Len(queue) - 1 : queue'[j] = queue[j + 1]
      BY <3>1, Served
    <3>3. CASE i = 1
      BY <2>1, <3>1, <3>2, <3>3
    <3>4. CASE i # 1
      <4>1. i - 1 \in 1..Len(queue) - 1 /\ (i - 1) + 1 = i
        BY <3>2, <3>4
      <4> QED BY <2>1, <3>2, <4>1
    <3> QED BY <3>3, <3>4
  <2> QED BY <2>2, <2>3
<1> QED BY <1>1, <1>2, <1>3 DEF Kept

LEMMA KeptOutside ==
    ASSUME Typed, Kept, NEW c \in Clients, NEW a \in Addrs, Outside(c, a)
    PROVE  Kept'
<1>1. task' = task /\ pc' = pc /\ over' = over /\ astray' = astray
  BY OutsideShape
<1>2. CASE UNCHANGED <<read, queue>>
  BY <1>1, <1>2 DEF Kept, Running
<1>3. CASE ReadMessage(c, a)
  <2>1. PICK new \in Tasks : new = [req |-> <<c, read[c] + 1>>, addr |-> a]
    BY <1>3, AboutAfterRead DEF Tasks
  <2>2. queue' = Append(queue, new) /\ queue \in Seq(Tasks)
        /\ read \in [Clients -> Nat] /\ read' = [read EXCEPT ![c] = @ + 1]
    BY <1>3, <2>1 DEF ReadMessage, Typed, TypeOK
  <2>3. /\ DOMAIN queue' = 1..Len(queue) + 1 /\ DOMAIN queue = 1..Len(queue) /\ Len(queue) \in Nat
        /\ \A i \in 1..Len(queue) : queue'[i] = queue[i]
        /\ queue'[Len(queue) + 1] = new
    BY <2>2, Appended
  <2>4. Len(queue) + 1 \in DOMAIN queue' /\ queue'[Len(queue) + 1].req = <<c, read[c] + 1>>
    BY <2>1, <2>3
  <2>5. \A i \in DOMAIN queue : i \in DOMAIN queue' /\ queue'[i] = queue[i]
    BY <2>3
  <2>6. \A d \in Clients : \A k \in 1..read'[d] : k \in 1..read[d] \/ (d = c /\ k = read[c] + 1)
    BY <2>2
  <2>7. ASSUME NEW d \in Clients, NEW k \in 1..read'[d]
        PROVE  \/ <<d, k>> \in over \cup astray
               \/ \E i \in DOMAIN queue' : queue'[i].req = <<d, k>>
               \/ \E t \in Threads : Running(t) /\ task[t].req = <<d, k>>
    <3>1. CASE k \in 1..read[d]
      BY <2>5, <3>1 DEF Kept
    <3>2. CASE d = c /\ k = read[c] + 1
      BY <2>4, <3>2
    <3> QED BY <2>6, <3>1, <3>2
  <2> QED BY <1>1, <2>7 DEF Kept, Running
<1> QED BY <1>2, <1>3, OutsideShape

-----------------------------------------------------------------------------
(* Where answers go, and whose they are. *)

LEMMA AtHomeStep ==
    ASSUME Typed, AtHome, NEW t \in Threads, Shape(t)
    PROVE  AtHome'
  BY AboutAfterStep DEF Shape, AtHome

LEMMA AtHomeOutside ==
    ASSUME Typed, AtHome, NEW c \in Clients, NEW a \in Addrs, Outside(c, a)
    PROVE  AtHome'
<1>1. torn \subseteq torn' /\ at \in [Addrs -> Clients \cup {None}]
  BY OutsideShape DEF Typed, TypeOK
<1>2. \A x \in About : x.req[1] \in Clients /\ x.addr \in Addrs
  BY AboutTasks, TaskIs
<1>3. ASSUME ~ReadMessage(c, a) PROVE About' = About
  BY <1>3, OutsideShape DEF About, Posted, Held, Running
<1>4. CASE at' = at /\ ~ReadMessage(c, a)
  BY <1>1, <1>3, <1>4 DEF AtHome
<1>5. CASE ReadMessage(c, a)
  <2>1. PICK new : new = [req |-> <<c, read[c] + 1>>, addr |-> a]
    OBVIOUS
  <2>2. new.req = <<c, read[c] + 1>> /\ new.addr = a
    BY <2>1
  <2>3. new.req[1] = c
    BY <2>2
  <2>4. About' \subseteq About \cup {new}
    BY <1>5, <2>1, AboutAfterRead
  <2>5. at' = at /\ at[a] = c
    BY <1>5 DEF ReadMessage, session
  <2> QED BY <1>1, <2>2, <2>3, <2>4, <2>5 DEF AtHome
<1>6. CASE Accept(c, a) /\ ~ReadMessage(c, a)
  <2>1. at[a] = None /\ (at' = at \/ at' = [at EXCEPT ![a] = c])
    BY <1>6 DEF Accept, Broken, session
  <2>2. \A x \in About : x.addr = a => x.req[1] \in torn
    BY <1>2, <2>1, NoneIsNone DEF AtHome
  <2>3. \A b \in Addrs : b # a => at'[b] = at[b]
    BY <1>1, <2>1
  <2> QED BY <1>1, <1>2, <1>3, <1>6, <2>2, <2>3 DEF AtHome
<1>7. CASE Destroy(c, a) /\ ~ReadMessage(c, a)
  <2>1. at[a] = c /\ at' = [at EXCEPT ![a] = None] /\ (Left(c) => c \in torn')
    BY <1>7 DEF Destroy
  <2>2. \A x \in About : x.addr = a => x.req[1] \in torn'
    <3>1. SUFFICES ASSUME NEW x \in About, x.addr = a, x.req[1] \notin torn PROVE x.req[1] \in torn'
      BY <1>1
    <3>2. x.req[1] = c
      BY <2>1, <3>1 DEF AtHome
    <3> QED BY <2>1, <3>1, <3>2, LeftIs
  <2>3. \A b \in Addrs : b # a => at'[b] = at[b]
    BY <1>1, <2>1
  <2> QED BY <1>1, <1>2, <1>3, <1>7, <2>2, <2>3 DEF AtHome
<1>8. ReadMessage(c, a) \/ Accept(c, a) \/ Destroy(c, a) \/ at' = at
  BY DEF Outside, SendCommand, Leave, ReadQuit, session
<1> QED BY <1>4, <1>5, <1>6, <1>7, <1>8

LEMMA ConnectedOutside ==
    ASSUME Typed, Connected, NEW c \in Clients, NEW a \in Addrs, Outside(c, a)
    PROVE  Connected'
<1>1. /\ at \in [Addrs -> Clients \cup {None}] /\ linked \in [Addrs -> BOOLEAN]
      /\ line \in [Clients -> Lines]
  BY DEF Typed, TypeOK
<1>2. CASE UNCHANGED <<at, linked, line>>
  BY <1>2 DEF Connected
<1>3. CASE Leave(c, "quit") \/ Leave(c, "lost")
  <2>1. /\ UNCHANGED <<at, linked>> /\ line[c] = "open" /\ line'[c] \in {"quit", "lost"}
        /\ \A d \in Clients : d # c => line'[d] = line[d]
    BY <1>1, <1>3 DEF Leave
  <2> QED BY <1>1, <2>1 DEF Connected
<1>4. CASE Accept(c, a)
  <2>1. CASE Broken
    BY <1>2, <2>1 DEF Broken, session
  <2>2. CASE /\ at' = [at EXCEPT ![a] = c] /\ line' = [line EXCEPT ![c] = "open"] /\ Connect(a)
    <3>1. /\ at'[a] = c /\ linked'[a] = TRUE /\ line'[c] = "open"
          /\ \A b \in Addrs : b # a => at'[b] = at[b] /\ linked'[b] = linked[b]
          /\ \A d \in Clients : d # c => line'[d] = line[d]
      BY <1>1, <2>2 DEF Connect
    <3>2. \A b \in Addrs : at[b] # c
      BY <1>4, NoneIsNone DEF Accept, Connected
    <3>3. ASSUME NEW b \in Addrs, at'[b] # None
          PROVE  line'[at'[b]] # "none" /\ (line'[at'[b]] \in {"open", "quit", "lost"} => linked'[b])
      <4>1. CASE b = a
        BY <3>1, <4>1
      <4>2. CASE b # a
        <5>1. at[b] \in Clients /\ at[b] # c
          BY <1>1, <3>1, <3>2, <3>3, <4>2
        <5> QED BY <3>1, <3>3, <4>2, <5>1 DEF Connected
      <4> QED BY <4>1, <4>2
    <3> QED BY <3>3 DEF Connected
  <2> QED BY <1>4, <2>1, <2>2 DEF Accept
<1>5. CASE ReadQuit(c, a)
  <2>1. /\ at' = at /\ at[a] = c /\ line'[c] = "closing"
        /\ \A d \in Clients : d # c => line'[d] = line[d]
    BY <1>1, <1>5 DEF ReadQuit
  <2>2. \A b \in Addrs : b # a => linked'[b] = linked[b]
    BY <1>1, <1>5 DEF ReadQuit
  <2>3. ASSUME NEW b \in Addrs, at'[b] # None
        PROVE  line'[at'[b]] # "none" /\ (line'[at'[b]] \in {"open", "quit", "lost"} => linked'[b])
    <3>1. CASE at[b] = c
      BY <2>1, <3>1
    <3>2. CASE at[b] # c
      BY <1>1, <2>1, <2>2, <2>3, <3>2 DEF Connected
    <3> QED BY <3>1, <3>2
  <2> QED BY <2>3 DEF Connected
<1>6. CASE Destroy(c, a)
  <2>1. /\ at'[a] = None /\ line'[c] = "closed"
        /\ \A b \in Addrs : b # a => at'[b] = at[b] /\ linked'[b] = linked[b]
        /\ \A d \in Clients : d # c => line'[d] = line[d]
    BY <1>1, <1>6 DEF Destroy
  <2>2. ASSUME NEW b \in Addrs, at'[b] # None
        PROVE  line'[at'[b]] # "none" /\ (line'[at'[b]] \in {"open", "quit", "lost"} => linked'[b])
    <3>1. b # a /\ at[b] = at'[b] /\ at[b] \in Clients
      BY <1>1, <2>1, <2>2
    <3>2. CASE at[b] = c
      BY <2>1, <3>1, <3>2
    <3>3. CASE at[b] # c
      BY <2>1, <2>2, <3>1, <3>3 DEF Connected
    <3> QED BY <3>2, <3>3
  <2> QED BY <2>2 DEF Connected
<1> QED BY <1>2, <1>3, <1>4, <1>5, <1>6 DEF Outside, SendCommand, ReadMessage, session

LEMMA HasStringStep ==
    ASSUME Typed, HasString, NEW t \in Threads, Shape(t)
    PROVE  HasString'
<1>1. CASE Write(t)
  <2>1. result' = task[t].req /\ task' = task
    BY <1>1 DEF Write, Goto
  <2>2. ASSUME NEW q \in Threads \ {t}, pc'[q] = "send" PROVE task[q].req \in raced'
    <3>1. pc[q] = "send"
      BY <2>2 DEF Shape
    <3>2. q \in {p \in Threads \ {t} : pc[p] \in {"write", "send", "tail"}}
      BY <3>1
    <3> QED BY <1>1, <3>2 DEF Write
  <2> QED BY <2>1, <2>2 DEF HasString
<1>2. CASE ~Write(t)
  <2>1. result' = result /\ raced \subseteq raced'
    BY <1>2 DEF Shape
  <2>2. ASSUME NEW q \in Threads, pc'[q] = "send" PROVE pc[q] = "send" /\ task'[q] = task[q]
    <3>1. CASE q # t
      BY <2>2, <3>1 DEF Shape
    <3>2. CASE q = t
      <4>1. pc[t] = "send" /\ pc'[t] = "send"
        BY <1>2, <2>2, <3>2 DEF Shape
      <4>2. ~Take(t)
        BY <4>1 DEF Take
      <4> QED BY <3>2, <4>1, <4>2 DEF Shape
    <3> QED BY <3>1, <3>2
  <2> QED BY <2>1, <2>2 DEF HasString
<1> QED BY <1>1, <1>2

LEMMA AnsweredStep ==
    ASSUME Typed, Answered, NEW t \in Threads, Shape(t)
    PROVE  Answered'
<1>1. ASSUME NEW q \in Threads, pc'[q] = "tail" PROVE task'[q].req \in over' \cup astray'
  <2>1. CASE q # t
    BY <1>1, <2>1 DEF Shape, Answered
  <2>2. CASE q = t
    <3>1. ~Take(t)
      BY <1>1, <2>2 DEF Take, Typed, TypeOK
    <3>2. task'[t] = task[t]
      BY <1>1, <2>2, <3>1 DEF Shape
    <3> QED BY <1>1, <2>2, <3>2 DEF Shape, Answered
  <2> QED BY <2>1, <2>2
<1> QED BY <1>1 DEF Answered

LEMMA AnswersStep ==
    ASSUME Typed, AtHome, HasString, AnswersHome, AnswersFresh, NEW t \in Threads, Shape(t)
    PROVE  AnswersHome' /\ AnswersFresh'
<1>1. torn' = torn /\ raced \subseteq raced'
  BY DEF Shape
<1>2. CASE UNCHANGED answers
  BY <1>1, <1>2 DEF AnswersHome, AnswersFresh
<1>3. CASE SendResponse(t) /\ answers' # answers
  <2>1. PICK x : x = [req |-> task[t].req, to |-> at[task[t].addr], data |-> result]
    OBVIOUS
  <2>2. answers' = answers \cup {x} /\ at[task[t].addr] # None /\ pc[t] = "send"
    BY <1>3, <2>1 DEF SendResponse, Stray
  <2>3. x.to = x.req[1] \/ x.req[1] \in torn
    BY <2>1, <2>2, HeldAbout DEF AtHome, Running
  <2>4. x.data = x.req \/ x.req \in raced
    BY <2>1, <2>2 DEF HasString
  <2> QED BY <1>1, <2>2, <2>3, <2>4 DEF AnswersHome, AnswersFresh
<1> QED BY <1>2, <1>3 DEF Shape

LEMMA AnswersOutside ==
    ASSUME HasString, Answered, AnswersHome, AnswersFresh,
           NEW c \in Clients, NEW a \in Addrs, Outside(c, a)
    PROVE  HasString' /\ Answered' /\ AnswersHome' /\ AnswersFresh'
  BY OutsideShape DEF HasString, Answered, AnswersHome, AnswersFresh

\* One answer, or refusal, to a request.
LEMMA UnansweredStep ==
    ASSUME Typed, OneTaskEach, Unanswered, NEW t \in Threads, Shape(t)
    PROVE  Unanswered'
<1>1. over' = over \/ (Running(t) /\ over' = over \cup {task[t].req} /\ pc'[t] = "tail")
  BY DEF Shape, Running
<1>2. \A x \in Posted' : x.req \notin over'
  <2>1. \A x \in Posted : Running(t) => x.req # task[t].req
    BY DEF Posted, OneTaskEach
  <2> QED BY <1>1, <2>1, AboutAfterStep DEF Unanswered
<1>3. ASSUME NEW q \in Threads \ {t}, pc'[q] \in {"begin", "end", "write", "send"}
      PROVE  task'[q].req \notin over'
  <2>1. pc[q] = pc'[q] /\ task[q] = task'[q] /\ Running(q)
    BY <1>3 DEF Shape, Running
  <2>2. task[q].req \notin over
    BY <1>3, <2>1 DEF Unanswered
  <2>3. Running(t) => task[q].req # task[t].req
    BY <2>1, <1>3 DEF OneTaskEach
  <2> QED BY <1>1, <2>1, <2>2, <2>3
<1>4. ASSUME pc'[t] \in {"begin", "end", "write", "send"} PROVE task'[t].req \notin over'
  <2>1. over' = over
    BY <1>1, <1>4
  <2>2. CASE Take(t)
    <3>1. /\ queue \in Seq(Tasks) /\ queue # <<>> /\ task'[t] = Head(queue)
      BY <2>2 DEF Take, Typed, TypeOK
    <3>2. Head(queue) = queue[1] /\ Len(queue) \in Nat \ {0} /\ DOMAIN queue = 1..Len(queue)
      BY <3>1, Served
    <3>3. 1 \in DOMAIN queue
      BY <3>2
    <3> QED BY <2>1, <3>1, <3>2, <3>3 DEF Posted, Unanswered
  <2>3. CASE ~Take(t)
    <3>1. Running(t) /\ task'[t] = task[t] /\ pc[t] # "tail"
      BY <1>4, <2>3 DEF Shape
    <3>2. pc[t] \in {"begin", "end", "write", "send"}
      BY <3>1 DEF Running, Typed, TypeOK, Pcs
    <3> QED BY <2>1, <3>1, <3>2 DEF Unanswered
  <2> QED BY <2>2, <2>3
<1> QED BY <1>2, <1>3, <1>4 DEF Unanswered

LEMMA UnansweredOutside ==
    ASSUME Typed, WasRead, Unanswered, NEW c \in Clients, NEW a \in Addrs, Outside(c, a)
    PROVE  Unanswered'
<1>1. UNCHANGED <<pc, task, over>> /\ (ReadMessage(c, a) \/ UNCHANGED queue)
  BY OutsideShape
<1>2. CASE UNCHANGED queue
  BY <1>1, <1>2 DEF Unanswered, Posted
<1>3. CASE ReadMessage(c, a)
  <2>1. PICK new : new = [req |-> <<c, read[c] + 1>>, addr |-> a]
    OBVIOUS
  <2>2. new.req \notin over
    BY <2>1, Fresh
  <2>3. Posted' \subseteq Posted \cup {new}
    BY <1>3, <2>1, AboutAfterRead
  <2> QED BY <1>1, <2>2, <2>3 DEF Unanswered
<1> QED BY <1>1, <1>2, <1>3

-----------------------------------------------------------------------------
(* While clients await their answers, and leave no task behind. *)

LEMMA AwaitedStep ==
    ASSUME Awaited, NEW t \in Threads, Shape(t)
    PROVE  Awaited'
  BY DEF Awaited, Shape

LEMMA AwaitedOutside ==
    ASSUME Typed, Awaited, NEW c \in Clients, NEW a \in Addrs, Outside(c, a)
    PROVE  Awaited'
<1>1. hasty \subseteq hasty' /\ over' = over /\ (SendCommand(c) \/ UNCHANGED sent)
  BY OutsideShape
<1>2. CASE UNCHANGED sent
  BY <1>1, <1>2 DEF Awaited
<1>3. CASE SendCommand(c)
  <2>1. /\ sent' = [sent EXCEPT ![c] = @ + 1]
        /\ hasty' = IF \A k \in 1..sent[c] : <<c, k>> \in over THEN hasty ELSE hasty \cup {c}
    BY <1>3 DEF SendCommand
  <2>2. sent \in [Clients -> Nat]
    BY DEF Typed, TypeOK
  <2> SUFFICES ASSUME NEW d \in Clients \ hasty', NEW k \in 1..sent'[d] - 1 PROVE <<d, k>> \in over
    BY <1>1 DEF Awaited
  <2>3. d \notin hasty
    BY <2>1
  <2>4. CASE d # c
    <3>1. sent'[d] = sent[d]
      BY <2>1, <2>2, <2>4
    <3> QED BY <2>3, <3>1 DEF Awaited
  <2>5. CASE d = c
    <3>1. k \in 1..sent[c]
      BY <2>1, <2>2, <2>5
    <3> QED BY <2>1, <2>5, <3>1
  <2> QED BY <2>4, <2>5
<1> QED BY <1>1, <1>2, <1>3

\* A request that was read and is not over is its client's last.
LEMMA Last ==
    ASSUME Typed, Awaited, NEW r \in Requests, r \notin over, r[2] <= read[r[1]], r[1] \notin hasty
    PROVE  r = <<r[1], sent[r[1]]>>
<1>1. PICK c \in Clients : \E k \in 1..MaxSends[c] : r = <<c, k>>
  BY RequestIs
<1>2. PICK k \in 1..MaxSends[c] : r = <<c, k>>
  BY <1>1
<1>3. r[1] = c /\ r[2] = k
  BY <1>2
<1>4. read[c] \in Nat /\ sent[c] \in Nat /\ read[c] <= sent[c] /\ MaxSends[c] \in Nat
  BY DispatchAssumption DEF Typed, TypeOK
<1>5. k \notin 1..sent[c] - 1
  BY <1>2, <1>3 DEF Awaited
<1>6. k = sent[c]
  BY <1>3, <1>4, <1>5
<1> QED BY <1>2, <1>3, <1>6

\* A thread finds its Session, ...
LEMMA FindsSession ==
    ASSUME Typed, AtHome, Linked, torn = {}, NEW t \in Threads, Running(t)
    PROVE  at[task[t].addr] # None /\ linked[task[t].addr] /\ at[task[t].addr] = task[t].req[1]
<1>1. task[t] \in About /\ task[t].req[1] \in Clients
  BY HeldAbout, AboutTasks, TaskIs
<1>2. at[task[t].addr] = task[t].req[1]
  BY <1>1 DEF AtHome
<1>3. linked[task[t].addr]
  BY <1>1 DEF Linked
<1> QED BY <1>1, <1>2, <1>3, NoneIsNone

\* ... and no other thread at its connection.
LEMMA FindsFree ==
    ASSUME Typed, WasRead, OneTaskEach, AtHome, Unanswered, Awaited, OwnBusy, Linked, torn = {},
           NEW t \in Threads, pc[t] = "begin", task[t].req[1] \notin hasty
    PROVE  busy[task[t].addr] = None
<1>1. Running(t) /\ task[t] \in Tasks /\ task[t] \in About /\ task[t].addr \in Addrs
  BY HeldAbout, AboutTasks, TaskIs DEF Running
<1> SUFFICES ASSUME busy[task[t].addr] # None PROVE FALSE
  OBVIOUS
<1>2. PICK q \in Threads : q = busy[task[t].addr]
  BY <1>1 DEF Typed, TypeOK
<1>3. pc[q] = "end" /\ task[q].addr = task[t].addr /\ Running(q)
  BY <1>1, <1>2, NoneIsNone DEF OwnBusy, Running
<1>4. task[q] \in About /\ task[q].req \in Requests /\ task[t].req \in Requests
  BY <1>1, <1>3, HeldAbout, AboutTasks, TaskIs
<1>5. task[q].req[1] = task[t].req[1]
  BY <1>1, <1>3, FindsSession
<1>6. task[q].req \notin over /\ task[t].req \notin over
  BY <1>3 DEF Unanswered
<1>7. /\ task[q].req = <<task[q].req[1], sent[task[q].req[1]]>>
      /\ task[t].req = <<task[t].req[1], sent[task[t].req[1]]>>
  BY <1>1, <1>4, <1>5, <1>6, Last DEF WasRead
<1>8. q = t
  BY <1>1, <1>3, <1>5, <1>7 DEF OneTaskEach
<1> QED BY <1>3, <1>8

\* So undefined behaviour has a cause.
LEMMA AstrayStep ==
    ASSUME IInv, NEW t \in Threads, Step(t)
    PROVE  astray' = astray \/ (astray' = astray \cup {task[t].req} /\ (task[t].req[1] \in hasty \/ torn # {}))
<1> SUFFICES ASSUME torn = {}, task[t].req[1] \notin hasty PROVE astray' = astray
  BY DEF Step, Take, Begin, End, Write, SendResponse, Finish, Stray, Broken, Terminate, Refuse, history
<1>1. ASSUME pc[t] # "idle" PROVE at[task[t].addr] # None
  BY <1>1, FindsSession DEF Running, IInv
<1>2. CASE Begin(t)
  <2>1. at[task[t].addr] # None /\ busy[task[t].addr] = None
    BY <1>1, <1>2, FindsFree DEF Begin, IInv
  <2> QED BY <1>2, <2>1 DEF Begin, Terminate, Broken, Refuse, history
<1>3. CASE End(t)
  <2>1. busy[task[t].addr] = t
    BY <1>3 DEF End, OwnConnection, IInv
  <2> QED BY <1>3, <2>1 DEF End, Terminate, Broken, Refuse, history
<1>4. CASE SendResponse(t)
  BY <1>1, <1>4 DEF SendResponse
<1>5. CASE Finish(t)
  BY <1>1, <1>5 DEF Finish, history
<1>6. CASE Take(t) \/ Write(t)
  BY <1>6 DEF Take, Write, history
<1> QED BY <1>2, <1>3, <1>4, <1>5, <1>6 DEF Step

LEMMA NoneForgottenStep ==
    ASSUME IInv, NEW t \in Threads, Step(t)
    PROVE  NoneForgotten'
<1>1. Shape(t)
  BY Shapes DEF IInv
<1>2. Kept'
  BY <1>1, KeptStep DEF IInv, NoneForgotten, Kept
<1>3. \A r \in astray' : r[1] \in hasty' \/ torn' # {}
  BY <1>1, AstrayStep DEF Shape, IInv, NoneForgotten
<1> QED BY <1>2, <1>3 DEF NoneForgotten, Kept

LEMMA NoneForgottenOutside ==
    ASSUME Typed, NoneForgotten, NEW c \in Clients, NEW a \in Addrs, Outside(c, a)
    PROVE  NoneForgotten'
<1>1. Kept'
  BY KeptOutside DEF NoneForgotten, Kept
<1>2. \A r \in astray' : r[1] \in hasty' \/ torn' # {}
  BY OutsideShape DEF NoneForgotten
<1> QED BY <1>1, <1>2 DEF NoneForgotten, Kept

\* Whose transaction is open on a connection.
LEMMA OwnBusyStep ==
    ASSUME Typed, OwnBusy, NEW t \in Threads, Step(t)
    PROVE  OwnBusy'
<1>1. /\ pc \in [Threads -> Pcs] /\ task \in [Threads -> Tasks \cup {None}]
      /\ busy \in [Addrs -> Threads \cup {None}]
  BY DEF Typed, TypeOK
<1>2. \A q \in Threads \ {t} : pc'[q] = pc[q] /\ task'[q] = task[q]
  BY Shapes DEF Shape
<1>3. CASE busy' = busy /\ (\A a \in Addrs : busy[a] # t)
  BY <1>1, <1>2, <1>3 DEF OwnBusy
<1>4. CASE UNCHANGED <<busy, pc, task>>
  BY <1>4 DEF OwnBusy
<1>5. pc[t] # "end" => \A a \in Addrs : busy[a] # t
  BY NoneIsNone DEF OwnBusy
<1>6. CASE Begin(t)
  <2>1. CASE busy' = [busy EXCEPT ![task[t].addr] = t] /\ Goto(t, "end")
    <3>1. task' = task /\ pc'[t] = "end"
      BY <1>1, <2>1 DEF Goto
    <3> QED BY <1>1, <1>2, <2>1, <3>1 DEF OwnBusy
  <2>2. CASE busy' = busy
    BY <1>3, <1>5, <1>6, <2>2 DEF Begin
  <2> QED BY <1>6, <2>1, <2>2 DEF Begin, Stray, Terminate, Broken, session
<1>7. CASE End(t)
  <2>1. \A a \in Addrs : busy[a] = t => a = task[t].addr
    BY NoneIsNone DEF OwnBusy
  <2>2. CASE busy[task[t].addr] # t
    <3>1. busy' = busy
      BY <1>7, <2>2 DEF End, Stray, Terminate, Broken, session
    <3> QED BY <1>3, <2>1, <2>2, <3>1
  <2>3. CASE busy' = [busy EXCEPT ![task[t].addr] = None]
    <3>1. \A a \in Addrs : busy'[a] # t /\ (busy'[a] # None => busy'[a] = busy[a])
      BY <1>1, <2>1, <2>3, NoneIsNone
    <3> QED BY <1>1, <1>2, <3>1 DEF OwnBusy
  <2>4. CASE Terminate \/ Broken
    BY <1>4, <2>4 DEF Terminate, Broken, session, threads
  <2> QED BY <1>7, <2>2, <2>3, <2>4 DEF End
<1>8. CASE Take(t) \/ Write(t) \/ SendResponse(t) \/ Finish(t)
  <2>1. pc[t] # "end" /\ busy' = busy
    BY <1>8 DEF Take, Write, SendResponse, Finish, Stray, session
  <2> QED BY <1>3, <1>5, <2>1
<1> QED BY <1>6, <1>7, <1>8 DEF Step

\* A connection is up for its tasks, and free for one transaction.
LEMMA LinkedStep ==
    ASSUME Typed, Linked, NEW t \in Threads, Shape(t)
    PROVE  Linked'
  BY AboutAfterStep DEF Shape, Linked

LEMMA OwnConnectionStep ==
    ASSUME IInv, NEW t \in Threads, Step(t)
    PROVE  OwnConnection'
<1>1. /\ pc \in [Threads -> Pcs] /\ task \in [Threads -> Tasks \cup {None}]
      /\ busy \in [Addrs -> Threads \cup {None}]
  BY DEF IInv, Typed, TypeOK
<1>2. Shape(t)
  BY Shapes DEF IInv
<1> SUFFICES ASSUME torn = {}, NEW q \in Threads, pc'[q] = "end", task'[q].req[1] \notin hasty
             PROVE  busy'[task'[q].addr] = q
  BY <1>2 DEF OwnConnection, Shape
<1>3. CASE q # t
  <2>1. pc[q] = "end" /\ task'[q] = task[q]
    BY <1>2, <1>3 DEF Shape
  <2>2. busy[task[q].addr] = q /\ task[q].addr \in Addrs
    BY <2>1, TaskIs DEF IInv, OwnConnection, Typed, ThreadTyped, Running
  <2>3. busy' = busy \/ \E b \in Threads \cup {None} :
            busy' = [busy EXCEPT ![task[t].addr] = b] /\ busy[task[t].addr] \in {None, t}
    BY DEF Step, Take, Begin, End, Write, SendResponse, Finish, Stray, Terminate, Broken, Refuse, session
  <2>4. busy'[task[q].addr] = busy[task[q].addr]
    BY <1>1, <1>3, <2>2, <2>3, NoneIsNone
  <2> QED BY <2>1, <2>2, <2>4
<1>4. CASE q = t
  <2>1. pc'[t] = "end" /\ ~Take(t)
    BY <1>1, <1>4 DEF Take
  <2>2. Running(t) /\ task'[t] = task[t] /\ task[t].addr \in Addrs /\ task[t].req[1] \notin hasty
    BY <1>2, <1>4, <2>1, TaskIs DEF Shape, IInv, Typed, ThreadTyped
  <2>3. at[task[t].addr] # None
    BY <2>2, FindsSession DEF IInv
  <2>4. CASE Begin(t)
    <3>1. busy[task[t].addr] = None
      BY <2>2, <2>4, FindsFree DEF Begin, IInv
    <3>2. pc[t] = "begin"
      BY <2>4 DEF Begin
    <3>3. ~Terminate /\ ~Broken /\ ~Refuse(t)
      BY <1>1, <2>1, <3>2 DEF Terminate, Broken, Refuse, Goto, threads
    <3>4. busy' = [busy EXCEPT ![task[t].addr] = t]
      BY <2>3, <2>4, <3>1, <3>3 DEF Begin
    <3> QED BY <1>1, <1>4, <2>2, <3>4
  <2>5. CASE End(t)
    <3>1. busy[task[t].addr] = t
      BY <2>2, <2>5 DEF End, IInv, OwnConnection
    <3>2. ~Refuse(t) /\ ~Onward(t)
      BY <1>1, <2>1 DEF Refuse, Goto, Onward
    <3>3. busy' = busy
      BY <2>5, <3>1, <3>2 DEF End, Terminate, Broken, session
    <3> QED BY <1>4, <2>2, <3>1, <3>3
  <2>6. CASE Write(t) \/ SendResponse(t) \/ Finish(t)
    <3>1. pc'[t] # "end"
      BY <1>1, <2>3, <2>6 DEF Write, SendResponse, Finish, Goto, Rest
    <3> QED BY <2>1, <3>1
  <2> QED BY <2>1, <2>4, <2>5, <2>6 DEF Step
<1> QED BY <1>3, <1>4

\* A Session is closed, or taken from the database, only when no task of it is
\* left.
LEMMA LeavesNone ==
    ASSUME Typed, AtHome, torn = {}, NEW c \in Clients, NEW a \in Addrs, at[a] = c,
           torn' = IF Left(c) THEN torn \cup {c} ELSE torn, torn' = {}
    PROVE  \A x \in About : x.addr # a
<1>1. ~Left(c)
  OBVIOUS
<1> QED BY <1>1, LeftIs DEF AtHome

LEMMA ConnectionOutside ==
    ASSUME Typed, AtHome, Connected, OwnBusy, Linked, OwnConnection,
           NEW c \in Clients, NEW a \in Addrs, Outside(c, a)
    PROVE  OwnBusy' /\ Linked' /\ OwnConnection'
<1>1. /\ UNCHANGED <<pc, task>> /\ hasty \subseteq hasty' /\ torn \subseteq torn'
      /\ (ReadMessage(c, a) \/ UNCHANGED queue)
  BY OutsideShape
<1>2. /\ linked \in [Addrs -> BOOLEAN] /\ busy \in [Addrs -> Threads \cup {None}]
  BY DEF Typed, TypeOK
<1>3. ~ReadMessage(c, a) => About' = About
  BY <1>1 DEF About, Posted, Held, Running
<1>4. busy' = busy \/ (Destroy(c, a) /\ busy' = [busy EXCEPT ![a] = None])
  BY DEF Outside, SendCommand, Leave, Accept, Broken, ReadMessage, ReadQuit, Destroy, session
<1>5. OwnBusy'
  <2>1. \A b \in Addrs : busy'[b] # None => busy'[b] = busy[b]
    BY <1>2, <1>4
  <2> QED BY <1>1, <2>1 DEF OwnBusy
<1>6. ASSUME torn' = {}, Destroy(c, a) \/ (ReadQuit(c, a) /\ ~UNCHANGED linked)
      PROVE  \A x \in About : x.addr # a
  <2>1. at[a] = c /\ torn' = IF Left(c) THEN torn \cup {c} ELSE torn
    BY <1>6 DEF Destroy, ReadQuit
  <2> QED BY <1>1, <1>6, <2>1, LeavesNone
<1>7. OwnConnection'
  <2> SUFFICES ASSUME torn' = {}, NEW q \in Threads, pc[q] = "end", task[q].req[1] \notin hasty
               PROVE  busy'[task[q].addr] = q
    BY <1>1 DEF OwnConnection
  <2>1. busy[task[q].addr] = q /\ task[q].addr \in Addrs /\ task[q] \in About
    BY <1>1, HeldAbout, TaskIs DEF OwnConnection, Typed, ThreadTyped, Running
  <2>2. CASE busy' = busy
    BY <2>1, <2>2
  <2>3. CASE Destroy(c, a) /\ busy' = [busy EXCEPT ![a] = None]
    BY <1>2, <1>6, <2>1, <2>3
  <2> QED BY <1>4, <2>2, <2>3
<1>8. Linked'
  <2> SUFFICES ASSUME torn' = {}, NEW x \in About' PROVE linked'[x.addr]
    BY DEF Linked
  <2>1. CASE ReadMessage(c, a)
    <3>1. PICK new : new = [req |-> <<c, read[c] + 1>>, addr |-> a]
      OBVIOUS
    <3>2. About' \subseteq About \cup {new} /\ new.addr = a
      BY <2>1, <3>1, AboutAfterRead
    <3>3. linked[a] /\ linked' = linked
      BY <2>1, NoneIsNone DEF ReadMessage, Connected, session
    <3> QED BY <1>1, <3>2, <3>3 DEF Linked
  <2>2. CASE ~ReadMessage(c, a)
    <3>1. x \in About /\ linked[x.addr] /\ x.addr \in Addrs
      BY <1>1, <1>3, <2>2, AboutTasks, TaskIs DEF Linked
    <3>2. CASE linked' = linked \/ linked' = [linked EXCEPT ![a] = TRUE]
      BY <1>2, <3>1, <3>2
    <3>3. CASE linked' = [linked EXCEPT ![a] = FALSE] /\ (Destroy(c, a) \/ (ReadQuit(c, a) /\ ~UNCHANGED linked))
      BY <1>2, <1>6, <3>1, <3>3
    <3>4. \/ linked' = linked \/ linked' = [linked EXCEPT ![a] = TRUE]
          \/ linked' = [linked EXCEPT ![a] = FALSE] /\ (Destroy(c, a) \/ ReadQuit(c, a))
      BY <2>2 DEF Outside, SendCommand, Leave, Accept, Broken, Connect, ReadQuit, Destroy, session
    <3> QED BY <3>2, <3>3, <3>4
  <2> QED BY <2>1, <2>2
<1> QED BY <1>5, <1>7, <1>8

\* What brings the process down.
LEMMA DownHasCauseStep ==
    ASSUME IInv, NEW t \in Threads, Step(t)
    PROVE  DownHasCause'
<1>1. Shape(t) /\ ~down /\ faults \in Nat
  BY Shapes DEF IInv, Step, Take, Begin, End, Write, SendResponse, Finish, Typed, TypeOK
<1> SUFFICES ASSUME hasty = {}, torn = {}, down' PROVE faults' > 0 \/ raced' # {}
  BY <1>1 DEF DownHasCause, Shape
<1>2. CASE Broken
  BY <1>1, <1>2 DEF Broken
<1>3. CASE Write(t)
  BY <1>1, <1>3 DEF Write
<1>4. CASE ~Broken /\ ~Write(t)
  <2>1. ASSUME pc[t] # "idle" PROVE at[task[t].addr] # None /\ linked[task[t].addr]
    BY <2>1, FindsSession DEF Running, IInv
  <2>2. ~Begin(t)
    BY <1>1, <1>4, <2>1, FindsFree DEF Begin, Refuse, IInv
  <2>3. ~End(t)
    <3>1. pc[t] = "end" => busy[task[t].addr] = t
      BY DEF OwnConnection, IInv
    <3> QED BY <1>1, <1>4, <2>1, <3>1 DEF End, Refuse
  <2>4. ~Take(t) /\ ~SendResponse(t) /\ ~Finish(t)
    BY <1>1, <2>1 DEF Take, SendResponse, Finish
  <2> QED BY <1>4, <2>2, <2>3, <2>4 DEF Step
<1> QED BY <1>2, <1>3, <1>4

LEMMA DownHasCauseOutside ==
    ASSUME Typed, DownHasCause, NEW c \in Clients, NEW a \in Addrs, Outside(c, a)
    PROVE  DownHasCause'
<1>1. ~down /\ faults \in Nat
  BY DEF Outside, SendCommand, Leave, Accept, ReadMessage, ReadQuit, Destroy, Typed, TypeOK
<1>2. CASE down' = down
  BY <1>1, <1>2 DEF DownHasCause
<1>3. CASE Broken
  <2>1. faults' > 0
    BY <1>1, <1>3 DEF Broken
  <2> QED BY <2>1 DEF DownHasCause
<1>4. CASE ReadQuit(c, a) /\ down' # down
  <2>1. \/ down' = down
        \/ /\ raced' = raced \cup {task[q].req : q \in {p \in Threads : pc[p] = "write"}}
           /\ down' => {p \in Threads : pc[p] = "write"} # {}
    BY <1>4 DEF ReadQuit
  <2>2. down' => raced' # {}
    BY <1>1, <1>4, <2>1
  <2> QED BY <2>2 DEF DownHasCause
<1>5. down' = down \/ Broken \/ ReadQuit(c, a)
  BY DEF Outside, SendCommand, Leave, Accept, ReadMessage, Destroy
<1> QED BY <1>2, <1>3, <1>4, <1>5

-----------------------------------------------------------------------------
(* The theorems. *)

LEMMA IInvInit == Init => IInv
<1> SUFFICES ASSUME Init PROVE IInv
  OBVIOUS
<1>1. Typed
  BY TypedInit
<1>2. Posted = {} /\ Held = {} /\ queue = <<>> /\ \A t \in Threads : pc[t] = "idle"
  BY DEF Init, Posted, Held, Running
<1>3. About = {} /\ over = {} /\ astray = {} /\ answers = {} /\ ~down /\ \A a \in Addrs : at[a] = None /\ busy[a] = None
  BY <1>2 DEF Init, About
<1>4. WasRead /\ AtHome /\ Connected /\ HasString /\ Answered /\ AnswersHome /\ AnswersFresh /\ DownHasCause
  BY <1>2, <1>3 DEF WasRead, AtHome, Connected, HasString, Answered, AnswersHome, AnswersFresh, DownHasCause
<1>5. OneTaskEach
  BY <1>2 DEF OneTaskEach, Running
<1>6. \A c \in Clients : 1..read[c] = {} /\ 1..sent[c] - 1 = {}
  <2>1. \A c \in Clients : read[c] = 0 /\ sent[c] = 0
    BY DEF Init
  <2>2. 1..0 = {} /\ 1..0 - 1 = {}
    OBVIOUS
  <2> QED BY <2>1, <2>2
<1>7. NoneForgotten /\ Awaited
  BY <1>3, <1>6 DEF NoneForgotten, Awaited
<1>8. Unanswered /\ OwnBusy /\ Linked /\ OwnConnection
  BY <1>2, <1>3 DEF Unanswered, OwnBusy, Linked, OwnConnection
<1> QED BY <1>1, <1>4, <1>5, <1>7, <1>8 DEF IInv

LEMMA IInvNext == IInv /\ [Next]_vars => IInv'
<1> SUFFICES ASSUME IInv, [Next]_vars PROVE IInv'
  OBVIOUS
<1>1. ASSUME NEW t \in Threads, Step(t) PROVE IInv'
  <2>1. Shape(t) /\ Typed'
    BY <1>1, Shapes, TypedStep DEF IInv
  <2>2. WasRead' /\ OneTaskEach' /\ AtHome' /\ Unanswered' /\ Awaited' /\ Linked'
    BY <2>1, WasReadStep, OneTaskEachStep, AtHomeStep, UnansweredStep, AwaitedStep, LinkedStep DEF IInv
  <2>3. Connected'
    BY <2>1 DEF Shape, Connected, IInv
  <2>4. HasString' /\ Answered' /\ AnswersHome' /\ AnswersFresh'
    BY <2>1, HasStringStep, AnsweredStep, AnswersStep DEF IInv
  <2>5. NoneForgotten' /\ OwnBusy' /\ OwnConnection' /\ DownHasCause'
    BY <1>1, NoneForgottenStep, OwnBusyStep, OwnConnectionStep, DownHasCauseStep DEF IInv
  <2> QED BY <2>1, <2>2, <2>3, <2>4, <2>5 DEF IInv
<1>2. ASSUME NEW c \in Clients, NEW a \in Addrs, Outside(c, a) PROVE IInv'
  <2>1. Typed' /\ WasRead' /\ OneTaskEach' /\ AtHome' /\ NoneForgotten' /\ Connected'
    BY <1>2, TypedOutside, WasReadOutside, OneTaskEachOutside, AtHomeOutside, NoneForgottenOutside,
       ConnectedOutside DEF IInv
  <2>2. HasString' /\ Answered' /\ AnswersHome' /\ AnswersFresh' /\ Unanswered' /\ Awaited'
    BY <1>2, AnswersOutside, UnansweredOutside, AwaitedOutside DEF IInv
  <2>3. OwnBusy' /\ Linked' /\ OwnConnection' /\ DownHasCause'
    BY <1>2, ConnectionOutside, DownHasCauseOutside DEF IInv
  <2> QED BY <2>1, <2>2, <2>3 DEF IInv
<1>3. CASE UNCHANGED vars
  <2>1. UNCHANGED <<at, linked, busy, line, sent, read, queue, pc, task, query>>
        /\ UNCHANGED <<result, answers, down, faults, over, astray, hasty, torn, raced>>
    BY <1>3 DEF vars, session, wire, threads, history
  <2>2. Typed' /\ About' = About /\ Posted' = Posted
    BY <2>1 DEF IInv, Typed, TypeOK, ThreadTyped, Running, About, Posted, Held
  <2>3. WasRead' /\ OneTaskEach' /\ AtHome' /\ Connected' /\ HasString' /\ Answered'
    BY <2>1, <2>2 DEF IInv, WasRead, OneTaskEach, AtHome, Connected, HasString, Answered, Running
  <2>4. AnswersHome' /\ AnswersFresh' /\ NoneForgotten' /\ DownHasCause'
    BY <2>1 DEF IInv, AnswersHome, AnswersFresh, NoneForgotten, DownHasCause, Running
  <2>5. Unanswered' /\ Awaited' /\ OwnBusy' /\ Linked' /\ OwnConnection'
    BY <2>1, <2>2 DEF IInv, Unanswered, Awaited, OwnBusy, Linked, OwnConnection
  <2> QED BY <2>2, <2>3, <2>4, <2>5 DEF IInv
<1>4. CASE \E c \in Clients : SendCommand(c) \/ Leave(c, "quit") \/ Leave(c, "lost")
  BY <1>2, <1>4, DispatchAssumption DEF Outside
<1> QED BY <1>1, <1>2, <1>3, <1>4 DEF Next, Outside

THEOREM IInvAlways == Spec => []IInv
  BY IInvInit, IInvNext, PTL DEF Spec

\* The variables keep their types, and a request is read once and in turn.
THEOREM TypeAlways == Spec => []TypeOK
<1>1. IInv => TypeOK
  BY DEF IInv, Typed
<1> QED BY <1>1, IInvAlways, PTL

\* Answers go to who asked: the address a task holds is its client's Session as
\* long as that client has not left the task behind.
THEOREM HomeAlways == Spec => []AnswersHome
<1>1. IInv => AnswersHome
  BY DEF IInv
<1> QED BY <1>1, IInvAlways, PTL

\* The shared string holds this request's answer when it is sent, but for a
\* request that met another thread at the string.
THEOREM FreshAlways == Spec => []AnswersFresh
<1>1. IInv => AnswersFresh
  BY DEF IInv
<1> QED BY <1>1, IInvAlways, PTL

\* A request that was read is answered, refused or still about, whatever the
\* thread that has it meets; but for those that met freed memory or a taken
\* connection, of which a client that awaits its answers has none as long as no
\* client leaves a task behind.
THEOREM NoneForgottenAlways == Spec => []NoneForgotten
<1>1. IInv => NoneForgotten
  BY DEF IInv
<1> QED BY <1>1, IInvAlways, PTL

\* While clients await their answers and leave no task behind, no handler meets
\* another at its connection or a Session that is gone: the process ends only
\* for a race for the string, or when PostgreSQL or Redis fails.
THEOREM DownHasCauseAlways == Spec => []DownHasCause
<1>1. IInv => DownHasCause
  BY DEF IInv
<1> QED BY <1>1, IInvAlways, PTL

-----------------------------------------------------------------------------
(* The refinement of RequestBoard. *)

\* A task's request is on the board.
LEMMA OnBoard ==
    ASSUME Typed, WasRead, NEW t \in Threads, Running(t)
    PROVE  task[t].req \in ReadRequests
<1>1. task[t] \in About /\ task[t].req \in Requests
  BY HeldAbout, AboutTasks, TaskIs
<1> QED BY <1>1 DEF WasRead, ReadRequests

\* A step of which the board shows no more than that something is disturbed, or
\* that it is closed.
LEMMA QuietStep ==
    ASSUME Typed, Typed', DownHasCause', ~down, UNCHANGED <<read, over, answers>>,
           torn \subseteq torn', hasty \subseteq hasty', raced \subseteq raced',
           raced' \ raced \subseteq ReadRequests,
           down' \/ UNCHANGED <<down, faults>>
    PROVE  Board!Disturb \/ Board!Stop
<1>1. ReadRequests' = ReadRequests
  BY DEF ReadRequests
<1>2. Board!Trouble
  BY <1>1 DEF Board!Trouble
<1>3. CASE UNCHANGED <<down, faults>>
  BY <1>2, <1>3 DEF Board!Disturb
<1>4. CASE down'
  <2>1. (faults' > 0) \/ torn' \cup hasty' \cup raced' # {}
    BY <1>4 DEF DownHasCause
  <2> QED BY <1>2, <1>4, <2>1 DEF Board!Stop
<1> QED BY <1>3, <1>4

\* A request is refused.
LEMMA RefuseBoard ==
    ASSUME Typed, WasRead, Unanswered, NEW t \in Threads, pc[t] \in {"begin", "end"}, ~down, Refuse(t)
    PROVE  Board!Refuse(task[t].req)
<1>1. ReadRequests' = ReadRequests /\ task[t].req \in ReadRequests
  BY OnBoard DEF ReadRequests, Refuse, Running, wire
<1>2. task[t].req \notin over
  BY DEF Unanswered
<1>3. over' = over \cup {task[t].req} /\ UNCHANGED <<answers, down, faults, torn, hasty, raced>>
  BY DEF Refuse
<1> HIDE DEF ReadRequests
<1> QED BY <1>1, <1>2, <1>3 DEF Board!Refuse, Board!StrikeOff

\* Of what is undefined the board shows at most that it is closed.
LEMMA StrayBoard ==
    ASSUME Typed, Typed', DownHasCause', NEW t \in Threads, ~down, NEW l, Stray(t, l)
    PROVE  Board!Stop \/ Board!Disturb
<1>1. /\ UNCHANGED <<read, over, answers, faults, torn, hasty, raced>>
      /\ down' \/ UNCHANGED down
  BY DEF Stray, wire
<1> QED BY <1>1, QuietStep

\* What is sent goes home, was put into the string for this request, is the first
\* answer, and comes after those to the client's earlier requests.
LEMMA AnswerBoard ==
    ASSUME IInv, NEW t \in Threads, pc[t] = "send", ~down, at[task[t].addr] # None,
           answers' = answers \cup {[req |-> task[t].req, to |-> at[task[t].addr], data |-> result]},
           over' = over \cup {task[t].req},
           UNCHANGED <<read, down, faults, torn, hasty, raced>>
    PROVE  Board!Answer(task[t].req)
<1>1. Running(t) /\ Typed /\ WasRead
  BY DEF Running, IInv
<1>2. PICK r, x : r = task[t].req /\ x = [req |-> r, to |-> at[task[t].addr], data |-> result]
  OBVIOUS
<1>3. r \in ReadRequests /\ ReadRequests' = ReadRequests
  BY <1>1, <1>2, OnBoard DEF ReadRequests
<1>4. r \notin over
  BY <1>2 DEF IInv, Unanswered
<1>5. Board!Before(r) \subseteq over \/ r[1] \in hasty
  <2> SUFFICES ASSUME r[1] \notin hasty, NEW q \in Requests, q[1] = r[1], q[2] < r[2] PROVE q \in over
    BY DEF Board!Before
  <2>1. r \in Requests /\ r[2] <= read[r[1]]
    BY <1>3 DEF ReadRequests
  <2>2. r[1] \in Clients /\ r[2] \in 1..MaxSends[r[1]] /\ q[2] \in 1..MaxSends[r[1]] /\ q = <<q[1], q[2]>>
    BY <2>1, RequestIs
  <2>3. /\ read[r[1]] \in Nat /\ sent[r[1]] \in Nat /\ MaxSends[r[1]] \in Nat
        /\ read[r[1]] <= sent[r[1]]
    BY <1>1, <2>2, DispatchAssumption DEF Typed, TypeOK
  <2>4. q[2] \in 1..sent[r[1]] - 1
    BY <2>1, <2>2, <2>3
  <2> QED BY <2>2, <2>4 DEF Awaited, IInv
<1>6. x.req = r /\ (x.to = r[1] \/ r[1] \in torn) /\ (x.data = r \/ r \in raced)
  <2>1. at[task[t].addr] = r[1] \/ r[1] \in torn
    BY <1>1, <1>2, HeldAbout DEF IInv, AtHome
  <2>2. result = r \/ r \in raced
    BY <1>2 DEF IInv, HasString
  <2> QED BY <1>2, <2>1, <2>2
<1>7. x \in answers' /\ answers' = answers \cup {x}
  BY <1>2
<1>8. over' = over \cup {r}
  BY <1>2
<1> HIDE DEF ReadRequests
<1> QED BY <1>2, <1>3, <1>4, <1>5, <1>6, <1>7, <1>8 DEF Board!Answer, Board!StrikeOff

LEMMA StepBoard ==
    ASSUME IInv, IInv', NEW t \in Threads, Step(t)
    PROVE  [Board!Next]_(Board!vars)
<1>1. Typed /\ WasRead /\ Unanswered /\ Typed' /\ DownHasCause'
  BY DEF IInv
<1>2. ASSUME pc[t] \in {"begin", "end"}, ~down, Refuse(t) PROVE Board!Next
  <2>1. task[t].req \in Requests
    BY <1>1, <1>2, TaskIs DEF Typed, ThreadTyped, Running
  <2> QED BY <1>1, <1>2, <2>1, RefuseBoard DEF Board!Next
<1>3. ASSUME ~down, NEW l, Stray(t, l) PROVE [Board!Next]_(Board!vars)
  BY <1>1, <1>3, StrayBoard DEF Board!Next
<1>4. ASSUME ~down, Broken \/ Terminate PROVE Board!Next
  <2>1. down' /\ UNCHANGED <<read, answers, over, torn, hasty, raced>>
    BY <1>4 DEF Broken, Terminate, wire, history
  <2> QED BY <1>1, <1>4, <2>1, QuietStep DEF Board!Next
<1>5. ASSUME UNCHANGED <<read, over, answers, down, faults, torn, hasty, raced>>
      PROVE  UNCHANGED Board!vars
  BY <1>5 DEF Board!vars, ReadRequests
<1>6. CASE Take(t)
  BY <1>5, <1>6 DEF Take, history
<1>7. CASE Begin(t)
  <2>1. pc[t] = "begin" /\ ~down
    BY <1>7 DEF Begin
  <2>2. CASE UNCHANGED <<wire, result, answers, down, faults, history>>
    BY <1>5, <2>2 DEF wire, history
  <2> QED BY <1>2, <1>3, <1>4, <1>7, <2>1, <2>2 DEF Begin
<1>8. CASE End(t)
  <2>1. pc[t] = "end" /\ ~down
    BY <1>8 DEF End
  <2>2. CASE UNCHANGED <<at, linked, line, wire, result, answers, down, faults, history>>
    BY <1>5, <2>2 DEF wire, history
  <2> QED BY <1>2, <1>3, <1>4, <1>8, <2>1, <2>2 DEF End
<1>9. CASE Write(t)
  <2>1. /\ ~down /\ UNCHANGED <<read, answers, over, torn, hasty, faults>> /\ raced \subseteq raced'
        /\ raced' \ raced \subseteq {task[q].req : q \in {p \in Threads : Running(p)}}
    BY <1>9 DEF Write, wire, Running
  <2>2. raced' \ raced \subseteq ReadRequests
    BY <1>1, <2>1, OnBoard
  <2>3. down' \/ UNCHANGED down
    BY <1>1, <2>1 DEF Typed, TypeOK
  <2> QED BY <1>1, <2>1, <2>2, <2>3, QuietStep DEF Board!Next
<1>10. CASE SendResponse(t)
  <2>1. Running(t) /\ ~down /\ pc[t] = "send"
    BY <1>10 DEF SendResponse, Running
  <2>2. CASE ~Stray(t, "tail")
    <3>1. Board!Answer(task[t].req)
      BY <1>10, <2>1, <2>2, AnswerBoard DEF SendResponse, wire
    <3>2. task[t].req \in Requests
      BY <1>1, <2>1, TaskIs DEF Typed, ThreadTyped
    <3> QED BY <3>1, <3>2 DEF Board!Next
  <2> QED BY <1>3, <2>1, <2>2
<1>11. CASE Finish(t)
  <2>1. Running(t) /\ ~down
    BY <1>11 DEF Finish, Running
  <2>2. CASE UNCHANGED <<wire, result, answers, down, faults, history>>
    BY <1>5, <2>2 DEF wire, history
  <2> QED BY <1>3, <1>11, <2>1, <2>2 DEF Finish
<1> QED BY <1>6, <1>7, <1>8, <1>9, <1>10, <1>11 DEF Step

\* ReadMessage posts the client's next request.
LEMMA PostBoard ==
    ASSUME Typed, WasRead, NEW c \in Clients, NEW a \in Addrs, ReadMessage(c, a)
    PROVE  Board!Post(<<c, read[c] + 1>>) /\ <<c, read[c] + 1>> \in Requests
<1>1. PICK r : r = <<c, read[c] + 1>>
  OBVIOUS
<1>2. r \in Requests /\ r[1] = c /\ r[2] = read[c] + 1
  BY <1>1, AboutAfterRead
<1>3. /\ read \in [Clients -> Nat] /\ read' = [read EXCEPT ![c] = @ + 1] /\ read[c] \in Nat
      /\ ~down /\ UNCHANGED <<over, answers, down, faults, torn, hasty, raced>>
  BY DEF ReadMessage, history, Typed, TypeOK
<1>4. \A q \in Requests : q[1] \in Clients /\ q[2] \in Nat /\ q = <<q[1], q[2]>>
  <2> SUFFICES ASSUME NEW q \in Requests PROVE q[1] \in Clients /\ q[2] \in Nat /\ q = <<q[1], q[2]>>
    OBVIOUS
  <2>1. q[1] \in Clients /\ q[2] \in 1..MaxSends[q[1]] /\ q = <<q[1], q[2]>>
    BY RequestIs
  <2>2. MaxSends[q[1]] \in Nat
    BY <2>1, DispatchAssumption
  <2> QED BY <2>1, <2>2
<1>5. r \notin ReadRequests /\ Board!Before(r) \subseteq ReadRequests
  BY <1>2, <1>3, <1>4 DEF ReadRequests, Board!Before
<1>6. ASSUME NEW q \in Requests
      PROVE  q[2] <= read'[q[1]] <=> q[2] <= read[q[1]] \/ q = r
  <2>1. q[1] \in Clients /\ q[2] \in Nat /\ q = <<q[1], q[2]>> /\ read[q[1]] \in Nat
    BY <1>3, <1>4
  <2>2. CASE q[1] # c
    BY <1>2, <1>3, <2>1, <2>2
  <2>3. CASE q[1] = c
    <3>1. read'[q[1]] = read[c] + 1
      BY <1>3, <2>3
    <3>2. q = r <=> q[2] = read[c] + 1
      BY <1>1, <1>2, <2>1, <2>3
    <3>3. q[2] <= read[c] + 1 <=> q[2] <= read[c] \/ q[2] = read[c] + 1
      BY <1>3, <2>1
    <3> QED BY <2>3, <3>1, <3>2, <3>3
  <2> QED BY <2>2, <2>3
<1>7. ReadRequests' = ReadRequests \cup {r}
  BY <1>2, <1>6 DEF ReadRequests
<1> HIDE DEF ReadRequests
<1>8. Board!Post(r)
  BY <1>3, <1>5, <1>7 DEF Board!Post
<1> QED BY <1>1, <1>2, <1>8

LEMMA OutsideBoard ==
    ASSUME IInv, IInv', NEW c \in Clients, NEW a \in Addrs, Outside(c, a)
    PROVE  [Board!Next]_(Board!vars)
<1>1. Typed /\ WasRead /\ Typed' /\ DownHasCause'
  BY DEF IInv
<1>2. CASE ReadMessage(c, a)
  BY <1>1, <1>2, PostBoard DEF Board!Next
<1>3. CASE SendCommand(c) \/ Leave(c, "quit") \/ Leave(c, "lost") \/ Accept(c, a) \/ ReadQuit(c, a) \/ Destroy(c, a)
  <2>1. /\ ~down /\ UNCHANGED <<read, over, answers>>
        /\ raced' \ raced \subseteq {task[q].req : q \in {p \in Threads : Running(p)}}
        /\ down' \/ UNCHANGED <<down, faults>>
    <3>1. CASE SendCommand(c) \/ Leave(c, "quit") \/ Leave(c, "lost") \/ Destroy(c, a)
      BY <3>1 DEF SendCommand, Leave, Destroy, wire, history
    <3>2. CASE Accept(c, a)
      BY <3>2 DEF Accept, Broken, wire, history
    <3>3. CASE ReadQuit(c, a)
      <4>1. ~down /\ UNCHANGED <<read, over, answers, faults>>
        BY <3>3 DEF ReadQuit, wire
      <4>2. /\ raced' = raced \/ raced' = raced \cup {task[q].req : q \in {p \in Threads : pc[p] = "write"}}
            /\ down' = down \/ down' \in BOOLEAN
        BY <3>3 DEF ReadQuit
      <4> QED BY <1>1, <4>1, <4>2 DEF Running, Typed, TypeOK
    <3> QED BY <1>3, <3>1, <3>2, <3>3
  <2>2. raced' \ raced \subseteq ReadRequests
    BY <1>1, <2>1, OnBoard
  <2>3. torn \subseteq torn' /\ hasty \subseteq hasty' /\ raced \subseteq raced'
    BY OutsideShape
  <2> QED BY <1>1, <2>1, <2>2, <2>3, QuietStep DEF Board!Next
<1> QED BY <1>2, <1>3 DEF Outside

LEMMA BoardInit == Init => Board!Init
<1> SUFFICES ASSUME Init PROVE Board!Init
  OBVIOUS
<1>1. /\ over = {} /\ answers = {} /\ raced = {} /\ torn = {} /\ hasty = {} /\ down = FALSE /\ faults = 0
      /\ \A c \in Clients : read[c] = 0 /\ sent[c] = 0
  BY DEF Init
<1>2. ReadRequests = {}
  <2> SUFFICES ASSUME NEW r \in Requests PROVE ~(r[2] <= read[r[1]])
    BY DEF ReadRequests
  <2>1. r[1] \in Clients /\ r[2] \in 1..MaxSends[r[1]]
    BY RequestIs
  <2>2. MaxSends[r[1]] \in Nat /\ read[r[1]] = 0
    BY <1>1, <2>1, DispatchAssumption
  <2> QED BY <2>1, <2>2
<1> QED BY <1>1, <1>2 DEF Board!Init

\* The dispatch implements RequestBoard: what a session is destroyed under, what a
\* thread finds at an address and who wins the string can cost a client that awaits
\* its answers its own answer only where the board says so.
THEOREM RequestsAreAnswered == Spec => ImplementsBoard
<1>1. Init => Board!Init
  BY BoardInit
<1>2. IInv /\ IInv' /\ [Next]_vars => [Board!Next]_(Board!vars)
  <2> SUFFICES ASSUME IInv, IInv', [Next]_vars PROVE [Board!Next]_(Board!vars)
    OBVIOUS
  <2>2. CASE UNCHANGED vars
    <3>1. UNCHANGED <<read, over, answers, down, faults, torn, hasty, raced>>
      BY <2>2 DEF vars, wire, history
    <3> QED BY <3>1 DEF Board!vars, ReadRequests
  <2>3. ASSUME NEW t \in Threads, Step(t) PROVE [Board!Next]_(Board!vars)
    BY <2>3, StepBoard
  <2>4. ASSUME NEW c \in Clients, NEW a \in Addrs, Outside(c, a) PROVE [Board!Next]_(Board!vars)
    BY <2>4, OutsideBoard
  <2>5. CASE \E c \in Clients : SendCommand(c) \/ Leave(c, "quit") \/ Leave(c, "lost")
    BY <2>4, <2>5, DispatchAssumption DEF Outside
  <2> QED BY <2>2, <2>3, <2>4, <2>5 DEF Next, Outside
<1> QED BY <1>1, <1>2, IInvAlways, PTL DEF Spec, ImplementsBoard, Board!Spec
=============================================================================
