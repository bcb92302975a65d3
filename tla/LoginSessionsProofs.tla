------------------------- MODULE LoginSessionsProofs -------------------------
(***************************************************************************)
(* What signing in and out keeps for every number of users, clients,       *)
(* threads and tokens, however calls fail and whenever the server restarts:*)
(* its type, the seat behind every honoured token, one honoured token per  *)
(* user, and that a dead token stays dead.                                 *)
(*                                                                         *)
(* LiveTokenGuarded and OneSeat hold only together with what the threads   *)
(* know between their calls (SessionInv): that a token is one login's own  *)
(* until it is answered, and that between the check of the seat and its    *)
(* taking nobody holds a token of that user. One lemma per action; the ones*)
(* before them are about the threads a step leaves alone.                  *)
(***************************************************************************)
EXTENDS LoginSessions, SequenceTheorems, TLAPS

\* The inductive invariant.
IInv == TypeOK /\ SessionInv

\* What the invariant says of one thread.
ThreadOK(q) == JobOK(q) /\ TokenOK(q) /\ SeatOK(q)

\* Only thread p moves.
Others(p) == \A q \in Threads : q # p =>
    pc'[q] = pc[q] /\ job'[q] = job[q] /\ answer'[q] = answer[q]

\* What was answered stays what it was, and who raced has raced.
Settled == /\ answered \subseteq answered' /\ raced \subseteq raced'
           /\ \A t \in answered : owner'[t] = owner[t] /\ (auth'[t] > 0 => auth[t] > 0)

\* Nobody begins to sign a user in or out.
NobodyNew == \A r \in Threads : \A u : Handles(r, u)' => Handles(r, u)

\* The counter of troubles stays a number.
LEMMA TroublesNat ==
  ASSUME troubles \in Nat, Fault \/ troubles' = troubles
  PROVE  troubles' \in Nat
BY BoundAssumption DEF Fault

\* A token goes on fitting a user.
LEMMA FitsStays ==
  ASSUME NEW t, NEW u, Fits(t, u), Settled
  PROVE  Fits(t, u)'
BY DEF Fits, Settled

\* A thread a step leaves alone keeps its task.
LEMMA JobStays ==
  ASSUME NEW q \in Threads, JobOK(q), pc'[q] = pc[q], job'[q] = job[q], Settled
  PROVE  JobOK(q)'
<1>1. Fits(job[q].token, job[q].user) => Fits(job[q].token, job[q].user)'
  BY FitsStays
<1>2. TaskOK(job[q]) => TaskOK(job[q])'
  BY <1>1 DEF TaskOK
<1> QED BY <1>2 DEF JobOK, Settled

\* ... and its token, while nobody is answered that token.
LEMMA TokenStays ==
  ASSUME NEW q \in Threads, TokenOK(q),
         pc'[q] = pc[q], job'[q] = job[q], answer'[q] = answer[q],
         issued \subseteq issued', answered \subseteq answered',
         \A t \in answered : owner'[t] = owner[t],
         pc[q] \in SignInPcs => job[q].token \notin answered',
         pc[q] \in {"hmset", "expire"} => owner'[job[q].token] = owner[job[q].token]
  PROVE  TokenOK(q)'
BY DEF TokenOK

\* ... and its seat, while its user gets no new token and no new sign-in.
LEMMA SeatStays ==
  ASSUME NEW q \in Threads, SeatOK(q), pc'[q] = pc[q], job'[q] = job[q],
         raced \subseteq raced',
         Held(job[q].user)' \subseteq Held(job[q].user),
         \A r \in Threads : Handles(r, job[q].user)' => Handles(r, job[q].user),
         session'[job[q].user] = session[job[q].user]
  PROVE  SeatOK(q)'
BY DEF SeatOK

\* All three, where the step touches neither the seats nor the owners.
LEMMA OtherThread ==
  ASSUME IInv, NEW p \in Threads, NEW q \in Threads, q # p, Others(p), NobodyNew,
         UNCHANGED <<issued, answered, owner, session>>, Settled
  PROVE  ThreadOK(q)'
<1>1. JobOK(q) /\ TokenOK(q) /\ SeatOK(q)
  BY DEF IInv, SessionInv, ThreadsInv
<1>2. pc'[q] = pc[q] /\ job'[q] = job[q] /\ answer'[q] = answer[q]
  BY DEF Others
<1>3. Held(job[q].user)' \subseteq Held(job[q].user)
  BY <1>2 DEF Held, Settled
<1>4. pc[q] \in SignInPcs => job[q].token \notin answered'
  BY <1>1 DEF TokenOK
<1> QED BY <1>1, <1>2, <1>3, <1>4, JobStays, TokenStays, SeatStays DEF ThreadOK, NobodyNew, Settled

\* What is left alone while Redis and the two histories are.
LEMMA StoresKeep ==
  ASSUME IInv, UNCHANGED <<auth, owner, session, issued, answered>>, raced \subseteq raced'
  PROVE  AnsweredInv' /\ LiveTokenGuarded' /\ OneSeat'
BY DEF IInv, SessionInv, AnsweredInv, LiveTokenGuarded, OneSeat, SeatToken

\* ... and what is left alone while the queue is,
LEMMA QueueKeeps ==
  ASSUME IInv, queue' = queue, Settled
  PROVE  QueueInv'
<1> SUFFICES ASSUME NEW i \in 1..Len(queue) PROVE TaskOK(queue[i])'
  BY DEF QueueInv
<1>1. TaskOK(queue[i])
  BY DEF IInv, SessionInv, QueueInv
<1> QED BY <1>1, FitsStays DEF TaskOK

\* ... and a client is.
LEMMA WindowKeeps ==
  ASSUME IInv, NEW c \in Clients, client'[c] = client[c], Settled
  PROVE  /\ client'[c].st \in {"waiting", "answered", "main"} => client'[c].user \in Users
         /\ client'[c].st \in {"answered", "main"} => Fits(client[c].token, client[c].user)'
<1>1. Fits(client[c].token, client[c].user) => Fits(client[c].token, client[c].user)'
  BY FitsStays
<1> QED BY <1>1 DEF IInv, SessionInv, ClientInv

\* Both, for a step no window takes part in.
LEMMA TasksKeep ==
  ASSUME IInv, queue' = queue, client' = client, Settled
  PROVE  QueueInv' /\ ClientInv'
BY QueueKeeps, WindowKeeps DEF ClientInv

\* UserID and GetSaltAndPassword.
LEMMA LoginCheckKeeps ==
  ASSUME IInv, NEW p \in Threads, LoginCheck(p)
  PROVE  IInv'
<1>1. /\ Others(p)
      /\ job' = job
      /\ \/ pc'[p] = "seat"
         \/ pc'[p] = "send" /\ answer'[p] \in Texts
  BY DEF IInv, TypeOK, LoginCheck, Fault, Goto, Reply, Texts, Others
<1>2. pc[p] = "check" /\ UNCHANGED <<redis, rows, queue, row, child, forms, history>>
  BY DEF LoginCheck
<1>3. NobodyNew
  BY <1>1 DEF Others, Handles, SignInPcs, QuitPcs, NobodyNew
<1>4. TypeOK'
  <2>1. pc' \in [Threads -> LoginPcs \cup QuitPcs \cup CopyPcs \cup {"idle", "activity", "validate", "send"}]
    BY DEF IInv, TypeOK, LoginCheck, Fault, Goto, Reply, LoginPcs
  <2>2. answer' \in [Threads -> Answers \cup {NoToken}]
    BY DEF IInv, TypeOK, LoginCheck, Fault, Goto, Reply, Answers, Texts
  <2>3. troubles' \in Nat
    BY TroublesNat DEF IInv, TypeOK, LoginCheck
  <2> QED BY <2>1, <2>2, <2>3 DEF IInv, TypeOK, LoginCheck, redis, rows, tables, forms, history
<1>5. ASSUME NEW q \in Threads, q # p PROVE ThreadOK(q)'
  BY <1>1, <1>2, <1>3, <1>5, OtherThread DEF redis, forms, history, Settled
<1>6. ThreadOK(p)'
  <2>1. JobOK(p) BY DEF IInv, SessionInv, ThreadsInv
  <2>2. JobOK(p)' BY <2>1, <1>1, <1>2 DEF JobOK, LoginPcs, QuitPcs
  <2>3. TokenOK(p)' BY <1>1, <1>2, NameAssumption DEF TokenOK, SignInPcs, IInv, TypeOK
  <2>4. SeatOK(p)' BY <1>1 DEF SeatOK, SignInPcs
  <2> QED BY <2>2, <2>3, <2>4 DEF ThreadOK
<1>7. TokensDiffer'
  BY <1>1 DEF TokensDiffer, Others, IInv, SessionInv, SignInPcs
<1>8. QueueInv' /\ ClientInv' /\ AnsweredInv' /\ LiveTokenGuarded' /\ OneSeat'
  BY <1>2, TasksKeep, StoresKeep DEF redis, forms, history, Settled
<1> QED BY <1>4, <1>5, <1>6, <1>7, <1>8 DEF IInv, SessionInv, ThreadsInv, ThreadOK

\* IsUserActive and GenerateToken: nobody else signs this user in or out, or it is
\* a race; the free seat means no token of the user is honoured.
LEMMA LoginSeatKeeps ==
  ASSUME IInv, NEW p \in Threads, LoginSeat(p)
  PROVE  IInv'
<1> DEFINE u == job[p].user
<1>1. /\ pc[p] = "seat" /\ u \in Users /\ job[p] \in Jobs /\ job[p].op = "Login"
      /\ UNCHANGED <<redis, rows, queue, row, child, forms, answered, halfQuit, counters>>
  BY DEF LoginSeat, IInv, SessionInv, ThreadsInv, JobOK, LoginPcs
<1>2. CASE session[u] # 0
  <2>1. /\ Others(p) /\ job' = job /\ UNCHANGED <<issued, raced>>
        /\ pc'[p] = "send" /\ answer'[p] = "Session exists"
    BY <1>2 DEF IInv, TypeOK, LoginSeat, Reply, Others
  <2>2. NobodyNew
    BY <2>1 DEF Others, Handles, SignInPcs, QuitPcs, NobodyNew
  <2>3. TypeOK'
    <3>1. pc' \in [Threads -> LoginPcs \cup QuitPcs \cup CopyPcs \cup {"idle", "activity", "validate", "send"}]
      BY <1>2 DEF IInv, TypeOK, LoginSeat, Reply, LoginPcs
    <3>2. answer' \in [Threads -> Answers \cup {NoToken}]
      BY <1>2 DEF IInv, TypeOK, LoginSeat, Reply, Answers, Texts
    <3> QED BY <3>1, <3>2, <1>1, <2>1 DEF IInv, TypeOK, redis, rows, tables, forms, counters
  <2>4. ASSUME NEW q \in Threads, q # p PROVE ThreadOK(q)'
    BY <1>1, <2>1, <2>2, <2>4, OtherThread DEF redis, Settled
  <2>5. ThreadOK(p)'
    <3>1. JobOK(p)' BY <1>1, <2>1 DEF JobOK, LoginPcs, QuitPcs
    <3>2. TokenOK(p)' BY <1>1, <2>1, NameAssumption DEF TokenOK, SignInPcs, Texts
    <3>3. SeatOK(p)' BY <2>1 DEF SeatOK, SignInPcs
    <3> QED BY <3>1, <3>2, <3>3 DEF ThreadOK
  <2>6. TokensDiffer'
    BY <2>1 DEF TokensDiffer, Others, IInv, SessionInv, SignInPcs
  <2>7. QueueInv' /\ ClientInv' /\ AnsweredInv' /\ LiveTokenGuarded' /\ OneSeat'
    BY <1>1, <2>1, TasksKeep, StoresKeep DEF redis, forms, Settled
  <2> QED BY <2>3, <2>4, <2>5, <2>6, <2>7 DEF IInv, SessionInv, ThreadsInv, ThreadOK
<1>3. CASE session[u] = 0
  <2>1. PICK t \in Tokens \ issued :
          /\ issued' = issued \cup {t}
          /\ job' = [job EXCEPT ![p].token = t]
          /\ raced' = IF \E q \in Threads : Handles(q, u) THEN raced \cup {u} ELSE raced
          /\ pc' = [pc EXCEPT ![p] = "row"]
          /\ answer' = answer
    BY <1>3 DEF LoginSeat, Goto
  <2>2. /\ Others(p) /\ pc'[p] = "row"
        /\ job'[p] = [job[p] EXCEPT !.token = t]
        /\ \A q \in Threads : q # p => job'[q] = job[q]
    BY <2>1 DEF IInv, TypeOK, Others
  <2>3. /\ job'[p] \in Jobs /\ job'[p].user = u /\ job'[p].token = t /\ job'[p].op = "Login"
    BY <1>1, <2>2 DEF Jobs, Answers
  <2>4. TypeOK'
    <3>1. pc' \in [Threads -> LoginPcs \cup QuitPcs \cup CopyPcs \cup {"idle", "activity", "validate", "send"}]
      BY <2>1 DEF IInv, TypeOK, LoginPcs
    <3>2. job' \in [Threads -> Jobs \cup {NoJob}]
      BY <2>1, <2>2, <2>3 DEF IInv, TypeOK
    <3>3. raced' \subseteq Users /\ issued' \subseteq Tokens
      BY <1>1, <2>1 DEF IInv, TypeOK
    <3> QED BY <3>1, <3>2, <3>3, <1>1, <2>1 DEF IInv, TypeOK, redis, rows, tables, forms, counters
  <2>5. \A v : Held(v)' = Held(v)
    BY <1>1 DEF Held, redis
  <2>6. u \notin raced => Held(u) = {}
    BY <1>1, <1>3 DEF IInv, SessionInv, LiveTokenGuarded, SeatToken, Held, TypeOK
  <2>7. ASSUME NEW q \in Threads, q # p PROVE ThreadOK(q)'
    <3>1. JobOK(q) /\ TokenOK(q) /\ SeatOK(q) BY DEF IInv, SessionInv, ThreadsInv
    <3>2. /\ pc'[q] = pc[q] /\ job'[q] = job[q] /\ answer'[q] = answer[q]
      BY <2>2, <2>7 DEF Others
    <3>3. JobOK(q)' BY <3>1, <3>2, <1>1, <2>1, JobStays DEF redis, Settled
    <3>4. TokenOK(q)'
      BY <3>1, <3>2, <1>1, <2>1 DEF TokenOK, redis
    <3>5. SeatOK(q)'
      <4>1. CASE job[q].user = u /\ pc[q] \in SignInPcs \cup QuitPcs
        BY <4>1, <2>1, <3>2 DEF Handles, SeatOK, QuitPcs
      <4>2. CASE ~(job[q].user = u /\ pc[q] \in SignInPcs \cup QuitPcs)
        <5>1. CASE pc[q] \in SignInPcs \cup QuitPcs
          <6>1. \A r \in Threads : Handles(r, job[q].user)' => Handles(r, job[q].user)
            BY <5>1, <4>2, <2>2, <2>3 DEF Handles, Others
          <6> QED BY <6>1, <3>1, <3>2, <2>1, <2>5, <1>1, SeatStays DEF redis
        <5>2. CASE pc[q] \notin SignInPcs \cup QuitPcs
          BY <5>2, <3>2 DEF SeatOK, QuitPcs
        <5> QED BY <5>1, <5>2
      <4> QED BY <4>1, <4>2
    <3> QED BY <3>3, <3>4, <3>5 DEF ThreadOK
  <2>8. ThreadOK(p)'
    <3>1. JobOK(p)' BY <2>2, <2>3, <1>1 DEF JobOK, LoginPcs, QuitPcs
    <3>2. TokenOK(p)' BY <2>1, <2>2, <2>3, <1>1 DEF TokenOK, IInv, SessionInv, AnsweredInv
    <3>3. ASSUME u \notin raced' PROVE \A q \in Threads : q # p => ~Handles(q, u)'
      BY <3>3, <2>1, <2>2 DEF Others, Handles
    <3>4. u \notin raced' => u \notin raced BY <2>1
    <3>5. SeatOK(p)'
      BY <3>3, <3>4, <2>2, <2>3, <2>5, <2>6, <1>1, <1>3 DEF SeatOK, redis
    <3> QED BY <3>1, <3>2, <3>5 DEF ThreadOK
  <2>9. TokensDiffer'
    <3>1. ASSUME NEW q \in Threads, q # p, pc[q] \in SignInPcs PROVE job[q].token # t
      BY <3>1 DEF IInv, SessionInv, ThreadsInv, TokenOK
    <3>2. SUFFICES ASSUME NEW a \in Threads, NEW b \in Threads, a # b,
                          (pc[a] \in SignInPcs)', (pc[b] \in SignInPcs)'
                   PROVE  job'[a].token # job'[b].token
      BY DEF TokensDiffer
    <3>3. CASE a # p /\ b # p
      BY <3>2, <3>3, <2>2 DEF TokensDiffer, Others, IInv, SessionInv
    <3>4. CASE a = p
      BY <3>1, <3>2, <3>4, <2>2, <2>3 DEF Others
    <3>5. CASE b = p
      BY <3>1, <3>2, <3>5, <2>2, <2>3 DEF Others
    <3> QED BY <3>3, <3>4, <3>5
  <2>10. QueueInv' /\ ClientInv' /\ AnsweredInv' /\ LiveTokenGuarded' /\ OneSeat'
    <3>1. QueueInv' /\ ClientInv'
      BY <1>1, <2>1, TasksKeep DEF redis, forms, Settled
    <3>2. AnsweredInv' /\ LiveTokenGuarded' /\ OneSeat'
      BY <1>1, <2>1 DEF IInv, SessionInv, AnsweredInv, LiveTokenGuarded, OneSeat, SeatToken, redis
    <3> QED BY <3>1, <3>2
  <2> QED BY <2>4, <2>7, <2>8, <2>9, <2>10 DEF IInv, SessionInv, ThreadsInv, ThreadOK
<1> QED BY <1>2, <1>3

\* A thread that stays between the check and the taking of its seat.
LEMMA SignInStays ==
  ASSUME IInv, NEW p \in Threads, Others(p), job' = job,
         pc[p] \in SignInPcs, pc'[p] \in SignInPcs,
         UNCHANGED <<issued, answered, raced, auth>>,
         \A t \in answered : owner'[t] = owner[t],
         \A v \in Users : session'[v] = session[v] \/ (session[v] = 0 /\ session'[v] = Forever),
         pc'[p] = "expire" => session'[job[p].user] # 0,
         pc'[p] \in {"hmset", "expire"} => owner'[job[p].token] = job[p].user,
         \A q \in Threads : pc[q] \in {"hmset", "expire"} /\ q # p => owner'[job[q].token] = owner[job[q].token]
  PROVE  ThreadsInv' /\ TokensDiffer'
<1>1. \A q \in Threads : JobOK(q) /\ TokenOK(q) /\ SeatOK(q)
  BY DEF IInv, SessionInv, ThreadsInv
<1>2. \A v : Held(v)' = Held(v)
  BY DEF Held
<1>3. NobodyNew
  BY DEF Others, Handles, SignInPcs, QuitPcs, NobodyNew
<1>4. ASSUME NEW q \in Threads, q # p PROVE ThreadOK(q)'
  <2>1. pc'[q] = pc[q] /\ job'[q] = job[q] /\ answer'[q] = answer[q] BY <1>4 DEF Others
  <2>2. JobOK(q)' BY <1>1, <2>1, JobStays DEF Settled
  <2>3. TokenOK(q)' BY <1>1, <1>4, <2>1, TokenStays DEF TokenOK
  <2>4. SeatOK(q)'
    <3>1. job[q].user \in Users \/ pc[q] \notin SignInPcs
      BY <1>1 DEF JobOK, SignInPcs, LoginPcs
    <3> QED BY <1>1, <1>2, <1>3, <2>1, <3>1, TTLAssumption DEF SeatOK, NobodyNew, Forever, SignInPcs
  <2> QED BY <2>2, <2>3, <2>4 DEF ThreadOK
<1>5. ThreadOK(p)'
  <2>1. JobOK(p)' BY <1>1 DEF JobOK, SignInPcs, LoginPcs, QuitPcs
  <2>2. TokenOK(p)' BY <1>1 DEF TokenOK, SignInPcs
  <2>3. job[p].user \in Users BY <1>1 DEF JobOK, SignInPcs, LoginPcs
  <2>4. SeatOK(p)'
    BY <1>1, <1>2, <1>3, <2>3 DEF SeatOK, SignInPcs, NobodyNew
  <2> QED BY <2>1, <2>2, <2>4 DEF ThreadOK
<1>6. TokensDiffer'
  BY DEF TokensDiffer, Others, IInv, SessionInv
<1> QED BY <1>4, <1>5, <1>6 DEF ThreadsInv, ThreadOK

\* A thread that gives up its seat or has done with its task: no new claims.
LEMMA LeavingKeeps ==
  ASSUME IInv, NEW p \in Threads, Others(p), pc'[p] \in CopyPcs \cup {"send", "idle"},
         pc'[p] = "send" =>
             pc[p] # "idle" /\ job'[p] = job[p] /\ answer'[p] \in Texts \cup answered,
         pc'[p] \in CopyPcs => pc[p] # "idle" /\ job'[p] = job[p],
         UNCHANGED <<issued, answered, owner, session>>, Settled
  PROVE  ThreadsInv' /\ TokensDiffer'
<1>1. NobodyNew
  BY DEF Others, Handles, SignInPcs, QuitPcs, CopyPcs, NobodyNew
<1>2. ASSUME NEW q \in Threads, q # p PROVE ThreadOK(q)'
  BY <1>1, <1>2, OtherThread DEF Settled
<1>3. ThreadOK(p)'
  <2>1. JobOK(p) BY DEF IInv, SessionInv, ThreadsInv
  <2>2. JobOK(p)' BY <2>1 DEF JobOK, LoginPcs, QuitPcs, CopyPcs
  <2>3. TokenOK(p)' BY NameAssumption DEF TokenOK, SignInPcs, CopyPcs
  <2>4. SeatOK(p)' BY DEF SeatOK, SignInPcs, CopyPcs
  <2> QED BY <2>2, <2>3, <2>4 DEF ThreadOK
<1>4. TokensDiffer'
  BY DEF TokensDiffer, Others, IInv, SessionInv, SignInPcs, CopyPcs
<1> QED BY <1>2, <1>3, <1>4 DEF ThreadsInv, ThreadOK

\* HMSET and HSET: the key is typed.
LEMMA TouchType ==
  ASSUME NEW u, session \in [Users -> 0..Forever],
         session' = [session EXCEPT ![u] = Touch(@)] \/ session' = session
  PROVE  session' \in [Users -> 0..Forever]
<1>1. \A n \in 0..Forever : Touch(n) \in 0..Forever
  BY TTLAssumption DEF Touch, Forever
<1> QED BY <1>1

\* HMSET and HSET: the key guards what it guarded.
LEMMA TouchGuards ==
  ASSUME IInv, NEW u \in Users,
         session' = [session EXCEPT ![u] = Touch(@)] \/ session' = session,
         UNCHANGED <<auth, owner, answered, raced>>
  PROVE  LiveTokenGuarded'
<1>1. ASSUME NEW v \in Users
      PROVE  session[v] \in 0..Forever /\ session'[v] \in 0..Forever /\ session'[v] >= session[v]
  <2>1. session \in [Users -> 0..Forever] BY DEF IInv, TypeOK
  <2>2. session'[v] = session[v] \/ (session[v] = 0 /\ session'[v] = Forever)
    BY <2>1 DEF Touch
  <2>3. session[v] \in 0..Forever BY <2>1
  <2> QED BY <2>2, <2>3, TTLAssumption DEF Forever
<1>2. SUFFICES ASSUME NEW t \in Tokens, SeatToken(t) PROVE session'[owner[t]] >= auth[t]
  BY DEF LiveTokenGuarded, SeatToken
<1>3. owner[t] \in Users /\ auth[t] \in 0..TTL
  BY <1>2 DEF IInv, SessionInv, AnsweredInv, SeatToken, TypeOK
<1>4. session[owner[t]] >= auth[t]
  BY <1>2 DEF IInv, SessionInv, LiveTokenGuarded
<1> QED BY <1>1, <1>3, <1>4, TTLAssumption DEF Forever

\* What another thread knows of its seat survives an HSET of anybody's.
LEMMA TouchedOther ==
  ASSUME IInv, NEW p \in Threads, NEW q \in Threads, q # p, Others(p), NobodyNew,
         UNCHANGED <<issued, answered, owner, raced, auth>>,
         \A v \in Users : session'[v] = session[v] \/ (session[v] = 0 /\ session'[v] = Forever)
  PROVE  ThreadOK(q)'
<1>1. JobOK(q) /\ TokenOK(q) /\ SeatOK(q) BY DEF IInv, SessionInv, ThreadsInv
<1>2. pc'[q] = pc[q] /\ job'[q] = job[q] /\ answer'[q] = answer[q] BY DEF Others
<1>3. \A v : Held(v)' = Held(v) BY DEF Held
<1>4. JobOK(q)' BY <1>1, <1>2, JobStays DEF Settled
<1>5. TokenOK(q)' BY <1>1, <1>2, TokenStays DEF TokenOK
<1>6. SeatOK(q)'
  <2>1. pc[q] \in SignInPcs => job[q].user \in Users
    BY <1>1 DEF JobOK, SignInPcs, LoginPcs
  <2> QED BY <1>1, <1>2, <1>3, <2>1, TTLAssumption DEF SeatOK, NobodyNew, Forever, SignInPcs
<1> QED BY <1>4, <1>5, <1>6 DEF ThreadOK

\* LeavingKeeps for a step that also touches a seat.
LEMMA TouchedLeaves ==
  ASSUME IInv, NEW p \in Threads, Others(p), pc[p] \in LoginPcs,
         pc'[p] = "send", job' = job, answer'[p] \in Texts,
         UNCHANGED <<issued, answered, owner, raced, auth>>,
         \A v \in Users : session'[v] = session[v] \/ (session[v] = 0 /\ session'[v] = Forever)
  PROVE  ThreadsInv' /\ TokensDiffer'
<1>1. NobodyNew
  BY DEF Others, Handles, SignInPcs, QuitPcs, NobodyNew
<1>2. ASSUME NEW q \in Threads, q # p PROVE ThreadOK(q)'
  BY <1>1, <1>2, TouchedOther
<1>3. ThreadOK(p)'
  <2>1. JobOK(p) BY DEF IInv, SessionInv, ThreadsInv
  <2>2. JobOK(p)' BY <2>1 DEF JobOK, LoginPcs, QuitPcs
  <2>3. TokenOK(p)' BY NameAssumption DEF TokenOK, SignInPcs
  <2>4. SeatOK(p)' BY DEF SeatOK, SignInPcs
  <2> QED BY <2>2, <2>3, <2>4 DEF ThreadOK
<1>4. TokensDiffer'
  BY DEF TokensDiffer, Others, IInv, SessionInv, SignInPcs
<1> QED BY <1>2, <1>3, <1>4 DEF ThreadsInv, ThreadOK

\* AddSession.
LEMMA LoginRowKeeps ==
  ASSUME IInv, NEW p \in Threads, LoginRow(p)
  PROVE  IInv'
<1>1. /\ pc[p] = "row"
      /\ UNCHANGED <<redis, openRows, dump, unrowed, tables, queue, job, child, forms, history, logins>>
  BY DEF LoginRow
<1>2. /\ Others(p)
      /\ \/ pc'[p] = "commit"
         \/ pc'[p] = "send" /\ answer'[p] = "Error"
  <2>1. \/ pc' = [pc EXCEPT ![p] = "commit"] /\ answer' = answer
        \/ Reply(p, "Error")
    BY DEF LoginRow, Goto
  <2>2. job' = job BY <1>1
  <2>3. pc \in [Threads -> LoginPcs \cup QuitPcs \cup CopyPcs \cup {"idle", "activity", "validate", "send"}]
        /\ answer \in [Threads -> Answers \cup {NoToken}]
    BY DEF IInv, TypeOK
  <2> QED BY <2>1, <2>2, <2>3 DEF Reply, Others
<1>3. TypeOK'
  <2>1. pc' \in [Threads -> LoginPcs \cup QuitPcs \cup CopyPcs \cup {"idle", "activity", "validate", "send"}]
    BY DEF IInv, TypeOK, LoginRow, Goto, Reply, LoginPcs
  <2>2. answer' \in [Threads -> Answers \cup {NoToken}]
    BY DEF IInv, TypeOK, LoginRow, Goto, Reply, Answers, Texts
  <2>3. row' \in [Threads -> BOOLEAN]
    BY DEF IInv, TypeOK, LoginRow
  <2>4. troubles' \in Nat
    BY TroublesNat DEF IInv, TypeOK, LoginRow, FailsIf
  <2>5. mixed' \subseteq Users
    <3>1. job[p].user \in Users
      BY <1>1 DEF IInv, SessionInv, ThreadsInv, JobOK, LoginPcs
    <3> QED BY <3>1 DEF IInv, TypeOK, LoginRow
  <2> QED BY <2>1, <2>2, <2>3, <2>4, <2>5, <1>1 DEF IInv, TypeOK, redis, tables, forms, history
<1>4. CASE pc'[p] = "commit"
  <2>1. ThreadsInv' /\ TokensDiffer'
    BY <1>1, <1>2, <1>4, SignInStays DEF redis, forms, history, SignInPcs
  <2> QED BY <2>1, <1>1, <1>3, StoresKeep, TasksKeep DEF IInv, SessionInv, redis, forms, history, Settled
<1>5. CASE pc'[p] = "send"
  <2>1. ThreadsInv' /\ TokensDiffer'
    BY <1>1, <1>2, <1>5, LeavingKeeps DEF redis, forms, history, CopyPcs, Texts, Settled
  <2> QED BY <2>1, <1>1, <1>3, StoresKeep, TasksKeep DEF IInv, SessionInv, redis, forms, history, Settled
<1> QED BY <1>2, <1>4, <1>5

\* The commit of AddSession.
LEMMA LoginCommitKeeps ==
  ASSUME IInv, NEW p \in Threads, LoginCommit(p)
  PROVE  IInv'
<1>1. /\ pc[p] = "commit" /\ unrowed' \subseteq unrowed
      /\ UNCHANGED <<redis, dump, mixed, tables, queue, job, answer, child, forms, history, counters>>
  BY DEF LoginCommit
<1>2. Others(p) /\ pc'[p] = "auth"
  BY <1>1 DEF IInv, TypeOK, LoginCommit, Goto, Others
<1>3. TypeOK'
  <2>1. pc' \in [Threads -> LoginPcs \cup QuitPcs \cup CopyPcs \cup {"idle", "activity", "validate", "send"}]
    BY DEF IInv, TypeOK, LoginCommit, Goto, LoginPcs
  <2>2. row' \in [Threads -> BOOLEAN]
    BY DEF IInv, TypeOK, LoginCommit
  <2>3. job[p].user \in Users
    BY <1>1 DEF IInv, SessionInv, ThreadsInv, JobOK, LoginPcs
  <2>4. openRows \in [Users -> Nat] /\ (openRows' = [openRows EXCEPT ![job[p].user] = @ + 1] \/ openRows' = openRows)
    BY DEF IInv, TypeOK, LoginCommit
  <2>5. openRows' \in [Users -> Nat]
    BY <2>3, <2>4
  <2> QED BY <2>1, <2>2, <2>5, <1>1 DEF IInv, TypeOK, redis, tables, forms, history, counters
<1>4. ThreadsInv' /\ TokensDiffer'
  BY <1>1, <1>2, SignInStays DEF redis, forms, history, SignInPcs
<1> QED BY <1>1, <1>3, <1>4, StoresKeep, TasksKeep DEF IInv, SessionInv, redis, forms, history, Settled

\* SET auth:<token>: the token is not answered yet, so it is nobody's.
LEMMA LoginAuthKeeps ==
  ASSUME IInv, NEW p \in Threads, LoginAuth(p)
  PROVE  IInv'
<1> DEFINE t == job[p].token
           u == job[p].user
<1>1. pc[p] = "auth" /\ UNCHANGED <<session, rows, queue, job, row, child, forms, history, logins>>
  BY DEF LoginAuth
<1>2. u \in Users /\ t \in Tokens /\ t \notin answered
  BY <1>1 DEF IInv, SessionInv, ThreadsInv, JobOK, TokenOK, TypeOK, LoginPcs, SignInPcs
<1>3. /\ \/ auth' = [auth EXCEPT ![t] = TTL] /\ owner' = [owner EXCEPT ![t] = u]
         \/ auth' = auth /\ owner' = owner
      /\ \/ pc' = [pc EXCEPT ![p] = "hmset"] /\ UNCHANGED <<answer, troubles>>
            /\ auth' = [auth EXCEPT ![t] = TTL] /\ owner' = [owner EXCEPT ![t] = u]
         \/ Reply(p, "Error") /\ Fault
  BY DEF LoginAuth, RedisCall, Goto
<1>4. /\ Others(p)
      /\ \/ pc'[p] = "hmset" /\ owner' = [owner EXCEPT ![t] = u]
         \/ pc'[p] = "send" /\ answer'[p] = "Error"
  BY <1>1, <1>3 DEF IInv, TypeOK, Reply, Others
<1>5. TypeOK'
  <2>1. pc' \in [Threads -> LoginPcs \cup QuitPcs \cup CopyPcs \cup {"idle", "activity", "validate", "send"}]
    BY <1>3 DEF IInv, TypeOK, Reply, LoginPcs
  <2>2. answer' \in [Threads -> Answers \cup {NoToken}]
    BY <1>3 DEF IInv, TypeOK, Reply, Answers, Texts
  <2>3. auth' \in [Tokens -> 0..TTL] /\ owner' \in [Tokens -> Users \cup {NoUser}]
    <3>1. TTL \in 0..TTL BY TTLAssumption
    <3>2. auth \in [Tokens -> 0..TTL] /\ owner \in [Tokens -> Users \cup {NoUser}]
      BY DEF IInv, TypeOK
    <3> HIDE DEF t, u
    <3> QED BY <3>1, <3>2, <1>2, <1>3
  <2>4. troubles' \in Nat
    BY <1>3, TroublesNat DEF IInv, TypeOK
  <2> QED BY <2>1, <2>2, <2>3, <2>4, <1>1 DEF IInv, TypeOK, rows, tables, forms, history
<1>6. /\ \A s \in answered : auth'[s] = auth[s] /\ owner'[s] = owner[s]
      /\ \A s \in Tokens : s # t => owner'[s] = owner[s]
  BY <1>2, <1>3 DEF IInv, TypeOK
<1>7. ThreadsInv' /\ TokensDiffer'
  <2>1. \A q \in Threads : JobOK(q) /\ TokenOK(q) /\ SeatOK(q)
    BY DEF IInv, SessionInv, ThreadsInv
  <2>2. \A v : Held(v)' = Held(v)
    BY <1>1, <1>6 DEF Held, forms, history
  <2>3. NobodyNew
    BY <1>1, <1>4 DEF Others, Handles, SignInPcs, QuitPcs, NobodyNew
  <2>4. ASSUME NEW q \in Threads, q # p PROVE ThreadOK(q)'
    <3>1. pc'[q] = pc[q] /\ job'[q] = job[q] /\ answer'[q] = answer[q]
      BY <1>4, <2>4 DEF Others
    <3>2. pc[q] \in {"hmset", "expire"} => job[q].token \in Tokens /\ job[q].token # t
      BY <1>1, <2>1, <2>4 DEF IInv, SessionInv, TypeOK, TokensDiffer, TokenOK, SignInPcs
    <3>3. JobOK(q)' BY <3>1, <2>1, <1>1, <1>6, JobStays DEF forms, history, Settled
    <3>4. TokenOK(q)' BY <3>1, <3>2, <2>1, <1>1, <1>6, TokenStays DEF TokenOK, forms, history
    <3>5. SeatOK(q)' BY <3>1, <2>1, <2>2, <2>3, <1>1, SeatStays DEF forms, history, NobodyNew
    <3> QED BY <3>3, <3>4, <3>5 DEF ThreadOK
  <2>5. ThreadOK(p)'
    <3>1. JobOK(p)' BY <1>1, <1>4, <2>1 DEF JobOK, LoginPcs, QuitPcs
    <3>2. TokenOK(p)'
      <4>1. pc'[p] = "hmset" => owner'[t] = u BY <1>2, <1>4 DEF IInv, TypeOK
      <4> QED BY <4>1, <1>1, <1>4, <2>1, NameAssumption DEF TokenOK, SignInPcs, Texts, forms, history
    <3>3. SeatOK(p)' BY <1>1, <1>4, <2>1, <2>2, <2>3 DEF SeatOK, SignInPcs, forms, history, NobodyNew
    <3> QED BY <3>1, <3>2, <3>3 DEF ThreadOK
  <2>6. TokensDiffer'
    BY <1>1, <1>4 DEF TokensDiffer, Others, IInv, SessionInv, SignInPcs
  <2> QED BY <2>4, <2>5, <2>6 DEF ThreadsInv, ThreadOK
<1>8. QueueInv' /\ ClientInv'
  BY <1>1, <1>6, TasksKeep DEF forms, history, Settled
<1>9. AnsweredInv' /\ LiveTokenGuarded' /\ OneSeat'
  BY <1>1, <1>6 DEF IInv, SessionInv, AnsweredInv, LiveTokenGuarded, OneSeat, SeatToken, forms, history
<1> QED BY <1>5, <1>7, <1>8, <1>9 DEF IInv, SessionInv

\* HMSET session:<id>.
LEMMA LoginHmsetKeeps ==
  ASSUME IInv, NEW p \in Threads, LoginHmset(p)
  PROVE  IInv'
<1> DEFINE u == job[p].user
<1>1. pc[p] = "hmset" /\ UNCHANGED <<auth, owner, rows, queue, job, row, child, forms, history, logins>>
  BY DEF LoginHmset
<1>2. u \in Users
  BY <1>1 DEF IInv, SessionInv, ThreadsInv, JobOK, LoginPcs
<1>3. \/ session' = [session EXCEPT ![u] = Touch(@)] /\ Goto(p, "expire") /\ UNCHANGED <<answer, troubles>>
      \/ /\ session' = [session EXCEPT ![u] = Touch(@)] \/ session' = session
         /\ Reply(p, "Error") /\ Fault
  BY DEF LoginHmset, RedisCall
<1>4. /\ Others(p)
      /\ \/ pc'[p] = "expire" /\ session' = [session EXCEPT ![u] = Touch(@)]
         \/ pc'[p] = "send" /\ answer'[p] = "Error"
  BY <1>1, <1>3 DEF IInv, TypeOK, Goto, Reply, Others
<1>5. TypeOK'
  <2>1. pc' \in [Threads -> LoginPcs \cup QuitPcs \cup CopyPcs \cup {"idle", "activity", "validate", "send"}]
    BY <1>3 DEF IInv, TypeOK, Goto, Reply, LoginPcs
  <2>2. answer' \in [Threads -> Answers \cup {NoToken}]
    BY <1>3 DEF IInv, TypeOK, Reply, Answers, Texts
  <2>3. session' \in [Users -> 0..Forever]
    BY <1>3, TouchType DEF IInv, TypeOK
  <2>4. troubles' \in Nat
    BY <1>3, TroublesNat DEF IInv, TypeOK
  <2> QED BY <2>1, <2>2, <2>3, <2>4, <1>1 DEF IInv, TypeOK, rows, tables, forms, history
<1>6. ThreadsInv' /\ TokensDiffer'
  <2>1. \A q \in Threads : JobOK(q) /\ TokenOK(q) /\ SeatOK(q)
    BY DEF IInv, SessionInv, ThreadsInv
  <2>2. \A v \in Users : session'[v] = session[v] \/ (session[v] = 0 /\ session'[v] = Forever)
    BY <1>2, <1>3 DEF IInv, TypeOK, Touch
  <2>3. CASE pc'[p] = "expire"
    <3>1. session'[u] # 0
      BY <1>2, <1>4, <2>3, TTLAssumption DEF IInv, TypeOK, Touch, Forever
    <3>2. owner[job[p].token] = u
      BY <1>1, <2>1 DEF TokenOK
    <3> QED BY <1>1, <1>4, <2>2, <2>3, <3>1, <3>2, SignInStays DEF forms, history, SignInPcs
  <2>4. CASE pc'[p] = "send"
    BY <1>1, <1>4, <2>2, <2>4, TouchedLeaves DEF forms, history, LoginPcs, Texts
  <2> QED BY <1>4, <2>3, <2>4
<1>7. QueueInv' /\ ClientInv'
  BY <1>1, TasksKeep DEF forms, history, Settled
<1>8. LiveTokenGuarded'
  BY <1>1, <1>2, <1>3, TouchGuards DEF forms, history
<1>9. AnsweredInv' /\ OneSeat'
  BY <1>1 DEF IInv, SessionInv, AnsweredInv, OneSeat, SeatToken, forms, history
<1> QED BY <1>5, <1>6, <1>7, <1>8, <1>9 DEF IInv, SessionInv

\* UpdateActivity of a request, whether or not its token is honoured.
LEMMA ActivityKeeps ==
  ASSUME IInv, NEW p \in Threads, Activity(p)
  PROVE  IInv'
<1> DEFINE u == job[p].user
<1>1. pc[p] = "activity" /\ UNCHANGED <<auth, owner, rows, queue, job, row, answer, child, forms, history, logins>>
  BY DEF Activity
<1>2. u \in Users /\ job[p] \in Jobs /\ TaskOK(job[p]) /\ job[p].op # "Login"
  BY <1>1 DEF IInv, SessionInv, ThreadsInv, JobOK, TaskOK
<1>3. /\ session' = [session EXCEPT ![u] = Touch(@)] \/ session' = session
      /\ pc' = [pc EXCEPT ![p] = "validate"]
      /\ Fault \/ troubles' = troubles
  BY DEF Activity, FailsIf, Goto
<1>4. Others(p) /\ pc'[p] = "validate"
  BY <1>1, <1>3 DEF IInv, TypeOK, Others
<1>5. TypeOK'
  <2>1. pc' \in [Threads -> LoginPcs \cup QuitPcs \cup CopyPcs \cup {"idle", "activity", "validate", "send"}]
    BY <1>3 DEF IInv, TypeOK
  <2>2. session' \in [Users -> 0..Forever]
    BY <1>3, TouchType DEF IInv, TypeOK
  <2>3. troubles' \in Nat
    BY <1>3, TroublesNat DEF IInv, TypeOK
  <2> QED BY <2>1, <2>2, <2>3, <1>1 DEF IInv, TypeOK, rows, tables, forms, history
<1>6. \A v \in Users : session'[v] = session[v] \/ (session[v] = 0 /\ session'[v] = Forever)
  BY <1>2, <1>3 DEF IInv, TypeOK, Touch
<1>7. ASSUME NEW q \in Threads, q # p PROVE ThreadOK(q)'
  BY <1>1, <1>4, <1>6, <1>7, TouchedOther DEF forms, history, Handles, SignInPcs, QuitPcs, Others, NobodyNew
<1>8. ThreadOK(p)'
  <2>1. JobOK(p)' BY <1>1, <1>2, <1>4 DEF JobOK, TaskOK, Fits, LoginPcs, QuitPcs, history
  <2>2. TokenOK(p)' BY <1>4 DEF TokenOK, SignInPcs
  <2>3. SeatOK(p)' BY <1>4 DEF SeatOK, SignInPcs
  <2> QED BY <2>1, <2>2, <2>3 DEF ThreadOK
<1>9. TokensDiffer'
  BY <1>1, <1>4 DEF TokensDiffer, Others, IInv, SessionInv, SignInPcs
<1>10. QueueInv' /\ ClientInv'
  BY <1>1, TasksKeep DEF forms, history, Settled
<1>11. LiveTokenGuarded'
  BY <1>1, <1>2, <1>3, TouchGuards DEF forms, history
<1>12. AnsweredInv' /\ OneSeat'
  BY <1>1 DEF IInv, SessionInv, AnsweredInv, OneSeat, SeatToken, forms, history
<1> QED BY <1>5, <1>7, <1>8, <1>9, <1>10, <1>11, <1>12 DEF IInv, SessionInv, ThreadsInv, ThreadOK

\* EXPIRE session:<id> and the answer: here the token becomes one the user holds,
\* and the seat lasts at least as long.
LEMMA LoginExpireKeeps ==
  ASSUME IInv, NEW p \in Threads, LoginExpire(p)
  PROVE  IInv'
<1> DEFINE u == job[p].user
           t == job[p].token
           Set == [session EXCEPT ![u] = IF @ = 0 THEN 0 ELSE TTL]
<1>1. /\ pc[p] = "expire"
      /\ UNCHANGED <<auth, owner, rows, queue, job, row, child, forms, issued, raced, halfQuit, logins>>
  BY DEF LoginExpire
<1>2. \A q \in Threads : JobOK(q) /\ TokenOK(q) /\ SeatOK(q)
  BY DEF IInv, SessionInv, ThreadsInv
<1>3. u \in Users /\ t \in issued \ answered /\ t \in Tokens /\ owner[t] = u
  BY <1>1, <1>2 DEF JobOK, TokenOK, LoginPcs, SignInPcs, IInv, TypeOK
<1>4. \/ session' = Set /\ Reply(p, t) /\ answered' = answered \cup {t} /\ troubles' = troubles
      \/ (session' = Set \/ session' = session) /\ Reply(p, "Error") /\ answered' = answered /\ Fault
  BY DEF LoginExpire, RedisCall
<1>5. /\ Others(p) /\ pc'[p] = "send" /\ answered \subseteq answered' /\ answered' \subseteq answered \cup {t}
      /\ \/ answer'[p] = t /\ answered' = answered \cup {t} /\ session' = Set
         \/ answer'[p] = "Error" /\ answered' = answered
  BY <1>1, <1>4 DEF IInv, TypeOK, Reply, Others
<1>6. TypeOK'
  <2>1. pc' \in [Threads -> LoginPcs \cup QuitPcs \cup CopyPcs \cup {"idle", "activity", "validate", "send"}]
    BY <1>4 DEF IInv, TypeOK, Reply, LoginPcs
  <2>2. answer' \in [Threads -> Answers \cup {NoToken}]
    BY <1>3, <1>4 DEF IInv, TypeOK, Reply, Answers, Texts
  <2>3. session' \in [Users -> 0..Forever]
    <3>1. TTL \in 0..Forever /\ 0 \in 0..Forever BY TTLAssumption DEF Forever
    <3>2. session \in [Users -> 0..Forever] BY DEF IInv, TypeOK
    <3>3. session' = session \/ session' = Set BY <1>4
    <3> HIDE DEF u
    <3> QED BY <3>1, <3>2, <3>3
  <2>4. troubles' \in Nat
    BY <1>4, TroublesNat DEF IInv, TypeOK
  <2> QED BY <2>1, <2>2, <2>3, <2>4, <1>1, <1>3, <1>5 DEF IInv, TypeOK, rows, tables, forms
<1>7. \A v \in Users : v # u => session'[v] = session[v]
  BY <1>3, <1>4 DEF IInv, TypeOK
<1>8. ASSUME NEW q \in Threads, q # p PROVE ThreadOK(q)'
  <2>1. pc'[q] = pc[q] /\ job'[q] = job[q] /\ answer'[q] = answer[q]
    BY <1>5, <1>8 DEF Others
  <2>2. pc[q] \in SignInPcs => job[q].token # t
    BY <1>1, <1>8 DEF IInv, SessionInv, TokensDiffer, SignInPcs
  <2>3. JobOK(q)' BY <2>1, <1>1, <1>2, <1>5, JobStays DEF Settled
  <2>4. TokenOK(q)' BY <2>1, <2>2, <1>1, <1>2, <1>5, TokenStays DEF TokenOK
  <2>5. NobodyNew
    BY <1>1, <1>5 DEF Others, Handles, SignInPcs, QuitPcs, NobodyNew
  <2>6. SeatOK(q)'
    <3>1. CASE job[q].user = u /\ u \notin raced
      <4>1. ~Handles(q, u)
        BY <1>1, <1>2, <1>8, <3>1 DEF SeatOK, SignInPcs
      <4> QED BY <4>1, <3>1, <2>1 DEF SeatOK, Handles, QuitPcs
    <3>2. CASE job[q].user = u /\ u \in raced
      BY <3>2, <2>1, <1>1 DEF SeatOK
    <3>3. CASE job[q].user # u
      <4>1. Held(job[q].user)' \subseteq Held(job[q].user)
        BY <3>3, <1>1, <1>3, <1>5, <2>1 DEF Held
      <4>2. pc[q] \in SignInPcs => session'[job[q].user] = session[job[q].user]
        BY <1>2, <1>7, <3>3 DEF JobOK, SignInPcs, LoginPcs
      <4> QED BY <4>1, <4>2, <2>1, <2>5, <1>1, <1>2 DEF SeatOK, NobodyNew, SignInPcs
    <3> QED BY <3>1, <3>2, <3>3
  <2> QED BY <2>3, <2>4, <2>6 DEF ThreadOK
<1>9. ThreadOK(p)'
  <2>1. JobOK(p)' BY <1>1, <1>2, <1>5 DEF JobOK, LoginPcs, QuitPcs
  <2>2. TokenOK(p)' BY <1>1, <1>3, <1>5, NameAssumption DEF TokenOK, SignInPcs, Texts
  <2>3. SeatOK(p)' BY <1>5 DEF SeatOK, SignInPcs
  <2> QED BY <2>1, <2>2, <2>3 DEF ThreadOK
<1>10. TokensDiffer'
  BY <1>1, <1>5 DEF TokensDiffer, Others, IInv, SessionInv, SignInPcs
<1>11. QueueInv' /\ ClientInv'
  BY <1>1, <1>5, TasksKeep DEF forms, Settled
<1>12. u \notin raced => Held(u) = {} /\ session[u] = Forever
  BY <1>1, <1>2 DEF SeatOK, SignInPcs
<1>13. LiveTokenGuarded'
  <2>1. SUFFICES ASSUME NEW s \in Tokens, SeatToken(s)' PROVE session'[owner[s]] >= auth[s]
    BY <1>1 DEF LiveTokenGuarded
  <2>2. CASE s \in answered /\ owner[s] # u
    <3>1. SeatToken(s) BY <2>1, <2>2, <1>1 DEF SeatToken
    <3>2. owner[s] \in Users BY <2>2 DEF IInv, SessionInv, AnsweredInv
    <3> QED BY <3>1, <3>2, <1>7, <2>2 DEF IInv, SessionInv, LiveTokenGuarded
  <2>3. CASE s \in answered /\ owner[s] = u
    BY <2>1, <2>3, <1>1, <1>12 DEF SeatToken, Held
  <2>4. CASE s \notin answered
    <3>1. s = t /\ session' = Set BY <2>1, <2>4, <1>5 DEF SeatToken
    <3>2. session[u] = Forever BY <3>1, <2>1, <1>1, <1>3, <1>12 DEF SeatToken
    <3>3. session'[u] = TTL
      BY <3>1, <3>2, <1>3, TTLAssumption DEF IInv, TypeOK, Forever
    <3>4. auth[s] \in 0..TTL BY DEF IInv, TypeOK
    <3> QED BY <3>1, <3>3, <3>4, <1>3, TTLAssumption
  <2> QED BY <2>2, <2>3, <2>4
<1>14. OneSeat'
  <2>1. SUFFICES ASSUME NEW r \in Tokens, NEW s \in Tokens, SeatToken(r)', SeatToken(s)', owner[r] = owner[s]
                 PROVE  r = s
    BY <1>1 DEF OneSeat
  <2>2. owner[r] = u => r \notin answered
    BY <2>1, <1>1, <1>12 DEF SeatToken, Held
  <2>3. owner[s] = u => s \notin answered
    BY <2>1, <1>1, <1>12 DEF SeatToken, Held
  <2>4. r \in answered \cup {t} /\ s \in answered \cup {t}
    BY <2>1, <1>5 DEF SeatToken
  <2>5. r \in answered => SeatToken(r)
    BY <2>1, <1>1 DEF SeatToken
  <2>6. s \in answered => SeatToken(s)
    BY <2>1, <1>1 DEF SeatToken
  <2> QED BY <2>1, <2>2, <2>3, <2>4, <2>5, <2>6, <1>3 DEF IInv, SessionInv, OneSeat
<1>15. AnsweredInv'
  BY <1>1, <1>3, <1>5 DEF IInv, SessionInv, AnsweredInv
<1> QED BY <1>6, <1>8, <1>9, <1>10, <1>11, <1>13, <1>14, <1>15 DEF IInv, SessionInv, ThreadsInv, ThreadOK

\* What a form is handed fits the user it asks for, or he is raced from then on.
LEMMA ArriveKeeps ==
  ASSUME IInv, NEW c \in Clients, NEW a \in Answers \cup {NoToken}, Arrive(c, a),
         a \in Tokens => a \in answered, UNCHANGED <<auth, owner, answered>>
  PROVE  /\ client' \in [Clients -> [st: {"hello", "waiting", "answered", "main", "gone"},
                                     user: Users \cup {NoUser}, token: Answers \cup {NoToken}]]
         /\ ClientInv'
         /\ raced \subseteq raced' /\ raced' \subseteq Users
<1> PICK u : u = client[c].user
  OBVIOUS
<1>1. CASE UNCHANGED <<client, raced>>
  <2>1. ClientInv'
    BY <1>1, WindowKeeps DEF ClientInv, Settled
  <2> QED BY <1>1, <2>1 DEF IInv, TypeOK
<1>2. CASE /\ client[c].st = "waiting" /\ Show(c, "answered", u, a)
           /\ raced' = IF Live(a) /\ owner[a] # u THEN raced \cup {u} ELSE raced
  <2>1. u \in Users
    BY <1>2 DEF IInv, SessionInv, ClientInv
  <2>2. raced \subseteq raced' /\ raced' \subseteq Users
    BY <1>2, <2>1 DEF IInv, TypeOK
  <2>3. Fits(a, u)'
    BY <1>2 DEF Fits, Live
  <2> DEFINE w == [st |-> "answered", user |-> u, token |-> a]
  <2>4. /\ w \in [st: {"hello", "waiting", "answered", "main", "gone"},
                  user: Users \cup {NoUser}, token: Answers \cup {NoToken}]
        /\ w.st = "answered" /\ w.user = u /\ w.token = a
    BY <2>1
  <2>5. client' = [client EXCEPT ![c] = w]
    BY <1>2 DEF Show
  <2> HIDE DEF w
  <2>6. client'[c] = w /\ \A d \in Clients : d # c => client'[d] = client[d]
    BY <2>5 DEF IInv, TypeOK
  <2>7. ASSUME NEW d \in Clients
        PROVE  /\ client'[d].st \in {"waiting", "answered", "main"} => client'[d].user \in Users
               /\ client'[d].st \in {"answered", "main"} => Fits(client[d].token, client[d].user)'
    <3>1. CASE d = c
      BY <2>1, <2>3, <2>4, <2>6, <3>1
    <3>2. CASE d # c
      BY <2>2, <2>6, <3>2, WindowKeeps DEF Settled
    <3> QED BY <3>1, <3>2
  <2> QED BY <2>2, <2>4, <2>5, <2>7 DEF ClientInv, IInv, TypeOK
<1> QED BY <1>1, <1>2 DEF Arrive

\* A thread that has done with its task, and what its answer does where it arrives.
LEMMA FinishKeeps ==
  ASSUME IInv, NEW p \in Threads, pc[p] # "idle", NEW a \in Answers \cup {NoToken}, Finish(p, a),
         a \in Tokens => a \in answered,
         \A q \in Threads : q # p => answer'[q] = answer[q],
         UNCHANGED <<redis, queue, issued, answered>>
  PROVE  /\ pc' \in [Threads -> LoginPcs \cup QuitPcs \cup CopyPcs \cup {"idle", "activity", "validate", "send"}]
         /\ job' \in [Threads -> Jobs \cup {NoJob}]
         /\ client' \in [Clients -> [st: {"hello", "waiting", "answered", "main", "gone"},
                                     user: Users \cup {NoUser}, token: Answers \cup {NoToken}]]
         /\ raced' \subseteq Users
         /\ SessionInv'
<1>1. job[p].client \in Clients
  BY DEF IInv, SessionInv, ThreadsInv, JobOK, Jobs
<1>2. /\ Arrive(job[p].client, a)
      /\ pc' = [pc EXCEPT ![p] = "idle"] /\ job' = [job EXCEPT ![p] = NoJob]
  BY DEF Finish, Idle
<1>3. UNCHANGED <<auth, owner, session>>
  BY DEF redis
<1>4. /\ client' \in [Clients -> [st: {"hello", "waiting", "answered", "main", "gone"},
                                  user: Users \cup {NoUser}, token: Answers \cup {NoToken}]]
      /\ ClientInv' /\ raced \subseteq raced' /\ raced' \subseteq Users
  BY <1>1, <1>2, <1>3, ArriveKeeps
<1>5. /\ pc' \in [Threads -> LoginPcs \cup QuitPcs \cup CopyPcs \cup {"idle", "activity", "validate", "send"}]
      /\ job' \in [Threads -> Jobs \cup {NoJob}]
  BY <1>2 DEF IInv, TypeOK
<1>6. Others(p) /\ pc'[p] = "idle"
  BY <1>2 DEF IInv, TypeOK, Others
<1>7. Settled
  BY <1>3, <1>4 DEF Settled
<1>8. ThreadsInv' /\ TokensDiffer'
  BY <1>3, <1>6, <1>7, LeavingKeeps DEF CopyPcs
<1>9. QueueInv' /\ AnsweredInv' /\ LiveTokenGuarded' /\ OneSeat'
  BY <1>3, <1>4, <1>7, QueueKeeps, StoresKeep
<1> QED BY <1>4, <1>5, <1>8, <1>9 DEF SessionInv

\* SendResponse of Login and of QuitSession.
LEMMA SendKeeps ==
  ASSUME IInv, NEW p \in Threads, Send(p)
  PROVE  IInv'
<1>1. /\ pc[p] = "send" /\ Finish(p, answer[p]) /\ answer' = [answer EXCEPT ![p] = NoToken]
      /\ UNCHANGED <<redis, rows, queue, row, child, issued, answered, halfQuit, counters>>
  BY DEF Send
<1>2. answer[p] \in Answers \cup {NoToken} /\ (answer[p] \in Tokens => answer[p] \in answered)
  BY <1>1 DEF IInv, TypeOK, SessionInv, ThreadsInv, TokenOK
<1>3. answer' \in [Threads -> Answers \cup {NoToken}] /\ \A q \in Threads : q # p => answer'[q] = answer[q]
  BY <1>1 DEF IInv, TypeOK
<1>4. pending' \in [Clients -> Int]
  <2>1. pending' = pending \/ \E c : pending' = [pending EXCEPT ![c] = @ - 1]
    BY DEF Send
  <2> QED BY <2>1 DEF IInv, TypeOK
<1>5. TypeOK'
  BY <1>1, <1>2, <1>3, <1>4, FinishKeeps DEF IInv, TypeOK, redis, rows, tables, counters
<1> QED BY <1>1, <1>2, <1>3, <1>5, FinishKeeps DEF IInv

\* ValidateRequest: only an honoured token gets a Quit through.
LEMMA ValidateKeeps ==
  ASSUME IInv, NEW p \in Threads, Validate(p)
  PROVE  IInv'
<1> DEFINE u == job[p].user
           t == job[p].token
<1>1. /\ pc[p] = "validate"
      /\ UNCHANGED <<redis, openRows, dump, unrowed, queue, row, answer, pending,
                     issued, answered, halfQuit, logins>>
  BY DEF Validate
<1>2. \A q \in Threads : JobOK(q) /\ TokenOK(q) /\ SeatOK(q)
  BY DEF IInv, SessionInv, ThreadsInv
<1>3. TaskOK(job[p]) /\ job[p] \in Jobs /\ job[p].op # "Login"
  BY <1>1, <1>2 DEF JobOK
<1>4. /\ table' \in {"whole", "gone", "empty"} /\ recoveries' \in Nat /\ mixed' \subseteq Users
      /\ restore' \in [Recoveries -> {"none", "drop", "create", "copy", "exited"}]
      /\ child' \in [Threads -> 0..MaxRecoveries] /\ troubles' \in Nat
  <2>1. \/ UNCHANGED <<tables, mixed, child, troubles>>
        \/ LET r == recoveries + 1
           IN  /\ r \in Recoveries /\ Fault /\ recoveries' = r /\ table' = table
               /\ restore' = [restore EXCEPT ![r] = "drop"]
               /\ mixed' = IF \E q \in Recoveries : Restoring(q) THEN Users ELSE mixed
               /\ child' = [child EXCEPT ![p] = r]
    BY DEF Validate
  <2>2. Recoveries \subseteq 0..MaxRecoveries /\ Recoveries \subseteq Nat
    BY BoundAssumption DEF Recoveries
  <2>3. troubles' \in Nat
    BY <2>1, TroublesNat DEF IInv, TypeOK
  <2> QED BY <2>1, <2>2, <2>3 DEF IInv, TypeOK, tables
<1>5. CASE Finish(p, "Data")
  <2>1. "Data" \in Answers /\ "Data" \notin Tokens
    BY NameAssumption DEF Answers, Texts
  <2> QED BY <1>1, <1>4, <1>5, <2>1, FinishKeeps DEF IInv, TypeOK, redis
<1>6. CASE /\ ~(Live(t) /\ job[p].op = "Quit") /\ UNCHANGED <<client, raced>>
           /\ \/ pc' = [pc EXCEPT ![p] = "idle"] /\ job' = [job EXCEPT ![p] = NoJob]
              \/ \E l \in CopyPcs : pc' = [pc EXCEPT ![p] = l] /\ job' = job
  <2>1. /\ pc \in [Threads -> LoginPcs \cup QuitPcs \cup CopyPcs \cup {"idle", "activity", "validate", "send"}]
        /\ job \in [Threads -> Jobs \cup {NoJob}]
    BY DEF IInv, TypeOK
  <2>2. /\ pc' \in [Threads -> LoginPcs \cup QuitPcs \cup CopyPcs \cup {"idle", "activity", "validate", "send"}]
        /\ job' \in [Threads -> Jobs \cup {NoJob}]
    BY <1>6, <2>1
  <2>3. /\ Others(p)
        /\ \/ pc'[p] = "idle"
           \/ pc'[p] \in {"backup", "restore", "stop"} /\ job'[p] = job[p]
    BY <1>1, <1>6, <2>1 DEF Others, CopyPcs
  <2>4. UNCHANGED <<issued, answered, owner, session, auth>>
    BY <1>1 DEF redis
  <2>5. ThreadsInv' /\ TokensDiffer'
    BY <1>1, <1>6, <2>3, <2>4, LeavingKeeps DEF CopyPcs, Settled
  <2>6. QueueInv' /\ ClientInv' /\ AnsweredInv' /\ LiveTokenGuarded' /\ OneSeat'
    BY <1>1, <1>6, <2>4, StoresKeep, TasksKeep DEF Settled
  <2> QED BY <1>1, <1>4, <1>6, <2>2, <2>5, <2>6 DEF IInv, TypeOK, SessionInv, redis
<1>7. CASE Live(t) /\ job[p].op = "Quit" /\ Goto(p, "q_row") /\ UNCHANGED <<job, client, raced>>
  <2>1. Others(p) /\ pc'[p] = "q_row" /\ job' = job
    BY <1>1, <1>7 DEF Goto, IInv, TypeOK, Others
  <2>2. /\ t \in answered /\ u \in Users /\ t \in Tokens
        /\ u \notin raced => owner[t] = u /\ t \in Held(u)
    BY <1>3, <1>7 DEF TaskOK, Fits, Live, Held
  <2>3. \A v : Held(v)' = Held(v)
    BY <1>1 DEF Held, redis
  <2>4. ASSUME NEW q \in Threads, q # p PROVE ThreadOK(q)'
    <3>1. pc'[q] = pc[q] /\ job'[q] = job[q] /\ answer'[q] = answer[q]
      BY <2>1, <2>4 DEF Others
    <3>2. JobOK(q)' BY <3>1, <1>1, <1>7, <1>2, JobStays DEF redis, Settled
    <3>3. TokenOK(q)' BY <3>1, <1>1, <1>7, <1>2, TokenStays DEF redis, TokenOK
    <3>4. SeatOK(q)'
      <4>1. CASE job[q].user = u
        BY <4>1, <3>1, <2>2, <2>3, <1>1, <1>7, <1>2 DEF SeatOK, redis
      <4>2. CASE job[q].user # u
        <5>1. \A r \in Threads : Handles(r, job[q].user)' => Handles(r, job[q].user)
          BY <4>2, <2>1 DEF Handles, Others
        <5> QED BY <5>1, <3>1, <2>3, <1>1, <1>7, <1>2, SeatStays DEF redis
      <4> QED BY <4>1, <4>2
    <3> QED BY <3>2, <3>3, <3>4 DEF ThreadOK
  <2>5. ThreadOK(p)'
    <3>1. JobOK(p)'
      BY <1>1, <1>3, <1>7, <2>1, <2>2 DEF JobOK, LoginPcs, redis
    <3>2. TokenOK(p)' BY <2>1 DEF TokenOK, SignInPcs
    <3>3. u \notin raced => Held(u) \subseteq {t}
      BY <2>2, <1>7 DEF IInv, SessionInv, OneSeat, SeatToken, Held, TypeOK
    <3>4. SeatOK(p)' BY <2>1, <2>3, <3>3, <1>1, <1>7 DEF SeatOK, SignInPcs, QuitPcs, redis
    <3> QED BY <3>1, <3>2, <3>4 DEF ThreadOK
  <2>6. TokensDiffer'
    BY <2>1 DEF TokensDiffer, Others, IInv, SessionInv, SignInPcs
  <2>7. QueueInv' /\ ClientInv' /\ AnsweredInv' /\ LiveTokenGuarded' /\ OneSeat'
    BY <1>1, <1>7, StoresKeep, TasksKeep DEF redis, Settled
  <2>8. TypeOK'
    BY <1>1, <1>4, <1>7 DEF IInv, TypeOK, Goto, QuitPcs, redis
  <2> QED BY <2>4, <2>5, <2>6, <2>7, <2>8 DEF IInv, SessionInv, ThreadsInv, ThreadOK
<1> QED BY <1>5, <1>6, <1>7 DEF Validate, Idle, Goto, CopyPcs

\* UpdateExitTime.
LEMMA QuitRowKeeps ==
  ASSUME IInv, NEW p \in Threads, QuitRow(p)
  PROVE  IInv'
<1>1. pc[p] = "q_row" /\ UNCHANGED <<redis, dump, unrowed, mixed, tables, queue, row, answer, child, forms, history, logins>>
  BY DEF QuitRow
<1>2. \A q \in Threads : JobOK(q) /\ TokenOK(q) /\ SeatOK(q)
  BY DEF IInv, SessionInv, ThreadsInv
<1>3. job[p] \in Jobs /\ job[p].user \in Users
  BY <1>1, <1>2 DEF JobOK, QuitPcs
<1>4. /\ pc' = [pc EXCEPT ![p] = "q_auth"]
      /\ job' = job \/ job' = [job EXCEPT ![p].user = NoUser]
      /\ openRows' = openRows \/ openRows' = [openRows EXCEPT ![job[p].user] = 0]
      /\ Fault \/ troubles' = troubles
  BY DEF QuitRow, FailsIf, Goto
<1>5. /\ Others(p) /\ pc'[p] = "q_auth"
      /\ job'[p] = job[p] \/ job'[p] = [job[p] EXCEPT !.user = NoUser]
      /\ \A q \in Threads : q # p => job'[q] = job[q]
  BY <1>1, <1>4 DEF IInv, TypeOK, Others
<1>6. /\ job'[p] \in Jobs /\ job'[p].token = job[p].token /\ job'[p].op = job[p].op
      /\ job'[p].user \in {job[p].user, NoUser}
  BY <1>3, <1>5 DEF Jobs
<1>7. TypeOK'
  <2>1. pc' \in [Threads -> LoginPcs \cup QuitPcs \cup CopyPcs \cup {"idle", "activity", "validate", "send"}]
    BY <1>4 DEF IInv, TypeOK, QuitPcs
  <2>2. job' \in [Threads -> Jobs \cup {NoJob}]
    BY <1>4, <1>5, <1>6 DEF IInv, TypeOK
  <2>3. openRows' \in [Users -> Nat]
    <3>1. openRows \in [Users -> Nat]
      BY DEF IInv, TypeOK
    <3> QED BY <1>3, <1>4, <3>1
  <2>4. troubles' \in Nat
    BY <1>4, TroublesNat DEF IInv, TypeOK
  <2> QED BY <2>1, <2>2, <2>3, <2>4, <1>1 DEF IInv, TypeOK, redis, rows, tables, forms, history
<1>8. NoUser \notin Users
  BY NameAssumption
<1>9. ASSUME NEW q \in Threads, q # p PROVE ThreadOK(q)'
  <2>1. pc'[q] = pc[q] /\ job'[q] = job[q] /\ answer'[q] = answer[q]
    BY <1>5, <1>9 DEF Others
  <2>2. JobOK(q)' BY <2>1, <1>1, <1>2, JobStays DEF redis, forms, history, Settled
  <2>3. TokenOK(q)' BY <2>1, <1>1, <1>2, TokenStays DEF redis, forms, history, TokenOK
  <2>4. Held(job[q].user)' = Held(job[q].user)
    BY <1>1, <2>1 DEF Held, redis, forms, history
  <2>5. SeatOK(q)'
    <3>1. CASE job[q].user \in Users
      <4>1. \A r \in Threads : Handles(r, job[q].user)' => Handles(r, job[q].user)
        <5>1. Handles(p, job[q].user)' => Handles(p, job[q].user)
          BY <3>1, <2>1, <1>1, <1>5, <1>6, <1>8 DEF Handles, QuitPcs
        <5>2. \A r \in Threads : r # p => Handles(r, job[q].user)' = Handles(r, job[q].user)
          BY <1>5, <2>1 DEF Handles, Others
        <5> QED BY <5>1, <5>2
      <4> QED BY <4>1, <2>1, <2>4, <1>1, <1>2, SeatStays DEF redis, forms, history
    <3>2. CASE job[q].user \notin Users
      BY <3>2, <2>1, <1>2 DEF SeatOK, JobOK, SignInPcs, LoginPcs
    <3> QED BY <3>1, <3>2
  <2> QED BY <2>2, <2>3, <2>5 DEF ThreadOK
<1>10. ThreadOK(p)'
  <2>1. JobOK(p)'
    BY <1>1, <1>2, <1>5, <1>6, <1>8 DEF JobOK, LoginPcs, QuitPcs, redis, forms, history
  <2>2. TokenOK(p)' BY <1>5 DEF TokenOK, SignInPcs
  <2>4. SeatOK(p)'
    BY <1>1, <1>2, <1>3, <1>5, <1>6, <1>8 DEF SeatOK, SignInPcs, Held, redis, forms, history
  <2> QED BY <2>1, <2>2, <2>4 DEF ThreadOK
<1>11. TokensDiffer'
  BY <1>5 DEF TokensDiffer, Others, IInv, SessionInv, SignInPcs
<1>12. QueueInv' /\ ClientInv' /\ AnsweredInv' /\ LiveTokenGuarded' /\ OneSeat'
  BY <1>1, StoresKeep, TasksKeep DEF redis, forms, history, Settled
<1> QED BY <1>7, <1>9, <1>10, <1>11, <1>12 DEF IInv, SessionInv, ThreadsInv, ThreadOK

\* DEL auth:<token>: the user holds no token after it, or keeps the seat.
LEMMA QuitAuthKeeps ==
  ASSUME IInv, NEW p \in Threads, QuitAuth(p)
  PROVE  IInv'
<1> DEFINE u == job[p].user
           t == job[p].token
<1>1. /\ pc[p] = "q_auth"
      /\ UNCHANGED <<owner, session, rows, queue, job, row, child, forms, issued, answered, raced, logins>>
  BY DEF QuitAuth
<1>2. \A q \in Threads : JobOK(q) /\ TokenOK(q) /\ SeatOK(q)
  BY DEF IInv, SessionInv, ThreadsInv
<1>3. t \in answered /\ t \in Tokens /\ job[p] \in Jobs
  BY <1>1, <1>2 DEF JobOK, QuitPcs, IInv, TypeOK
<1>4. /\ \/ auth' = [auth EXCEPT ![t] = 0] /\ halfQuit' = halfQuit
         \/ auth' = auth /\ halfQuit' = halfQuit \cup ({u} \cap Users)
      /\ \/ /\ auth' = [auth EXCEPT ![t] = 0] /\ Goto(p, "q_sess")
            /\ answer' = answer /\ troubles' = troubles
         \/ Reply(p, t) /\ Fault
  BY DEF QuitAuth, RedisCall
<1>5. /\ Others(p)
      /\ \/ pc'[p] = "q_sess" /\ auth' = [auth EXCEPT ![t] = 0]
         \/ pc'[p] = "send" /\ answer'[p] = t
  BY <1>1, <1>4 DEF Goto, Reply, IInv, TypeOK, Others
<1>6. TypeOK'
  <2>1. pc' \in [Threads -> LoginPcs \cup QuitPcs \cup CopyPcs \cup {"idle", "activity", "validate", "send"}]
    BY <1>4 DEF IInv, TypeOK, Goto, Reply, QuitPcs
  <2>2. answer' \in [Threads -> Answers \cup {NoToken}]
    BY <1>3, <1>4 DEF IInv, TypeOK, Reply, Answers
  <2>3. auth' \in [Tokens -> 0..TTL]
    <3>1. 0 \in 0..TTL BY TTLAssumption
    <3>2. auth' = auth \/ auth' = [auth EXCEPT ![t] = 0] BY <1>4
    <3>3. auth \in [Tokens -> 0..TTL] BY DEF IInv, TypeOK
    <3> HIDE DEF t
    <3> QED BY <3>1, <3>2, <3>3
  <2>4. troubles' \in Nat
    BY <1>4, TroublesNat DEF IInv, TypeOK
  <2>5. halfQuit' \subseteq Users
    BY <1>4 DEF IInv, TypeOK
  <2> QED BY <2>1, <2>2, <2>3, <2>4, <2>5, <1>1 DEF IInv, TypeOK, rows, tables, forms
<1>7. \A s \in Tokens : auth'[s] > 0 => auth'[s] = auth[s]
  BY <1>3, <1>4 DEF IInv, TypeOK
<1>8. answered \subseteq Tokens
  BY DEF IInv, TypeOK
<1>10. QueueInv' /\ ClientInv' /\ AnsweredInv' /\ LiveTokenGuarded' /\ OneSeat'
  <2>1. QueueInv' /\ ClientInv' BY <1>1, <1>7, <1>8, TasksKeep DEF Settled, forms
  <2>2. \A s \in Tokens : SeatToken(s)' => SeatToken(s) /\ auth'[s] = auth[s]
    BY <1>1, <1>7 DEF SeatToken
  <2>3. LiveTokenGuarded' BY <2>2, <1>1 DEF IInv, SessionInv, LiveTokenGuarded
  <2>4. OneSeat' BY <2>2, <1>1 DEF IInv, SessionInv, OneSeat
  <2>5. AnsweredInv' BY <1>1 DEF IInv, SessionInv, AnsweredInv
  <2> QED BY <2>1, <2>3, <2>4, <2>5
<1>9. CASE pc'[p] = "send" /\ answer'[p] = t
  BY <1>1, <1>3, <1>5, <1>7, <1>8, <1>9, LeavingKeeps, <1>10, <1>6 DEF IInv, SessionInv, CopyPcs, Settled
<1>11. CASE pc'[p] = "q_sess" /\ auth' = [auth EXCEPT ![t] = 0]
  <2>1. NobodyNew
    BY <1>1, <1>5, <1>11 DEF Others, Handles, SignInPcs, QuitPcs, NobodyNew
  <2>2. ASSUME NEW q \in Threads, q # p PROVE ThreadOK(q)'
    BY <1>1, <1>5, <1>7, <1>8, <2>1, <2>2, OtherThread DEF Settled
  <2>3. ThreadOK(p)'
    <3>1. JobOK(p)' BY <1>1, <1>2, <1>11 DEF JobOK, LoginPcs, QuitPcs
    <3>2. TokenOK(p)' BY <1>11 DEF TokenOK, SignInPcs
    <3>3. auth'[t] = 0 BY <1>3, <1>11 DEF IInv, TypeOK
    <3>4. Held(u)' \subseteq Held(u) \ {t} BY <3>3, <1>1, <1>7, <1>8, <1>11 DEF Held
    <3>5. SeatOK(p)' BY <3>4, <1>1, <1>2, <1>11 DEF SeatOK, SignInPcs
    <3> QED BY <3>1, <3>2, <3>5 DEF ThreadOK
  <2>4. TokensDiffer'
    BY <1>5, <1>11 DEF TokensDiffer, Others, IInv, SessionInv, SignInPcs
  <2> QED BY <2>2, <2>3, <2>4, <1>6, <1>10 DEF IInv, SessionInv, ThreadsInv, ThreadOK
<1> QED BY <1>5, <1>9, <1>11

\* DEL session:<id>: the seat goes only when no token is left to guard.
LEMMA QuitSessKeeps ==
  ASSUME IInv, NEW p \in Threads, QuitSess(p)
  PROVE  IInv'
<1> DEFINE u == job[p].user
<1>1. pc[p] = "q_sess" /\ UNCHANGED <<auth, owner, rows, queue, job, row, child, forms, history, logins>>
  BY DEF QuitSess
<1>2. \A q \in Threads : JobOK(q) /\ TokenOK(q) /\ SeatOK(q)
  BY DEF IInv, SessionInv, ThreadsInv
<1>3. /\ session' = [v \in Users |-> IF v = u THEN 0 ELSE session[v]] \/ session' = session
      /\ Fault \/ troubles' = troubles
      /\ Reply(p, job[p].token)
  BY DEF QuitSess
<1>4. Others(p) /\ pc'[p] = "send" /\ answer'[p] = job[p].token /\ job[p].token \in answered
  BY <1>1, <1>2, <1>3 DEF Reply, IInv, TypeOK, Others, JobOK, QuitPcs
<1>5. TypeOK'
  <2>1. pc' \in [Threads -> LoginPcs \cup QuitPcs \cup CopyPcs \cup {"idle", "activity", "validate", "send"}]
    BY <1>3 DEF IInv, TypeOK, Reply
  <2>2. answer' \in [Threads -> Answers \cup {NoToken}]
    BY <1>3, <1>4 DEF IInv, TypeOK, Reply, Answers
  <2>3. session' \in [Users -> 0..Forever]
    <3>1. 0 \in 0..Forever BY TTLAssumption DEF Forever
    <3>2. session \in [Users -> 0..Forever] BY DEF IInv, TypeOK
    <3> HIDE DEF u
    <3> QED BY <1>3, <3>1, <3>2
  <2>4. troubles' \in Nat
    BY <1>3, TroublesNat DEF IInv, TypeOK
  <2> QED BY <2>1, <2>2, <2>3, <2>4, <1>1 DEF IInv, TypeOK, rows, tables, forms, history
<1>6. \A v \in Users : v # u => session'[v] = session[v]
  BY <1>3
<1>7. \A v : Held(v)' = Held(v)
  BY <1>1 DEF Held, forms, history
<1>8. NobodyNew
  BY <1>4 DEF Others, Handles, SignInPcs, QuitPcs, NobodyNew
<1>9. ASSUME NEW q \in Threads, q # p PROVE ThreadOK(q)'
  <2>1. pc'[q] = pc[q] /\ job'[q] = job[q] /\ answer'[q] = answer[q]
    BY <1>4, <1>9 DEF Others
  <2>2. JobOK(q)' BY <2>1, <1>1, <1>2, JobStays DEF forms, history, Settled
  <2>3. TokenOK(q)' BY <2>1, <1>1, <1>2, TokenStays DEF forms, history, TokenOK
  <2>4. pc[q] \in SignInPcs => job[q].user \in Users
    BY <1>2 DEF JobOK, SignInPcs, LoginPcs
  <2>5. pc[q] \in SignInPcs /\ job[q].user \notin raced => job[q].user # u
    BY <1>1, <1>2, <1>9 DEF SeatOK, Handles, QuitPcs
  <2>6. SeatOK(q)'
    BY <2>1, <2>4, <2>5, <1>1, <1>2, <1>6, <1>7, <1>8 DEF SeatOK, SignInPcs, NobodyNew, forms, history
  <2> QED BY <2>2, <2>3, <2>6 DEF ThreadOK
<1>10. ThreadOK(p)'
  <2>1. JobOK(p)' BY <1>1, <1>2, <1>4 DEF JobOK, LoginPcs, QuitPcs
  <2>2. TokenOK(p)' BY <1>1, <1>4 DEF TokenOK, SignInPcs, history
  <2>3. SeatOK(p)' BY <1>4 DEF SeatOK, SignInPcs
  <2> QED BY <2>1, <2>2, <2>3 DEF ThreadOK
<1>11. TokensDiffer'
  BY <1>4 DEF TokensDiffer, Others, IInv, SessionInv, SignInPcs
<1>12. LiveTokenGuarded'
  <2>1. SUFFICES ASSUME NEW t \in Tokens, SeatToken(t) PROVE session'[owner[t]] >= auth[t]
    BY <1>1 DEF LiveTokenGuarded, SeatToken, forms, history
  <2>2. owner[t] \in Users /\ session[owner[t]] >= auth[t] /\ t \in Held(owner[t]) /\ owner[t] \notin raced
    BY <2>1 DEF IInv, SessionInv, LiveTokenGuarded, AnsweredInv, SeatToken, Held
  <2>3. owner[t] # u
    BY <2>2, <1>1, <1>2 DEF SeatOK
  <2> QED BY <2>2, <2>3, <1>6
<1>13. QueueInv' /\ ClientInv' /\ AnsweredInv' /\ OneSeat'
  <2>1. QueueInv' /\ ClientInv' BY <1>1, TasksKeep DEF forms, history, Settled
  <2>2. AnsweredInv' /\ OneSeat' BY <1>1 DEF IInv, SessionInv, AnsweredInv, OneSeat, SeatToken, forms, history
  <2> QED BY <2>1, <2>2
<1> QED BY <1>5, <1>9, <1>10, <1>11, <1>12, <1>13 DEF IInv, SessionInv, ThreadsInv, ThreadOK

\* CreateBackup, RecoverDB and StopActiveSession: nothing of Redis changes, and the
\* thread has no seat to speak of.
LEMMA CopyKeeps ==
  ASSUME IInv, NEW p \in Threads, CopyStep(p)
  PROVE  IInv'
<1>1. /\ pc[p] \in CopyPcs
      /\ UNCHANGED <<redis, mixed, tables, queue, row, answer, pending, issued, answered, halfQuit, logins>>
  BY DEF CopyStep, CreateBackup, RecoverDB, StopActiveSession, CopyPcs, rows, counters
<1>2. /\ openRows' \in [Users -> Nat] /\ dump' \in [Users -> Nat] /\ unrowed' \subseteq Users
      /\ child' \in [Threads -> 0..MaxRecoveries] /\ troubles' \in Nat
  <2>1. /\ openRows' = openRows \/ openRows' = [u \in Users |-> 0]
        /\ dump' = dump \/ dump' = openRows
        /\ unrowed' = unrowed \/ Unrowed
        /\ child' = child \/ child' = [child EXCEPT ![p] = 0]
        /\ Fault \/ troubles' = troubles
    BY DEF CopyStep, CreateBackup, RecoverDB, StopActiveSession, FailsIf, rows, counters
  <2>2. 0 \in 0..MaxRecoveries
    BY BoundAssumption
  <2>3. openRows' \in [Users -> Nat] /\ dump' \in [Users -> Nat]
    BY <2>1 DEF IInv, TypeOK
  <2>4. unrowed' \subseteq Users
    BY <2>1 DEF IInv, TypeOK, Unrowed
  <2>5. child' \in [Threads -> 0..MaxRecoveries]
    BY <2>1, <2>2 DEF IInv, TypeOK
  <2>6. troubles' \in Nat
    BY <2>1, TroublesNat DEF IInv, TypeOK
  <2> QED BY <2>3, <2>4, <2>5, <2>6
<1>3. CASE Finish(p, "Data")
  <2>1. "Data" \in Answers /\ "Data" \notin Tokens /\ pc[p] # "idle"
    BY <1>1, NameAssumption DEF Answers, Texts, CopyPcs
  <2> QED BY <1>1, <1>2, <1>3, <2>1, FinishKeeps DEF IInv, TypeOK, redis, tables
<1>4. CASE Goto(p, "stop") /\ UNCHANGED <<job, client, raced>>
  <2>1. Others(p) /\ pc'[p] = "stop"
    BY <1>1, <1>4 DEF Goto, Others, IInv, TypeOK
  <2>2. ThreadsInv' /\ TokensDiffer'
    BY <1>1, <1>4, <2>1, LeavingKeeps DEF redis, CopyPcs, Settled
  <2>3. QueueInv' /\ ClientInv' /\ AnsweredInv' /\ LiveTokenGuarded' /\ OneSeat'
    BY <1>1, <1>4, StoresKeep, TasksKeep DEF redis, Settled
  <2>4. TypeOK'
    BY <1>1, <1>2, <1>4 DEF IInv, TypeOK, Goto, CopyPcs, redis, tables
  <2> QED BY <2>2, <2>3, <2>4 DEF IInv, SessionInv
<1> QED BY <1>3, <1>4 DEF CopyStep, CreateBackup, RecoverDB, StopActiveSession

\* A thread takes the next task of the pool.
LEMMA TakeKeeps ==
  ASSUME IInv, NEW p \in Threads, Take(p)
  PROVE  IInv'
<1> DEFINE j == Head(queue)
<1>1. /\ pc[p] = "idle" /\ queue # <<>>
      /\ UNCHANGED <<redis, rows, row, answer, child, forms, history, counters>>
      /\ job' = [job EXCEPT ![p] = j] /\ pc' = [pc EXCEPT ![p] = FirstPc(j.op)]
      /\ queue' = Tail(queue)
  BY DEF Take
<1>2. queue \in Seq(Jobs)
  BY DEF IInv, TypeOK
<1>3. j \in Jobs /\ j = queue[1] /\ 1 \in 1..Len(queue)
  BY <1>1, <1>2, HeadTailProperties, EmptySeq
<1>4. TaskOK(j) /\ j.op \in {"Login", "Request", "Quit"}
  BY <1>3 DEF IInv, SessionInv, QueueInv, Jobs
<1>5. /\ j.op = "Login" => FirstPc(j.op) = "check"
      /\ j.op = "Request" => FirstPc(j.op) = "activity"
      /\ j.op = "Quit" => FirstPc(j.op) = "validate"
  BY DEF FirstPc
<1>6. Others(p) /\ job'[p] = j /\ pc'[p] = FirstPc(j.op)
  BY <1>1 DEF IInv, TypeOK, Others
<1>7. TypeOK'
  <2>1. pc' \in [Threads -> LoginPcs \cup QuitPcs \cup CopyPcs \cup {"idle", "activity", "validate", "send"}]
    BY <1>1, <1>4, <1>5 DEF IInv, TypeOK, LoginPcs
  <2>2. job' \in [Threads -> Jobs \cup {NoJob}]
    BY <1>1, <1>3 DEF IInv, TypeOK
  <2>3. queue' \in Seq(Jobs)
    BY <1>1, <1>2, HeadTailProperties
  <2> QED BY <2>1, <2>2, <2>3, <1>1 DEF IInv, TypeOK, redis, rows, tables, forms, history, counters
<1>8. NobodyNew
  BY <1>4, <1>5, <1>6 DEF Others, Handles, SignInPcs, QuitPcs, NobodyNew
<1>9. ASSUME NEW q \in Threads, q # p PROVE ThreadOK(q)'
  BY <1>1, <1>6, <1>8, <1>9, OtherThread DEF redis, forms, history, Settled
<1>10. ThreadOK(p)'
  <2>1. JobOK(p)' BY <1>1, <1>3, <1>4, <1>5, <1>6 DEF JobOK, TaskOK, Fits, LoginPcs, QuitPcs, redis, history
  <2>2. TokenOK(p)' BY <1>4, <1>5, <1>6 DEF TokenOK, SignInPcs
  <2>3. SeatOK(p)' BY <1>4, <1>5, <1>6 DEF SeatOK, SignInPcs
  <2> QED BY <2>1, <2>2, <2>3 DEF ThreadOK
<1>11. TokensDiffer'
  BY <1>4, <1>5, <1>6 DEF TokensDiffer, Others, IInv, SessionInv, SignInPcs
<1>12. QueueInv'
  <2>1. \A i \in 1..Len(queue') : i + 1 \in 1..Len(queue) /\ queue'[i] = queue[i + 1]
    BY <1>1, <1>2, HeadTailProperties, LenProperties
  <2> QED BY <2>1, <1>1 DEF IInv, SessionInv, QueueInv, TaskOK, Fits, redis, history
<1>13. ClientInv'
  BY <1>1, WindowKeeps DEF ClientInv, Settled, redis, forms, history
<1> QED BY <1>1, <1>7, <1>9, <1>10, <1>11, <1>12, <1>13, StoresKeep
    DEF IInv, SessionInv, ThreadsInv, ThreadOK, redis, forms, history

\* The steps no thread takes leave the threads what they are.
LEMMA ThreadsStay ==
  ASSUME IInv, UNCHANGED <<pc, job, answer, owner, issued, answered, session>>, Settled
  PROVE  ThreadsInv' /\ TokensDiffer'
<1>1. ASSUME NEW q \in Threads PROVE ThreadOK(q)'
  <2>1. JobOK(q) /\ TokenOK(q) /\ SeatOK(q) BY <1>1 DEF IInv, SessionInv, ThreadsInv
  <2>2. Held(job[q].user)' \subseteq Held(job[q].user) BY DEF Held, Settled
  <2>3. JobOK(q)' BY <1>1, <2>1, JobStays
  <2>4. TokenOK(q)' BY <1>1, <2>1, TokenStays DEF TokenOK
  <2>5. SeatOK(q)' BY <1>1, <2>1, <2>2, SeatStays DEF Handles, Settled
  <2> QED BY <2>3, <2>4, <2>5 DEF ThreadOK
<1>2. TokensDiffer' BY DEF TokensDiffer, IInv, SessionInv
<1> QED BY <1>1, <1>2 DEF ThreadsInv, ThreadOK

\* pg_restore touches the tables alone.
LEMMA RestoreKeeps ==
  ASSUME IInv, NEW r \in Recoveries, Restore(r)
  PROVE  IInv'
<1>1. UNCHANGED <<redis, dump, mixed, recoveries, queue, threads, forms, history, logins>>
  BY DEF Restore, DropTables, CreateTables, CopyTables, counters
<1>2. /\ openRows' \in [Users -> Nat] /\ unrowed' \subseteq Users
      /\ table' \in {"whole", "gone", "empty"}
      /\ restore' \in [Recoveries -> {"none", "drop", "create", "copy", "exited"}]
      /\ troubles' \in Nat
  <2>1. CASE DropTables(r)
    BY <2>1 DEF DropTables, Unrowed, IInv, TypeOK, counters
  <2>2. CASE CreateTables(r)
    BY <2>2 DEF CreateTables, IInv, TypeOK, counters
  <2>3. CASE CopyTables(r)
    <3>1. /\ openRows' = [u \in Users |-> openRows[u] + dump[u]] \/ openRows' = openRows
          /\ Fault \/ troubles' = troubles
          /\ table' \in {table, "whole"} /\ restore' = [restore EXCEPT ![r] = "exited"]
          /\ unrowed' = unrowed
      BY <2>3 DEF CopyTables, FailsIf
    <3> QED BY <3>1, TroublesNat DEF IInv, TypeOK
  <2> QED BY <2>1, <2>2, <2>3 DEF Restore
<1>3. ThreadsInv' /\ TokensDiffer' /\ QueueInv' /\ ClientInv' /\ AnsweredInv' /\ LiveTokenGuarded' /\ OneSeat'
  BY <1>1, ThreadsStay, TasksKeep, StoresKeep DEF redis, threads, forms, history, Settled
<1> QED BY <1>1, <1>2, <1>3 DEF IInv, TypeOK, SessionInv, redis, threads, forms, history

\* Redis expires keys: a token loses as much time as the seat behind it.
LEMMA TickKeeps ==
  ASSUME IInv, Tick
  PROVE  IInv'
<1>1. UNCHANGED <<owner, rows, queue, threads, forms, history, counters>>
  BY DEF Tick
<1>2. /\ \A t \in Tokens : auth'[t] = Older(auth[t])
      /\ \A u \in Users : session'[u] = Older(session[u])
  BY DEF Tick
<1>3. TypeOK'
  <2>1. \A n \in 0..Forever : Older(n) \in 0..Forever
    BY TTLAssumption DEF Older, Forever
  <2>2. \A n \in 0..TTL : Older(n) \in 0..TTL
    BY TTLAssumption DEF Older
  <2>3. auth' \in [Tokens -> 0..TTL] BY <2>2 DEF Tick, IInv, TypeOK
  <2>4. session' \in [Users -> 0..Forever] BY <2>1 DEF Tick, IInv, TypeOK
  <2> QED BY <2>3, <2>4, <1>1 DEF IInv, TypeOK, rows, tables, threads, forms, history, counters
<1>4. ASSUME NEW t \in Tokens PROVE auth'[t] > 0 => auth[t] > 0 /\ auth'[t] = auth[t] - 1
  <2>1. auth[t] \in 0..TTL BY DEF IInv, TypeOK
  <2> QED BY <2>1, <1>2, TTLAssumption DEF Older
<1>10. Settled
  BY <1>1, <1>4 DEF Settled, history, IInv, TypeOK
<1>5. ThreadsInv' /\ TokensDiffer'
  <2>1. \A q \in Threads : JobOK(q) /\ TokenOK(q) /\ SeatOK(q) BY DEF IInv, SessionInv, ThreadsInv
  <2>2. \A v : Held(v)' \subseteq Held(v)
    BY <1>1, <1>4 DEF Held, forms, history, IInv, TypeOK
  <2>3. \A v \in Users : session[v] \in {0, Forever} => session'[v] = session[v]
    BY <1>2, TTLAssumption DEF Older, Forever
  <2>4. ASSUME NEW q \in Threads PROVE ThreadOK(q)'
    <3>1. JobOK(q)' BY <2>1, <2>4, <1>1, <1>10, JobStays DEF threads
    <3>2. TokenOK(q)' BY <2>1, <2>4, <1>1, TokenStays DEF threads, forms, history, TokenOK
    <3>3. pc[q] \in SignInPcs => job[q].user \in Users
      BY <2>1, <2>4 DEF JobOK, SignInPcs, LoginPcs
    <3>4. SeatOK(q)'
      BY <2>1, <2>2, <2>3, <2>4, <3>3, <1>1 DEF SeatOK, Handles, SignInPcs, threads, forms, history
    <3> QED BY <3>1, <3>2, <3>4 DEF ThreadOK
  <2>5. TokensDiffer' BY <1>1 DEF TokensDiffer, IInv, SessionInv, threads
  <2> QED BY <2>4, <2>5 DEF ThreadsInv, ThreadOK
<1>6. QueueInv' /\ ClientInv'
  BY <1>1, <1>10, TasksKeep DEF forms
<1>7. LiveTokenGuarded'
  <2>1. SUFFICES ASSUME NEW t \in Tokens, SeatToken(t)' PROVE session'[owner[t]] >= auth'[t]
    BY <1>1 DEF LiveTokenGuarded
  <2>2. SeatToken(t) /\ auth'[t] = auth[t] - 1 BY <2>1, <1>1, <1>4 DEF SeatToken, forms, history
  <2>3. owner[t] \in Users /\ auth[t] \in 0..TTL /\ session[owner[t]] \in 0..Forever /\ auth[t] > 0
    BY <2>2 DEF IInv, SessionInv, AnsweredInv, SeatToken, TypeOK
  <2>4. session[owner[t]] >= auth[t]
    BY <2>2 DEF IInv, SessionInv, LiveTokenGuarded
  <2> QED BY <2>2, <2>3, <2>4, <1>2, TTLAssumption DEF Older, Forever
<1>8. OneSeat'
  <2>1. \A s \in Tokens : SeatToken(s)' => SeatToken(s) BY <1>1, <1>4 DEF SeatToken, forms, history
  <2> QED BY <2>1, <1>1 DEF IInv, SessionInv, OneSeat
<1>9. AnsweredInv'
  BY <1>1 DEF IInv, SessionInv, AnsweredInv, forms, history
<1> QED BY <1>3, <1>5, <1>6, <1>7, <1>8, <1>9 DEF IInv, SessionInv

\* What Post does to the queue.
LEMMA PostKeeps ==
  ASSUME IInv, UNCHANGED <<auth, owner, answered, raced>>,
         NEW s \in Seq(Jobs), Post(s), \A i \in 1..Len(s) : TaskOK(s[i])
  PROVE  queue' \in Seq(Jobs) /\ QueueInv'
<1>1. queue \in Seq(Jobs) /\ queue' = queue \o s
  BY DEF IInv, TypeOK, Post
<1>2. /\ queue' \in Seq(Jobs) /\ Len(queue') = Len(queue) + Len(s)
      /\ \A i \in 1..Len(queue) + Len(s) :
            queue'[i] = IF i <= Len(queue) THEN queue[i] ELSE s[i - Len(queue)]
  BY <1>1, ConcatProperties
<1>3. ASSUME NEW i \in 1..Len(queue') PROVE TaskOK(queue'[i])
  <2>1. Len(queue) \in Nat /\ Len(s) \in Nat BY <1>1, LenProperties
  <2>2. CASE i <= Len(queue)
    BY <2>1, <2>2, <1>2 DEF IInv, SessionInv, QueueInv
  <2>3. CASE i > Len(queue)
    BY <2>1, <2>3, <1>2
  <2> QED BY <2>1, <2>2, <2>3
<1> QED BY <1>2, <1>3 DEF QueueInv, TaskOK, Fits

\* One request, or the two the main window makes when it opens.
LEMMA PostTasks ==
  ASSUME IInv, UNCHANGED <<auth, owner, answered, raced>>, NEW j \in Jobs, TaskOK(j),
         Post(<<j>>) \/ Post(<<j, j>>)
  PROVE  queue' \in Seq(Jobs) /\ QueueInv'
<1>1. <<j>> \in Seq(Jobs) /\ Len(<<j>>) = 1 /\ <<j>>[1] = j OBVIOUS
<1>2. <<j, j>> \in Seq(Jobs) /\ Len(<<j, j>>) = 2 /\ <<j, j>>[1] = j /\ <<j, j>>[2] = j OBVIOUS
<1>3. CASE Post(<<j>>)
  <2>1. \A i \in 1..Len(<<j>>) : TaskOK(<<j>>[i])
    <3>1. \A i \in 1..Len(<<j>>) : i = 1 BY <1>1
    <3> QED BY <1>1, <3>1
  <2> QED BY <1>1, <1>3, <2>1, PostKeeps
<1>4. CASE Post(<<j, j>>)
  <2>1. \A i \in 1..Len(<<j, j>>) : TaskOK(<<j, j>>[i])
    <3>1. \A i \in 1..Len(<<j, j>>) : i = 1 \/ i = 2 BY <1>2
    <3> QED BY <1>2, <3>1
  <2> QED BY <1>2, <1>4, <2>1, PostKeeps
<1> QED BY <1>3, <1>4

\* What a window shows next, and that it fits.
LEMMA ShowKeeps ==
  ASSUME IInv, NEW c \in Clients, NEW st \in {"hello", "waiting", "answered", "main", "gone"},
         NEW u \in Users \cup {NoUser}, NEW t \in Answers \cup {NoToken}, Show(c, st, u, t),
         st \in {"waiting", "answered", "main"} => u \in Users,
         st \in {"answered", "main"} => Fits(t, u),
         UNCHANGED <<auth, owner, answered, raced>>
  PROVE  /\ client' \in [Clients -> [st: {"hello", "waiting", "answered", "main", "gone"},
                                     user: Users \cup {NoUser}, token: Answers \cup {NoToken}]]
         /\ ClientInv'
<1> DEFINE w == [st |-> st, user |-> u, token |-> t]
<1>1. client' = [client EXCEPT ![c] = w] BY DEF Show
<1>2. w \in [st: {"hello", "waiting", "answered", "main", "gone"},
             user: Users \cup {NoUser}, token: Answers \cup {NoToken}]
  OBVIOUS
<1>3. w.st = st /\ w.user = u /\ w.token = t OBVIOUS
<1> HIDE DEF w
<1>4. client'[c] = w /\ \A d \in Clients : d # c => client'[d] = client[d]
  BY <1>1 DEF IInv, TypeOK
<1>5. ASSUME NEW d \in Clients
      PROVE  /\ client'[d].st \in {"waiting", "answered", "main"} => client'[d].user \in Users
             /\ client'[d].st \in {"answered", "main"} => Fits(client[d].token, client[d].user)'
  <2>1. CASE d = c
    BY <1>3, <1>4, <2>1 DEF Fits
  <2>2. CASE d # c
    BY <1>4, <2>2, WindowKeeps DEF Settled
  <2> QED BY <2>1, <2>2
<1> QED BY <1>1, <1>2, <1>5 DEF IInv, TypeOK, ClientInv

\* A client's request is a task.
LEMMA TaskType ==
  ASSUME NEW op \in {"Login", "Request", "Quit"}, NEW c \in Clients,
         NEW u \in Users, NEW t \in Answers \cup {NoToken},
         op # "Login" => Fits(t, u)
  PROVE  Task(op, c, u, t) \in Jobs /\ TaskOK(Task(op, c, u, t))
BY DEF Task, Jobs, TaskOK

\* The client asks only with the token it was given.
LEMMA ClientKeeps ==
  ASSUME IInv, NEW c \in Clients, ClientStep(c)
  PROVE  IInv'
<1>1. UNCHANGED <<redis, rows, threads, history, troubles>>
  BY DEF ClientStep, SendLogin, ReadLoginReply, SendRequest, CloseWindow, ClientDies, ClientStarts, counters
<1>2. ThreadsInv' /\ TokensDiffer' /\ AnsweredInv' /\ LiveTokenGuarded' /\ OneSeat'
  BY <1>1, ThreadsStay, StoresKeep DEF redis, threads, history, Settled
<1>3. UNCHANGED <<auth, owner, answered, raced>>
  BY <1>1 DEF redis, history
<1>4. /\ client[c].user \in Users \cup {NoUser} /\ client[c].token \in Answers \cup {NoToken}
      /\ client[c].st \in {"answered", "main"} =>
           client[c].user \in Users /\ Fits(client[c].token, client[c].user)
  BY DEF IInv, TypeOK, SessionInv, ClientInv
<1>11. NoToken \in Answers \cup {NoToken} /\ NoUser \in Users \cup {NoUser}
  OBVIOUS
<1>5. ASSUME queue' \in Seq(Jobs), QueueInv',
             client' \in [Clients -> [st: {"hello", "waiting", "answered", "main", "gone"},
                                     user: Users \cup {NoUser}, token: Answers \cup {NoToken}]],
             ClientInv', logins' \in Nat, pending' \in [Clients -> Int]
      PROVE  IInv'
  BY <1>1, <1>2, <1>5 DEF IInv, TypeOK, SessionInv, redis, rows, tables, threads, history
<1>12. queue' = queue => queue' \in Seq(Jobs) /\ QueueInv'
  BY <1>3, QueueKeeps DEF IInv, TypeOK, Settled
<1>13. ASSUME pending' = pending, logins' = logins PROVE logins' \in Nat /\ pending' \in [Clients -> Int]
  BY <1>13 DEF IInv, TypeOK
<1>6. CASE \E u \in Users : SendLogin(c, u)
  <2>1. PICK u \in Users : SendLogin(c, u) BY <1>6
  <2>2. Task("Login", c, u, NoToken) \in Jobs /\ TaskOK(Task("Login", c, u, NoToken))
    BY TaskType
  <2>3. queue' \in Seq(Jobs) /\ QueueInv'
    BY <2>1, <2>2, <1>3, PostTasks DEF SendLogin
  <2>4. logins' \in Nat /\ pending' \in [Clients -> Int]
    BY <2>1 DEF SendLogin, IInv, TypeOK
  <2>5. Show(c, "waiting", u, NoToken)
    BY <2>1 DEF SendLogin
  <2> QED BY <2>3, <2>4, <2>5, <1>3, <1>5, ShowKeeps
<1>7. CASE ReadLoginReply(c)
  <2> DEFINE u == client[c].user
             a == client[c].token
  <2>1. logins' \in Nat /\ pending' \in [Clients -> Int]
    BY <1>7, <1>13 DEF ReadLoginReply, counters
  <2>2. CASE Show(c, "hello", NoUser, NoToken) /\ UNCHANGED queue
    BY <2>1, <2>2, <1>3, <1>5, <1>11, <1>12, ShowKeeps
  <2>3. CASE /\ client[c].st = "answered" /\ Show(c, "main", u, a)
             /\ \/ Post(<<Task("Request", c, u, a), Task("Request", c, u, a)>>)
                \/ Post(<<Task("Request", c, u, a)>>)
    <3>1. Task("Request", c, u, a) \in Jobs /\ TaskOK(Task("Request", c, u, a))
      BY <2>3, <1>4, TaskType
    <3>2. queue' \in Seq(Jobs) /\ QueueInv'
      BY <2>3, <3>1, <1>3, PostTasks
    <3> QED BY <2>1, <2>3, <3>2, <1>3, <1>4, <1>5, ShowKeeps
  <2> QED BY <1>7, <2>2, <2>3 DEF ReadLoginReply
<1>8. CASE SendRequest(c)
  <2>1. /\ logins' \in Nat /\ pending' \in [Clients -> Int] /\ client' = client
    BY <1>8, <1>13 DEF SendRequest, counters, forms
  <2>2. Task("Request", c, client[c].user, client[c].token) \in Jobs
        /\ TaskOK(Task("Request", c, client[c].user, client[c].token))
    BY <1>4, <1>8, TaskType DEF SendRequest
  <2>3. queue' \in Seq(Jobs) /\ QueueInv'
    BY <2>2, <1>3, <1>8, PostTasks DEF SendRequest
  <2>4. ClientInv'
    BY <2>1, <1>3, WindowKeeps DEF ClientInv, Settled
  <2> QED BY <2>1, <2>3, <2>4, <1>5 DEF IInv, TypeOK
<1>9. CASE CloseWindow(c)
  <2>1. logins' \in Nat /\ pending' \in [Clients -> Int] /\ Show(c, "hello", NoUser, NoToken)
    BY <1>9, <1>13 DEF CloseWindow, counters
  <2>2. Task("Quit", c, client[c].user, client[c].token) \in Jobs
        /\ TaskOK(Task("Quit", c, client[c].user, client[c].token))
    BY <1>4, <1>9, TaskType DEF CloseWindow
  <2>3. queue' \in Seq(Jobs) /\ QueueInv'
    BY <2>2, <1>3, <1>9, PostTasks DEF CloseWindow
  <2> QED BY <2>1, <2>3, <1>3, <1>5, <1>11, ShowKeeps
<1>10. CASE ClientDies(c) \/ ClientStarts(c)
  <2>1. logins' \in Nat /\ pending' \in [Clients -> Int] /\ queue' = queue
    BY <1>10, <1>13 DEF ClientDies, ClientStarts, counters
  <2>2. Show(c, "gone", NoUser, NoToken) \/ Show(c, "hello", NoUser, NoToken)
    BY <1>10 DEF ClientDies, ClientStarts
  <2> QED BY <2>1, <2>2, <1>3, <1>5, <1>11, <1>12, ShowKeeps
<1> QED BY <1>6, <1>7, <1>8, <1>9, <1>10 DEF ClientStep

\* After a restart nothing in flight is left; Redis and the rows are.
LEMMA CrashKeeps ==
  ASSUME IInv, Crash
  PROVE  IInv'
<1>1. UNCHANGED <<redis, rows, issued, answered, raced, logins>> /\ troubles' \in Nat
  BY TroublesNat DEF Crash, IInv, TypeOK
<1>2. /\ queue' = <<>> /\ \A p \in Threads : pc'[p] = "idle"
      /\ \A c \in Clients : client'[c].st = "hello"
  BY DEF Crash
<1>3. TypeOK'
  BY <1>1, BoundAssumption DEF Crash, IInv, TypeOK, redis, rows, tables
<1>4. ThreadsInv' /\ TokensDiffer'
  BY <1>2 DEF ThreadsInv, JobOK, TokenOK, SeatOK, TokensDiffer, LoginPcs, SignInPcs, QuitPcs
<1>5. QueueInv' /\ ClientInv'
  BY <1>2 DEF QueueInv, ClientInv
<1> QED BY <1>1, <1>3, <1>4, <1>5, StoresKeep DEF IInv, SessionInv, redis

\* Nobody is signed in.
LEMMA InitInv == Init => IInv
<1> SUFFICES ASSUME Init PROVE IInv OBVIOUS
<1>1. TypeOK
  BY TTLAssumption, BoundAssumption DEF Init, TypeOK, Forever
<1>2. SessionInv
  BY DEF Init, SessionInv, QueueInv, ClientInv, ThreadsInv, JobOK, TokenOK, SeatOK, TokensDiffer,
         AnsweredInv, LiveTokenGuarded, OneSeat, SeatToken, LoginPcs, SignInPcs, QuitPcs
<1> QED BY <1>1, <1>2 DEF IInv

\* A step of something else.
LEMMA StutterKeeps == IInv /\ UNCHANGED vars => IInv'
<1> SUFFICES ASSUME IInv, UNCHANGED vars PROVE IInv' OBVIOUS
<1>1. UNCHANGED <<redis, rows, queue, threads, forms, history, counters>>
  BY DEF vars
<1>2. TypeOK'
  BY <1>1 DEF redis, rows, tables, threads, forms, history, counters, IInv, TypeOK
<1>3. SessionInv'
  BY <1>1, ThreadsStay, TasksKeep, StoresKeep DEF redis, threads, forms, history, Settled, SessionInv
<1> QED BY <1>2, <1>3 DEF IInv

\* Every step keeps the invariant.
LEMMA NextInv == IInv /\ [Next]_vars => IInv'
<1> SUFFICES ASSUME IInv, [Next]_vars PROVE IInv' OBVIOUS
<1>1. CASE Tick BY <1>1, TickKeeps
<1>2. ASSUME NEW p \in Threads, Step(p) PROVE IInv'
  <2>1. CASE LoginStep(p)
    BY <2>1, LoginCheckKeeps, LoginSeatKeeps, LoginRowKeeps, LoginCommitKeeps, LoginAuthKeeps,
       LoginHmsetKeeps, LoginExpireKeeps DEF LoginStep
  <2>2. CASE QuitStep(p)
    BY <2>2, QuitRowKeeps, QuitAuthKeeps, QuitSessKeeps DEF QuitStep
  <2> QED BY <1>2, <2>1, <2>2, TakeKeeps, ActivityKeeps, ValidateKeeps, CopyKeeps, SendKeeps DEF Step
<1>3. ASSUME NEW c \in Clients, ClientStep(c) PROVE IInv'
  BY <1>3, ClientKeeps
<1>4. CASE Crash BY <1>4, CrashKeeps
<1>5. CASE UNCHANGED vars BY <1>5, StutterKeeps
<1>6. ASSUME NEW r \in Recoveries, Restore(r) PROVE IInv'
  BY <1>6, RestoreKeeps
<1> QED BY <1>1, <1>2, <1>3, <1>4, <1>5, <1>6 DEF Next

\* The inductive invariant holds in every reachable state.
THEOREM Invariance == Spec => []IInv
<1> QED BY InitInv, NextInv, PTL DEF Spec

\* Keys, rows, tasks and answers keep their types: auth:<token>, for one, never
\* exists without a TTL.
THEOREM TypeCorrect == Spec => []TypeOK
<1>1. IInv => TypeOK BY DEF IInv
<1> QED BY <1>1, Invariance, PTL

\* While ValidateRequest honours a token Login has returned, the seat IsUserActive
\* looks at is taken for at least as long, whatever fails or crashes.
THEOREM TokensAreGuarded == Spec => []LiveTokenGuarded
<1>1. IInv => LiveTokenGuarded BY DEF IInv, SessionInv
<1> QED BY <1>1, Invariance, PTL

\* CreateSession's check leaves a user whose sign-ins never overlapped with one
\* honoured token.
THEOREM OneTokenPerUser == Spec => []OneSeat
<1>1. IInv => OneSeat BY DEF IInv, SessionInv
<1> QED BY <1>1, Invariance, PTL

\* No handler in flight revives auth:<token> once it was signed out or expired.
THEOREM DeadTokens == Spec => DeadTokenStaysDead
<1>1. IInv /\ [Next]_vars => [\A t \in answered : auth[t] = 0 => auth'[t] = 0]_vars
  <2> SUFFICES ASSUME IInv, Next, NEW t \in answered, auth[t] = 0 PROVE auth'[t] = 0
    OBVIOUS
  <2>1. t \in Tokens BY DEF IInv, TypeOK
  <2>2. CASE Tick BY <2>1, <2>2, TTLAssumption DEF Tick, Older
  <2>3. ASSUME NEW p \in Threads, Step(p) PROVE auth'[t] = 0
    <3>1. CASE LoginAuth(p)
      <4>1. pc[p] = "auth" /\ job[p].token \notin answered
        BY <3>1 DEF LoginAuth, IInv, SessionInv, ThreadsInv, TokenOK, SignInPcs
      <4>2. auth' = auth \/ auth' = [auth EXCEPT ![job[p].token] = TTL]
        BY <3>1 DEF LoginAuth, RedisCall
      <4> QED BY <4>1, <4>2, <2>1 DEF IInv, TypeOK
    <3>2. CASE QuitAuth(p)
      <4>1. auth' = auth \/ auth' = [auth EXCEPT ![job[p].token] = 0]
        BY <3>2 DEF QuitAuth, RedisCall
      <4> QED BY <4>1, <2>1 DEF IInv, TypeOK
    <3>3. CASE ~LoginAuth(p) /\ ~QuitAuth(p)
      <4>1. auth' = auth
        BY <2>3, <3>3 DEF Step, LoginStep, QuitStep, Take, LoginCheck, LoginSeat, LoginRow,
           LoginCommit, LoginHmset, LoginExpire, Send, Activity, Validate, QuitRow, QuitSess,
           CopyStep, CreateBackup, RecoverDB, StopActiveSession, redis
      <4> QED BY <4>1
    <3> QED BY <3>1, <3>2, <3>3
  <2>4. ASSUME NEW c \in Clients, ClientStep(c) PROVE auth'[t] = 0
    BY <2>4 DEF ClientStep, SendLogin, ReadLoginReply, SendRequest, CloseWindow, ClientDies, ClientStarts, redis
  <2>5. CASE Crash BY <2>5 DEF Crash, redis
  <2>6. ASSUME NEW r \in Recoveries, Restore(r) PROVE auth'[t] = 0
    BY <2>6 DEF Restore, DropTables, CreateTables, CopyTables, redis
  <2> QED BY <2>2, <2>3, <2>4, <2>5, <2>6 DEF Next
<1> QED BY <1>1, Invariance, PTL DEF Spec, DeadTokenStaysDead
=============================================================================
