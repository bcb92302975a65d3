-------------------------- MODULE StoreAnswersProofs --------------------------
(***************************************************************************)
(* What the store's answers are worth, proved on top of its invariant: a   *)
(* "Success" of an access is in the log, one of a change of rights shows   *)
(* in the file list what was asked for, and to the users each change of the*)
(* files is one step (the refinement of FileService).                      *)
(***************************************************************************)
EXTENDS PermissionStoreProofs, StoreService

-----------------------------------------------------------------------------
(* The inductive invariant. *)

\* What a thread has seen is a node that was made, of the name in its request.
SeenOK(p) ==
    /\ seen[p] < nextId
    /\ pc[p] \in SetPcs =>
          job[p].op = "ChangeRights" /\ seen[p] \in Ids /\ node[seen[p]].name = job[p].file
    /\ pc[p] = "event" /\ seen[p] \in Ids => node[seen[p]].name = job[p].file

\* An access that was answered is in the log.
Logged(p) ==
    /\ pc[p] = "reply" /\ job[p].op \in AccessOps /\ reply[p] = "Success"
    /\ p \notin spoiled /\ seen[p] \in nodes
    => [node |-> seen[p], user |-> job[p].user, right |-> RightOf[job[p].op]] \in events

\* What the transactions of a change of rights so far have set stays.
Changed(p) ==
    allSet[p] /\ p \notin spoiled /\ seen[p] \in nodes =>
        /\ pc[p] \in {"set_group", "set_all", "rights_event"} =>
              rights[seen[p]].user = Granted(SetMask(0, job[p].mode))
        /\ pc[p] \in {"set_all", "rights_event"} /\ fileGroup[seen[p]] # NoRow =>
              rights[seen[p]].group = Granted(SetMask(3, job[p].mode))
        /\ pc[p] = "rights_event" =>
              rights[seen[p]].all = Granted(SetMask(6, job[p].mode))

\* Two changes of one file at a time are both spoiled.
Apart(p, q) == pc[p] \in SetPcs /\ pc[q] \in SetPcs /\ job[p].file = job[q].file => p \in spoiled

AnswerOK(p) == SeenOK(p) /\ Logged(p) /\ Changed(p)

AnswerInv ==
    /\ \A p \in Threads : AnswerOK(p)
    /\ \A p, q \in Threads : p # q => Apart(p, q)

-----------------------------------------------------------------------------
(* The permission string. *)

\* Three bits make a number, and come out of it again.
LEMMA BitsOf ==
    ASSUME NEW a \in {0, 1}, NEW b \in {0, 2}, NEW c \in {0, 4}
    PROVE  /\ a + b + c \in 0..7
           /\ ((a + b + c) \div 1) % 2 = 1 <=> a = 1
           /\ ((a + b + c) \div 2) % 2 = 1 <=> b = 2
           /\ ((a + b + c) \div 4) % 2 = 1 <=> c = 4
<1>1. CASE a = 0 /\ b = 0 /\ c = 0
  BY <1>1, SMT
<1>2. CASE a = 1 /\ b = 0 /\ c = 0
  BY <1>2, SMT
<1>3. CASE a = 0 /\ b = 2 /\ c = 0
  BY <1>3, SMT
<1>4. CASE a = 1 /\ b = 2 /\ c = 0
  BY <1>4, SMT
<1>5. CASE a = 0 /\ b = 0 /\ c = 4
  BY <1>5, SMT
<1>6. CASE a = 1 /\ b = 0 /\ c = 4
  BY <1>6, SMT
<1>7. CASE a = 0 /\ b = 2 /\ c = 4
  BY <1>7, SMT
<1>8. CASE a = 1 /\ b = 2 /\ c = 4
  BY <1>8, SMT
<1> QED BY <1>1, <1>2, <1>3, <1>4, <1>5, <1>6, <1>7, <1>8

LEMMA LetterIs ==
    /\ Letter(0) = "r" /\ Letter(1) = "w" /\ Letter(2) = "x"
    /\ Letter(3) = "r" /\ Letter(4) = "w" /\ Letter(5) = "x"
    /\ Letter(6) = "r" /\ Letter(7) = "w" /\ Letter(8) = "x"
  BY SMT DEF Letter

LEMMA ShiftIs == Shift(0) = 1 /\ Shift(1) = 2 /\ Shift(2) = 4
  BY SMT DEF Shift

\* What a mask grants.
LEMMA GrantedIs ==
    ASSUME NEW a \in {0, 1}, NEW b \in {0, 2}, NEW c \in {0, 4}
    PROVE  /\ "r" \in Granted(a + b + c) <=> a = 1
           /\ "w" \in Granted(a + b + c) <=> b = 2
           /\ "x" \in Granted(a + b + c) <=> c = 4
<1>1. PICK m : m = a + b + c
  OBVIOUS
<1>2. /\ (m \div Shift(0)) % 2 = 1 <=> a = 1
      /\ (m \div Shift(1)) % 2 = 1 <=> b = 2
      /\ (m \div Shift(2)) % 2 = 1 <=> c = 4
  BY <1>1, ShiftIs, BitsOf
<1>3. \A l : l \in Granted(m) <=> \E k \in {0, 1, 2} : l = Letter(k) /\ (m \div Shift(k)) % 2 = 1
  <2>1. 0..2 = {0, 1, 2}
    OBVIOUS
  <2> QED BY <2>1 DEF Granted
<1>4. "r" # "w" /\ "r" # "x" /\ "w" # "x"
  OBVIOUS
<1> HIDE DEF Granted
<1> QED BY <1>1, <1>2, <1>3, <1>4, LetterIs

\* What is granted by the mask of three positions of the dialog's string are the
\* letters that stand there.
LEMMA MaskIs ==
    ASSUME NEW s \in ModeStrings
    PROVE  /\ \A i \in {0, 1, 2} : Letter(i) \in Granted(SetMask(0, s)) <=> s[i] # "-"
           /\ \A i \in {3, 4, 5} : Letter(i) \in Granted(SetMask(3, s)) <=> s[i] # "-"
           /\ \A i \in {6, 7, 8} : Letter(i) \in Granted(SetMask(6, s)) <=> s[i] # "-"
<1> DEFINE bit(i, k) == IF s[i] # "-" THEN k ELSE 0
<1>1. /\ SetMask(0, s) = bit(0, 1) + bit(1, 2) + bit(2, 4)
      /\ SetMask(3, s) = bit(3, 1) + bit(4, 2) + bit(5, 4)
      /\ SetMask(6, s) = bit(6, 1) + bit(7, 2) + bit(8, 4)
  <2>1. /\ 0 % 3 = 0 /\ 1 % 3 = 1 /\ 2 % 3 = 2 /\ 3 % 3 = 0 /\ 4 % 3 = 1 /\ 5 % 3 = 2
        /\ 6 % 3 = 0 /\ 7 % 3 = 1 /\ 8 % 3 = 2
        /\ 0 + 1 = 1 /\ 0 + 2 = 2 /\ 3 + 1 = 4 /\ 3 + 2 = 5 /\ 6 + 1 = 7 /\ 6 + 2 = 8
    BY SMT
  <2> QED BY <2>1, ShiftIs DEF SetMask
<1>2. \A i : bit(i, 1) \in {0, 1} /\ bit(i, 2) \in {0, 2} /\ bit(i, 4) \in {0, 4}
  OBVIOUS
<1>3. \A i : (bit(i, 1) = 1 <=> s[i] # "-") /\ (bit(i, 2) = 2 <=> s[i] # "-") /\ (bit(i, 4) = 4 <=> s[i] # "-")
  OBVIOUS
<1> HIDE DEF bit
<1>4. \A i \in {0, 1, 2} : Letter(i) \in Granted(SetMask(0, s)) <=> s[i] # "-"
  BY <1>1, <1>2, <1>3, GrantedIs, LetterIs
<1>5. \A i \in {3, 4, 5} : Letter(i) \in Granted(SetMask(3, s)) <=> s[i] # "-"
  BY <1>1, <1>2, <1>3, GrantedIs, LetterIs
<1>6. \A i \in {6, 7, 8} : Letter(i) \in Granted(SetMask(6, s)) <=> s[i] # "-"
  BY <1>1, <1>2, <1>3, GrantedIs, LetterIs
<1> QED BY <1>4, <1>5, <1>6

\* A file whose three columns grant what the string's masks say shows that string.
LEMMA ShownIs ==
    ASSUME NEW s \in ModeStrings, NEW n, fileGroup[n] # NoRow,
           rights[n].user = Granted(SetMask(0, s)),
           rights[n].group = Granted(SetMask(3, s)),
           rights[n].all = Granted(SetMask(6, s))
    PROVE  Shown(n) = s
<1> DEFINE can(i) == IF i < 3 THEN rights[n].user
                     ELSE IF i < 6 THEN IF fileGroup[n] = NoRow THEN {} ELSE rights[n].group
                     ELSE rights[n].all
<1>1. s \in [0..8 -> Letters \cup {"-"}] /\ \A i \in 0..8 : s[i] \in {"-", Letter(i)}
  BY DEF ModeStrings
<1>2. ASSUME NEW i \in 0..8
      PROVE  (IF Letter(i) \in can(i) THEN Letter(i) ELSE "-") = s[i]
  <2>1. i \in {0, 1, 2} \/ i \in {3, 4, 5} \/ i \in {6, 7, 8}
    OBVIOUS
  <2>2. Letter(i) \in can(i) <=> s[i] # "-"
    <3>1. CASE i \in {0, 1, 2}
      <4>1. can(i) = rights[n].user
        BY <3>1
      <4> HIDE DEF can
      <4> QED BY <3>1, <4>1, MaskIs
    <3>2. CASE i \in {3, 4, 5}
      <4>1. can(i) = rights[n].group
        BY <3>2
      <4> HIDE DEF can
      <4> QED BY <3>2, <4>1, MaskIs
    <3>3. CASE i \in {6, 7, 8}
      <4>1. can(i) = rights[n].all
        BY <3>3
      <4> HIDE DEF can
      <4> QED BY <3>3, <4>1, MaskIs
    <3> QED BY <2>1, <3>1, <3>2, <3>3
  <2> HIDE DEF can
  <2> QED BY <1>1, <2>2
<1>3. Shown(n) = [i \in 0..8 |-> IF Letter(i) \in can(i) THEN Letter(i) ELSE "-"]
  BY DEF Shown
<1> HIDE DEF can
<1>4. Shown(n) = [i \in 0..8 |-> s[i]]
  BY <1>2, <1>3
<1> QED BY <1>1, <1>4

-----------------------------------------------------------------------------
(* What a step of thread p leaves to the other threads.                      *)

\* Their variables.
OthersWait(p) == \A q \in Threads : q # p =>
    /\ pc'[q] = pc[q] /\ job'[q] = job[q] /\ seen'[q] = seen[q]
    /\ allSet'[q] = allSet[q] /\ reply'[q] = reply[q]
    /\ q \in spoiled => q \in spoiled'

\* The nodes made before: they go, or stay as they are; a row of permissions_group
\* that is gone does not come back; and rights change by the file's name.
NodesLast(p) ==
    /\ nextId <= nextId'
    /\ \A n \in Ids : n < nextId =>
          /\ n \in nodes' => n \in nodes
          /\ node'[n] = node[n]
          /\ fileGroup'[n] # NoRow => fileGroup[n] # NoRow
          /\ rights'[n] # rights[n] => pc[p] \in SetPcs /\ node[n].name = job[p].file

\* The log of the nodes that stay.
LogLasts == \A e \in events : e.node \in nodes' => e \in events'

\* Who begins a change of rights spoils, and is spoiled by, those under way.
ComesApart(p) == pc'[p] \in SetPcs =>
    \/ pc[p] \in SetPcs /\ job'[p] = job[p] /\ (p \in spoiled => p \in spoiled')
    \/ \A q \in Threads : q # p /\ pc[q] \in SetPcs /\ job[q].file = job'[p].file =>
          p \in spoiled' /\ q \in spoiled'

Frame(p) == OthersWait(p) /\ NodesLast(p) /\ LogLasts /\ ComesApart(p)

\* What another thread has seen.
LEMMA OtherSeen ==
    ASSUME IInv, AnswerInv, IInv', NEW p \in Threads, Frame(p),
           NEW q \in Threads, q # p
    PROVE  SeenOK(q)'
<1>1. pc'[q] = pc[q] /\ job'[q] = job[q] /\ seen'[q] = seen[q]
  BY DEF Frame, OthersWait
<1>2. SeenOK(q) /\ nextId \in Nat /\ nextId' \in Nat /\ seen[q] \in Ids \cup {0}
  BY DEF AnswerInv, AnswerOK, IInv, TypeOK
<1>3. seen[q] \in Int
  BY <1>2 DEF Ids
<1>4. nextId <= nextId' /\ seen[q] < nextId
  BY <1>2 DEF Frame, NodesLast, SeenOK
<1>5. seen[q] < nextId'
  BY <1>2, <1>3, <1>4
<1>6. seen[q] \in Ids => node'[seen[q]] = node[seen[q]]
  BY <1>4 DEF Frame, NodesLast
<1> QED BY <1>1, <1>2, <1>5, <1>6 DEF SeenOK

\* What another thread has logged.
LEMMA OtherLogged ==
    ASSUME IInv, AnswerInv, IInv', NEW p \in Threads, Frame(p),
           NEW q \in Threads, q # p
    PROVE  Logged(q)'
<1>1. /\ pc'[q] = pc[q] /\ job'[q] = job[q] /\ seen'[q] = seen[q] /\ reply'[q] = reply[q]
      /\ q \in spoiled => q \in spoiled'
  BY DEF Frame, OthersWait
<1>2. Logged(q) /\ seen[q] < nextId
  BY DEF AnswerInv, AnswerOK, SeenOK
<1>3. seen[q] \in nodes' => seen[q] \in nodes
  <2>1. nodes' \subseteq Ids
    BY DEF IInv, TypeOK
  <2> QED BY <1>2, <2>1 DEF Frame, NodesLast
<1> DEFINE e == [node |-> seen[q], user |-> job[q].user, right |-> RightOf[job[q].op]]
<1>4. e \in events /\ seen[q] \in nodes' => e \in events'
  <2>1. e.node = seen[q]
    OBVIOUS
  <2> HIDE DEF e
  <2> QED BY <2>1 DEF Frame, LogLasts
<1> QED BY <1>1, <1>2, <1>3, <1>4 DEF Logged

\* What another thread has set: only a change of that file could undo it, and
\* then both are spoiled.
LEMMA OtherChanged ==
    ASSUME IInv, AnswerInv, IInv', NEW p \in Threads, Frame(p),
           NEW q \in Threads, q # p
    PROVE  Changed(q)'
<1>1. /\ pc'[q] = pc[q] /\ job'[q] = job[q] /\ seen'[q] = seen[q] /\ allSet'[q] = allSet[q]
      /\ q \in spoiled => q \in spoiled'
  BY DEF Frame, OthersWait
<1>2. Changed(q) /\ SeenOK(q) /\ Apart(q, p)
  BY DEF AnswerInv, AnswerOK
<1>3. SUFFICES ASSUME allSet[q], q \notin spoiled, seen[q] \in nodes', pc[q] \in SetPcs
      PROVE  Changed(q)'
  BY <1>1 DEF Changed, SetPcs
<1>4. seen[q] \in Ids /\ seen[q] < nextId /\ node[seen[q]].name = job[q].file
  BY <1>2, <1>3 DEF SeenOK
<1>5. seen[q] \in nodes /\ (fileGroup'[seen[q]] # NoRow => fileGroup[seen[q]] # NoRow)
  BY <1>3, <1>4 DEF Frame, NodesLast
<1>6. rights'[seen[q]] = rights[seen[q]]
  BY <1>2, <1>3, <1>4 DEF Frame, NodesLast, Apart
<1> QED BY <1>1, <1>2, <1>3, <1>5, <1>6 DEF Changed

\* So only the thread that steps has to be looked at.
LEMMA OthersAnswers ==
    ASSUME IInv, AnswerInv, IInv', NEW p \in Threads, Frame(p), AnswerOK(p)'
    PROVE  AnswerInv'
<1>1. \A q \in Threads : AnswerOK(q)'
  BY OtherSeen, OtherLogged, OtherChanged DEF AnswerOK
<1>2. ASSUME NEW q \in Threads, NEW r \in Threads, q # r PROVE Apart(q, r)'
  <2>1. Apart(q, r) /\ Apart(r, q)
    BY <1>2 DEF AnswerInv
  <2>2. OthersWait(p) /\ ComesApart(p)
    BY DEF Frame
  <2>3. CASE q # p /\ r # p
    BY <2>1, <2>2, <2>3 DEF Apart, OthersWait
  <2>4. CASE q = p
    <3>1. pc'[r] = pc[r] /\ job'[r] = job[r]
      BY <1>2, <2>2, <2>4 DEF OthersWait
    <3> QED BY <1>2, <2>1, <2>2, <2>4, <3>1 DEF Apart, ComesApart
  <2>5. CASE r = p
    <3>1. pc'[q] = pc[q] /\ job'[q] = job[q] /\ (q \in spoiled => q \in spoiled')
      BY <1>2, <2>2, <2>5 DEF OthersWait
    <3> QED BY <1>2, <2>1, <2>2, <2>5, <3>1 DEF Apart, ComesApart
  <2> QED BY <2>3, <2>4, <2>5
<1> QED BY <1>1, <1>2 DEF AnswerInv

-----------------------------------------------------------------------------
(* The actions.                                                              *)

\* The nodes, their rights and the log are left alone.
LEMMA StillTree ==
    ASSUME IInv, IInv', NEW p \in Threads, UNCHANGED <<tree, rights, fileGroup, events>>
    PROVE  NodesLast(p) /\ LogLasts
<1>1. nextId' = nextId /\ nextId \in Nat
  BY DEF tree, IInv, TypeOK
<1> QED BY <1>1 DEF NodesLast, LogLasts, tree

\* A thread that is at none of the places of which something is claimed.
LEMMA Elsewhere ==
    ASSUME NEW p \in Threads, pc'[p] \notin SetPcs \cup {"event", "reply"},
           (seen[p] < nextId)'
    PROVE  AnswerOK(p)'
  BY DEF AnswerOK, SeenOK, Logged, Changed, SetPcs

\* So is one that answers for something else than an access.
LEMMA Answers ==
    ASSUME NEW p \in Threads, pc'[p] = "reply", (seen[p] < nextId)',
           job'[p].op \notin AccessOps \/ reply'[p] # "Success"
    PROVE  AnswerOK(p)'
  BY DEF AnswerOK, SeenOK, Logged, Changed, SetPcs

\* A step that makes an answer, or goes on, with what the thread has seen.
LEMMA SeenStays ==
    ASSUME IInv, IInv', AnswerInv, NEW p \in Threads, nextId <= nextId', seen'[p] = seen[p]
    PROVE  (seen[p] < nextId)'
<1>1. seen[p] < nextId /\ nextId \in Nat /\ nextId' \in Nat /\ seen[p] \in Ids \cup {0}
  BY DEF AnswerInv, AnswerOK, SeenOK, IInv, TypeOK
<1>2. seen[p] \in Int
  BY <1>1 DEF Ids
<1> QED BY <1>1, <1>2

\* What most steps do: nothing to the tree, and their thread comes to an answer
\* or to a place of which nothing is claimed.
LEMMA PlainStep ==
    ASSUME IInv, IInv', AnswerInv, NEW p \in Threads,
           UNCHANGED <<tree, rights, fileGroup, events>>,
           OthersWait(p), (seen[p] < nextId)',
           pc'[p] \notin SetPcs \cup {"event"},
           pc'[p] = "reply" => job'[p].op \notin AccessOps \/ reply'[p] # "Success"
    PROVE  AnswerInv'
<1>1. NodesLast(p) /\ LogLasts
  BY StillTree
<1>2. Frame(p)
  BY <1>1 DEF Frame, ComesApart
<1>3. AnswerOK(p)'
  BY Elsewhere, Answers
<1> QED BY <1>2, <1>3, OthersAnswers

\* The operations that are no access.
LEMMA NoAccess ==
    ASSUME NEW op, op \in {"CreateFile", "CreateDir", "DeleteFile", "ChangeRights", "AddFileToGroup",
                           "AddUserToGroup", "CreateGroup", "DeleteGroup", "Registrate"}
    PROVE  op \notin AccessOps
  BY DEF AccessOps, RightOf

\* Return, and what it leaves alone.
LEMMA ReturnIs ==
    ASSUME IInv, NEW p \in Threads, NEW r, Return(p, r)
    PROVE  /\ pc'[p] = "reply" /\ reply'[p] = r
           /\ \A q \in Threads : q # p => pc'[q] = pc[q] /\ reply'[q] = reply[q]
  BY DEF Return, IInv, TypeOK

\* Goto likewise.
LEMMA GotoIs ==
    ASSUME IInv, NEW p \in Threads, NEW l, Goto(p, l)
    PROVE  /\ pc'[p] = l
           /\ \A q \in Threads : q # p => pc'[q] = pc[q]
  BY DEF Goto, IInv, TypeOK

\* A number below the sequence stays below it.
LEMMA Below0 ==
    ASSUME IInv
    PROVE  0 < nextId /\ \A n \in nodes : n < nextId
  BY DEF IInv, StoreInv, TreeInv, TypeOK, RootId

LEMMA StartAnswers ==
    ASSUME IInv, IInv', AnswerInv, NEW p \in Threads, NEW j \in Jobs, Start(p, j)
    PROVE  AnswerInv'
<1>1. FirstPc(j.op) \in {"resolve", "check", "access", "add_file", "add_user", "create_group", "delete_group", "register"}
  BY DEF FirstPc, Jobs, CreateJobs, FileJobs, RightsJobs, AddFileJobs, AddUserJobs, GroupJobs, RegisterJobs, AccessOps, RightOf
<1>2. FirstPc(j.op) \notin SetPcs \cup {"event", "reply"}
  BY <1>1 DEF SetPcs
<1>3. pc'[p] = FirstPc(j.op) /\ OthersWait(p)
  BY DEF Start, OthersWait, IInv, TypeOK
<1>4. nextId' = nextId /\ seen' = seen /\ nextId \in Nat
  BY DEF Start, tree, IInv, TypeOK
<1>5. (seen[p] < nextId)'
  BY <1>4, SeenStays
<1>6. UNCHANGED <<tree, rights, fileGroup, events>>
  BY DEF Start
<1> QED BY <1>2, <1>3, <1>5, <1>6, PlainStep

LEMMA RespondAnswers ==
    ASSUME IInv, IInv', AnswerInv, NEW p \in Threads, Respond(p)
    PROVE  AnswerInv'
<1>1. pc'[p] = "idle" /\ OthersWait(p) /\ seen'[p] = 0
  BY GotoIs DEF Respond, OthersWait, IInv, TypeOK
<1>2. (seen[p] < nextId)'
  BY <1>1, Below0 DEF Respond, tree
<1>3. UNCHANGED <<tree, rights, fileGroup, events>>
  BY DEF Respond
<1>4. pc'[p] \notin SetPcs \cup {"event", "reply"}
  BY <1>1 DEF SetPcs
<1> QED BY <1>1, <1>2, <1>3, <1>4, PlainStep

LEMMA CreateResolveAnswers ==
    ASSUME IInv, IInv', AnswerInv, NEW p \in Threads, CreateResolve(p)
    PROVE  AnswerInv'
<1>1. /\ UNCHANGED <<accounts, tree, rights, fileGroup, events, job, aim, allSet, spoiled, requests>>
      /\ job[p].op \notin AccessOps
  BY NoAccess DEF CreateResolve, IInv, StoreInv, ThreadOK
<1>2. nextId' = nextId /\ nextId \in Nat
  BY <1>1 DEF tree, IInv, TypeOK
<1>3. CASE (\E r : Return(p, r)) /\ UNCHANGED seen
  <2>1. PICK r : Return(p, r)
    BY <1>3
  <2>2. pc'[p] = "reply" /\ OthersWait(p)
    BY <1>1, <1>3, <2>1, ReturnIs DEF OthersWait
  <2>3. (seen[p] < nextId)'
    BY <1>2, <1>3, SeenStays
  <2>4. pc'[p] \notin SetPcs \cup {"event"}
    BY <2>2 DEF SetPcs
  <2> QED BY <1>1, <2>2, <2>3, <2>4, PlainStep
<1>4. CASE /\ \E d \in Target(job[p].path) : seen' = [seen EXCEPT ![p] = d]
           /\ Goto(p, "insert") /\ UNCHANGED reply
  <2>1. PICK d \in Target(job[p].path) : seen' = [seen EXCEPT ![p] = d]
    BY <1>4
  <2>2. d \in nodes
    BY DEF Target, Named
  <2>3. seen'[p] = d /\ pc'[p] = "insert" /\ OthersWait(p)
    BY <1>1, <1>4, <2>1, GotoIs DEF OthersWait, IInv, TypeOK
  <2>4. (seen[p] < nextId)'
    BY <1>2, <2>2, <2>3, Below0
  <2>5. pc'[p] \notin SetPcs \cup {"event", "reply"}
    BY <2>3 DEF SetPcs
  <2> QED BY <1>1, <2>3, <2>4, <2>5, PlainStep
<1> QED BY <1>3, <1>4 DEF CreateResolve

\* The new node's id is beyond what any thread has seen.
LEMMA CreateInsertAnswers ==
    ASSUME IInv, IInv', AnswerInv, NEW p \in Threads, CreateInsert(p)
    PROVE  AnswerInv'
<1>1. /\ UNCHANGED <<accounts, events, job, seen, seenGroup, aim, allSet, spoiled, requests>>
      /\ job[p].op \notin AccessOps
  BY NoAccess DEF CreateInsert, IInv, StoreInv, ThreadOK
<1>2. PICK r : Return(p, r)
  BY DEF CreateInsert
<1>3. pc'[p] = "reply" /\ OthersWait(p)
  BY <1>1, <1>2, ReturnIs DEF OthersWait
<1>4. nextId \in Nat /\ nodes \subseteq Ids /\ (UNCHANGED <<tree, rights, fileGroup>> \/ nextId' = nextId + 1)
  BY DEF CreateInsert, IInv, TypeOK
<1>5. nextId <= nextId'
  BY <1>4 DEF tree
<1>6. NodesLast(p) /\ LogLasts
  <2>1. CASE UNCHANGED <<tree, rights, fileGroup>>
    BY <1>1, <2>1, StillTree
  <2>2. CASE /\ nodes' = nodes \cup {nextId}
             /\ \A n \in Ids : n # nextId =>
                   node'[n] = node[n] /\ rights'[n] = rights[n] /\ fileGroup'[n] = fileGroup[n]
    <3>1. \A n \in Ids : n < nextId => n # nextId
      BY <1>4 DEF Ids
    <3> QED BY <1>1, <1>5, <2>2, <3>1 DEF NodesLast, LogLasts
  <2>3. ASSUME ~UNCHANGED <<tree, rights, fileGroup>>
        PROVE  /\ nodes' = nodes \cup {nextId}
               /\ \A n \in Ids : n # nextId =>
                     node'[n] = node[n] /\ rights'[n] = rights[n] /\ fileGroup'[n] = fileGroup[n]
    BY <2>3 DEF CreateInsert, IInv, TypeOK
  <2> QED BY <2>1, <2>2, <2>3
<1>7. Frame(p)
  BY <1>3, <1>6 DEF Frame, ComesApart, SetPcs
<1>8. AnswerOK(p)'
  <2>1. (seen[p] < nextId)'
    BY <1>1, <1>5, SeenStays
  <2> QED BY <1>1, <1>3, <2>1, Answers
<1> QED BY <1>7, <1>8, OthersAnswers

\* Who is checked may change rights: those who are at it are spoiled, and he.
LEMMA OwnerCheckAnswers ==
    ASSUME IInv, IInv', AnswerInv, NEW p \in Threads, OwnerCheck(p)
    PROVE  AnswerInv'
<1>1. /\ UNCHANGED <<accounts, tree, rights, fileGroup, events, job, seenGroup, aim, allSet, requests>>
      /\ job[p].op \in {"DeleteFile", "ChangeRights"}
  BY DEF OwnerCheck, IInv, StoreInv, ThreadOK
<1>2. nextId' = nextId /\ nextId \in Nat /\ job[p].op \notin AccessOps
  BY <1>1, NoAccess DEF tree, IInv, TypeOK
<1>3. CASE Return(p, "No access") /\ UNCHANGED <<seen, spoiled>>
  <2>1. pc'[p] = "reply" /\ OthersWait(p)
    BY <1>1, <1>3, ReturnIs DEF OthersWait
  <2>2. (seen[p] < nextId)'
    <3>1. nextId <= nextId'
      BY <1>2
    <3>2. seen'[p] = seen[p]
      BY <1>3
    <3> QED BY <3>1, <3>2, SeenStays
  <2>3. pc'[p] \notin SetPcs \cup {"event"}
    BY <2>1 DEF SetPcs
  <2> QED BY <1>1, <1>2, <2>1, <2>2, <2>3, PlainStep
<1>4. CASE /\ \E n \in Named(job[p].file) : seen' = [seen EXCEPT ![p] = n]
           /\ UNCHANGED reply
           /\ \/ job[p].op = "DeleteFile" /\ Goto(p, "delete") /\ UNCHANGED spoiled
              \/ /\ job[p].op = "ChangeRights" /\ Goto(p, "set_user") /\ spoiled \subseteq spoiled'
                 /\ \A q \in Threads : q # p /\ pc[q] \in SetPcs /\ job[q].file = job[p].file =>
                       p \in spoiled' /\ q \in spoiled'
  <2>1. PICK n \in Named(job[p].file) : seen' = [seen EXCEPT ![p] = n]
    BY <1>4
  <2>2. n \in nodes /\ node[n].name = job[p].file /\ n \in Ids
    BY DEF Named, IInv, TypeOK
  <2>3. seen'[p] = n /\ OthersWait(p) /\ pc'[p] \in {"delete", "set_user"}
    BY <1>1, <1>4, <2>1, GotoIs DEF OthersWait, IInv, TypeOK
  <2>4. (seen[p] < nextId)'
    BY <1>2, <2>2, <2>3, Below0
  <2>5. CASE job[p].op = "DeleteFile" /\ Goto(p, "delete")
    <3>1. pc'[p] = "delete"
      BY <2>5, GotoIs
    <3>2. pc'[p] \notin SetPcs \cup {"event", "reply"}
      BY <3>1 DEF SetPcs
    <3> QED BY <1>1, <2>3, <2>4, <3>2, PlainStep
  <2>6. CASE /\ job[p].op = "ChangeRights" /\ Goto(p, "set_user")
             /\ \A q \in Threads : q # p /\ pc[q] \in SetPcs /\ job[q].file = job[p].file =>
                   p \in spoiled' /\ q \in spoiled'
    <3>1. pc'[p] = "set_user" /\ job' = job /\ node' = node
      BY <1>1, <2>6, GotoIs DEF tree
    <3>2. AnswerOK(p)'
      BY <1>1, <2>2, <2>3, <2>4, <2>6, <3>1 DEF AnswerOK, SeenOK, Logged, Changed
    <3>3. Frame(p)
      BY <1>1, <2>3, <2>6, <3>1, StillTree DEF Frame, ComesApart
    <3> QED BY <3>2, <3>3, OthersAnswers
  <2> QED BY <1>4, <2>5, <2>6
<1> QED BY <1>1, <1>3, <1>4 DEF OwnerCheck

\* The SELECT of a deletion claims nothing yet.
LEMMA FindNodeAnswers ==
    ASSUME IInv, IInv', AnswerInv, NEW p \in Threads, FindNode(p)
    PROVE  AnswerInv'
<1>1. /\ UNCHANGED <<accounts, tree, rights, fileGroup, events, job, seen, seenGroup, allSet, spoiled, requests>>
      /\ job[p].op \notin AccessOps
  BY NoAccess DEF FindNode, IInv, StoreInv, ThreadOK
<1>2. (\E r : Return(p, r)) \/ (Goto(p, "delete_rows") /\ UNCHANGED reply)
  BY DEF FindNode
<1>3. pc'[p] \in {"reply", "delete_rows"} /\ OthersWait(p)
  BY <1>1, <1>2, ReturnIs, GotoIs DEF OthersWait
<1>4. (seen[p] < nextId)'
  <2>1. nextId <= nextId' /\ seen'[p] = seen[p]
    BY <1>1 DEF tree, IInv, TypeOK
  <2> QED BY <2>1, SeenStays
<1>5. pc'[p] \notin SetPcs \cup {"event"}
  BY <1>3 DEF SetPcs
<1> QED BY <1>1, <1>3, <1>4, <1>5, PlainStep

\* What goes was made before, and takes its log with it.
LEMMA DeleteNodesAnswers ==
    ASSUME IInv, IInv', AnswerInv, NEW p \in Threads, DeleteNodes(p)
    PROVE  AnswerInv'
<1>1. /\ UNCHANGED <<accounts, node, nextId, rights, job, seen, seenGroup, aim, allSet, spoiled, requests>>
      /\ job[p].op \in {"DeleteFile", "ChangeRights"}
  BY DEF DeleteNodes, IInv, StoreInv, ThreadOK, CheckedPcs
<1>2. PICK r : Return(p, r)
  BY DEF DeleteNodes
<1>3. pc'[p] = "reply" /\ OthersWait(p)
  BY <1>1, <1>2, ReturnIs DEF OthersWait
<1>4. nextId \in Nat /\ nextId' = nextId
  BY <1>1 DEF IInv, TypeOK
<1>5. /\ nodes' \subseteq nodes
      /\ \A n \in Ids : fileGroup'[n] # NoRow => fileGroup[n] # NoRow
      /\ LogLasts
  <2>1. CASE UNCHANGED <<nodes, fileGroup, events>>
    BY <2>1 DEF LogLasts
  <2>2. CASE \E gone : Remove(gone)
    BY <2>2 DEF Remove, LogLasts
  <2> QED BY <2>1, <2>2 DEF DeleteNodes
<1>6. NodesLast(p)
  BY <1>1, <1>4, <1>5 DEF NodesLast
<1>7. Frame(p)
  BY <1>3, <1>5, <1>6 DEF Frame, ComesApart, SetPcs
<1>8. AnswerOK(p)'
  <2>1. nextId <= nextId' /\ seen'[p] = seen[p]
    BY <1>1, <1>4
  <2>2. (seen[p] < nextId)'
    BY <2>1, SeenStays
  <2>3. job'[p].op \notin AccessOps
    BY <1>1, NoAccess
  <2> QED BY <1>3, <2>2, <2>3, Answers
<1> QED BY <1>7, <1>8, OthersAnswers

\* A transaction of a change of rights: the columns of its class are what was
\* asked for, of the file it has seen, if its answer was 't'.
LEMMA SetRightsSets ==
    ASSUME IInv, AnswerInv, NEW p \in Threads, NEW at \in SetPcs, NEW class \in {"user", "group", "all"},
           NEW start, NEW next, SetRights(p, at, class, start, next),
           allSet'[p], seen[p] \in nodes
    PROVE  /\ allSet[p] /\ (class = "group" => fileGroup[seen[p]] # NoRow)
           /\ rights'[seen[p]] = [rights[seen[p]] EXCEPT ![class] = Granted(SetMask(start, job[p].mode))]
<1> DEFINE rows == {n \in Named(job[p].file) : class = "group" => fileGroup[n] # NoRow}
<1>1. pc[p] \in SetPcs /\ seen[p] \in Ids
  BY DEF SetRights, IInv, TypeOK
<1>2. node[seen[p]].name = job[p].file
  BY <1>1 DEF AnswerInv, AnswerOK, SeenOK
<1>3. \A n \in Named(job[p].file) : n = seen[p]
  BY <1>2 DEF Named, IInv, StoreInv, TreeInv, UniqueNames
<1>4. allSet' # [allSet EXCEPT ![p] = FALSE]
  BY DEF IInv, TypeOK
<1>5. /\ rights' = [n \in Ids |-> IF n \in rows
                       THEN [rights[n] EXCEPT ![class] = Granted(SetMask(start, job[p].mode))]
                       ELSE rights[n]]
      /\ allSet' = [allSet EXCEPT ![p] = @ /\ rows # {}]
  BY <1>4 DEF SetRights
<1>6. allSet'[p] = (allSet[p] /\ rows # {})
  BY <1>5 DEF IInv, TypeOK
<1>7. allSet[p] /\ rows # {}
  BY <1>6
<1>8. seen[p] \in rows
  BY <1>3, <1>7
<1> QED BY <1>1, <1>5, <1>7, <1>8

\* The three together: what is set of its class is what was asked for, what was
\* set before stays.
LEMMA SetRightsAnswers ==
    ASSUME IInv, IInv', AnswerInv, NEW p \in Threads,
           SetUserRights(p) \/ SetGroupRights(p) \/ SetAllRights(p)
    PROVE  AnswerInv'
<1>1. PICK at \in SetPcs, class \in {"user", "group", "all"}, start \in {0, 3, 6}, next \in SetPcs :
         /\ SetRights(p, at, class, start, next)
         /\ \/ at = "set_user" /\ class = "user" /\ start = 0 /\ next = "set_group"
            \/ at = "set_group" /\ class = "group" /\ start = 3 /\ next = "set_all"
            \/ at = "set_all" /\ class = "all" /\ start = 6 /\ next = "rights_event"
  BY DEF SetUserRights, SetGroupRights, SetAllRights, SetPcs
<1>2. /\ UNCHANGED <<accounts, tree, fileGroup, events, job, seen, seenGroup, reply, spoiled, requests>>
      /\ pc[p] = at /\ Goto(p, next)
  BY <1>1 DEF SetRights
<1>3. pc'[p] = next /\ OthersWait(p)
  <2>1. \A q \in Threads : q # p => allSet'[q] = allSet[q]
    BY <1>1 DEF SetRights, IInv, TypeOK
  <2> QED BY <1>2, <2>1, GotoIs DEF OthersWait
<1>4. UNCHANGED <<nodes, node, nextId, fileGroup, events>> /\ nextId \in Nat
  BY <1>2 DEF tree, IInv, TypeOK
<1>5. \A n \in Ids : n < nextId /\ rights'[n] # rights[n] => pc[p] \in SetPcs /\ node[n].name = job[p].file
  <2>1. CASE UNCHANGED rights
    BY <2>1
  <2>2. CASE \A n \in Ids : n \notin Named(job[p].file) => rights'[n] = rights[n]
    BY <1>2, <2>2 DEF Named
  <2> QED BY <1>1, <2>1, <2>2 DEF SetRights
<1>6. Frame(p)
  <2>1. NodesLast(p) /\ LogLasts
    BY <1>4, <1>5 DEF NodesLast, LogLasts
  <2>2. ComesApart(p)
    BY <1>2 DEF ComesApart
  <2> QED BY <1>3, <2>1, <2>2 DEF Frame
<1>7. SeenOK(p) /\ Changed(p)
  BY DEF AnswerInv, AnswerOK
<1>8. SeenOK(p)'
  <2>1. job'[p] = job[p] /\ seen'[p] = seen[p] /\ pc'[p] # "event"
    BY <1>2, <1>3 DEF SetPcs
  <2> QED BY <1>2, <1>4, <1>7, <2>1 DEF SeenOK
<1>9. Changed(p)'
  <2>1. SUFFICES ASSUME allSet'[p], p \notin spoiled, seen[p] \in nodes
        PROVE  Changed(p)'
    BY <1>2, <1>4 DEF Changed
  <2>2. /\ allSet[p] /\ (class = "group" => fileGroup[seen[p]] # NoRow)
        /\ rights'[seen[p]] = [rights[seen[p]] EXCEPT ![class] = Granted(SetMask(start, job[p].mode))]
    BY <1>1, <2>1, SetRightsSets
  <2>3. rights[seen[p]] \in [user: Class, group: Class, all: Class]
    BY <2>1 DEF IInv, TypeOK
  <2>4. PICK old, new : old = rights[seen[p]] /\ new = rights'[seen[p]]
    OBVIOUS
  <2>5. CASE at = "set_user"
    <3>1. new.user = Granted(SetMask(0, job[p].mode))
      BY <1>1, <2>2, <2>3, <2>4, <2>5
    <3> QED BY <1>1, <1>2, <1>3, <2>4, <2>5, <3>1 DEF Changed
  <2>6. CASE at = "set_group"
    <3>1. new.group = Granted(SetMask(3, job[p].mode)) /\ new.user = old.user
      BY <1>1, <2>2, <2>3, <2>4, <2>6
    <3>2. old.user = Granted(SetMask(0, job[p].mode))
      BY <1>2, <1>7, <2>1, <2>2, <2>4, <2>6 DEF Changed
    <3> QED BY <1>1, <1>2, <1>3, <2>4, <2>6, <3>1, <3>2 DEF Changed
  <2>7. CASE at = "set_all"
    <3>1. new.all = Granted(SetMask(6, job[p].mode)) /\ new.user = old.user /\ new.group = old.group
      BY <1>1, <2>2, <2>3, <2>4, <2>7
    <3>2. /\ old.user = Granted(SetMask(0, job[p].mode))
          /\ fileGroup[seen[p]] # NoRow => old.group = Granted(SetMask(3, job[p].mode))
      BY <1>2, <1>7, <2>1, <2>2, <2>4, <2>7 DEF Changed
    <3> QED BY <1>1, <1>2, <1>3, <2>4, <2>7, <3>1, <3>2 DEF Changed
  <2> QED BY <1>1, <2>5, <2>6, <2>7
<1>10. Logged(p)'
  BY <1>3 DEF Logged, SetPcs
<1> QED BY <1>6, <1>8, <1>9, <1>10, OthersAnswers DEF AnswerOK

LEMMA RightsEventAnswers ==
    ASSUME IInv, IInv', AnswerInv, NEW p \in Threads, RightsEvent(p)
    PROVE  AnswerInv'
<1>1. /\ UNCHANGED <<accounts, tree, rights, fileGroup, events, job, seen, seenGroup, aim, allSet, spoiled, requests>>
      /\ pc[p] = "rights_event"
  BY DEF RightsEvent
<1>2. PICK r : Return(p, r)
  BY DEF RightsEvent
<1>3. pc'[p] = "reply" /\ OthersWait(p)
  BY <1>1, <1>2, ReturnIs DEF OthersWait
<1>4. job'[p].op \notin AccessOps
  BY <1>1, NoAccess DEF AnswerInv, AnswerOK, SeenOK, SetPcs
<1>5. (seen[p] < nextId)'
  <2>1. nextId \in Nat /\ nextId' = nextId /\ seen' = seen
    BY <1>1 DEF tree, IInv, TypeOK
  <2> QED BY <2>1, SeenStays
<1>6. pc'[p] \notin SetPcs \cup {"event"}
  BY <1>3 DEF SetPcs
<1> QED BY <1>1, <1>3, <1>4, <1>5, <1>6, PlainStep

\* Who passes the check has seen the file of that name, if there is one.
LEMMA AccessCheckAnswers ==
    ASSUME IInv, IInv', AnswerInv, NEW p \in Threads, AccessCheck(p)
    PROVE  AnswerInv'
<1>1. UNCHANGED <<accounts, tree, rights, fileGroup, events, job, seenGroup, aim, allSet, spoiled, requests>>
  BY DEF AccessCheck
<1>2. nextId \in Nat /\ nextId' = nextId /\ node' = node
  BY <1>1 DEF tree, IInv, TypeOK
<1>3. CASE Return(p, "No access") /\ UNCHANGED seen
  <2>1. pc'[p] = "reply" /\ reply'[p] = "No access" /\ OthersWait(p)
    BY <1>1, <1>3, ReturnIs DEF OthersWait
  <2>2. (seen[p] < nextId)'
    <3>1. seen'[p] = seen[p]
      BY <1>3
    <3> QED BY <1>2, <3>1, SeenStays
  <2>3. pc'[p] \notin SetPcs \cup {"event"}
    BY <2>1 DEF SetPcs
  <2> QED BY <1>1, <2>1, <2>2, <2>3, PlainStep
<1>4. CASE /\ seen' = [seen EXCEPT ![p] =
                IF Named(job[p].file) = {} THEN 0 ELSE CHOOSE n \in Named(job[p].file) : TRUE]
           /\ Goto(p, "event") /\ UNCHANGED reply
  <2>1. seen'[p] = 0 \/ seen'[p] \in Named(job[p].file)
    BY <1>4 DEF IInv, TypeOK
  <2>2. pc'[p] = "event" /\ OthersWait(p)
    BY <1>1, <1>4, GotoIs DEF OthersWait, IInv, TypeOK
  <2>3. seen'[p] < nextId'
    BY <1>2, <2>1, Below0 DEF Named
  <2>4. AnswerOK(p)'
    <3>1. seen'[p] \in Ids => node'[seen'[p]].name = job'[p].file
      BY <1>1, <1>2, <2>1 DEF Named, Ids
    <3> QED BY <2>2, <2>3, <3>1 DEF AnswerOK, SeenOK, Logged, Changed, SetPcs
  <2>5. Frame(p)
    BY <1>1, <2>2, StillTree DEF Frame, ComesApart, SetPcs
  <2> QED BY <2>4, <2>5, OthersAnswers
<1> QED BY <1>3, <1>4 DEF AccessCheck

\* The event is of the file it has seen, or that one is gone.
LEMMA AccessEventAnswers ==
    ASSUME IInv, IInv', AnswerInv, NEW p \in Threads, AccessEvent(p)
    PROVE  AnswerInv'
<1>1. /\ UNCHANGED <<accounts, tree, rights, fileGroup, job, seen, seenGroup, aim, allSet, requests>>
      /\ pc[p] = "event" /\ Return(p, "Success")
  BY DEF AccessEvent
<1>2. pc'[p] = "reply" /\ \A q \in Threads : q # p => pc'[q] = pc[q] /\ reply'[q] = reply[q]
  BY <1>1, ReturnIs
<1>3. spoiled \subseteq spoiled' /\ events \subseteq events'
  BY DEF AccessEvent
<1>4. OthersWait(p)
  BY <1>1, <1>2, <1>3 DEF OthersWait
<1>5. nextId \in Nat /\ nextId' = nextId /\ UNCHANGED <<nodes, node>>
  BY <1>1 DEF tree, IInv, TypeOK
<1>6. Frame(p)
  <2>1. NodesLast(p) /\ LogLasts
    BY <1>1, <1>3, <1>5 DEF NodesLast, LogLasts
  <2> QED BY <1>2, <1>4, <2>1 DEF Frame, ComesApart, SetPcs
<1>7. SeenOK(p)
  BY DEF AnswerInv, AnswerOK
<1>8. Logged(p)'
  <2>1. ASSUME p \notin spoiled', seen[p] \in nodes
        PROVE  [node |-> seen[p], user |-> job[p].user, right |-> RightOf[job[p].op]] \in events'
    <3>1. seen[p] \in Named(job[p].file)
      BY <1>1, <1>7, <2>1 DEF SeenOK, Named, IInv, TypeOK
    <3>2. p \notin spoiled \cup {p} \/ spoiled' # spoiled \cup {p}
      BY <2>1
    <3> QED BY <2>1, <3>1, <3>2 DEF AccessEvent
  <2> QED BY <1>1, <1>5, <2>1 DEF Logged
<1>9. SeenOK(p)' /\ Changed(p)'
  <2>1. seen'[p] < nextId'
    BY <1>1, <1>5, <1>7 DEF SeenOK
  <2> QED BY <1>2, <2>1 DEF SeenOK, Changed, SetPcs
<1> QED BY <1>6, <1>8, <1>9, OthersAnswers DEF AnswerOK

\* Where the functions that work on groups and accounts come to from their look-ups.
LookUpPcs == {"file_row", "member_row", "group_row", "group_gone", "create_user"}

\* Groups and accounts: nothing claimed is touched, but for rows of
\* permissions_group, which go or are changed.
LEMMA GroupStepAnswers ==
    ASSUME IInv, IInv', AnswerInv, NEW p \in Threads, GroupStep(p)
    PROVE  AnswerInv'
<1>1. /\ UNCHANGED <<tree, rights, events, job, allSet, spoiled>>
      /\ \A n \in Ids : fileGroup'[n] # NoRow => fileGroup[n] # NoRow
      /\ UNCHANGED seen \/ \E n \in nodes : seen' = [seen EXCEPT ![p] = n]
  <2>1. CASE SetFileGroup(p)
    <3>1. \/ UNCHANGED fileGroup
          \/ fileGroup' = [fileGroup EXCEPT ![seen[p]] = IF fileGroup[seen[p]] # NoRow THEN seenGroup[p] ELSE NoRow]
      BY <2>1 DEF SetFileGroup
    <3>2. \A n \in Ids : fileGroup'[n] # NoRow => fileGroup[n] # NoRow
      BY <3>1 DEF IInv, TypeOK
    <3> QED BY <2>1, <3>2 DEF SetFileGroup
  <2>2. CASE RemoveGroup(p)
    <3>1. \/ UNCHANGED fileGroup
          \/ fileGroup' = [n \in Ids |-> IF fileGroup[n] = seenGroup[p] THEN NoRow ELSE fileGroup[n]]
      BY <2>2 DEF RemoveGroup
    <3>2. \A n \in Ids : fileGroup'[n] # NoRow => fileGroup[n] # NoRow
      BY <3>1
    <3> QED BY <2>2, <3>2 DEF RemoveGroup
  <2>3. CASE AddFileToGroup(p)
    BY <2>3 DEF AddFileToGroup, Named
  <2>4. CASE AddUserToGroup(p) \/ AddMember(p) \/ CreateGroup(p) \/ AddGroup(p) \/ DeleteGroup(p)
             \/ Register(p) \/ CreateUser(p)
    BY <2>4 DEF AddUserToGroup, AddMember, CreateGroup, AddGroup, DeleteGroup, Register, CreateUser
  <2> QED BY <2>1, <2>2, <2>3, <2>4 DEF GroupStep
<1>2. job[p].op \notin AccessOps
  BY NoAccess DEF GroupStep, AddFileToGroup, SetFileGroup, AddUserToGroup, AddMember, CreateGroup, AddGroup,
                  DeleteGroup, RemoveGroup, Register, CreateUser, IInv, StoreInv, ThreadOK
<1>3. (\E r : Return(p, r)) \/ (\E l \in LookUpPcs : Goto(p, l) /\ UNCHANGED reply)
  BY DEF GroupStep, AddFileToGroup, SetFileGroup, AddUserToGroup, AddMember, CreateGroup, AddGroup,
         DeleteGroup, RemoveGroup, Register, CreateUser, LookUpPcs
<1>4. /\ pc'[p] \in {"reply"} \cup LookUpPcs
      /\ \A q \in Threads : q # p => pc'[q] = pc[q] /\ reply'[q] = reply[q]
  BY <1>3, ReturnIs, GotoIs
<1>5. OthersWait(p)
  BY <1>1, <1>4 DEF OthersWait, IInv, TypeOK
<1>6. nextId \in Nat /\ nextId' = nextId /\ UNCHANGED <<nodes, node>>
  BY <1>1 DEF tree, IInv, TypeOK
<1>7. NodesLast(p) /\ LogLasts
  BY <1>1, <1>6 DEF NodesLast, LogLasts
<1>8. Frame(p)
  BY <1>4, <1>5, <1>7 DEF Frame, ComesApart, SetPcs, LookUpPcs
<1>9. (seen[p] < nextId)'
  <2>1. CASE UNCHANGED seen
    BY <1>6, <2>1, SeenStays
  <2>2. CASE \E n \in nodes : seen' = [seen EXCEPT ![p] = n]
    BY <1>6, <2>2, Below0 DEF IInv, TypeOK
  <2> QED BY <1>1, <2>1, <2>2
<1>10. AnswerOK(p)'
  <2>1. CASE pc'[p] = "reply"
    BY <1>1, <1>2, <1>9, <2>1, Answers
  <2>2. CASE pc'[p] \in LookUpPcs
    <3>1. pc'[p] \notin SetPcs \cup {"event", "reply"}
      BY <2>2 DEF SetPcs, LookUpPcs
    <3> QED BY <1>9, <3>1, Elsewhere
  <2> QED BY <1>4, <2>1, <2>2
<1> QED BY <1>8, <1>10, OthersAnswers

-----------------------------------------------------------------------------
(* The theorems.                                                             *)

LEMMA InitAnswers == Init => AnswerInv
<1>1. Init => \A p \in Threads : seen[p] < nextId /\ pc[p] = "idle"
  BY DEF Init, RootId
<1>2. ASSUME Init, NEW p \in Threads, seen[p] < nextId /\ pc[p] = "idle" PROVE AnswerOK(p)
  BY <1>2 DEF AnswerOK, SeenOK, Logged, Changed, SetPcs
<1>3. Init => \A p, q \in Threads : Apart(p, q)
  BY <1>1 DEF Apart, SetPcs
<1> QED BY <1>1, <1>2, <1>3 DEF AnswerInv

LEMMA NextAnswers == ASSUME IInv, AnswerInv, [Next]_vars PROVE AnswerInv'
<1>1. IInv'
  BY NextKeeps
<1>2. CASE UNCHANGED vars
  <2>1. UNCHANGED <<nodes, node, nextId, rights, fileGroup, events, pc, job, seen, allSet, reply, spoiled>>
    BY <1>2 DEF vars, tree, threads
  <2> QED BY <2>1 DEF AnswerInv, AnswerOK, SeenOK, Logged, Changed, Apart
<1>3. ASSUME NEW p \in Threads, NEW j \in Jobs, Start(p, j) PROVE AnswerInv'
  BY <1>1, <1>3, StartAnswers
<1>4. ASSUME NEW p \in Threads, FileStep(p) PROVE AnswerInv'
  BY <1>1, <1>4, CreateResolveAnswers, CreateInsertAnswers, OwnerCheckAnswers, FindNodeAnswers, DeleteNodesAnswers,
     SetRightsAnswers, RightsEventAnswers, AccessCheckAnswers, AccessEventAnswers DEF FileStep
<1>5. ASSUME NEW p \in Threads, GroupStep(p) PROVE AnswerInv'
  BY <1>1, <1>5, GroupStepAnswers
<1>6. ASSUME NEW p \in Threads, Respond(p) PROVE AnswerInv'
  BY <1>1, <1>6, RespondAnswers
<1> QED BY <1>2, <1>3, <1>4, <1>5, <1>6 DEF Next, Step

\* The invariant of the answers: what a thread has seen is what its request names,
\* what it has set or logged stays, and who could undo it is spoiled with it.
THEOREM AnswersHold == Spec => []AnswerInv
<1>1. Init => AnswerInv
  BY InitAnswers
<1>2. IInv /\ AnswerInv /\ [Next]_vars => AnswerInv'
  BY NextAnswers
<1> QED BY <1>1, <1>2, Invariance, PTL DEF Spec

\* A "Success" of an access to a file that is still there is in the log, whatever
\* was created and deleted between the check and the event.
THEOREM AccessesAreLogged == Spec => []AccessLogged
<1>1. AnswerInv => AccessLogged
  BY DEF AnswerInv, AnswerOK, Logged, AccessLogged
<1> QED BY <1>1, AnswersHold, PTL

\* ChangeRights: the dialog's string goes through SetMask, three UPDATEs by mask and
\* the column of the file list, and comes out as it was, in whatever order other
\* handlers' transactions fall between.
THEOREM RightsAreAsAsked == Spec => []RightsAsAsked
<1>1. ASSUME IInv, AnswerInv PROVE RightsAsAsked
  <2>1. SUFFICES ASSUME NEW p \in Threads, pc[p] = "rights_event", allSet[p], p \notin spoiled,
                        seen[p] \in nodes, fileGroup[seen[p]] # NoRow
                 PROVE  Shown(seen[p]) = job[p].mode
    BY DEF RightsAsAsked
  <2>2. Changed(p) /\ SeenOK(p)
    BY <1>1 DEF AnswerInv, AnswerOK
  <2>3. job[p].mode \in ModeStrings
    <3>1. job[p].op = "ChangeRights" /\ job[p] \in Jobs \cup {NoJob}
      BY <1>1, <2>1, <2>2 DEF SeenOK, SetPcs, IInv, TypeOK
    <3>2. job[p].mode \in Modes
      BY <3>1, JobFields
    <3> QED BY <3>2, InputAssumption
  <2> QED BY <2>1, <2>2, <2>3, ShownIs DEF Changed
<1> QED BY <1>1, Invariance, AnswersHold, PTL

-----------------------------------------------------------------------------
(* The refinement of FileService. What a step of a thread looks like to the  *)
(* users is settled by what it does to the nodes and by the thread's answer; *)
(* which lemma applies is settled by its action.                             *)

\* A thread without a request is idle, one with an answer is about to send it; only
\* a DeleteFile deletes, and who is about to insert has found the directory its path
\* ends in.
ServiceOK(p) ==
    /\ pc[p] = "idle" => job[p] = NoJob
    /\ pc[p] = "reply" <=> reply[p] # "none"
    /\ pc[p] = "insert" => node[seen[p]].name = job[p].path[Len(job[p].path)]

ServiceInv == \A p \in Threads : ServiceOK(p)

\* A step of p is not one of the others.
LEMMA OthersAsBefore ==
    ASSUME IInv, NEW p \in Threads, Step(p) \/ \E j \in Jobs : Start(p, j),
           NEW q \in Threads, q # p
    PROVE  pc'[q] = pc[q] /\ Keeps(q) /\ reply'[q] = reply[q]
<1> USE DEF Keeps
<1>1. CASE \E j \in Jobs : Start(p, j)
  BY <1>1 DEF Start, IInv, TypeOK
<1>2. CASE Respond(p)
  BY <1>2 DEF Respond, Goto, IInv, TypeOK
<1>3. CASE CreateResolve(p) \/ CreateInsert(p)
  BY <1>3 DEF CreateResolve, CreateInsert, Return, Goto, IInv, TypeOK
<1>4. CASE OwnerCheck(p) \/ FindNode(p) \/ DeleteNodes(p)
  BY <1>4 DEF OwnerCheck, FindNode, DeleteNodes, Return, Goto, IInv, TypeOK
<1>5. CASE SetUserRights(p) \/ SetGroupRights(p) \/ SetAllRights(p)
  BY <1>5 DEF SetUserRights, SetGroupRights, SetAllRights, SetRights, Goto, IInv, TypeOK
<1>6. CASE RightsEvent(p)
  BY <1>6 DEF RightsEvent, Return, IInv, TypeOK
<1>7. CASE AccessCheck(p) \/ AccessEvent(p)
  BY <1>7 DEF AccessCheck, AccessEvent, Return, Goto, IInv, TypeOK
<1>8. CASE GroupStep(p)
  <2>1. (\E r : Return(p, r)) \/ (\E l : Goto(p, l) /\ UNCHANGED reply)
    BY <1>8 DEF GroupStep, AddFileToGroup, SetFileGroup, AddUserToGroup, AddMember, CreateGroup, AddGroup,
                DeleteGroup, RemoveGroup, Register, CreateUser
  <2>2. UNCHANGED <<job, aim>> /\ (UNCHANGED seen \/ \E n : seen' = [seen EXCEPT ![p] = n])
    BY <1>8 DEF GroupStep, AddFileToGroup, SetFileGroup, AddUserToGroup, AddMember, CreateGroup, AddGroup,
                DeleteGroup, RemoveGroup, Register, CreateUser
  <2>3. seen'[q] = seen[q]
    BY <2>2 DEF IInv, TypeOK
  <2> QED BY <2>1, <2>2, <2>3, ReturnIs, GotoIs
<1> QED BY <1>1, <1>2, <1>3, <1>4, <1>5, <1>6, <1>7, <1>8 DEF Step, FileStep

\* The row of a node, once made, is not written again.
LEMMA RowsAsBefore ==
    ASSUME IInv, NEW p \in Threads, Step(p) \/ \E j \in Jobs : Start(p, j),
           NEW n \in Ids, n < nextId
    PROVE  node'[n] = node[n]
<1>1. CASE CreateInsert(p)
  <2>1. n # nextId
    BY DEF Ids, IInv, TypeOK
  <2> QED BY <1>1, <2>1 DEF CreateInsert, IInv, TypeOK, tree
<1>2. CASE UNCHANGED node
  BY <1>2
<1>3. ~CreateInsert(p) => UNCHANGED node
  BY DEF Step, FileStep, GroupStep, Start, Respond, CreateResolve, OwnerCheck, FindNode, DeleteNodes,
         SetUserRights, SetGroupRights, SetAllRights, SetRights, RightsEvent, AccessCheck, AccessEvent,
         AddFileToGroup, SetFileGroup, AddUserToGroup, AddMember, CreateGroup, AddGroup, DeleteGroup,
         RemoveGroup, Register, CreateUser, tree
<1> QED BY <1>1, <1>2, <1>3

\* A thread that comes to an answer, or to a place of which nothing is claimed.
LEMMA ServiceAnswered ==
    ASSUME IInv, NEW p \in Threads, NEW r, r # "none", Return(p, r)
    PROVE  ServiceOK(p)'
<1>1. pc'[p] = "reply" /\ reply'[p] = r
  BY ReturnIs
<1> QED BY <1>1 DEF ServiceOK

LEMMA ServiceMoved ==
    ASSUME IInv, ServiceInv, NEW p \in Threads, pc[p] # "reply", UNCHANGED reply,
           pc'[p] \notin {"idle", "reply", "insert"}
    PROVE  ServiceOK(p)'
  BY DEF ServiceInv, ServiceOK

LEMMA ServiceStep ==
    ASSUME IInv, ServiceInv, NEW p \in Threads, Step(p) \/ \E j \in Jobs : Start(p, j)
    PROVE  ServiceOK(p)'
<1>1. CASE \E j \in Jobs : Start(p, j)
  <2>1. PICK j \in Jobs : Start(p, j)
    BY <1>1
  <2>2. FirstPc(j.op) \notin {"idle", "reply", "insert"}
    BY DEF FirstPc, Jobs, CreateJobs, FileJobs, RightsJobs, AddFileJobs, AddUserJobs, GroupJobs, RegisterJobs,
           AccessOps, RightOf
  <2>3. pc'[p] = FirstPc(j.op) /\ pc[p] # "reply" /\ UNCHANGED reply
    BY <2>1 DEF Start, IInv, TypeOK
  <2> QED BY <2>2, <2>3, ServiceMoved
<1>2. CASE Respond(p)
  BY <1>2 DEF Respond, Goto, ServiceOK, IInv, TypeOK
<1>3. CASE CreateResolve(p)
  <2>1. CASE \E r \in {"Path Error", "File exists", "Error"} : Return(p, r)
    BY <2>1, ServiceAnswered
  <2>2. CASE /\ \E d \in Target(job[p].path) : seen' = [seen EXCEPT ![p] = d]
             /\ Goto(p, "insert") /\ UNCHANGED reply
    <3>1. PICK d \in Target(job[p].path) : seen' = [seen EXCEPT ![p] = d]
      BY <2>2
    <3>2. seen'[p] = d /\ pc'[p] = "insert" /\ reply'[p] = reply[p]
      BY <2>2, <3>1, GotoIs DEF IInv, TypeOK
    <3>3. node'[d].name = job'[p].path[Len(job'[p].path)]
      BY <1>3 DEF CreateResolve, tree, Target, Named
    <3>4. reply'[p] = "none"
      BY <1>3, <3>2 DEF CreateResolve, ServiceInv, ServiceOK
    <3> QED BY <3>2, <3>3, <3>4 DEF ServiceOK
  <2> QED BY <1>3, <2>1, <2>2 DEF CreateResolve
<1>4. CASE CreateInsert(p) \/ DeleteNodes(p) \/ RightsEvent(p) \/ AccessEvent(p)
  <2>1. \E r \in {"Success", "Error", "Directory not found", "Wrong"} : Return(p, r)
    BY <1>4 DEF CreateInsert, DeleteNodes, RightsEvent, AccessEvent
  <2> QED BY <2>1, ServiceAnswered
<1>5. CASE OwnerCheck(p) \/ AccessCheck(p) \/ FindNode(p)
  <2>1. \/ \E r \in {"No access", "Directory not found", "Error"} : Return(p, r)
        \/ (\E l \in {"delete", "set_user", "event", "delete_rows"} : Goto(p, l)) /\ UNCHANGED reply
    BY <1>5 DEF OwnerCheck, AccessCheck, FindNode
  <2>2. pc[p] # "reply"
    BY <1>5 DEF OwnerCheck, AccessCheck, FindNode
  <2> QED BY <2>1, <2>2, ServiceAnswered, ServiceMoved, GotoIs
<1>6. CASE SetUserRights(p) \/ SetGroupRights(p) \/ SetAllRights(p)
  <2>1. /\ \E l \in {"set_group", "set_all", "rights_event"} : Goto(p, l)
        /\ UNCHANGED reply /\ pc[p] # "reply"
    BY <1>6 DEF SetUserRights, SetGroupRights, SetAllRights, SetRights
  <2> QED BY <2>1, ServiceMoved, GotoIs
<1>7. CASE GroupStep(p)
  <2>1. \/ \E r \in Replies \ {"none"} : Return(p, r)
        \/ \E l \in LookUpPcs : Goto(p, l) /\ UNCHANGED reply /\ pc[p] # "reply"
    BY <1>7 DEF GroupStep, AddFileToGroup, SetFileGroup, AddUserToGroup, AddMember, CreateGroup, AddGroup,
                DeleteGroup, RemoveGroup, Register, CreateUser, Replies, LookUpPcs
  <2> QED BY <2>1, ServiceAnswered, ServiceMoved, GotoIs DEF LookUpPcs
<1> QED BY <1>1, <1>2, <1>3, <1>4, <1>5, <1>6, <1>7 DEF Step, FileStep

LEMMA ServiceNext == ASSUME IInv, ServiceInv, [Next]_vars PROVE ServiceInv'
<1>1. CASE UNCHANGED vars
  BY <1>1 DEF vars, threads, tree, ServiceInv, ServiceOK
<1>2. ASSUME NEW p \in Threads, Step(p) \/ \E j \in Jobs : Start(p, j), NEW q \in Threads
      PROVE  ServiceOK(q)'
  <2>1. CASE q = p
    BY <1>2, <2>1, ServiceStep
  <2>2. CASE q # p
    <3>1. ServiceOK(q) /\ ThreadOK(q)
      BY DEF ServiceInv, IInv, StoreInv
    <3>2. pc'[q] = pc[q] /\ job'[q] = job[q] /\ seen'[q] = seen[q] /\ reply'[q] = reply[q]
      BY <1>2, <2>2, OthersAsBefore DEF Keeps
    <3>3. pc[q] = "insert" => node'[seen[q]] = node[seen[q]]
      BY <1>2, <3>1, RowsAsBefore DEF ThreadOK
    <3> QED BY <3>1, <3>2, <3>3 DEF ServiceOK
  <2> QED BY <2>1, <2>2
<1> QED BY <1>1, <1>2 DEF Next, ServiceInv

LEMMA ServiceInit == Init => ServiceInv
  BY DEF Init, ServiceInv, ServiceOK

\* The service's rows are those of nodes; so are its names and subtrees.
LEMMA KnownIs ==
    ASSUME IInv
    PROVE  /\ DOMAIN KnownNodes = 1..nextId - 1
           /\ \A n \in Ids : n < nextId => n \in DOMAIN KnownNodes /\ KnownNodes[n] = node[n]
           /\ \A n \in nodes : KnownNodes[n] = node[n]
           /\ \A f : Service!Named(f) = Named(f)
           /\ \A top : Service!Subtree(top) = Below(top)
<1>1. nextId \in Nat /\ nodes \subseteq Ids /\ \A n \in nodes : n < nextId
  BY DEF IInv, StoreInv, TreeInv, TypeOK
<1>2. DOMAIN KnownNodes = 1..nextId - 1
  BY DEF KnownNodes
<1>3. \A n \in Ids : n < nextId => n \in 1..nextId - 1
  BY <1>1, BoundAssumption DEF Ids
<1>4. \A n \in Ids : n < nextId => KnownNodes[n] = node[n]
  BY <1>3 DEF KnownNodes
<1>5. \A n \in nodes : KnownNodes[n] = node[n]
  BY <1>1, <1>4
<1>6. ASSUME NEW f PROVE Service!Named(f) = Named(f)
  BY <1>5 DEF Service!Named, Named
<1>7. ASSUME NEW top PROVE Service!Subtree(top) = Below(top)
  <2>1. \A S : (\A k \in nodes : KnownNodes[k].parent \in S => k \in S)
                 <=> (\A k \in nodes : node[k].parent \in S => k \in S)
    BY <1>5
  <2> QED BY <2>1 DEF Service!Subtree, Below
<1> QED BY <1>2, <1>3, <1>4, <1>5, <1>6, <1>7

\* What the service shows where nodes and rights are left alone.
LEMMA SameFiles ==
    ASSUME UNCHANGED <<tree, rights>>
    PROVE  UNCHANGED <<KnownNodes, nodes, RightsNow>>
  BY DEF tree, KnownNodes, RightsNow

\* A request is something else than none.
LEMMA IsRequest ==
    ASSUME NEW p \in Threads, job[p].op # "None"
    PROVE  job[p] # NoJob
  BY DEF NoJob

\* A thread between its request and its answer.
LEMMA InService ==
    ASSUME IInv, AnswerInv, ServiceInv, NEW p \in Threads, pc[p] # "idle", pc[p] # "reply"
    PROVE  job[p] # NoJob /\ reply[p] = "none"
<1>1. job[p].op # "None"
  <2>1. pc[p] \in Pcs /\ ThreadOK(p) /\ SeenOK(p)
    BY DEF IInv, StoreInv, TypeOK, AnswerInv, AnswerOK
  <2>2. "None" \notin AccessOps
    BY DEF AccessOps, RightOf
  <2> HIDE DEF AccessOps
  <2> QED BY <2>1, <2>2 DEF ThreadOK, SeenOK, Pcs, SetPcs, CheckedPcs
<1>2. reply[p] = "none"
  BY DEF ServiceInv, ServiceOK
<1> QED BY <1>1, <1>2, IsRequest

\* What the other threads aim at stays; a thread that comes to no deletion aims at
\* nothing.
LEMMA AimEnds ==
    ASSUME IInv, NEW p \in Threads, Step(p) \/ \E j \in Jobs : Start(p, j), pc'[p] # "delete_rows"
    PROVE  /\ Aims' = [Aims EXCEPT ![p] = 0]
           /\ pc[p] # "delete_rows" => UNCHANGED Aims
<1>1. \A q \in Threads : q # p => pc'[q] = pc[q] /\ aim'[q] = aim[q]
  BY OthersAsBefore DEF Keeps
<1> QED BY <1>1 DEF Aims

\* An answer that leaves the files alone.
LEMMA AnswerRefines ==
    ASSUME IInv, AnswerInv, ServiceInv, NEW p \in Threads, Step(p), NEW r \in Replies \ {"none"}, Return(p, r),
           UNCHANGED <<tree, rights, job>>, pc[p] # "idle", pc[p] # "reply",
           r = "Success" => job[p].op \notin {"CreateFile", "CreateDir", "DeleteFile"}
    PROVE  Service!Answer(p)
<1>1. job[p] # NoJob /\ reply[p] = "none"
  BY InService
<1>2. reply' = [reply EXCEPT ![p] = r] /\ reply'[p] = r
  BY DEF Return, IInv, TypeOK
<1>3. UNCHANGED <<KnownNodes, nodes, RightsNow, job>>
  BY SameFiles
<1>4. Aims' = [Aims EXCEPT ![p] = 0]
  BY ReturnIs, AimEnds
<1> QED BY <1>1, <1>2, <1>3, <1>4 DEF Service!Answer

LEMMA AskRefines ==
    ASSUME IInv, AnswerInv, ServiceInv, NEW p \in Threads, NEW j \in Jobs, Start(p, j)
    PROVE  Service!Ask(p)
<1>1. job[p] = NoJob
  BY DEF Start, ServiceInv, ServiceOK
<1>2. job' = [job EXCEPT ![p] = j] /\ job'[p] = j
  BY DEF Start, IInv, TypeOK
<1>3. UNCHANGED <<KnownNodes, nodes, RightsNow, reply>>
  BY SameFiles DEF Start
<1>4. UNCHANGED Aims
  <2>1. pc[p] = "idle" /\ pc'[p] = FirstPc(j.op)
    BY DEF Start, IInv, TypeOK
  <2>2. FirstPc(j.op) # "delete_rows"
    BY DEF FirstPc, Jobs, CreateJobs, FileJobs, RightsJobs, AddFileJobs, AddUserJobs, GroupJobs, RegisterJobs,
           AccessOps, RightOf
  <2> QED BY <2>1, <2>2, AimEnds
<1> QED BY <1>1, <1>2, <1>3, <1>4 DEF Service!Ask

LEMMA RespondRefines ==
    ASSUME IInv, ServiceInv, NEW p \in Threads, Respond(p)
    PROVE  Service!Respond(p)
<1>1. reply[p] # "none"
  BY DEF Respond, ServiceInv, ServiceOK
<1>2. UNCHANGED <<KnownNodes, nodes, RightsNow>>
  BY SameFiles DEF Respond
<1>3. UNCHANGED Aims
  <2>1. pc[p] = "reply" /\ pc'[p] = "idle"
    BY GotoIs DEF Respond
  <2> QED BY <2>1, AimEnds DEF Step
<1> QED BY <1>1, <1>2, <1>3 DEF Service!Respond, Respond

\* The row that is inserted is of a free name, in a directory that is there and has
\* the name the path ends with: what was read two transactions before still holds.
LEMMA CreateRefines ==
    ASSUME IInv, IInv', AnswerInv, ServiceInv, NEW p \in Threads, CreateInsert(p), ~UNCHANGED <<tree, rights>>
    PROVE  Service!Create(p)
<1>1. PICK id, new :
         /\ id = nextId /\ id <= MaxNodes /\ nextId' = id + 1
         /\ new = [name |-> job[p].file, parent |-> seen[p], owner |-> job[p].user,
                   kind |-> IF job[p].op = "CreateDir" THEN "DIR" ELSE "FILE"]
         /\ Insertable(p)
         /\ nodes' = nodes \cup {id}
         /\ node' = [node EXCEPT ![id] = new]
         /\ rights' = [rights EXCEPT ![id] = DefaultRights]
         /\ Return(p, "Success")
  BY DEF CreateInsert
<1>2. pc[p] = "insert" /\ UNCHANGED job
  BY DEF CreateInsert
<1>3. job[p].op \in {"CreateFile", "CreateDir"} /\ node[seen[p]].kind = "DIR" /\ ServiceOK(p)
  BY <1>2 DEF IInv, StoreInv, ThreadOK, ServiceInv
<1>4. job[p] # NoJob /\ reply[p] = "none" /\ reply' = [reply EXCEPT ![p] = "Success"]
  BY <1>1, <1>2, InService DEF Return
<1>5. /\ id \in Ids /\ id \notin DOMAIN KnownNodes /\ id \notin nodes
      /\ 1..nextId' - 1 = (1..id - 1) \cup {id}
  BY <1>1 DEF IInv, StoreInv, TreeInv, TypeOK, Ids, RootId, KnownNodes
<1>6. seen[p] \in nodes /\ Named(job[p].file) = {}
  BY <1>1 DEF Insertable
<1>7. KnownNodes' = [n \in DOMAIN KnownNodes \cup {id} |-> IF n = id THEN new ELSE KnownNodes[n]]
  <2>1. node \in [Ids -> [name: AllNames, kind: {"FILE", "DIR"}, parent: Ids \cup {0}, owner: Users \cup {Nobody}]]
    BY DEF IInv, TypeOK
  <2>2. (1..id - 1) \subseteq Ids
    <3>1. nextId \in Nat /\ MaxNodes \in Nat
      BY BoundAssumption DEF IInv, TypeOK
    <3> QED BY <1>1, <3>1 DEF Ids
  <2>3. \A n \in (1..id - 1) \cup {id} : node'[n] = IF n = id THEN new ELSE node[n]
    BY <1>1, <1>5, <2>1, <2>2
  <2>4. DOMAIN KnownNodes = 1..id - 1 /\ \A n \in 1..id - 1 : KnownNodes[n] = node[n]
    BY <1>1 DEF KnownNodes
  <2>5. KnownNodes' = [n \in (1..id - 1) \cup {id} |-> node'[n]]
    BY <1>5 DEF KnownNodes
  <2>6. \A n \in (1..id - 1) \cup {id} : n # id => n \in 1..id - 1
    OBVIOUS
  <2> QED BY <2>3, <2>4, <2>5, <2>6
<1>8. RightsNow' = [n \in nodes' |-> IF n = id THEN DefaultRights ELSE RightsNow[n]]
  <2>1. nodes \subseteq Ids /\ rights \in [Ids -> [user: Class, group: Class, all: Class]]
    BY DEF IInv, TypeOK
  <2>2. \A n \in nodes' : rights'[n] = IF n = id THEN DefaultRights ELSE RightsNow[n]
    BY <1>1, <1>5, <2>1 DEF RightsNow
  <2> QED BY <2>2 DEF RightsNow
<1>9. KnownNodes[seen[p]].kind = "DIR" /\ KnownNodes[seen[p]].name = job[p].path[Len(job[p].path)]
  BY <1>2, <1>3, <1>6, KnownIs DEF ServiceOK
<1>10. Service!CreateIn(p, seen[p], id)
  BY <1>1, <1>7, <1>8, <1>9 DEF Service!CreateIn
<1>11. UNCHANGED Aims
  BY <1>1, <1>2, ReturnIs, AimEnds DEF Step, FileStep
<1> QED BY <1>2, <1>3, <1>4, <1>5, <1>6, <1>10, <1>11, KnownIs DEF Service!Create, Service!Serves, Service!Succeed

\* Who has passed the check has made a file of that name.
LEMMA CheckedMade ==
    ASSUME IInv, NEW p \in Threads, pc[p] \in CheckedPcs
    PROVE  Service!Made(job[p].user, job[p].file)
<1>1. /\ seen[p] \in Ids /\ seen[p] < nextId
      /\ node[seen[p]].owner = job[p].user /\ node[seen[p]].name = job[p].file
  BY DEF IInv, StoreInv, ThreadOK
<1>2. seen[p] \in DOMAIN KnownNodes /\ KnownNodes[seen[p]] = node[seen[p]]
  BY <1>1, KnownIs
<1> QED BY <1>1, <1>2 DEF Service!Made

\* The SELECT of a deletion aims at the file of that name.
LEMMA FindRefines ==
    ASSUME IInv, AnswerInv, ServiceInv, NEW p \in Threads, FindNode(p), Goto(p, "delete_rows"), UNCHANGED reply
    PROVE  Service!Aim(p)
<1>1. pc[p] = "delete" /\ UNCHANGED <<tree, rights, job>>
  BY DEF FindNode
<1>2. pc' = [pc EXCEPT ![p] = "delete_rows"] /\ pc'[p] = "delete_rows"
  BY GotoIs DEF Goto
<1>3. PICK n \in Named(job[p].file) : aim' = [aim EXCEPT ![p] = n]
  BY <1>2, ReturnIs DEF FindNode
<1>4. Aims' = [Aims EXCEPT ![p] = n]
  <2>1. \A q \in Threads : q # p => pc'[q] = pc[q] /\ aim'[q] = aim[q]
    BY <1>2, <1>3 DEF IInv, TypeOK
  <2>2. aim'[p] = n
    BY <1>3 DEF IInv, TypeOK
  <2> QED BY <1>2, <2>1, <2>2 DEF Aims
<1>5. job[p] # NoJob /\ reply[p] = "none"
  BY <1>1, InService
<1>6. job[p].op = "DeleteFile" /\ pc[p] \in CheckedPcs
  BY <1>1 DEF IInv, StoreInv, ThreadOK, CheckedPcs
<1>7. Service!Made(job[p].user, job[p].file)
  BY <1>6, CheckedMade
<1>8. UNCHANGED <<KnownNodes, nodes, RightsNow>>
  BY <1>1, SameFiles
<1> QED BY <1>1, <1>3, <1>4, <1>5, <1>6, <1>7, <1>8, KnownIs DEF Service!Aim, Service!Serves

\* After the DELETE the file it aimed at is gone, though it may have been before.
LEMMA DeleteRefines ==
    ASSUME IInv, AnswerInv, ServiceInv, NEW p \in Threads, DeleteNodes(p), Return(p, "Success")
    PROVE  Service!Delete(p)
<1>1. pc[p] = "delete_rows" /\ UNCHANGED <<node, nextId, rights, job>>
  BY DEF DeleteNodes
<1>2. Remove(IF aim[p] \in nodes THEN Below(aim[p]) ELSE {})
  <2>1. reply'[p] = "Success"
    BY ReturnIs
  <2>2. ~Return(p, "Error")
    BY <2>1, ReturnIs
  <2> QED BY <2>2 DEF DeleteNodes
<1>3. Aims[p] = aim[p] /\ aim[p] \in Ids
  BY <1>1 DEF Aims, IInv, StoreInv, ThreadOK
<1>4. Aims[p] # 0
  BY <1>3, BoundAssumption DEF Ids
<1>5. nodes' = IF Aims[p] \in nodes THEN nodes \ Service!Subtree(Aims[p]) ELSE nodes
  BY <1>2, <1>3, KnownIs DEF Remove
<1>6. nodes' \subseteq nodes
  BY <1>2 DEF Remove
<1>7. UNCHANGED KnownNodes
  BY <1>1 DEF KnownNodes
<1>8. RightsNow' = [n \in nodes' |-> RightsNow[n]]
  BY <1>1, <1>6 DEF RightsNow
<1>9. Aims' = [Aims EXCEPT ![p] = 0]
  BY ReturnIs, AimEnds DEF Step, FileStep
<1>10. reply' = [reply EXCEPT ![p] = "Success"]
  BY DEF Return
<1> QED BY <1>1, <1>4, <1>5, <1>7, <1>8, <1>9, <1>10 DEF Service!Delete, Service!Succeed

\* What the UPDATE by mask grants is what stands at the three places of the string.
LEMMA GrantsAsWritten ==
    ASSUME NEW s \in ModeStrings, NEW i \in {0, 3, 6}
    PROVE  Granted(SetMask(i, s)) = Service!Granted(s, i)
<1>1. \A k \in 0..8 : s[k] \in {"-", Letter(k)}
  BY DEF ModeStrings
<1>2. Granted(SetMask(i, s)) \subseteq {"r", "w", "x"}
  <2>1. \A k \in 0..2 : Letter(k) \in {"r", "w", "x"}
    BY LetterIs
  <2> QED BY <2>1 DEF Granted
<1>3. "-" \notin {"r", "w", "x"}
  OBVIOUS
<1> HIDE DEF Granted
<1>4. CASE i = 0
  <2>1. Service!Granted(s, 0) = {s[0], s[1], s[2]} \ {"-"}
    BY DEF Service!Granted
  <2>2. s[0] \in {"-", "r"} /\ s[1] \in {"-", "w"} /\ s[2] \in {"-", "x"}
    BY <1>1, LetterIs
  <2>3. /\ "r" \in Granted(SetMask(0, s)) <=> s[0] # "-"
        /\ "w" \in Granted(SetMask(0, s)) <=> s[1] # "-"
        /\ "x" \in Granted(SetMask(0, s)) <=> s[2] # "-"
    BY MaskIs, LetterIs
  <2> QED BY <1>2, <1>3, <1>4, <2>1, <2>2, <2>3
<1>5. CASE i = 3
  <2>1. Service!Granted(s, 3) = {s[3], s[4], s[5]} \ {"-"}
    BY DEF Service!Granted
  <2>2. s[3] \in {"-", "r"} /\ s[4] \in {"-", "w"} /\ s[5] \in {"-", "x"}
    BY <1>1, LetterIs
  <2>3. /\ "r" \in Granted(SetMask(3, s)) <=> s[3] # "-"
        /\ "w" \in Granted(SetMask(3, s)) <=> s[4] # "-"
        /\ "x" \in Granted(SetMask(3, s)) <=> s[5] # "-"
    BY MaskIs, LetterIs
  <2> QED BY <1>2, <1>3, <1>5, <2>1, <2>2, <2>3
<1>6. CASE i = 6
  <2>1. Service!Granted(s, 6) = {s[6], s[7], s[8]} \ {"-"}
    BY DEF Service!Granted
  <2>2. s[6] \in {"-", "r"} /\ s[7] \in {"-", "w"} /\ s[8] \in {"-", "x"}
    BY <1>1, LetterIs
  <2>3. /\ "r" \in Granted(SetMask(6, s)) <=> s[6] # "-"
        /\ "w" \in Granted(SetMask(6, s)) <=> s[7] # "-"
        /\ "x" \in Granted(SetMask(6, s)) <=> s[8] # "-"
    BY MaskIs, LetterIs
  <2> QED BY <1>2, <1>3, <1>6, <2>1, <2>2, <2>3
<1> QED BY <1>4, <1>5, <1>6

\* A transaction of a change of rights sets them of the one file of that name, or
\* of none.
LEMMA SetRightsRefines ==
    ASSUME IInv, AnswerInv, ServiceInv, NEW p \in Threads, NEW at \in {"set_user", "set_group", "set_all"},
           NEW class, NEW start \in {0, 3, 6}, NEW next \in SetPcs, Step(p),
           SetRights(p, at, class, start, next)
    PROVE  Service!SetRights(p, class, start) \/ UNCHANGED Service!vars
<1>1. pc[p] = at /\ UNCHANGED <<tree, job, reply>>
  BY DEF SetRights
<1>2. UNCHANGED <<KnownNodes, nodes, Aims>>
  <2>1. Goto(p, next) /\ next # "delete_rows"
    BY DEF SetRights, SetPcs
  <2>2. pc'[p] # "delete_rows"
    BY <2>1, GotoIs
  <2>3. UNCHANGED Aims
    BY <1>1, <2>2, AimEnds
  <2> QED BY <1>1, <2>3 DEF tree, KnownNodes
<1>3. CASE UNCHANGED rights
  <2>1. UNCHANGED RightsNow
    BY <1>2, <1>3 DEF RightsNow
  <2> QED BY <1>1, <1>2, <2>1 DEF Service!vars
<1>4. CASE ~UNCHANGED rights
  <2>1. PICK rows :
          /\ rows = {n \in Named(job[p].file) : class = "group" => fileGroup[n] # NoRow}
          /\ rights' = [n \in Ids |-> IF n \in rows
                           THEN [rights[n] EXCEPT ![class] = Granted(SetMask(start, job[p].mode))]
                           ELSE rights[n]]
    BY <1>4 DEF SetRights
  <2>2. rights = [n \in Ids |-> rights[n]] /\ nodes \subseteq Ids
    BY DEF IInv, TypeOK
  <2>3. PICK m \in rows : m \in Named(job[p].file)
    <3>1. rows # {}
      BY <1>4, <2>1, <2>2
    <3> QED BY <2>1, <3>1
  <2>4. m \in nodes /\ rows = {m}
    BY <2>1, <2>3 DEF Named, IInv, StoreInv, TreeInv, UniqueNames
  <2>5. Granted(SetMask(start, job[p].mode)) = Service!Granted(job[p].mode, start)
    <3>1. job[p].op = "ChangeRights" /\ job[p] \in Jobs \cup {NoJob}
      BY <1>1 DEF IInv, StoreInv, ThreadOK, TypeOK, CheckedPcs
    <3>2. job[p].mode \in ModeStrings
      BY <3>1, JobFields, InputAssumption
    <3> QED BY <3>2, GrantsAsWritten
  <2>6. RightsNow' = [RightsNow EXCEPT ![m] = [@ EXCEPT ![class] = Service!Granted(job[p].mode, start)]]
    <3>1. \A n \in nodes : rights'[n] = IF n = m
              THEN [rights[n] EXCEPT ![class] = Service!Granted(job[p].mode, start)] ELSE rights[n]
      BY <2>1, <2>2, <2>4, <2>5
    <3> QED BY <1>2, <2>4, <3>1 DEF RightsNow
  <2>7. job[p] # NoJob /\ reply[p] = "none"
    BY <1>1, InService DEF CheckedPcs
  <2>8. job[p].op = "ChangeRights" /\ pc[p] \in CheckedPcs
    BY <1>1 DEF IInv, StoreInv, ThreadOK, CheckedPcs
  <2>9. Service!Made(job[p].user, job[p].file)
    BY <2>8, CheckedMade
  <2> QED BY <1>1, <1>2, <2>3, <2>6, <2>7, <2>8, <2>9, KnownIs DEF Service!SetRights, Service!Serves
<1> QED BY <1>3, <1>4

\* Steps of which the users see nothing.
LEMMA HiddenStep ==
    ASSUME UNCHANGED <<tree, rights, job, Aims, reply>>
    PROVE  UNCHANGED Service!vars
  BY SameFiles DEF Service!vars

LEMMA StepRefines ==
    ASSUME IInv, IInv', AnswerInv, ServiceInv, NEW p \in Threads, Step(p)
    PROVE  Service!Serve(p) \/ UNCHANGED Service!vars
<1>1. CASE Respond(p)
  BY <1>1, RespondRefines DEF Service!Serve
<1>2. CASE CreateResolve(p) \/ OwnerCheck(p) \/ RightsEvent(p) \/ AccessCheck(p) \/ AccessEvent(p) \/ GroupStep(p)
  <2>1. /\ UNCHANGED <<tree, rights, job>>
        /\ pc[p] # "idle" /\ pc[p] # "reply" /\ pc[p] # "delete_rows"
    BY <1>2 DEF CreateResolve, OwnerCheck, RightsEvent, AccessCheck, AccessEvent, GroupStep, AddFileToGroup, SetFileGroup,
                AddUserToGroup, AddMember, CreateGroup, AddGroup, DeleteGroup, RemoveGroup, Register, CreateUser
  <2>2. \/ \E r \in Replies \ {"none"} : Return(p, r) /\ (r = "Success" => ~CreateResolve(p) /\ ~OwnerCheck(p))
        \/ (\E l \in {"insert", "delete", "set_user", "event"} \cup LookUpPcs : Goto(p, l)) /\ UNCHANGED reply
    <3>1. CASE CreateResolve(p)
      <4>1. \/ \E r \in {"Path Error", "File exists", "Error"} : Return(p, r)
            \/ Goto(p, "insert") /\ UNCHANGED reply
        BY <3>1 DEF CreateResolve
      <4> QED BY <4>1 DEF Replies
    <3>2. CASE OwnerCheck(p)
      <4>1. \/ \E r \in {"No access"} : Return(p, r)
            \/ (\E l \in {"delete", "set_user"} : Goto(p, l)) /\ UNCHANGED reply
        BY <3>2 DEF OwnerCheck
      <4> QED BY <4>1 DEF Replies
    <3>3. CASE RightsEvent(p) \/ AccessCheck(p) \/ AccessEvent(p)
      <4>1. pc[p] \in {"rights_event", "access", "event"}
        BY <3>3 DEF RightsEvent, AccessCheck, AccessEvent
      <4>2. ~CreateResolve(p) /\ ~OwnerCheck(p)
        BY <4>1 DEF CreateResolve, OwnerCheck
      <4> QED BY <3>3, <4>2 DEF RightsEvent, AccessCheck, AccessEvent, Replies
    <3>4. CASE GroupStep(p)
      <4>1. pc[p] # "resolve" /\ pc[p] # "check"
        BY <3>4 DEF GroupStep, AddFileToGroup, SetFileGroup,
                AddUserToGroup, AddMember, CreateGroup, AddGroup, DeleteGroup, RemoveGroup, Register, CreateUser
      <4>2. ~CreateResolve(p) /\ ~OwnerCheck(p)
        BY <4>1 DEF CreateResolve, OwnerCheck
      <4> QED BY <3>4, <4>2 DEF GroupStep, Replies, LookUpPcs, AddFileToGroup, SetFileGroup,
                AddUserToGroup, AddMember, CreateGroup, AddGroup, DeleteGroup, RemoveGroup, Register, CreateUser
    <3> QED BY <1>2, <3>1, <3>2, <3>3, <3>4
  <2>3. CASE (\E l \in {"insert", "delete", "set_user", "event"} \cup LookUpPcs : Goto(p, l)) /\ UNCHANGED reply
    <3>1. pc'[p] # "delete_rows"
      BY <2>3, GotoIs DEF LookUpPcs
    <3> QED BY <2>1, <2>3, <3>1, AimEnds, HiddenStep
  <2>4. ~CreateResolve(p) /\ ~OwnerCheck(p) => job[p].op \notin {"CreateFile", "CreateDir", "DeleteFile"}
    <3>1. ThreadOK(p) /\ SeenOK(p)
      BY DEF IInv, StoreInv, AnswerInv, AnswerOK
    <3>2. CASE RightsEvent(p)
      BY <3>1, <3>2 DEF RightsEvent, SeenOK, SetPcs
    <3>3. CASE AccessCheck(p) \/ AccessEvent(p)
      <4>1. job[p].op \in AccessOps
        BY <3>1, <3>3 DEF AccessCheck, AccessEvent, ThreadOK
      <4> QED BY <4>1, NoAccess
    <3>4. CASE GroupStep(p)
      BY <3>1, <3>4 DEF GroupStep, ThreadOK, AddFileToGroup, SetFileGroup,
                AddUserToGroup, AddMember, CreateGroup, AddGroup, DeleteGroup, RemoveGroup, Register, CreateUser
    <3> QED BY <1>2, <3>2, <3>3, <3>4
  <2>5. CASE \E r \in Replies \ {"none"} : Return(p, r) /\ (r = "Success" => ~CreateResolve(p) /\ ~OwnerCheck(p))
    BY <2>1, <2>4, <2>5, AnswerRefines DEF Service!Serve
  <2> QED BY <2>2, <2>3, <2>5
<1>3. CASE CreateInsert(p)
  <2>1. CASE UNCHANGED <<tree, rights>>
    <3>1. Return(p, "Error") \/ Return(p, "Success")
      BY <1>3 DEF CreateInsert
    <3>2. ~Return(p, "Success")
      <4>1. nextId' # nextId + 1
        BY <2>1 DEF tree, IInv, TypeOK
      <4>2. Return(p, "Error")
        BY <1>3, <4>1 DEF CreateInsert
      <4>3. reply'[p] = "Error"
        BY <4>2, ReturnIs
      <4> QED BY <4>3, ReturnIs
    <3>3. UNCHANGED job /\ pc[p] = "insert"
      BY <1>3 DEF CreateInsert
    <3> QED BY <2>1, <3>1, <3>2, <3>3, AnswerRefines DEF Replies, Service!Serve
  <2> QED BY <1>3, <2>1, CreateRefines DEF Service!Serve
<1>4. CASE FindNode(p)
  <2>1. UNCHANGED <<tree, rights, job>> /\ pc[p] = "delete"
    BY <1>4 DEF FindNode
  <2>2. CASE Goto(p, "delete_rows") /\ UNCHANGED reply
    BY <1>4, <2>2, FindRefines DEF Service!Serve
  <2>3. CASE Return(p, "Directory not found") \/ Return(p, "Error")
    BY <2>1, <2>3, AnswerRefines DEF Replies, Service!Serve
  <2> QED BY <1>4, <2>2, <2>3 DEF FindNode
<1>5. CASE DeleteNodes(p)
  <2>1. CASE Return(p, "Success")
    BY <1>5, <2>1, DeleteRefines DEF Service!Serve
  <2>2. CASE Return(p, "Error") /\ UNCHANGED nodes
    <3>1. UNCHANGED <<tree, rights, job>> /\ pc[p] = "delete_rows"
      BY <1>5, <2>2 DEF DeleteNodes, tree
    <3> QED BY <2>2, <3>1, AnswerRefines DEF Replies, Service!Serve
  <2> QED BY <1>5, <2>1, <2>2 DEF DeleteNodes
<1>6. CASE SetUserRights(p) \/ SetGroupRights(p) \/ SetAllRights(p)
  BY <1>6, SetRightsRefines DEF SetUserRights, SetGroupRights, SetAllRights, SetPcs, Service!Serve
<1> QED BY <1>1, <1>2, <1>3, <1>4, <1>5, <1>6 DEF Step, FileStep

LEMMA ServiceStarts == Init => Service!Init
<1> SUFFICES ASSUME Init PROVE Service!Init
  OBVIOUS
<1>1. nextId = 2 /\ nodes = {1} /\ 1 \in Ids
  BY BoundAssumption DEF Init, RootId, Ids
<1>2. KnownNodes = [n \in {1} |-> RootNode]
  <2>1. 1..nextId - 1 = {1} /\ node[1] = RootNode
    BY <1>1 DEF Init
  <2> QED BY <2>1 DEF KnownNodes
<1>3. RightsNow = [n \in {1} |-> DefaultRights]
  BY <1>1 DEF Init, RightsNow
<1>4. Aims = [p \in Threads |-> 0]
  BY DEF Init, Aims
<1> QED BY <1>1, <1>2, <1>3, <1>4 DEF Init, Service!Init

\* The handlers implement FileService: whatever other handlers' transactions fall
\* between a handler's own, what it does to the files it does in one step that is
\* right when it is made, and what it answers says so.
THEOREM FilesAreServed == Spec => ImplementsService
<1>1. Init => ServiceInv /\ Service!Init
  BY ServiceInit, ServiceStarts
<1>2. IInv /\ IInv' /\ AnswerInv /\ ServiceInv /\ [Next]_vars => ServiceInv' /\ [Service!Next]_(Service!vars)
  <2> SUFFICES ASSUME IInv, IInv', AnswerInv, ServiceInv, [Next]_vars
               PROVE  ServiceInv' /\ [Service!Next]_(Service!vars)
    OBVIOUS
  <2>1. ServiceInv'
    BY ServiceNext
  <2>2. CASE UNCHANGED vars
    <3>1. UNCHANGED <<tree, rights, job, Aims, reply>>
      BY <2>2 DEF vars, threads, Aims
    <3> QED BY <2>1, <3>1, HiddenStep
  <2>3. ASSUME NEW p \in Threads, NEW j \in Jobs, Start(p, j) PROVE Service!Next
    BY <2>3, AskRefines DEF Service!Next, Service!Serve
  <2>4. ASSUME NEW p \in Threads, Step(p) PROVE [Service!Next]_(Service!vars)
    BY <2>4, StepRefines DEF Service!Next
  <2> QED BY <2>1, <2>2, <2>3, <2>4 DEF Next
<1> QED BY <1>1, <1>2, Invariance, AnswersHold, PTL DEF Spec, ImplementsService, Service!Spec
=============================================================================
