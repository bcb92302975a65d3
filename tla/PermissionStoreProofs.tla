------------------------ MODULE PermissionStoreProofs ------------------------
(***************************************************************************)
(* What the store promises for every number of users, threads, names, paths*)
(* and requests: its type, that files form one tree under 'root' with names*)
(* used once, that no row names a group that is gone, and that nobody but  *)
(* their owners takes files away or changes their rights.                  *)
(*                                                                         *)
(* The invariant is TypeOK and StoreInv of PermissionStore: what the       *)
(* properties need of one another and of the threads. One lemma per action *)
(* shows that it keeps IInv; most actions only move their thread, which    *)
(* ThreadOnly settles once and for all.                                    *)
(***************************************************************************)
EXTENDS PermissionStore, TLAPS

\* The inductive invariant.
IInv == TypeOK /\ StoreInv

\* The fields of a request by its kind.
LEMMA JobFields ==
    ASSUME NEW j \in Jobs \cup {NoJob}
    PROVE  /\ j.op \in {"CreateFile", "CreateDir"} => j \in Jobs /\ j.user \in Users /\ j.path \in Paths /\ j.file \in AllNames
           /\ j.op = "DeleteFile" => j \in Jobs /\ j.user \in Users /\ j.file \in AllNames
           /\ j.op = "ChangeRights" => j \in Jobs /\ j.user \in Users /\ j.file \in AllNames /\ j.mode \in Modes
           /\ j.op \in AccessOps => j \in Jobs /\ j.user \in Users /\ j.file \in AllNames
           /\ j.op = "AddFileToGroup" => j \in Jobs /\ j.user \in Users /\ j.file \in AllNames /\ j.group \in GroupNames
           /\ j.op = "AddUserToGroup" => j \in Jobs /\ j.user \in Users /\ j.group \in GroupNames /\ j.login \in Users
           /\ j.op \in {"CreateGroup", "DeleteGroup"} => j \in Jobs /\ j.user \in Users /\ j.group \in GroupNames
           /\ j.op = "Registrate" => j \in Jobs /\ j.user \in Users
  BY DEF Jobs, CreateJobs, FileJobs, RightsJobs, AddFileJobs, AddUserJobs, GroupJobs, RegisterJobs, NoJob, AccessOps, RightOf

\* The recursive DELETE takes whole subtrees, and never the root.
LEMMA BelowClosed ==
    ASSUME TreeInv, nodes \subseteq Ids, NEW top \in nodes, top # RootId
    PROVE  /\ Below(top) \subseteq nodes
           /\ RootId \notin Below(top)
           /\ \A k \in nodes : node[k].parent \in Below(top) => k \in Below(top)
<1>1. Below(top) \subseteq nodes
  BY DEF Below
<1>2. RootId \notin Below(top)
  <2> DEFINE S == nodes \ {RootId}
  <2>1. top \in S /\ S \in SUBSET nodes
    OBVIOUS
  <2>2. \A k \in nodes : node[k].parent \in S => k \in S
    <3> SUFFICES ASSUME NEW k \in nodes, node[k].parent \in S, k \notin S PROVE FALSE
      OBVIOUS
    <3>1. k = RootId
      OBVIOUS
    <3>2. node[k].parent = 0
      BY <3>1 DEF TreeInv, RootNode
    <3>3. 0 \in nodes
      BY <3>2
    <3> QED BY <3>3 DEF Ids
  <2>3. RootId \notin S
    OBVIOUS
  <2> HIDE DEF S
  <2> QED BY <2>1, <2>2, <2>3 DEF Below
<1>3. ASSUME NEW k \in nodes, node[k].parent \in Below(top) PROVE k \in Below(top)
  <2> SUFFICES ASSUME NEW S \in SUBSET nodes, top \in S,
                      \A m \in nodes : node[m].parent \in S => m \in S
               PROVE  k \in S
    BY DEF Below
  <2>1. node[k].parent \in S
    BY <1>3 DEF Below
  <2> QED BY <2>1
<1> QED BY <1>1, <1>2, <1>3

\* The part of the invariant about the tree, where the tree is left alone.
LEMMA TreeStays ==
    ASSUME TreeInv, UNCHANGED tree
    PROVE  TreeInv'
  BY DEF TreeInv, Rooted, UniqueNames, tree, RootNode

\* Only 'root' itself has its name.
LEMMA RootIsNamed ==
    ASSUME TreeInv
    PROVE  node[RootId].name = RootName
  BY DEF TreeInv, RootNode

\* GroupsExist, where the groups and the references to them are left alone.
LEMMA GroupsStay ==
    ASSUME GroupsExist, UNCHANGED <<groups, made, members, fileGroup>>
    PROVE  GroupsExist'
  BY DEF GroupsExist, Exists, Gid

\* Thread q's request and what it has found so far stay.
Keeps(q) == job'[q] = job[q] /\ seen'[q] = seen[q] /\ aim'[q] = aim[q]

\* A step of thread p that changes no node made before, and makes none again, keeps
\* what the other threads know.
LEMMA OthersStay ==
    ASSUME TypeOK, \A q \in Threads : ThreadOK(q), NEW p \in Threads,
           \A q \in Threads : q # p => pc'[q] = pc[q] /\ Keeps(q),
           nextId' \in Nat, nextId' >= nextId,
           \A n \in Ids : n < nextId => node'[n] = node[n] /\ (n \in nodes' => n \in nodes),
           ThreadOK(p)'
    PROVE  \A q \in Threads : ThreadOK(q)'
<1> SUFFICES ASSUME NEW q \in Threads, q # p PROVE ThreadOK(q)'
  OBVIOUS
<1>1. ThreadOK(q) /\ pc'[q] = pc[q] /\ Keeps(q)
  OBVIOUS
<1>2. ASSUME NEW n \in Ids, n < nextId
      PROVE  node'[n] = node[n] /\ n < nextId' /\ (n \notin nodes => n \notin nodes')
  BY <1>2, SMT DEF TypeOK, Ids
<1>3. pc[q] \in CheckedPcs => seen[q] \in Ids /\ seen[q] < nextId
  BY <1>1 DEF ThreadOK
<1>4. pc[q] = "insert" => seen[q] \in Ids /\ seen[q] < nextId
  BY <1>1 DEF ThreadOK
<1>5. pc[q] = "delete_rows" => aim[q] \in Ids /\ aim[q] < nextId /\ pc[q] \in CheckedPcs
  BY <1>1 DEF ThreadOK, CheckedPcs
<1> QED BY <1>1, <1>2, <1>3, <1>4, <1>5, SMT DEF ThreadOK, Keeps

\* No node changes: what OthersStay asks of the tree.
LEMMA NodesStay ==
    ASSUME TypeOK, UNCHANGED <<node, nextId>>, nodes' \subseteq nodes
    PROVE  /\ nextId' \in Nat /\ nextId' >= nextId
           /\ \A n \in Ids : n < nextId => node'[n] = node[n] /\ (n \in nodes' => n \in nodes)
<1>1. nextId \in Nat /\ nextId' = nextId /\ node' = node
  BY DEF TypeOK
<1> QED BY <1>1

\* Return is well typed and moves one thread.
LEMMA ReturnType ==
    ASSUME TypeOK, NEW p \in Threads, NEW r \in Replies, Return(p, r)
    PROVE  /\ pc' \in [Threads -> Pcs] /\ reply' \in [Threads -> Replies]
           /\ pc'[p] = "reply" /\ reply'[p] = r
           /\ \A q \in Threads : q # p => pc'[q] = pc[q] /\ reply'[q] = reply[q]
  BY DEF Return, TypeOK, Pcs

\* Goto is well typed and moves one thread.
LEMMA GotoType ==
    ASSUME TypeOK, NEW p \in Threads, NEW l \in Pcs, Goto(p, l)
    PROVE  /\ pc' \in [Threads -> Pcs] /\ pc'[p] = l
           /\ \A q \in Threads : q # p => pc'[q] = pc[q]
  BY DEF Goto, TypeOK

\* The counter of failed statements stays a number.
LEMMA CountersType ==
    ASSUME TypeOK
    PROVE  Fault => faults' \in Nat
  BY BoundAssumption DEF Fault, TypeOK

\* A thread that has its answer, or none to give, claims nothing about its file.
LEMMA AtReply ==
    ASSUME NEW p \in Threads, pc'[p] \in {"reply", "idle", "rights_event"}
    PROVE  ThreadOK(p)'
  BY DEF ThreadOK, CheckedPcs

\* A new request claims nothing about its file yet.
LEMMA StartKeeps ==
    ASSUME IInv, NEW p \in Threads, NEW j \in Jobs, Start(p, j)
    PROVE  IInv'
<1>1. /\ UNCHANGED <<accounts, tree, rights, fileGroup, events, seen, seenGroup, aim, allSet, reply, spoiled, faults>>
      /\ job' = [job EXCEPT ![p] = j] /\ pc' = [pc EXCEPT ![p] = FirstPc(j.op)]
      /\ requests' = requests + 1
  BY DEF Start
<1>2. FirstPc(j.op) \in {"resolve", "check", "access", "add_file", "add_user", "create_group", "delete_group", "register"}
  BY DEF FirstPc, Jobs, CreateJobs, FileJobs, RightsJobs, AddFileJobs, AddUserJobs, GroupJobs, RegisterJobs, AccessOps, RightOf
<1>3. FirstPc(j.op) \in Pcs
  BY <1>2 DEF Pcs
<1>4. TypeOK'
  BY <1>1, <1>3 DEF IInv, TypeOK, accounts, tree
<1>5. TreeInv' /\ GroupsExist'
  BY <1>1, TreeStays, GroupsStay DEF IInv, StoreInv, accounts
<1>6. pc'[p] = FirstPc(j.op) /\ job'[p] = j
  BY <1>1 DEF IInv, TypeOK
<1>7. ThreadOK(p)'
  BY <1>2, <1>6 DEF ThreadOK, FirstPc, CheckedPcs, Jobs, CreateJobs, FileJobs, RightsJobs, AddFileJobs, AddUserJobs, GroupJobs, RegisterJobs, AccessOps, RightOf
<1>8. \A q \in Threads : q # p => pc'[q] = pc[q] /\ Keeps(q)
  BY <1>1 DEF IInv, TypeOK, Keeps
<1>9. \A q \in Threads : ThreadOK(q)'
  BY <1>1, <1>7, <1>8, NodesStay, OthersStay DEF IInv, StoreInv, tree
<1> QED BY <1>4, <1>5, <1>9 DEF IInv, StoreInv

\* An action that leaves the tree.
LEMMA TreeLeft ==
    ASSUME IInv, NEW p \in Threads, TypeOK', GroupsExist', ThreadOK(p)', UNCHANGED tree,
           \A q \in Threads : q # p => pc'[q] = pc[q] /\ Keeps(q)
    PROVE  IInv'
<1>1. TreeInv'
  BY TreeStays DEF IInv, StoreInv
<1>2. \A q \in Threads : ThreadOK(q)'
  BY NodesStay, OthersStay DEF IInv, StoreInv, tree
<1> QED BY <1>1, <1>2 DEF IInv, StoreInv

\* An action that only moves its thread and leaves the tree and the groups.
LEMMA ThreadOnly ==
    ASSUME IInv, NEW p \in Threads, TypeOK', ThreadOK(p)',
           UNCHANGED <<accounts, tree, fileGroup>>,
           \A q \in Threads : q # p => pc'[q] = pc[q] /\ Keeps(q)
    PROVE  IInv'
<1>1. GroupsExist'
  BY GroupsStay DEF IInv, StoreInv, accounts
<1> QED BY <1>1, TreeLeft

\* SendResponse forgets the request.
LEMMA RespondKeeps ==
    ASSUME IInv, NEW p \in Threads, Respond(p)
    PROVE  IInv'
<1>1. /\ UNCHANGED <<accounts, tree, rights, fileGroup, events, requests, faults>>
      /\ pc' = [pc EXCEPT ![p] = "idle"] /\ job' = [job EXCEPT ![p] = NoJob]
      /\ seen' = [seen EXCEPT ![p] = 0] /\ seenGroup' = [seenGroup EXCEPT ![p] = NullGroup]
      /\ aim' = [aim EXCEPT ![p] = 0]
      /\ allSet' = [allSet EXCEPT ![p] = TRUE] /\ reply' = [reply EXCEPT ![p] = "none"]
      /\ spoiled' = spoiled \ {p}
  BY DEF Respond, Goto
<1>2. TypeOK'
  BY <1>1 DEF IInv, TypeOK, accounts, tree, Pcs, Replies
<1>3. ThreadOK(p)'
  BY <1>1, AtReply DEF IInv, TypeOK
<1>4. \A q \in Threads : q # p => pc'[q] = pc[q] /\ Keeps(q)
  BY <1>1 DEF IInv, TypeOK, Keeps
<1> QED BY <1>1, <1>2, <1>3, <1>4, ThreadOnly

\* The walk of AddFileToPath ends in a directory.
LEMMA TargetIsDir ==
    ASSUME TypeOK, NEW path \in Paths, NEW d \in Target(path)
    PROVE  d \in nodes /\ node[d].kind = "DIR"
<1>1. path \in Seq(AllNames) /\ Len(path) \in Nat /\ Len(path) # 0
  BY InputAssumption
<1>2. PICK ids \in [1..Len(path) -> nodes] : Walks(path, ids) /\ ids[Len(path)] = d
  BY DEF Target
<1>3. Len(path) \in 1..Len(path)
  BY <1>1
<1> QED BY <1>2, <1>3 DEF Walks, Target, Named

\* The reads of AddFileToPath: the parent it remembers was a directory.
LEMMA CreateResolveKeeps ==
    ASSUME IInv, NEW p \in Threads, CreateResolve(p)
    PROVE  IInv'
<1> DEFINE j == job[p]
<1>1. /\ UNCHANGED <<accounts, tree, rights, fileGroup, events, job, aim, allSet, spoiled, requests>>
      /\ pc[p] = "resolve"
  BY DEF CreateResolve
<1>2. j.op \in {"CreateFile", "CreateDir"} /\ j \in Jobs /\ j.user \in Users /\ j.path \in Paths
  BY <1>1, JobFields DEF IInv, StoreInv, ThreadOK, TypeOK
<1>3. CASE \E r \in {"Path Error", "File exists", "Error"} :
              Return(p, r) /\ UNCHANGED <<seen, seenGroup>> /\ (UNCHANGED faults \/ Fault)
  <2>1. PICK r \in Replies : Return(p, r)
    BY <1>3 DEF Replies
  <2>2. TypeOK'
    BY <1>1, <1>3, <2>1, ReturnType, CountersType DEF IInv, TypeOK, accounts, tree
  <2>3. ThreadOK(p)'
    BY <2>1, ReturnType, AtReply DEF IInv
  <2>4. \A q \in Threads : q # p => pc'[q] = pc[q] /\ Keeps(q)
    BY <1>1, <1>3, <2>1, ReturnType DEF IInv, Keeps
  <2> QED BY <1>1, <2>2, <2>3, <2>4, ThreadOnly
<1>4. CASE \E d \in Target(j.path) :
              /\ seen' = [seen EXCEPT ![p] = d]
              /\ seenGroup' = [seenGroup EXCEPT ![p] =
                     IF OwnGroup[j.user] \in groups THEN Gid(OwnGroup[j.user]) ELSE NullGroup]
              /\ Goto(p, "insert")
              /\ UNCHANGED <<reply, faults>>
  <2>1. PICK d \in Target(j.path) :
              /\ seen' = [seen EXCEPT ![p] = d]
              /\ seenGroup' = [seenGroup EXCEPT ![p] =
                     IF OwnGroup[j.user] \in groups THEN Gid(OwnGroup[j.user]) ELSE NullGroup]
              /\ Goto(p, "insert")
              /\ UNCHANGED <<reply, faults>>
    BY <1>4
  <2>2. d \in nodes /\ node[d].kind = "DIR" /\ d \in Ids
    BY <1>2, TargetIsDir DEF IInv, TypeOK
  <2>3. Gid(OwnGroup[j.user]) \in GroupIds
    BY <1>2, NameAssumption DEF Gid, GroupIds, IInv, TypeOK
  <2>4. "insert" \in Pcs
    BY DEF Pcs
  <2>5. TypeOK'
    BY <1>1, <2>1, <2>2, <2>3, <2>4, GotoType DEF IInv, TypeOK, accounts, tree
  <2>6. seen'[p] = d /\ pc'[p] = "insert" /\ job'[p] = job[p]
    BY <1>1, <2>1, <2>2, <2>4, GotoType DEF IInv, TypeOK
  <2>7. d < nextId' /\ node'[d].kind = "DIR"
    BY <1>1, <2>2 DEF IInv, StoreInv, TreeInv, tree
  <2>8. ThreadOK(p)'
    BY <1>2, <2>2, <2>6, <2>7 DEF ThreadOK, CheckedPcs
  <2>9. \A q \in Threads : q # p => pc'[q] = pc[q] /\ Keeps(q)
    BY <1>1, <2>1, <2>4, GotoType DEF IInv, TypeOK, Keeps
  <2> QED BY <1>1, <2>5, <2>8, <2>9, ThreadOnly
<1> QED BY <1>3, <1>4 DEF CreateResolve

\* IsRootOrOwner: the file it has seen is the user's, and is not 'root', which
\* has no owner.
LEMMA OwnerCheckKeeps ==
    ASSUME IInv, NEW p \in Threads, OwnerCheck(p)
    PROVE  IInv'
<1> DEFINE j == job[p]
<1>1. /\ UNCHANGED <<accounts, tree, rights, fileGroup, events, job, seenGroup, aim, allSet, requests>>
      /\ pc[p] = "check"
  BY DEF OwnerCheck
<1>2. j.op \in {"DeleteFile", "ChangeRights"} /\ j \in Jobs /\ j.user \in Users /\ j.file \in AllNames
  BY <1>1, JobFields DEF IInv, StoreInv, ThreadOK, TypeOK
<1>3. CASE Return(p, "No access") /\ UNCHANGED <<seen, spoiled>> /\ (UNCHANGED faults \/ Fault)
  <2>1. "No access" \in Replies
    BY DEF Replies
  <2>2. TypeOK'
    BY <1>1, <1>3, <2>1, ReturnType, CountersType DEF IInv, TypeOK, accounts, tree
  <2>3. ThreadOK(p)'
    BY <1>3, <2>1, ReturnType, AtReply DEF IInv
  <2>4. \A q \in Threads : q # p => pc'[q] = pc[q] /\ Keeps(q)
    BY <1>1, <1>3, <2>1, ReturnType DEF IInv, Keeps
  <2> QED BY <1>1, <2>2, <2>3, <2>4, ThreadOnly
<1>4. CASE /\ IsRootOrOwner(j.user, j.file)
           /\ \E n \in Named(j.file) : seen' = [seen EXCEPT ![p] = n]
           /\ Goto(p, IF j.op = "DeleteFile" THEN "delete" ELSE "set_user")
           /\ spoiled' \subseteq Threads
           /\ UNCHANGED <<reply, faults>>
  <2> DEFINE next == IF j.op = "DeleteFile" THEN "delete" ELSE "set_user"
  <2>1. PICK n \in Named(j.file) : seen' = [seen EXCEPT ![p] = n]
    BY <1>4
  <2>2. n \in nodes /\ n \in Ids /\ node[n].name = j.file
    BY DEF Named, IInv, TypeOK
  <2>3. node[n].owner = j.user
    BY <1>4, <2>2 DEF IsRootOrOwner, Named, IInv, StoreInv, TreeInv, UniqueNames
  <2>4. j.file # RootName
    <3>1. RootId \in nodes /\ node[RootId].name = RootName /\ node[RootId].owner = Nobody
      BY DEF IInv, StoreInv, TreeInv, Rooted, RootNode
    <3> QED BY <1>2, <2>2, <2>3, <3>1, NameAssumption DEF IInv, StoreInv, TreeInv, UniqueNames
  <2>5. next \in Pcs
    BY DEF Pcs, SetPcs
  <2>6. TypeOK'
    BY <1>1, <1>4, <2>1, <2>2, <2>5, GotoType DEF IInv, TypeOK, accounts, tree
  <2>7. seen'[p] = n /\ pc'[p] = next /\ job'[p] = job[p]
    BY <1>1, <1>4, <2>1, <2>5, GotoType DEF IInv, TypeOK
  <2>8. n < nextId' /\ node'[n] = node[n]
    BY <1>1, <2>2 DEF IInv, StoreInv, TreeInv, tree
  <2>9. ThreadOK(p)'
    BY <1>2, <2>2, <2>3, <2>4, <2>7, <2>8 DEF ThreadOK, CheckedPcs
  <2>10. \A q \in Threads : q # p => pc'[q] = pc[q] /\ Keeps(q)
    BY <1>1, <1>4, <2>1, <2>5, GotoType DEF IInv, TypeOK, Keeps
  <2> QED BY <1>1, <2>6, <2>9, <2>10, ThreadOnly
<1>5. \A S \in SUBSET Threads : spoiled \cup S \cup {p} \subseteq Threads
  BY DEF IInv, TypeOK
<1> QED BY <1>3, <1>4, <1>5 DEF OwnerCheck, IInv, TypeOK

\* The INSERTs of AddFileToPath and AddDirectoryToPath: a new leaf with a name
\* of its own, whose group is there.
LEMMA CreateInsertKeeps ==
    ASSUME IInv, NEW p \in Threads, CreateInsert(p)
    PROVE  IInv'
<1> DEFINE j == job[p]
           id == nextId
<1>1. /\ UNCHANGED <<accounts, events, job, seen, seenGroup, aim, allSet, spoiled, requests>>
      /\ pc[p] = "insert"
  BY DEF CreateInsert
<1>2. j.op \in {"CreateFile", "CreateDir"} /\ j \in Jobs /\ j.user \in Users /\ j.file \in AllNames
  BY <1>1, JobFields DEF IInv, StoreInv, ThreadOK, TypeOK
<1>3. CASE Return(p, "Error") /\ UNCHANGED <<tree, rights, fileGroup>> /\ (UNCHANGED faults \/ Fault)
  <2>1. "Error" \in Replies
    BY DEF Replies
  <2>2. TypeOK'
    BY <1>1, <1>3, <2>1, ReturnType, CountersType DEF IInv, TypeOK, accounts, tree
  <2>3. ThreadOK(p)'
    BY <1>3, <2>1, ReturnType, AtReply DEF IInv
  <2>4. \A q \in Threads : q # p => pc'[q] = pc[q] /\ Keeps(q)
    BY <1>1, <1>3, <2>1, ReturnType DEF IInv, Keeps
  <2> QED BY <1>1, <1>3, <2>2, <2>3, <2>4, ThreadOnly
<1>4. CASE /\ Insertable(p)
           /\ id <= MaxNodes
           /\ nextId' = id + 1
           /\ nodes' = nodes \cup {id}
           /\ node' = [node EXCEPT ![id] =
                 [name |-> j.file, parent |-> seen[p], owner |-> j.user,
                  kind |-> IF j.op = "CreateDir" THEN "DIR" ELSE "FILE"]]
           /\ rights' = [rights EXCEPT ![id] = DefaultRights]
           /\ fileGroup' = [fileGroup EXCEPT ![id] =
                 IF j.op = "CreateFile" /\ seenGroup[p] = NullGroup THEN NoRow ELSE seenGroup[p]]
           /\ Return(p, "Success")
           /\ UNCHANGED faults
  <2> DEFINE new == [name |-> j.file, parent |-> seen[p], owner |-> j.user,
                     kind |-> IF j.op = "CreateDir" THEN "DIR" ELSE "FILE"]
             grp == IF j.op = "CreateFile" /\ seenGroup[p] = NullGroup THEN NoRow ELSE seenGroup[p]
  <2>1. "Success" \in Replies
    BY DEF Replies
  <2>2. id \in Ids /\ id \in Nat /\ id > RootId /\ id \notin nodes
    BY <1>4 DEF IInv, TypeOK, StoreInv, TreeInv, Ids, RootId
  <2>3. seen[p] \in nodes /\ seen[p] \in Ids /\ seen[p] < id /\ node[seen[p]].kind = "DIR"
    BY <1>1, <1>4 DEF Insertable, IInv, StoreInv, ThreadOK
  <2>4. new \in [name: AllNames, kind: {"FILE", "DIR"}, parent: Ids \cup {0}, owner: Users \cup {Nobody}]
    BY <1>2, <2>3
  <2>5. DefaultRights \in [user: Class, group: Class, all: Class]
    BY DEF DefaultRights, Class, Letters
  <2>6. grp \in FileIds
    BY DEF FileIds, IInv, TypeOK
  <2>7. pc' \in [Threads -> Pcs] /\ reply' \in [Threads -> Replies] /\ pc'[p] = "reply"
    BY <1>4, <2>1, ReturnType DEF IInv
  <2>8. \A q \in Threads : q # p => pc'[q] = pc[q] /\ Keeps(q)
    BY <1>1, <1>4, <2>1, ReturnType DEF IInv, Keeps
  <2>9. /\ node' = [node EXCEPT ![id] = new] /\ fileGroup' = [fileGroup EXCEPT ![id] = grp]
        /\ rights' = [rights EXCEPT ![id] = DefaultRights]
    BY <1>4
  <2>10. /\ node' \in [Ids -> [name: AllNames, kind: {"FILE", "DIR"}, parent: Ids \cup {0}, owner: Users \cup {Nobody}]]
         /\ node'[id] = new /\ \A n \in Ids : n # id => node'[n] = node[n]
         /\ fileGroup'[id] = grp /\ \A n \in Ids : n # id => fileGroup'[n] = fileGroup[n]
    <3> HIDE DEF new, grp, id
    <3> QED BY <2>2, <2>4, <2>9 DEF IInv, TypeOK
  <2>11. TypeOK'
    <3> HIDE DEF new, grp
    <3>1. nodes' \subseteq Ids /\ nextId' \in Nat
      <4>1. nodes \subseteq Ids
        BY DEF IInv, TypeOK
      <4>2. nodes' \subseteq Ids
        BY <1>4, <2>2, <4>1
      <4>3. nextId' = nextId + 1 /\ nextId \in Nat
        BY <1>4, <2>2
      <4> QED BY <4>2, <4>3
    <3>2. rights' \in [Ids -> [user: Class, group: Class, all: Class]]
      BY <2>2, <2>5, <2>9 DEF IInv, TypeOK
    <3>3. fileGroup' \in [Ids -> FileIds]
      BY <2>2, <2>6, <2>9 DEF IInv, TypeOK
    <3> QED BY <1>1, <1>4, <2>7, <2>10, <3>1, <3>2, <3>3 DEF IInv, TypeOK, accounts
  <2>12. TreeInv'
    <3>1. nextId' > RootId /\ (\A n \in nodes' : n < nextId')
      BY <1>4, <2>2 DEF IInv, TypeOK, StoreInv, TreeInv, Ids, RootId
    <3>2. node'[RootId] = RootNode /\ RootId \in nodes'
      BY <1>4, <2>2, <2>10, BoundAssumption DEF IInv, StoreInv, TreeInv, Rooted, Ids, RootId
    <3>3. ASSUME NEW n \in nodes' \ {RootId}
          PROVE  /\ node'[n].parent \in nodes' /\ node'[n].parent < n
                 /\ node'[node'[n].parent].kind = "DIR"
      <4>1. CASE n = id
        BY <1>4, <2>2, <2>3, <2>10, <4>1
      <4>2. CASE n # id
        <5>1. n \in nodes /\ n \in Ids /\ node'[n] = node[n]
          BY <1>4, <2>10, <4>2 DEF IInv, TypeOK
        <5>2. /\ node[n].parent \in nodes /\ node[n].parent < n /\ node[n].parent \in Ids
              /\ node[node[n].parent].kind = "DIR" /\ node[n].parent # id
          BY <2>2, <5>1, <3>3 DEF IInv, TypeOK, StoreInv, TreeInv, Rooted
        <5> QED BY <1>4, <2>10, <5>1, <5>2
      <4> QED BY <4>1, <4>2
    <3>4. UniqueNames'
      <4>1. \A n \in nodes : node[n].name # j.file
        BY <1>4 DEF Insertable, Named
      <4>2. \A n \in nodes : n \in Ids /\ n # id /\ node'[n] = node[n]
        BY <2>2, <2>10 DEF IInv, TypeOK
      <4>3. node'[id].name = j.file
        BY <2>10
      <4> QED BY <1>4, <4>1, <4>2, <4>3 DEF UniqueNames, IInv, StoreInv, TreeInv
    <3> QED BY <3>1, <3>2, <3>3, <3>4 DEF TreeInv, Rooted, RootNode, RootId
  <2>13. GroupsExist'
    <3>1. grp \notin {NoRow, NullGroup} => Exists(grp)
      BY <1>4 DEF Insertable
    <3> HIDE DEF grp
    <3> QED BY <1>1, <2>10, <3>1 DEF GroupsExist, Exists, Gid, IInv, StoreInv, accounts
  <2>14. ThreadOK(p)'
    BY <2>7, AtReply
  <2>15. \A q \in Threads : ThreadOK(q)'
    <3>1. nextId' \in Nat /\ nextId' >= nextId
      BY <1>4, <2>2
    <3>2. \A n \in Ids : n < nextId => node'[n] = node[n] /\ (n \in nodes' => n \in nodes)
      BY <1>4, <2>10 DEF Ids, IInv, TypeOK
    <3> QED BY <2>8, <2>14, <3>1, <3>2, OthersStay DEF IInv, StoreInv
  <2> QED BY <2>11, <2>12, <2>13, <2>15 DEF IInv, StoreInv
<1> QED BY <1>3, <1>4 DEF CreateInsert

\* The SELECT of DeleteFileByNameAndUser: the file it finds is the one checked, unless
\* that is gone.
LEMMA FindNodeKeeps ==
    ASSUME IInv, NEW p \in Threads, FindNode(p)
    PROVE  IInv'
<1> DEFINE j == job[p]
<1>1. /\ UNCHANGED <<accounts, tree, rights, fileGroup, events, job, seen, seenGroup, allSet, spoiled, requests>>
      /\ pc[p] = "delete"
  BY DEF FindNode
<1>2. ThreadOK(p) /\ pc[p] \in CheckedPcs
  BY <1>1 DEF IInv, StoreInv, CheckedPcs
<1>3. CASE /\ \E r \in {"Directory not found", "Error"} : Return(p, r)
           /\ UNCHANGED aim /\ (UNCHANGED faults \/ Fault)
  <2>1. PICK r \in Replies : Return(p, r)
    BY <1>3 DEF Replies
  <2>2. TypeOK'
    BY <1>1, <1>3, <2>1, ReturnType, CountersType DEF IInv, TypeOK, accounts, tree
  <2>3. ThreadOK(p)'
    BY <2>1, ReturnType, AtReply DEF IInv
  <2>4. \A q \in Threads : q # p => pc'[q] = pc[q] /\ Keeps(q)
    BY <1>1, <1>3, <2>1, ReturnType DEF IInv, Keeps
  <2> QED BY <1>1, <2>2, <2>3, <2>4, ThreadOnly
<1>4. CASE /\ \E n \in Named(j.file) : aim' = [aim EXCEPT ![p] = n]
           /\ Goto(p, "delete_rows") /\ UNCHANGED <<reply, faults>>
  <2>1. PICK n \in Named(j.file) : aim' = [aim EXCEPT ![p] = n]
    BY <1>4
  <2>2. n \in nodes /\ n \in Ids /\ n < nextId /\ node[n].name = j.file
    BY DEF Named, IInv, TypeOK, StoreInv, TreeInv
  <2>3. n = seen[p] \/ seen[p] \notin nodes
    BY <1>2, <2>2 DEF ThreadOK, IInv, StoreInv, TreeInv, UniqueNames
  <2>4. "delete_rows" \in Pcs
    BY DEF Pcs
  <2>5. /\ pc' \in [Threads -> Pcs] /\ pc'[p] = "delete_rows" /\ aim'[p] = n
        /\ aim' \in [Threads -> Ids \cup {0}]
        /\ \A q \in Threads : q # p => pc'[q] = pc[q] /\ Keeps(q)
    BY <1>1, <1>4, <2>1, <2>2, <2>4, GotoType DEF IInv, TypeOK, Keeps
  <2>6. TypeOK'
    BY <1>1, <1>4, <2>5 DEF IInv, TypeOK, accounts, tree
  <2>7. ThreadOK(p)'
    BY <1>1, <1>2, <2>2, <2>3, <2>5 DEF ThreadOK, CheckedPcs, tree
  <2> QED BY <1>1, <2>5, <2>6, <2>7, ThreadOnly
<1> QED BY <1>3, <1>4 DEF FindNode

\* The DELETE: what stays has its parent, and the cascade takes the rows of what
\* goes.
LEMMA DeleteNodesKeeps ==
    ASSUME IInv, NEW p \in Threads, DeleteNodes(p)
    PROVE  IInv'
<1> DEFINE top == aim[p]
           gone == IF top \in nodes THEN Below(top) ELSE {}
<1>1. /\ UNCHANGED <<accounts, node, nextId, rights, job, seen, seenGroup, aim, allSet, spoiled, requests>>
      /\ pc[p] = "delete_rows"
  BY DEF DeleteNodes
<1>2. PICK r \in {"Success", "Error"} :
         Return(p, r) /\ (UNCHANGED faults \/ Fault)
  BY DEF DeleteNodes
<1>3. r \in Replies
  BY DEF Replies
<1>4. pc' \in [Threads -> Pcs] /\ reply' \in [Threads -> Replies] /\ pc'[p] = "reply"
  BY <1>2, <1>3, ReturnType DEF IInv
<1>5. \A q \in Threads : q # p => pc'[q] = pc[q] /\ Keeps(q)
  BY <1>1, <1>2, <1>3, ReturnType DEF IInv, Keeps
<1>6. ThreadOK(p)'
  BY <1>4, AtReply
<1>7. CASE UNCHANGED <<nodes, fileGroup, events>>
  <2>1. TypeOK'
    BY <1>1, <1>2, <1>4, <1>7, CountersType DEF IInv, TypeOK, accounts
  <2> QED BY <1>1, <1>5, <1>6, <1>7, <2>1, ThreadOnly DEF tree
<1>8. CASE Remove(gone)
  <2>1. top # RootId
    BY <1>1, RootIsNamed DEF IInv, StoreInv, ThreadOK, CheckedPcs
  <2>2. /\ gone \subseteq nodes /\ RootId \notin gone
        /\ \A k \in nodes : node[k].parent \in gone => k \in gone
    BY <2>1, BelowClosed DEF IInv, StoreInv, TypeOK
  <2>3. /\ nodes' = nodes \ gone
        /\ fileGroup' = [n \in Ids |-> IF n \in gone THEN NoRow ELSE fileGroup[n]]
        /\ events' \subseteq events
    BY <1>8 DEF Remove
  <2> HIDE DEF gone
  <2>4. fileGroup' \in [Ids -> FileIds]
    BY <2>3 DEF FileIds, IInv, TypeOK
  <2>5. TypeOK'
    BY <1>1, <1>2, <1>4, <2>3, <2>4, CountersType DEF IInv, TypeOK, accounts
  <2>6. TreeInv'
    <3>1. Rooted'
      BY <1>1, <2>2, <2>3 DEF IInv, StoreInv, TreeInv, Rooted
    <3>2. UniqueNames'
      BY <1>1, <2>3 DEF IInv, StoreInv, TreeInv, UniqueNames
    <3> QED BY <1>1, <2>3, <3>1, <3>2 DEF IInv, StoreInv, TreeInv, RootNode
  <2>7. GroupsExist'
    BY <1>1, <2>3 DEF IInv, StoreInv, GroupsExist, Exists, Gid, accounts
  <2>8. \A q \in Threads : ThreadOK(q)'
    BY <1>1, <1>5, <1>6, <2>3, NodesStay, OthersStay DEF IInv, StoreInv
  <2> QED BY <2>5, <2>6, <2>7, <2>8 DEF IInv, StoreInv
<1> QED BY <1>7, <1>8 DEF DeleteNodes

\* Whatever the mask, it grants a set of rights.
LEMMA MaskIsClass ==
    ASSUME NEW m PROVE Granted(m) \in Class
  BY DEF Granted, Class, Letters, Letter

\* The three Set*Rights: rights change, the tree and the groups do not.
LEMMA SetRightsKeeps ==
    ASSUME IInv, NEW p \in Threads, NEW at, NEW class \in {"user", "group", "all"}, NEW start, NEW next,
           \/ at = "set_user" /\ next = "set_group"
           \/ at = "set_group" /\ next = "set_all"
           \/ at = "set_all" /\ next = "rights_event",
           SetRights(p, at, class, start, next)
    PROVE  IInv'
<1> DEFINE j == job[p]
           rows == {n \in Named(j.file) : class = "group" => fileGroup[n] # NoRow}
           mask == Granted(SetMask(start, j.mode))
<1>1. /\ UNCHANGED <<accounts, tree, fileGroup, events, job, seen, seenGroup, aim, reply, spoiled, requests>>
      /\ pc[p] = at /\ Goto(p, next)
      /\ UNCHANGED faults \/ Fault
  BY DEF SetRights
<1>2. next \in Pcs
  BY DEF Pcs, SetPcs
<1>3. rights' \in [Ids -> [user: Class, group: Class, all: Class]]
  <2>1. CASE UNCHANGED rights
    BY <2>1 DEF IInv, TypeOK
  <2>2. CASE rights' = [n \in Ids |-> IF n \in rows THEN [rights[n] EXCEPT ![class] = mask] ELSE rights[n]]
    <3>1. mask \in Class
      BY MaskIsClass
    <3> HIDE DEF rows, mask
    <3>2. \A n \in Ids : rights[n] \in [user: Class, group: Class, all: Class]
      BY DEF IInv, TypeOK
    <3>3. \A n \in Ids : [rights[n] EXCEPT ![class] = mask] \in [user: Class, group: Class, all: Class]
      BY <3>1, <3>2
    <3> QED BY <2>2, <3>2, <3>3
  <2> QED BY <2>1, <2>2 DEF SetRights
<1>4. allSet' \in [Threads -> BOOLEAN]
  <2>1. \E b \in BOOLEAN : allSet' = [allSet EXCEPT ![p] = b]
    <3>1. CASE allSet' = [allSet EXCEPT ![p] = @ /\ rows # {}]
      <4>1. allSet[p] \in BOOLEAN
        BY DEF IInv, TypeOK
      <4> HIDE DEF rows
      <4>2. (allSet[p] /\ rows # {}) \in BOOLEAN
        OBVIOUS
      <4> QED BY <3>1, <4>2
    <3> QED BY <3>1 DEF SetRights
  <2> QED BY <2>1 DEF IInv, TypeOK
<1>5. pc' \in [Threads -> Pcs] /\ pc'[p] = next /\ \A q \in Threads : q # p => pc'[q] = pc[q]
  BY <1>1, <1>2, GotoType DEF IInv
<1>6. TypeOK'
  BY <1>1, <1>3, <1>4, <1>5, CountersType DEF IInv, TypeOK, accounts, tree
<1>7. ThreadOK(p)'
  <2>1. ThreadOK(p)
    BY DEF IInv, StoreInv
  <2>2. job' = job /\ seen' = seen /\ node' = node /\ nextId' = nextId
    BY <1>1 DEF tree
  <2> QED BY <1>1, <1>5, <2>1, <2>2 DEF ThreadOK, CheckedPcs
<1>8. \A q \in Threads : q # p => pc'[q] = pc[q] /\ Keeps(q)
  BY <1>1, <1>5 DEF Keeps
<1> QED BY <1>1, <1>6, <1>7, <1>8, ThreadOnly

\* AddEvent of a change of rights.
LEMMA RightsEventKeeps ==
    ASSUME IInv, NEW p \in Threads, RightsEvent(p)
    PROVE  IInv'
<1>1. /\ UNCHANGED <<accounts, tree, rights, fileGroup, events, job, seen, seenGroup, aim, allSet, spoiled, requests>>
      /\ UNCHANGED faults \/ Fault
  BY DEF RightsEvent
<1>2. PICK r \in {"Success", "Wrong", "Error"} : Return(p, r)
  BY DEF RightsEvent
<1>3. r \in Replies
  BY DEF Replies
<1>4. /\ pc' \in [Threads -> Pcs] /\ reply' \in [Threads -> Replies] /\ pc'[p] = "reply"
      /\ \A q \in Threads : q # p => pc'[q] = pc[q]
  BY <1>2, <1>3, ReturnType DEF IInv
<1>5. TypeOK'
  BY <1>1, <1>4, CountersType DEF IInv, TypeOK, accounts, tree
<1>6. ThreadOK(p)'
  BY <1>4, AtReply
<1> QED BY <1>1, <1>4, <1>5, <1>6, ThreadOnly DEF Keeps

\* CheckUserRightsTo{Read,Write,Exec}.
LEMMA AccessCheckKeeps ==
    ASSUME IInv, NEW p \in Threads, AccessCheck(p)
    PROVE  IInv'
<1> DEFINE j == job[p]
           id == IF Named(j.file) = {} THEN 0 ELSE CHOOSE n \in Named(j.file) : TRUE
<1>1. /\ UNCHANGED <<accounts, tree, rights, fileGroup, events, job, seenGroup, aim, allSet, spoiled, requests>>
      /\ pc[p] = "access"
  BY DEF AccessCheck
<1>2. CASE Return(p, "No access") /\ UNCHANGED seen /\ (UNCHANGED faults \/ Fault)
  <2>1. "No access" \in Replies
    BY DEF Replies
  <2>2. TypeOK'
    BY <1>1, <1>2, <2>1, ReturnType, CountersType DEF IInv, TypeOK, accounts, tree
  <2>3. ThreadOK(p)'
    BY <1>2, <2>1, ReturnType, AtReply DEF IInv
  <2>4. \A q \in Threads : q # p => pc'[q] = pc[q] /\ Keeps(q)
    BY <1>1, <1>2, <2>1, ReturnType DEF IInv, Keeps
  <2> QED BY <1>1, <2>2, <2>3, <2>4, ThreadOnly
<1>3. CASE seen' = [seen EXCEPT ![p] = id] /\ Goto(p, "event") /\ UNCHANGED <<reply, faults>>
  <2>1. id \in Ids \cup {0}
    BY DEF Named, IInv, TypeOK
  <2>2. "event" \in Pcs
    BY DEF Pcs
  <2>3. pc' \in [Threads -> Pcs] /\ pc'[p] = "event" /\ \A q \in Threads : q # p => pc'[q] = pc[q]
    BY <1>3, <2>2, GotoType DEF IInv
  <2> HIDE DEF id
  <2>4. seen' \in [Threads -> Ids \cup {0}] /\ \A q \in Threads : q # p => seen'[q] = seen[q]
    BY <1>3, <2>1 DEF IInv, TypeOK
  <2>5. TypeOK'
    BY <1>1, <1>3, <2>3, <2>4 DEF IInv, TypeOK, accounts, tree
  <2>6. job'[p].op \in AccessOps
    BY <1>1 DEF IInv, StoreInv, ThreadOK
  <2>7. ThreadOK(p)'
    BY <2>3, <2>6 DEF ThreadOK, CheckedPcs
  <2> QED BY <1>1, <2>3, <2>4, <2>5, <2>7, ThreadOnly DEF Keeps
<1> QED BY <1>2, <1>3 DEF AccessCheck

\* Add{Read,Write,Exec}Event: the log names nodes that exist.
LEMMA AccessEventKeeps ==
    ASSUME IInv, NEW p \in Threads, AccessEvent(p)
    PROVE  IInv'
<1> DEFINE j == job[p]
<1>1. /\ UNCHANGED <<accounts, tree, rights, fileGroup, job, seen, seenGroup, aim, allSet, requests>>
      /\ pc[p] = "event" /\ Return(p, "Success")
      /\ UNCHANGED faults \/ Fault
      /\ spoiled' \subseteq spoiled \cup {p}
  BY DEF AccessEvent
<1>2. j.op \in AccessOps /\ j.user \in Users /\ RightOf[j.op] \in Letters
  BY <1>1, JobFields DEF IInv, StoreInv, ThreadOK, TypeOK, AccessOps, RightOf, Letters
<1>3. events' \subseteq [node: Ids, user: Users, right: Letters]
  <2>1. {[node |-> n, user |-> j.user, right |-> RightOf[j.op]] : n \in Named(j.file)}
            \subseteq [node: Ids, user: Users, right: Letters]
    BY <1>2 DEF Named, IInv, TypeOK
  <2> QED BY <2>1 DEF AccessEvent, IInv, TypeOK
<1>4. "Success" \in Replies
  BY DEF Replies
<1>5. /\ pc' \in [Threads -> Pcs] /\ reply' \in [Threads -> Replies] /\ pc'[p] = "reply"
      /\ \A q \in Threads : q # p => pc'[q] = pc[q]
  BY <1>1, <1>4, ReturnType DEF IInv
<1>6. spoiled' \subseteq Threads
  BY <1>1 DEF IInv, TypeOK
<1>7. TypeOK'
  BY <1>1, <1>3, <1>5, <1>6, CountersType DEF IInv, TypeOK, accounts, tree
<1>8. ThreadOK(p)'
  BY <1>5, AtReply
<1> QED BY <1>1, <1>5, <1>7, <1>8, ThreadOnly DEF Keeps

\* The SELECTs of a request about groups: an answer, or on to the change.
LEMMA LookUpKeeps ==
    ASSUME IInv, NEW p \in Threads,
           UNCHANGED <<accounts, tree, rights, fileGroup, events, job, aim, allSet, spoiled, requests>>,
           UNCHANGED faults \/ Fault,
           seen' \in [Threads -> Ids \cup {0}], seenGroup' \in [Threads -> GroupIds \cup {NullGroup}],
           \A q \in Threads : q # p => seen'[q] = seen[q],
           \/ \E r \in Replies : Return(p, r)
           \/ /\ UNCHANGED reply
              /\ \/ Goto(p, "file_row") /\ job[p].op = "AddFileToGroup"
                 \/ Goto(p, "member_row") /\ job[p].op = "AddUserToGroup"
                 \/ Goto(p, "group_row") /\ job[p].op = "CreateGroup"
                 \/ Goto(p, "group_gone") /\ job[p].op = "DeleteGroup"
    PROVE  IInv'
<1>1. CASE \E r \in Replies : Return(p, r)
  <2>1. PICK r \in Replies : Return(p, r)
    BY <1>1
  <2>2. TypeOK'
    BY <2>1, ReturnType, CountersType DEF IInv, TypeOK, accounts, tree
  <2>3. ThreadOK(p)'
    BY <2>1, ReturnType, AtReply DEF IInv
  <2>4. \A q \in Threads : q # p => pc'[q] = pc[q] /\ Keeps(q)
    BY <2>1, ReturnType DEF IInv, Keeps
  <2> QED BY <2>2, <2>3, <2>4, ThreadOnly
<1>2. ASSUME NEW l \in {"file_row", "member_row", "group_row", "group_gone"}, Goto(p, l), UNCHANGED reply,
             \/ l = "file_row" /\ job[p].op = "AddFileToGroup"
             \/ l = "member_row" /\ job[p].op = "AddUserToGroup"
             \/ l = "group_row" /\ job[p].op = "CreateGroup"
             \/ l = "group_gone" /\ job[p].op = "DeleteGroup"
      PROVE  IInv'
  <2>1. l \in Pcs
    BY DEF Pcs
  <2>2. /\ pc' \in [Threads -> Pcs] /\ pc'[p] = l
        /\ \A q \in Threads : q # p => pc'[q] = pc[q] /\ Keeps(q)
    BY <1>2, <2>1, GotoType DEF IInv, Keeps
  <2>3. TypeOK'
    BY <1>2, <2>2, CountersType DEF IInv, TypeOK, accounts, tree
  <2>4. ThreadOK(p)'
    BY <1>2, <2>2 DEF ThreadOK, CheckedPcs
  <2> QED BY <2>2, <2>3, <2>4, ThreadOnly
<1> QED BY <1>1, <1>2

\* The id of a group that is there.
LEMMA GidType ==
    ASSUME TypeOK, NEW g \in groups
    PROVE  Gid(g) \in GroupIds /\ Exists(Gid(g))
  BY DEF TypeOK, Gid, GroupIds, Exists

\* What exists is an id.
LEMMA ExistsIsId ==
    ASSUME TypeOK, NEW gid, Exists(gid)
    PROVE  gid \in GroupIds
  BY DEF TypeOK, Gid, GroupIds, Exists

\* AddFileToGroup and AddUserToGroup look up what they are asked about.
LEMMA AddLooksUp ==
    ASSUME IInv, NEW p \in Threads, AddFileToGroup(p) \/ AddUserToGroup(p)
    PROVE  IInv'
<1>1. pc[p] \in {"add_file", "add_user"} /\ ThreadOK(p)
  BY DEF AddFileToGroup, AddUserToGroup, IInv, StoreInv
<1>2. /\ pc[p] = "add_file" => job[p].op = "AddFileToGroup"
      /\ pc[p] = "add_user" => job[p].op = "AddUserToGroup"
  BY <1>1 DEF ThreadOK
<1>3. /\ UNCHANGED <<accounts, tree, rights, fileGroup, events, job, aim, allSet, spoiled, requests>>
      /\ UNCHANGED faults \/ Fault
  BY DEF AddFileToGroup, AddUserToGroup
<1>4. \A f : Named(f) \subseteq Ids
  BY DEF Named, IInv, TypeOK
<1>5. seen \in [Threads -> Ids \cup {0}] /\ seenGroup \in [Threads -> GroupIds \cup {NullGroup}]
  BY DEF IInv, TypeOK
<1>6. /\ seen' = seen \/ \E n \in Ids : seen' = [seen EXCEPT ![p] = n]
      /\ seenGroup' = seenGroup \/ \E g \in groups : seenGroup' = [seenGroup EXCEPT ![p] = Gid(g)]
  BY <1>4 DEF AddFileToGroup, AddUserToGroup
<1>7. /\ seen' \in [Threads -> Ids \cup {0}] /\ seenGroup' \in [Threads -> GroupIds \cup {NullGroup}]
      /\ \A q \in Threads : q # p => seen'[q] = seen[q]
  BY <1>5, <1>6, GidType DEF IInv
<1>8. \/ \E r \in Replies : Return(p, r)
      \/ /\ UNCHANGED reply
         /\ \/ Goto(p, "file_row") /\ pc[p] = "add_file"
            \/ Goto(p, "member_row") /\ pc[p] = "add_user"
  BY DEF AddFileToGroup, AddUserToGroup, Replies
<1> QED BY <1>1, <1>2, <1>3, <1>7, <1>8, LookUpKeeps

\* So do CreateGroup and DeleteGroup.
LEMMA GroupLooksUp ==
    ASSUME IInv, NEW p \in Threads, CreateGroup(p) \/ DeleteGroup(p)
    PROVE  IInv'
<1>1. pc[p] \in {"create_group", "delete_group"} /\ ThreadOK(p)
  BY DEF CreateGroup, DeleteGroup, IInv, StoreInv
<1>2. /\ pc[p] = "create_group" => job[p].op = "CreateGroup"
      /\ pc[p] = "delete_group" => job[p].op = "DeleteGroup"
  BY <1>1 DEF ThreadOK
<1>3. /\ UNCHANGED <<accounts, tree, rights, fileGroup, events, job, seen, aim, allSet, spoiled, requests>>
      /\ UNCHANGED faults \/ Fault
  BY DEF CreateGroup, DeleteGroup
<1>4. seen \in [Threads -> Ids \cup {0}] /\ seenGroup \in [Threads -> GroupIds \cup {NullGroup}]
  BY DEF IInv, TypeOK
<1>5. seenGroup' = seenGroup \/ \E g \in groups : seenGroup' = [seenGroup EXCEPT ![p] = Gid(g)]
  BY DEF CreateGroup, DeleteGroup
<1>6. seenGroup' \in [Threads -> GroupIds \cup {NullGroup}]
  BY <1>4, <1>5, GidType DEF IInv
<1>7. \/ \E r \in Replies : Return(p, r)
      \/ /\ UNCHANGED reply
         /\ \/ Goto(p, "group_row") /\ pc[p] = "create_group"
            \/ Goto(p, "group_gone") /\ pc[p] = "delete_group"
  BY DEF CreateGroup, DeleteGroup, Replies
<1> QED BY <1>1, <1>2, <1>3, <1>4, <1>6, <1>7, LookUpKeeps

\* The UPDATE of AddFileToGroup: the id it writes is a present group's.
LEMMA SetFileGroupKeeps ==
    ASSUME IInv, NEW p \in Threads, SetFileGroup(p)
    PROVE  IInv'
<1> DEFINE n == seen[p]
           new == IF fileGroup[n] # NoRow THEN seenGroup[p] ELSE NoRow
<1>1. /\ UNCHANGED <<accounts, tree, rights, events, job, seen, seenGroup, aim, allSet, spoiled, requests>>
      /\ UNCHANGED faults \/ Fault
  BY DEF SetFileGroup
<1>2. PICK r \in Replies : Return(p, r)
  BY DEF SetFileGroup, Replies
<1>3. /\ pc' \in [Threads -> Pcs] /\ reply' \in [Threads -> Replies] /\ pc'[p] = "reply"
      /\ \A q \in Threads : q # p => pc'[q] = pc[q] /\ Keeps(q)
  BY <1>1, <1>2, ReturnType DEF IInv, Keeps
<1>4. ThreadOK(p)'
  BY <1>3, AtReply
<1>5. CASE UNCHANGED fileGroup
  <2>1. TypeOK'
    BY <1>1, <1>3, <1>5, CountersType DEF IInv, TypeOK, accounts, tree
  <2> QED BY <1>1, <1>3, <1>4, <1>5, <2>1, ThreadOnly
<1>6. CASE /\ fileGroup[n] # NoRow => Exists(seenGroup[p])
           /\ fileGroup' = [fileGroup EXCEPT ![n] = new]
  <2>1. new \in FileIds /\ (new \notin {NoRow, NullGroup} => Exists(new))
    BY <1>6, ExistsIsId DEF FileIds, IInv
  <2> HIDE DEF new
  <2>2. fileGroup' \in [Ids -> FileIds] /\ \A m \in Ids : fileGroup'[m] \in {fileGroup[m], new}
    BY <1>6, <2>1 DEF IInv, TypeOK
  <2>3. TypeOK'
    BY <1>1, <1>3, <2>2, CountersType DEF IInv, TypeOK, accounts, tree
  <2>4. GroupsExist'
    BY <1>1, <2>1, <2>2 DEF IInv, StoreInv, GroupsExist, Exists, Gid, accounts
  <2> QED BY <1>1, <1>3, <1>4, <2>3, <2>4, TreeLeft
<1> QED BY <1>5, <1>6 DEF SetFileGroup

\* The INSERT of AddUserToGroup: so is this one.
LEMMA AddMemberKeeps ==
    ASSUME IInv, NEW p \in Threads, AddMember(p)
    PROVE  IInv'
<1> DEFINE gid == seenGroup[p]
<1>1. /\ UNCHANGED <<users, groups, made, tree, rights, fileGroup, events, job, seen, seenGroup, aim, allSet, spoiled, requests>>
      /\ pc[p] = "member_row"
      /\ UNCHANGED faults \/ Fault
  BY DEF AddMember
<1>2. PICK r \in Replies : Return(p, r)
  BY DEF AddMember, Replies
<1>3. /\ pc' \in [Threads -> Pcs] /\ reply' \in [Threads -> Replies] /\ pc'[p] = "reply"
      /\ \A q \in Threads : q # p => pc'[q] = pc[q] /\ Keeps(q)
  BY <1>1, <1>2, ReturnType DEF IInv, Keeps
<1>4. job[p].login \in Users
  BY <1>1, JobFields DEF IInv, StoreInv, ThreadOK, TypeOK
<1>5. ThreadOK(p)'
  BY <1>3, AtReply
<1>6. CASE UNCHANGED members
  <2>1. TypeOK'
    BY <1>1, <1>3, <1>6, CountersType DEF IInv, TypeOK, tree
  <2> QED BY <1>1, <1>3, <1>5, <1>6, <2>1, ThreadOnly DEF accounts
<1>7. CASE Exists(gid) /\ members' = members \cup {<<job[p].login, gid>>}
  <2>1. gid \in GroupIds
    BY <1>7, ExistsIsId DEF IInv
  <2>2. members' \subseteq Users \X GroupIds
    BY <1>4, <1>7, <2>1 DEF IInv, TypeOK
  <2>3. TypeOK'
    BY <1>1, <1>3, <2>2, CountersType DEF IInv, TypeOK, tree
  <2>4. GroupsExist'
    BY <1>1, <1>7, <2>1 DEF IInv, StoreInv, GroupsExist, Exists, Gid
  <2> QED BY <1>1, <1>3, <1>5, <2>3, <2>4, TreeLeft
<1> QED BY <1>6, <1>7 DEF AddMember

\* A group of a name that had none gets an id nothing refers to.
LEMMA NewGroupKeeps ==
    ASSUME TypeOK, GroupsExist, NEW g \in GroupNames, g \notin groups, NewGroup(g),
           UNCHANGED fileGroup,
           \A m \in members' : m \in members \/ m[2] = <<g, made[g] + 1>>
    PROVE  GroupsExist' /\ made' \in [GroupNames -> Nat] /\ groups' \subseteq GroupNames
<1>1. /\ made' = [made EXCEPT ![g] = made[g] + 1] /\ groups' = groups \cup {g}
      /\ made[g] \in Nat /\ made \in [GroupNames -> Nat] /\ groups \subseteq GroupNames
  BY DEF NewGroup, TypeOK
<1>2. made' \in [GroupNames -> Nat] /\ made'[g] = made[g] + 1
      /\ \A h \in GroupNames : h # g => made'[h] = made[h]
  BY <1>1
<1>3. \A gid : Exists(gid) => Exists(gid)'
  BY <1>1, <1>2 DEF Exists, Gid
<1> DEFINE new == <<g, made[g] + 1>>
<1>4. new[1] = g /\ new = <<g, made'[g]>>
  BY <1>2
<1>5. \A m \in members' : Exists(m[2])'
  <2> SUFFICES ASSUME NEW m \in members' PROVE m[2][1] \in groups' /\ m[2] = <<m[2][1], made'[m[2][1]]>>
    BY DEF Exists, Gid
  <2> HIDE DEF new
  <2>1. CASE m \in members
    BY <1>3, <2>1 DEF GroupsExist, Exists, Gid
  <2>2. CASE m[2] = new
    BY <1>1, <1>4, <2>2
  <2> QED BY <2>1, <2>2 DEF new
<1>6. \A n \in Ids : fileGroup'[n] \notin {NoRow, NullGroup} => Exists(fileGroup[n])'
  BY <1>3 DEF GroupsExist
<1> QED BY <1>1, <1>2, <1>5, <1>6 DEF GroupsExist, Exists, Gid

\* The INSERT of CreateGroup.
LEMMA AddGroupKeeps ==
    ASSUME IInv, NEW p \in Threads, AddGroup(p)
    PROVE  IInv'
<1> DEFINE g == job[p].group
<1>1. /\ UNCHANGED <<users, members, tree, rights, fileGroup, events, job, seen, seenGroup, aim, allSet, spoiled, requests>>
      /\ pc[p] = "group_row"
      /\ UNCHANGED faults \/ Fault
  BY DEF AddGroup
<1>2. PICK r \in Replies : Return(p, r)
  BY DEF AddGroup, Replies
<1>3. /\ pc' \in [Threads -> Pcs] /\ reply' \in [Threads -> Replies] /\ pc'[p] = "reply"
      /\ \A q \in Threads : q # p => pc'[q] = pc[q] /\ Keeps(q)
  BY <1>1, <1>2, ReturnType DEF IInv, Keeps
<1>4. g \in GroupNames
  BY <1>1, JobFields DEF IInv, StoreInv, ThreadOK, TypeOK
<1>5. ThreadOK(p)'
  BY <1>3, AtReply
<1>6. CASE UNCHANGED <<groups, made>>
  <2>1. TypeOK'
    BY <1>1, <1>3, <1>6, CountersType DEF IInv, TypeOK, tree
  <2> QED BY <1>1, <1>3, <1>5, <1>6, <2>1, ThreadOnly DEF accounts
<1>7. CASE g \notin groups /\ NewGroup(g)
  <2>1. GroupsExist' /\ made' \in [GroupNames -> Nat] /\ groups' \subseteq GroupNames
    BY <1>1, <1>4, <1>7, NewGroupKeeps DEF IInv, StoreInv
  <2>2. TypeOK'
    BY <1>1, <1>3, <2>1, CountersType DEF IInv, TypeOK, tree
  <2> QED BY <1>1, <1>3, <1>5, <2>1, <2>2, TreeLeft
<1> QED BY <1>6, <1>7 DEF AddGroup

\* The DELETEs of DeleteGroup: no row keeps the id that is gone.
LEMMA RemoveGroupKeeps ==
    ASSUME IInv, NEW p \in Threads, RemoveGroup(p)
    PROVE  IInv'
<1> DEFINE gid == seenGroup[p]
<1>1. /\ UNCHANGED <<users, made, tree, rights, events, job, seen, seenGroup, aim, allSet, spoiled, requests>>
      /\ UNCHANGED faults \/ Fault
  BY DEF RemoveGroup
<1>2. PICK r \in Replies : Return(p, r)
  BY DEF RemoveGroup, Replies
<1>3. /\ pc' \in [Threads -> Pcs] /\ reply' \in [Threads -> Replies] /\ pc'[p] = "reply"
      /\ \A q \in Threads : q # p => pc'[q] = pc[q] /\ Keeps(q)
  BY <1>1, <1>2, ReturnType DEF IInv, Keeps
<1>4. ThreadOK(p)'
  BY <1>3, AtReply
<1>5. CASE UNCHANGED <<groups, members, fileGroup>>
  <2>1. TypeOK'
    BY <1>1, <1>3, <1>5, CountersType DEF IInv, TypeOK, tree
  <2> QED BY <1>1, <1>3, <1>4, <1>5, <2>1, ThreadOnly DEF accounts
<1>6. CASE /\ members' = {m \in members : m[2] # gid}
           /\ groups' = {g \in groups : Gid(g) # gid}
           /\ fileGroup' = [n \in Ids |-> IF fileGroup[n] = gid THEN NoRow ELSE fileGroup[n]]
  <2>1. fileGroup' \in [Ids -> FileIds] /\ members' \subseteq Users \X GroupIds /\ groups' \subseteq GroupNames
    BY <1>6 DEF IInv, TypeOK, FileIds
  <2>2. TypeOK'
    BY <1>1, <1>3, <2>1, CountersType DEF IInv, TypeOK, tree
  <2>3. \A other : Exists(other) /\ other # gid => Exists(other)'
    BY <1>1, <1>6 DEF Exists, Gid
  <2>4. \A m \in members' : Exists(m[2])'
    BY <1>6, <2>3 DEF IInv, StoreInv, GroupsExist
  <2>5. \A n \in Ids : fileGroup'[n] \notin {NoRow, NullGroup} =>
           fileGroup'[n] = fileGroup[n] /\ Exists(fileGroup[n])'
    BY <1>6, <2>3 DEF IInv, StoreInv, GroupsExist
  <2>6. GroupsExist'
    BY <2>4, <2>5 DEF GroupsExist, Exists, Gid
  <2> QED BY <1>1, <1>3, <1>4, <2>2, <2>6, TreeLeft
<1> QED BY <1>5, <1>6 DEF RemoveGroup

\* Registrate, before CreateUser.
LEMMA RegisterKeeps ==
    ASSUME IInv, NEW p \in Threads, Register(p)
    PROVE  IInv'
<1>1. /\ UNCHANGED <<accounts, tree, rights, fileGroup, events, job, seen, seenGroup, aim, allSet, spoiled, requests>>
      /\ pc[p] = "register"
      /\ UNCHANGED faults \/ Fault
  BY DEF Register
<1>2. CASE Return(p, "Exists")
  <2>1. "Exists" \in Replies
    BY DEF Replies
  <2>2. TypeOK'
    BY <1>1, <1>2, <2>1, ReturnType, CountersType DEF IInv, TypeOK, accounts, tree
  <2>3. ThreadOK(p)'
    BY <1>2, <2>1, ReturnType, AtReply DEF IInv
  <2>4. \A q \in Threads : q # p => pc'[q] = pc[q] /\ Keeps(q)
    BY <1>1, <1>2, <2>1, ReturnType DEF IInv, Keeps
  <2> QED BY <1>1, <2>2, <2>3, <2>4, ThreadOnly
<1>3. CASE Goto(p, "create_user") /\ UNCHANGED reply
  <2>1. "create_user" \in Pcs
    BY DEF Pcs
  <2>2. /\ pc' \in [Threads -> Pcs] /\ pc'[p] = "create_user"
        /\ \A q \in Threads : q # p => pc'[q] = pc[q] /\ Keeps(q)
    BY <1>1, <1>3, <2>1, GotoType DEF IInv, Keeps
  <2>3. TypeOK'
    BY <1>1, <1>3, <2>2, CountersType DEF IInv, TypeOK, accounts, tree
  <2>4. job'[p].op = "Registrate"
    BY <1>1 DEF IInv, StoreInv, ThreadOK
  <2>5. ThreadOK(p)'
    BY <2>2, <2>4 DEF ThreadOK, CheckedPcs
  <2> QED BY <1>1, <2>2, <2>3, <2>5, ThreadOnly
<1> QED BY <1>2, <1>3 DEF Register

\* CreateUser: a new account is a member of its new group only.
LEMMA CreateUserKeeps ==
    ASSUME IInv, NEW p \in Threads, CreateUser(p)
    PROVE  IInv'
<1> DEFINE u == job[p].user
           g == OwnGroup[u]
<1>1. /\ UNCHANGED <<tree, rights, fileGroup, events, job, seen, seenGroup, aim, allSet, spoiled, requests>>
      /\ pc[p] = "create_user" /\ Return(p, "Success")
      /\ UNCHANGED faults \/ Fault
  BY DEF CreateUser
<1>2. u \in Users /\ g \in GroupNames
  BY <1>1, JobFields, NameAssumption DEF IInv, StoreInv, ThreadOK, TypeOK
<1>3. "Success" \in Replies
  BY DEF Replies
<1>4. /\ pc' \in [Threads -> Pcs] /\ reply' \in [Threads -> Replies] /\ pc'[p] = "reply"
      /\ \A q \in Threads : q # p => pc'[q] = pc[q] /\ Keeps(q)
  BY <1>1, <1>3, ReturnType DEF IInv, Keeps
<1>5. ThreadOK(p)'
  BY <1>4, AtReply
<1>6. CASE UNCHANGED accounts
  <2>1. TypeOK'
    BY <1>1, <1>4, <1>6, CountersType DEF IInv, TypeOK, accounts, tree
  <2> QED BY <1>1, <1>4, <1>5, <1>6, <2>1, ThreadOnly
<1>7. CASE /\ g \notin groups /\ NewGroup(g)
           /\ users' = users \cup {u}
           /\ members' = members \cup {<<u, <<g, made[g] + 1>>>>}
  <2>1. \A m \in members' : m \in members \/ m[2] = <<g, made[g] + 1>>
    BY <1>7
  <2>2. GroupsExist' /\ made' \in [GroupNames -> Nat] /\ groups' \subseteq GroupNames
    BY <1>1, <1>2, <1>7, <2>1, NewGroupKeeps DEF IInv, StoreInv
  <2>3. <<g, made[g] + 1>> \in GroupIds
    <3>1. made[g] \in Nat
      BY <1>2 DEF IInv, TypeOK
    <3> HIDE DEF g
    <3> QED BY <1>2, <3>1 DEF GroupIds
  <2>4. members' \subseteq Users \X GroupIds /\ users' \subseteq Users
    <3>1. members \subseteq Users \X GroupIds /\ users \subseteq Users
      BY DEF IInv, TypeOK
    <3> HIDE DEF u, g
    <3> QED BY <1>2, <1>7, <2>3, <3>1
  <2>5. TypeOK'
    BY <1>1, <1>4, <2>2, <2>4, CountersType DEF IInv, TypeOK, tree
  <2> QED BY <1>1, <1>4, <1>5, <2>2, <2>5, TreeLeft
<1> QED BY <1>6, <1>7 DEF CreateUser

\* The database after the migrations and some registrations.
LEMMA InitInv == Init => IInv
<1> SUFFICES ASSUME Init PROVE IInv
  OBVIOUS
<1>1. TypeOK
  <2>1. members \subseteq Users \X GroupIds
    BY NameAssumption DEF Init, GroupIds
  <2>2. RootNode \in [name: AllNames, kind: {"FILE", "DIR"}, parent: Ids \cup {0}, owner: Users \cup {Nobody}]
    BY DEF RootNode, AllNames
  <2>3. DefaultRights \in [user: Class, group: Class, all: Class]
    BY DEF DefaultRights, Class, Letters
  <2>4. RootId \in Ids
    BY BoundAssumption DEF RootId, Ids
  <2>5. "idle" \in Pcs /\ "none" \in Replies /\ NoRow \in FileIds /\ NullGroup \in FileIds
    BY DEF Pcs, Replies, FileIds
  <2>6. users \subseteq Users /\ groups \subseteq GroupNames
    BY NameAssumption DEF Init
  <2>7. nodes \subseteq Ids /\ nextId \in Nat
    BY <2>4 DEF Init, RootId
  <2> QED BY <2>1, <2>2, <2>3, <2>5, <2>6, <2>7 DEF Init, TypeOK
<1>2. TreeInv
  <2>1. RootId \in Ids
    BY BoundAssumption DEF RootId, Ids
  <2> QED BY <2>1 DEF Init, TreeInv, Rooted, UniqueNames, RootId
<1>3. GroupsExist
  <2>1. \A u \in Known : OwnGroup[u] \in GroupNames
    BY NameAssumption
  <2>2. \A m \in members : Exists(m[2])
    BY <2>1 DEF Init, Exists, Gid
  <2> QED BY <2>2 DEF Init, GroupsExist
<1>4. \A p \in Threads : ThreadOK(p)
  BY DEF Init, ThreadOK, CheckedPcs
<1> QED BY <1>1, <1>2, <1>3, <1>4 DEF IInv, StoreInv

\* A step of something else.
LEMMA StutterKeeps == ASSUME IInv, UNCHANGED vars PROVE IInv'
<1>1. UNCHANGED <<accounts, tree, rights, fileGroup, events, threads, spoiled, requests, faults>>
  BY DEF vars
<1>2. TypeOK'
  BY <1>1 DEF IInv, TypeOK, accounts, tree, threads
<1>3. TreeInv' /\ GroupsExist'
  BY <1>1, TreeStays, GroupsStay DEF IInv, StoreInv, accounts
<1>4. \A p \in Threads : ThreadOK(p)'
  BY <1>1 DEF IInv, StoreInv, ThreadOK, threads, tree
<1> QED BY <1>2, <1>3, <1>4 DEF IInv, StoreInv

\* Every step of the store keeps the invariant.
LEMMA NextKeeps == ASSUME IInv, [Next]_vars PROVE IInv'
<1>1. CASE UNCHANGED vars
  BY <1>1, StutterKeeps
<1>2. ASSUME NEW p \in Threads, NEW j \in Jobs, Start(p, j) PROVE IInv'
  BY <1>2, StartKeeps
<1>3. ASSUME NEW p \in Threads, FileStep(p) PROVE IInv'
  <2>1. CASE CreateResolve(p)
    BY <2>1, CreateResolveKeeps
  <2>2. CASE CreateInsert(p)
    BY <2>2, CreateInsertKeeps
  <2>3. CASE OwnerCheck(p)
    BY <2>3, OwnerCheckKeeps
  <2>4. CASE DeleteNodes(p)
    BY <2>4, DeleteNodesKeeps
  <2>11. CASE FindNode(p)
    BY <2>11, FindNodeKeeps
  <2>5. CASE SetUserRights(p)
    BY <2>5, SetRightsKeeps DEF SetUserRights
  <2>6. CASE SetGroupRights(p)
    BY <2>6, SetRightsKeeps DEF SetGroupRights
  <2>7. CASE SetAllRights(p)
    BY <2>7, SetRightsKeeps DEF SetAllRights
  <2>8. CASE RightsEvent(p)
    BY <2>8, RightsEventKeeps
  <2>9. CASE AccessCheck(p)
    BY <2>9, AccessCheckKeeps
  <2>10. CASE AccessEvent(p)
    BY <2>10, AccessEventKeeps
  <2> QED BY <1>3, <2>1, <2>2, <2>3, <2>4, <2>5, <2>6, <2>7, <2>8, <2>9, <2>10, <2>11 DEF FileStep
<1>4. ASSUME NEW p \in Threads, GroupStep(p) PROVE IInv'
  <2>1. CASE AddFileToGroup(p) \/ AddUserToGroup(p)
    BY <2>1, AddLooksUp
  <2>2. CASE CreateGroup(p) \/ DeleteGroup(p)
    BY <2>2, GroupLooksUp
  <2>3. CASE SetFileGroup(p)
    BY <2>3, SetFileGroupKeeps
  <2>4. CASE AddMember(p)
    BY <2>4, AddMemberKeeps
  <2>7. CASE AddGroup(p)
    BY <2>7, AddGroupKeeps
  <2>8. CASE RemoveGroup(p)
    BY <2>8, RemoveGroupKeeps
  <2>5. CASE Register(p)
    BY <2>5, RegisterKeeps
  <2>6. CASE CreateUser(p)
    BY <2>6, CreateUserKeeps
  <2> QED BY <1>4, <2>1, <2>2, <2>3, <2>4, <2>5, <2>6, <2>7, <2>8 DEF GroupStep
<1>5. ASSUME NEW p \in Threads, Respond(p) PROVE IInv'
  BY <1>5, RespondKeeps
<1> QED BY <1>1, <1>2, <1>3, <1>4, <1>5 DEF Next, Step

\* The inductive invariant holds in every reachable state.
THEOREM Invariance == Spec => []IInv
<1>1. Init => IInv
  BY InitInv
<1>2. IInv /\ [Next]_vars => IInv'
  BY NextKeeps
<1> QED BY <1>1, <1>2, PTL DEF Spec

\* Every row and every handler keeps its type: an event, for one, names a user
\* and a file id the sequence has given out.
THEOREM TypeCorrect == Spec => []TypeOK
<1>1. IInv => TypeOK
  BY DEF IInv
<1> QED BY <1>1, Invariance, PTL

\* However creations in a directory and deletions of it interleave, the nodes
\* are one tree: AddFileToPath's insert and DeleteFileByNameAndUser leave no orphan
\* and never take 'root'.
THEOREM TreeIsRooted == Spec => []Rooted
<1>1. IInv => Rooted
  BY DEF IInv, StoreInv, TreeInv
<1> QED BY <1>1, Invariance, PTL

\* Two concurrent creations of one name never both succeed, so the handlers that
\* look a file up by its name find one.
THEOREM NamesAreUnique == Spec => []UniqueNames
<1>1. IInv => UniqueNames
  BY DEF IInv, StoreInv, TreeInv
<1> QED BY <1>1, Invariance, PTL

\* After DeleteGroup, in any order with the handlers that put users and files in
\* groups, no row names the deleted group.
THEOREM NoDanglingGroup == Spec => []GroupsExist
<1>1. IInv => GroupsExist
  BY DEF IInv, StoreInv
<1> QED BY <1>1, Invariance, PTL

\* The conclusion of OwnersOnly for a node.
Authorised(n) == \E p \in Threads, top \in nodes :
    /\ pc[p] \in CheckedPcs
    /\ n \in Below(top) /\ node[top].name = job[p].file
    /\ node[top].owner = job[p].user \/ seen[p] \notin nodes

\* A thread past its check that finds a file by the name in its request has
\* found its own, unless its own is gone.
LEMMA BelowTop ==
    ASSUME IInv, NEW p \in Threads, pc[p] \in CheckedPcs,
           NEW top \in Named(job[p].file), NEW n \in Below(top)
    PROVE  Authorised(n)
<1>1. top \in nodes /\ node[top].name = job[p].file
  BY DEF Named
<1>2. node[top].owner = job[p].user \/ seen[p] \notin nodes
  <2>1. node[seen[p]].owner = job[p].user /\ node[seen[p]].name = job[p].file
    BY DEF IInv, StoreInv, ThreadOK
  <2>2. seen[p] \in nodes => seen[p] = top
    BY <1>1, <2>1 DEF IInv, StoreInv, TreeInv, UniqueNames
  <2> QED BY <2>1, <2>2
<1> QED BY <1>1, <1>2 DEF Authorised

\* A Set*Rights changes the rights of the file of that name only.
LEMMA SetRightsIsOwners ==
    ASSUME IInv, NEW p \in Threads, NEW at \in CheckedPcs, NEW class, NEW start, NEW next,
           SetRights(p, at, class, start, next),
           NEW n \in nodes, n \notin nodes' \/ rights'[n] # rights[n]
    PROVE  Authorised(n)
<1>1. pc[p] \in CheckedPcs /\ nodes' = nodes
  BY DEF SetRights, tree
<1>2. n \in Ids
  BY DEF IInv, TypeOK
<1>3. n \in Named(job[p].file)
  BY <1>1, <1>2 DEF SetRights
<1>4. n \in Below(n)
  BY DEF Below
<1> QED BY <1>1, <1>3, <1>4, BelowTop

\* The only steps that remove a node or change its rights come after a check.
LEMMA StepIsOwners ==
    ASSUME IInv, NEW p \in Threads, Step(p),
           NEW n \in nodes, n \notin nodes' \/ rights'[n] # rights[n]
    PROVE  Authorised(n)
<1>1. ~UNCHANGED <<nodes, rights>>
  OBVIOUS
<1>2. CASE CreateInsert(p)
  <2>1. n \in Ids /\ n # nextId
    <3>1. n < nextId /\ n \in Ids /\ nextId \in Nat
      BY DEF IInv, StoreInv, TreeInv, TypeOK
    <3>2. n \in Int
      BY <3>1, BoundAssumption DEF Ids
    <3> QED BY <3>1, <3>2
  <2> QED BY <1>2, <2>1 DEF CreateInsert, IInv, TypeOK, tree
<1>3. CASE DeleteNodes(p)
  <2>1. aim[p] \in nodes /\ n \in Below(aim[p])
    BY <1>1, <1>3 DEF DeleteNodes, Remove
  <2>2. pc[p] \in CheckedPcs /\ node[aim[p]].name = job[p].file
    BY <1>3 DEF DeleteNodes, CheckedPcs, IInv, StoreInv, ThreadOK
  <2> QED BY <2>1, <2>2, BelowTop DEF Named
<1>4. CASE SetUserRights(p) \/ SetGroupRights(p) \/ SetAllRights(p)
  <2>1. {"set_user", "set_group", "set_all"} \subseteq CheckedPcs
    BY DEF CheckedPcs
  <2> QED BY <1>4, <2>1, SetRightsIsOwners DEF SetUserRights, SetGroupRights, SetAllRights
<1>5. ~(CreateResolve(p) \/ OwnerCheck(p) \/ FindNode(p) \/ RightsEvent(p) \/ AccessCheck(p) \/ AccessEvent(p))
  BY <1>1 DEF CreateResolve, OwnerCheck, FindNode, RightsEvent, AccessCheck, AccessEvent, tree
<1>6. ~(GroupStep(p) \/ Respond(p))
  BY <1>1 DEF GroupStep, AddFileToGroup, SetFileGroup, AddUserToGroup, AddMember, CreateGroup,
              AddGroup, DeleteGroup, RemoveGroup, Register, CreateUser, Respond, tree
<1> QED BY <1>2, <1>3, <1>4, <1>5, <1>6 DEF Step, FileStep

\* OwnersOnly: no interleaving of handlers lets anybody but the owner (of the file
\* or of a directory above) delete a file or change its rights, but for the one
\* window the property names: the checked file is gone and another has its name.
THEOREM OwnersDecide == Spec => OwnersOnly
<1>1. ASSUME IInv, [Next]_vars, NEW n \in nodes, n \notin nodes' \/ rights'[n] # rights[n]
      PROVE  Authorised(n)
  <2>1. ~UNCHANGED vars
    BY <1>1 DEF vars, tree
  <2>2. \A p \in Threads, j \in Jobs : ~Start(p, j)
    BY <1>1 DEF Start, tree
  <2>3. PICK p \in Threads : Step(p)
    BY <1>1, <2>1, <2>2 DEF Next
  <2> QED BY <1>1, <2>3, StepIsOwners
<1>2. IInv /\ [Next]_vars =>
         [\A n \in nodes : n \notin nodes' \/ rights'[n] # rights[n] => Authorised(n)]_vars
  BY <1>1
<1>3. (\A n \in nodes : n \notin nodes' \/ rights'[n] # rights[n] => Authorised(n))
        <=> (\A n \in nodes : n \notin nodes' \/ rights'[n] # rights[n] =>
              \E p \in Threads, top \in nodes :
                /\ pc[p] \in CheckedPcs
                /\ n \in Below(top) /\ node[top].name = job[p].file
                /\ node[top].owner = job[p].user \/ seen[p] \notin nodes)
  BY DEF Authorised
<1> QED BY <1>2, <1>3, Invariance, PTL DEF Spec, OwnersOnly
=============================================================================
