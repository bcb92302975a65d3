--------------------------- MODULE PermissionStore ---------------------------
(***************************************************************************)
(* The files, their rights, the groups and the accounts kept in PostgreSQL,*)
(* and the Worker handlers that work on them.  A handler runs on a thread  *)
(* of the pool and is a sequence of transactions: one for each check it    *)
(* makes and one for each change, with the transactions of other threads in*)
(* between; what it carries from one to the next are the NAMES in the      *)
(* request, while the rows are tied together by ids.                       *)
(*                                                                         *)
(* One action is one transaction (a stored function), or a part of one: a  *)
(* function that creates, adds or deletes looks up ids in its first        *)
(* statements and uses them in a later one, read committed, and other      *)
(* transactions commit in between; these are two actions. The Update*ByMask*)
(* functions do so too, but an id is not used again, so that what they do  *)
(* is what one step does at the time of their UPDATE, or of the deletion   *)
(* that came before it. What one function of the checks reads is read at   *)
(* one moment.                                                             *)
(* Requests are those of users who are signed in (LoginSessions).          *)
(***************************************************************************)
EXTENDS Integers, Sequences

CONSTANTS
    Users,       \* logins
    Known,       \* logins registered before the model starts
    Roots,       \* logins whose users.root is TRUE (set by hand)
    GroupNames,  \* names of groups
    OwnGroup,    \* login -> the group name username || '_group'
    Names,       \* names of files and directories a user may type
    RootName,    \* 'root', the node of the migration
    Paths,       \* paths the client sends: "root/..." cut at the last slash
    Modes,       \* permission strings the dialog of rights may send
    Threads,     \* threads of the pool
    Ops,         \* the kinds of requests made
    Nobody,      \* no owner: permissions_user.user_id NULL
    NoRow,       \* no row in permissions_group
    NullGroup,   \* a row whose group_id is NULL
    MaxNodes,    \* bound: nodes ever made
    MaxGroups,   \* bound: times a group of one name is made
    MaxRequests, \* bound: requests
    MaxFaults    \* bound: statements that fail

AllNames == Names \cup {RootName}
Letters  == {"r", "w", "x"}

\* The right each operation on a file asks for.
RightOf   == [ReadFromFile |-> "r", WriteToFile |-> "w", ExecFile |-> "x"]
AccessOps == DOMAIN RightOf

\* permissions[i], i from 0: r, w, x of the user, of the group and of all.
Letter(i) == <<"r", "w", "x">>[1 + (i % 3)]
ModeStrings == {s \in [0..8 -> Letters \cup {"-"}] : \A i \in 0..8 : s[i] \in {"-", Letter(i)}}

ASSUME NameAssumption ==
    /\ Known \subseteq Users /\ Roots \subseteq Users /\ Nobody \notin Users
    /\ OwnGroup \in [Users -> GroupNames]
    /\ \A u, v \in Users : OwnGroup[u] = OwnGroup[v] => u = v
    /\ RootName \notin Names
ASSUME InputAssumption ==
    /\ Paths \subseteq Seq(AllNames) \ {<<>>}
    /\ Modes \subseteq ModeStrings
ASSUME GroupAssumption == {NoRow, NullGroup} \cap (GroupNames \X Nat) = {} /\ NoRow # NullGroup
ASSUME BoundAssumption == {MaxNodes, MaxGroups, MaxRequests, MaxFaults} \subseteq Nat /\ MaxNodes > 0

Ids == 1..MaxNodes          \* nodes.file_id, a SERIAL: never used twice
RootId == 1
GroupIds == GroupNames \X Nat   \* groups.group_id: the n-th group of a name

VARIABLES
    users,      \* logins with a row in users
    groups,     \* names with a row in groups
    made,       \* group name -> how many groups had it so far
    members,    \* rows of user_to_group
    nodes,      \* ids with a row in nodes
    node,       \* id -> what was inserted: name, type, parent_id and the owner
    rights,     \* id -> the columns can_* of its rows in permissions_*
    fileGroup,  \* id -> group_id of its row in permissions_group
    nextId,     \* the sequence of file_id
    events,     \* rows of events for reading, writing and executing
    pc, job,    \* thread -> the next transaction, and the request
    seen,       \* thread -> the id the name or path in its request had when it looked
    seenGroup,  \* thread -> the id it found for a group
    aim,        \* thread -> the id it is about to delete
    allSet,     \* thread -> the Set*Rights so far have all answered 't'
    reply,      \* thread -> the response it sends
    spoiled,    \* history: threads whose change of rights overlapped another of that file,
                \* or whose event was lost to an error
    requests, faults  \* counters of the bounds

accounts == <<users, groups, made, members>>
tree     == <<nodes, node, nextId>>
threads  == <<pc, job, seen, seenGroup, aim, allSet, reply>>
vars == <<accounts, tree, rights, fileGroup, events, threads, spoiled, requests, faults>>

Gid(g) == <<g, made[g]>>
Exists(gid) == gid[1] \in groups /\ gid = Gid(gid[1])

\* What the client's windows and menus ask for.
CreateJobs == [op: {"CreateFile", "CreateDir"}, user: Users, path: Paths, file: AllNames]
FileJobs   == [op: {"DeleteFile"} \cup AccessOps, user: Users, file: AllNames]
RightsJobs == [op: {"ChangeRights"}, user: Users, file: AllNames, mode: Modes]
AddFileJobs == [op: {"AddFileToGroup"}, user: Users, file: AllNames, group: GroupNames]
AddUserJobs == [op: {"AddUserToGroup"}, user: Users, group: GroupNames, login: Users]
GroupJobs  == [op: {"CreateGroup", "DeleteGroup"}, user: Users, group: GroupNames]
RegisterJobs == [op: {"Registrate"}, user: Users]
Jobs == CreateJobs \cup FileJobs \cup RightsJobs \cup AddFileJobs \cup AddUserJobs
        \cup GroupJobs \cup RegisterJobs
NoJob == [op |-> "None"]

Replies == {"none", "Success", "Path Error", "File exists", "Directory not found", "No access",
            "Wrong", "Group Not Found", "File Not Found", "File Already Added",
            "Already Exists", "Exists", "Error"}

-----------------------------------------------------------------------------
DefaultRights == [user |-> Letters, group |-> {"r", "x"}, all |-> {"r", "x"}]
RootNode == [name |-> RootName, kind |-> "DIR", parent |-> 0, owner |-> Nobody]

Init ==
    /\ users = Known
    /\ groups = {OwnGroup[u] : u \in Known}
    /\ made = [g \in GroupNames |-> IF \E u \in Known : g = OwnGroup[u] THEN 1 ELSE 0]
    /\ members = {<<u, <<OwnGroup[u], 1>>>> : u \in Known}
    /\ nodes = {RootId}
    /\ node = [n \in Ids |-> RootNode]
    /\ rights = [n \in Ids |-> DefaultRights]
    /\ fileGroup = [n \in Ids |-> IF n = RootId THEN NullGroup ELSE NoRow]
    /\ nextId = RootId + 1
    /\ events = {}
    /\ pc = [p \in Threads |-> "idle"]
    /\ job = [p \in Threads |-> NoJob]
    /\ seen = [p \in Threads |-> 0]
    /\ seenGroup = [p \in Threads |-> NullGroup]
    /\ aim = [p \in Threads |-> 0]
    /\ allSet = [p \in Threads |-> TRUE]
    /\ reply = [p \in Threads |-> "none"]
    /\ spoiled = {} /\ requests = 0 /\ faults = 0

-----------------------------------------------------------------------------
(* What the stored functions read. *)

Named(f) == {n \in nodes : node[n].name = f}

\* Mutant: the parts of a path may be files.
WalksFiles(path, ids) ==
    /\ ids \in [1..Len(path) -> nodes]
    /\ \A i \in 1..Len(path) :
          /\ node[ids[i]].name = path[i]
          /\ \/ node[ids[i]].parent = 0
             \/ i > 1 /\ node[ids[i]].parent = ids[i - 1]

\* The walk of AddFileToPath: every part is a directory under the one before it
\* (or one without a parent).
Walks(path, ids) ==
    /\ ids \in [1..Len(path) -> nodes]
    /\ \A i \in 1..Len(path) :
          /\ node[ids[i]].name = path[i] /\ node[ids[i]].kind = "DIR"
          /\ \/ node[ids[i]].parent = 0
             \/ i > 1 /\ node[ids[i]].parent = ids[i - 1]

\* The directory a path leads to, if it does.
Target(path) == {n \in Named(path[Len(path)]) :
                    \E ids \in [1..Len(path) -> nodes] : Walks(path, ids) /\ ids[Len(path)] = n}

\* The node and all below it (WITH RECURSIVE nodes_to_delete).
Below(top) == {n \in nodes :
    \A S \in SUBSET nodes :
        top \in S /\ (\A k \in nodes : node[k].parent \in S => k \in S) => n \in S}

\* The name of a file's group, if it has one.
GetNodeGroup(n) == {g \in groups : fileGroup[n] = Gid(g)}

\* IsUserInGroup, with the name that GetNodeGroup returns.
InGroup(u, n) == \E g \in GetNodeGroup(n) : <<u, Gid(g)>> \in members

\* CheckUserRightsTo{Read,Write,Exec}
HasRight(u, f, r) == \E n \in Named(f) :
    \/ r \in rights[n].all
    \/ r \in rights[n].group /\ InGroup(u, n)
    \/ r \in rights[n].user /\ node[n].owner = u

\* IsUserOwnerOrRoot: its is_root is a variable nobody sets, so that the root
\* flag counts for nothing, and NULL for a file without an owner.
IsRootOrOwner(u, f) == \E n \in Named(f) : node[n].owner = u

-----------------------------------------------------------------------------
(* The permission string: SetMask, the UPDATE by mask and the column of the   *)
(* file list.                                                                 *)
Shift(k) == <<1, 2, 4>>[k + 1]

\* Mutant: 1 << i.
SetMaskWide(start, s) ==
    LET bit(i) == IF s[i] # "-" THEN 2 ^ i ELSE 0
    IN  bit(start) + bit(start + 1) + bit(start + 2)

SetMask(start, s) ==
    LET bit(i) == IF s[i] # "-" THEN Shift(i % 3) ELSE 0
    IN  bit(start) + bit(start + 1) + bit(start + 2)

Granted(mask) == {Letter(k) : k \in {j \in 0..2 : (mask \div Shift(j)) % 2 = 1}}

\* permissions of GetFileTreeWithPermissions
Shown(n) == [i \in 0..8 |->
    LET can == IF i < 3 THEN rights[n].user
               ELSE IF i < 6 THEN IF fileGroup[n] = NoRow THEN {} ELSE rights[n].group
               ELSE rights[n].all
    IN  IF Letter(i) \in can THEN Letter(i) ELSE "-"]

-----------------------------------------------------------------------------
(* The threads. *)
FirstPc(op) == CASE op \in {"CreateFile", "CreateDir"} -> "resolve"
                 [] op \in {"DeleteFile", "ChangeRights"} -> "check"
                 [] op \in AccessOps -> "access"
                 [] op = "AddFileToGroup" -> "add_file"
                 [] op = "AddUserToGroup" -> "add_user"
                 [] op = "CreateGroup" -> "create_group"
                 [] op = "DeleteGroup" -> "delete_group"
                 [] op = "Registrate" -> "register"

Start(p, j) ==
    /\ pc[p] = "idle"
    /\ requests < MaxRequests
    /\ requests' = requests + 1
    /\ j.op \in Ops
    /\ j.op = "Registrate" \/ j.user \in users
    /\ pc' = [pc EXCEPT ![p] = FirstPc(j.op)]
    /\ job' = [job EXCEPT ![p] = j]
    /\ UNCHANGED <<accounts, tree, rights, fileGroup, events, seen, seenGroup, aim, allSet, reply, spoiled, faults>>

Goto(p, l) == pc' = [pc EXCEPT ![p] = l]

\* The transaction is over and the handler has its result.
Return(p, r) == /\ pc' = [pc EXCEPT ![p] = "reply"]
                /\ reply' = [reply EXCEPT ![p] = r]

\* A statement throws: the transaction is rolled back.
Fault == faults < MaxFaults /\ faults' = faults + 1

\* SendResponse
Respond(p) ==
    /\ pc[p] = "reply"
    /\ Goto(p, "idle")
    /\ job' = [job EXCEPT ![p] = NoJob]
    /\ seen' = [seen EXCEPT ![p] = 0]
    /\ seenGroup' = [seenGroup EXCEPT ![p] = NullGroup]
    /\ aim' = [aim EXCEPT ![p] = 0]
    /\ allSet' = [allSet EXCEPT ![p] = TRUE]
    /\ reply' = [reply EXCEPT ![p] = "none"]
    /\ spoiled' = spoiled \ {p}
    /\ UNCHANGED <<accounts, tree, rights, fileGroup, events, requests, faults>>

-----------------------------------------------------------------------------
(* CreateFile and CreateDir. *)

\* The reads of AddFileToPath and AddDirectoryToPath.
CreateResolve(p) ==
    LET j == job[p]
    IN  /\ pc[p] = "resolve"
        /\ \/ /\ Target(j.path) = {}
              /\ Return(p, "Path Error")
              /\ UNCHANGED <<seen, seenGroup, faults>>
           \/ /\ \E n \in Named(j.file) : node[n].parent \in Target(j.path)
              /\ Return(p, "File exists")
              /\ UNCHANGED <<seen, seenGroup, faults>>
           \/ \E d \in Target(j.path) :
              /\ \A n \in Named(j.file) : node[n].parent # d
              /\ seen' = [seen EXCEPT ![p] = d]
              /\ seenGroup' = [seenGroup EXCEPT ![p] =
                     IF OwnGroup[j.user] \in groups THEN Gid(OwnGroup[j.user]) ELSE NullGroup]
              /\ Goto(p, "insert")
              /\ UNCHANGED <<reply, faults>>
           \/ Fault /\ Return(p, "Error") /\ UNCHANGED <<seen, seenGroup>>
        /\ UNCHANGED <<accounts, tree, rights, fileGroup, events, job, aim, allSet, spoiled, requests>>

\* Mutant: nodes.parent_id without its REFERENCES.
InsertableOrphan(p) ==
    /\ Named(job[p].file) = {}
    /\ seenGroup[p] # NullGroup => Exists(seenGroup[p])

\* Mutant: nodes.name without its UNIQUE.
InsertableTwice(p) ==
    /\ seen[p] \in nodes
    /\ seenGroup[p] # NullGroup => Exists(seenGroup[p])

\* What PostgreSQL checks of the new rows: the name is free, the parent and the
\* group are there.
Insertable(p) ==
    /\ Named(job[p].file) = {}
    /\ seen[p] \in nodes
    /\ seenGroup[p] # NullGroup => Exists(seenGroup[p])

\* A directory has a row in permissions_group even when its owner's group is
\* gone, a file has not.
CreateInsert(p) ==
    LET j == job[p]
        id == nextId
    IN  /\ pc[p] = "insert"
        /\ \/ /\ Insertable(p)
              /\ id <= MaxNodes
              /\ nextId' = id + 1
              /\ nodes' = nodes \cup {id}
              /\ node' = [node EXCEPT ![id] =
                    [name |-> j.file, parent |-> seen[p], owner |-> j.user,
                     kind |-> IF j.op = "CreateDir" THEN "DIR" ELSE "FILE"]]
              /\ rights' = [rights EXCEPT ![id] = DefaultRights]
              /\ fileGroup' = [fileGroup EXCEPT ![id] =
                    IF j.op = "CreateFile" /\ seenGroup[p] = NullGroup THEN NoRow ELSE seenGroup[p]]
              /\ Return(p, "Success")
              /\ UNCHANGED faults
           \/ /\ \/ ~Insertable(p) /\ UNCHANGED faults
                 \/ Fault
              /\ Return(p, "Error")
              /\ UNCHANGED <<tree, rights, fileGroup>>
        /\ UNCHANGED <<accounts, events, job, seen, seenGroup, aim, allSet, spoiled, requests>>

-----------------------------------------------------------------------------
(* DeleteFile and ChangeRights. *)

\* The transactions of a ChangeRights from its check on.
SetPcs == {"set_user", "set_group", "set_all", "rights_event"}

\* Mutant: the result of IsRootOrOwner is not asked before the change of rights.
OwnerCheckDropped(p) ==
    /\ pc[p] = "check"
    /\ Goto(p, IF job[p].op = "DeleteFile" THEN "delete" ELSE "set_user")
    /\ \E n \in Named(job[p].file) : seen' = [seen EXCEPT ![p] = n]
    /\ UNCHANGED <<accounts, tree, rights, fileGroup, events, job, seenGroup, aim, allSet, reply, spoiled, requests, faults>>

\* IsRootOrOwner; its catch answers false.
OwnerCheck(p) ==
    LET j == job[p]
        others == {q \in Threads \ {p} : pc[q] \in SetPcs /\ job[q].file = j.file}
    IN  /\ pc[p] = "check"
        /\ \/ /\ IsRootOrOwner(j.user, j.file)
              /\ \E n \in Named(j.file) : seen' = [seen EXCEPT ![p] = n]
              /\ IF j.op = "DeleteFile"
                 THEN Goto(p, "delete") /\ UNCHANGED spoiled
                 ELSE /\ Goto(p, "set_user")
                      /\ spoiled' = IF others = {} THEN spoiled ELSE spoiled \cup others \cup {p}
              /\ UNCHANGED <<reply, faults>>
           \/ /\ \/ ~IsRootOrOwner(j.user, j.file) /\ UNCHANGED faults
                 \/ Fault
              /\ Return(p, "No access")
              /\ UNCHANGED <<seen, spoiled>>
        /\ UNCHANGED <<accounts, tree, rights, fileGroup, events, job, seenGroup, aim, allSet, requests>>

\* Rows that refer to a node go with it (ON DELETE CASCADE).
Remove(gone) ==
    /\ nodes' = nodes \ gone
    /\ fileGroup' = [n \in Ids |-> IF n \in gone THEN NoRow ELSE fileGroup[n]]
    /\ events' = {e \in events : e.node \notin gone}

\* DeleteFileByNameAndUser, the SELECT: the file of that name now.
FindNode(p) ==
    /\ pc[p] = "delete"
    /\ \/ /\ Named(job[p].file) = {}
          /\ Return(p, "Directory not found")
          /\ UNCHANGED <<aim, faults>>
       \/ /\ \E n \in Named(job[p].file) : aim' = [aim EXCEPT ![p] = n]
          /\ Goto(p, "delete_rows")
          /\ UNCHANGED <<reply, faults>>
       \/ Fault /\ Return(p, "Error") /\ UNCHANGED aim
    /\ UNCHANGED <<accounts, tree, rights, fileGroup, events, job, seen, seenGroup, allSet, spoiled, requests>>

\* And the DELETE: the whole subtree, whoever owns the nodes in it. Where another
\* deletion was first there is nothing to delete, which is "Success" too.
DeleteNodes(p) ==
    /\ pc[p] = "delete_rows"
    /\ \/ /\ Remove(IF aim[p] \in nodes THEN Below(aim[p]) ELSE {})
          /\ Return(p, "Success")
          /\ UNCHANGED faults
       \/ Fault /\ Return(p, "Error") /\ UNCHANGED <<nodes, fileGroup, events>>
    /\ UNCHANGED <<accounts, node, nextId, rights, job, seen, seenGroup, aim, allSet, spoiled, requests>>

\* Set{User,Group,All}Rights: one transaction each, its answer 't' when there
\* was a row to update; the next one is made whatever it answered.
SetRights(p, at, class, start, next) ==
    LET j == job[p]
        rows == {n \in Named(j.file) : class = "group" => fileGroup[n] # NoRow}
    IN  /\ pc[p] = at
        /\ \/ /\ rights' = [n \in Ids |-> IF n \in rows
                               THEN [rights[n] EXCEPT ![class] = Granted(SetMask(start, j.mode))]
                               ELSE rights[n]]
              /\ allSet' = [allSet EXCEPT ![p] = @ /\ rows # {}]
              /\ UNCHANGED faults
           \/ Fault /\ allSet' = [allSet EXCEPT ![p] = FALSE] /\ UNCHANGED rights
        /\ Goto(p, next)
        /\ UNCHANGED <<accounts, tree, fileGroup, events, job, seen, seenGroup, aim, reply, spoiled, requests>>

SetUserRights(p)  == SetRights(p, "set_user", "user", 0, "set_group")
SetGroupRights(p) == SetRights(p, "set_group", "group", 3, "set_all")
SetAllRights(p)   == SetRights(p, "set_all", "all", 6, "rights_event")

\* AddEvent, which takes a file that is gone for NULL, and the result.
RightsEvent(p) ==
    /\ pc[p] = "rights_event"
    /\ \/ Return(p, IF allSet[p] THEN "Success" ELSE "Wrong") /\ UNCHANGED faults
       \/ Fault /\ Return(p, "Error")
    /\ UNCHANGED <<accounts, tree, rights, fileGroup, events, job, seen, seenGroup, aim, allSet, spoiled, requests>>

-----------------------------------------------------------------------------
(* ReadFromFile, WriteToFile and ExecFile. *)

\* CheckUserRightsTo... and, when it answers false or fails, IsRoot.
AccessCheck(p) ==
    LET j == job[p]
        may == HasRight(j.user, j.file, RightOf[j.op])
        isRoot == j.user \in Roots
    IN  /\ pc[p] = "access"
        /\ \/ /\ may \/ isRoot
              /\ seen' = [seen EXCEPT ![p] =
                    IF Named(j.file) = {} THEN 0 ELSE CHOOSE n \in Named(j.file) : TRUE]
              /\ Goto(p, "event")
              /\ UNCHANGED <<reply, faults>>
           \/ /\ \/ ~may /\ ~isRoot /\ UNCHANGED faults
                 \/ ~(may /\ isRoot) /\ Fault
              /\ Return(p, "No access")
              /\ UNCHANGED seen
        /\ UNCHANGED <<accounts, tree, rights, fileGroup, events, job, seenGroup, aim, allSet, spoiled, requests>>

\* Mutant: the function returns before work.commit().
AccessEventLost(p) ==
    /\ pc[p] = "event"
    /\ Return(p, "Success")
    /\ UNCHANGED <<accounts, tree, rights, fileGroup, events, job, seen, seenGroup, aim, allSet, spoiled, requests, faults>>

\* Mutant: events.file_id without its REFERENCES.
AccessEventDangling(p) ==
    LET j == job[p]
        id == IF Named(j.file) = {} THEN 0 ELSE CHOOSE n \in Named(j.file) : TRUE
    IN  /\ pc[p] = "event"
        /\ events' = events \cup {[node |-> id, user |-> j.user, right |-> RightOf[j.op]]}
        /\ Return(p, "Success")
        /\ UNCHANGED <<accounts, tree, rights, fileGroup, job, seen, seenGroup, aim, allSet, spoiled, requests, faults>>

\* Add{Read,Write,Exec}Event. FileId's 0 for a file that is gone violates the
\* foreign key; the error is caught, and the answer is Success all the same.
AccessEvent(p) ==
    LET j == job[p]
    IN  /\ pc[p] = "event"
        /\ \/ /\ events' = events \cup {[node |-> n, user |-> j.user, right |-> RightOf[j.op]] : n \in Named(j.file)}
              /\ UNCHANGED <<spoiled, faults>>
           \/ Fault /\ spoiled' = spoiled \cup {p} /\ UNCHANGED events
        /\ Return(p, "Success")
        /\ UNCHANGED <<accounts, tree, rights, fileGroup, job, seen, seenGroup, aim, allSet, requests>>

-----------------------------------------------------------------------------
(* Groups and accounts; IsRoot is one look at a flag that never changes. *)

\* AddFileToGroup, its SELECTs.
AddFileToGroup(p) ==
    LET j == job[p]
    IN  /\ pc[p] = "add_file"
        /\ \/ /\ j.group \notin groups
              /\ Return(p, "Group Not Found") /\ UNCHANGED <<seen, seenGroup, faults>>
           \/ /\ j.group \in groups /\ Named(j.file) = {}
              /\ Return(p, "File Not Found") /\ UNCHANGED <<seen, seenGroup, faults>>
           \/ \E n \in Named(j.file) :
              /\ j.group \in groups /\ fileGroup[n] = Gid(j.group)
              /\ Return(p, "File Already Added") /\ UNCHANGED <<seen, seenGroup, faults>>
           \/ \E n \in Named(j.file) :
              /\ j.group \in groups /\ fileGroup[n] # Gid(j.group)
              /\ seen' = [seen EXCEPT ![p] = n]
              /\ seenGroup' = [seenGroup EXCEPT ![p] = Gid(j.group)]
              /\ Goto(p, "file_row") /\ UNCHANGED <<reply, faults>>
           \/ Fault /\ Return(p, "Error") /\ UNCHANGED <<seen, seenGroup>>
        /\ UNCHANGED <<accounts, tree, rights, fileGroup, events, job, aim, allSet, spoiled, requests>>

\* Its UPDATE. Where the file has no row in permissions_group, or is gone, it changes
\* nothing, and the answer is Success; a row cannot name a group that is gone.
SetFileGroup(p) ==
    LET hasRow == fileGroup[seen[p]] # NoRow
    IN  /\ pc[p] = "file_row"
        /\ \/ /\ hasRow => Exists(seenGroup[p])
              /\ fileGroup' = [fileGroup EXCEPT ![seen[p]] = IF hasRow THEN seenGroup[p] ELSE NoRow]
              /\ Return(p, "Success") /\ UNCHANGED faults
           \/ /\ \/ hasRow /\ ~Exists(seenGroup[p]) /\ UNCHANGED faults
                 \/ Fault
              /\ Return(p, "Error") /\ UNCHANGED fileGroup
        /\ UNCHANGED <<accounts, tree, rights, events, job, seen, seenGroup, aim, allSet, spoiled, requests>>

\* AddUserToGroup, its SELECTs; UserID's 0 for an unknown login is going to violate
\* the foreign key.
AddUserToGroup(p) ==
    LET j == job[p]
    IN  /\ pc[p] = "add_user"
        /\ \/ /\ j.user \notin Roots
              /\ Return(p, "No access") /\ UNCHANGED <<seenGroup, faults>>
           \/ /\ j.user \in Roots /\ j.group \notin groups
              /\ Return(p, "Group Not Found") /\ UNCHANGED <<seenGroup, faults>>
           \/ /\ j.user \in Roots /\ j.group \in groups /\ j.login \in users
              /\ seenGroup' = [seenGroup EXCEPT ![p] = Gid(j.group)]
              /\ Goto(p, "member_row") /\ UNCHANGED <<reply, faults>>
           \/ /\ j.user \in Roots /\ j.group \in groups /\ j.login \notin users
              /\ Return(p, "Error") /\ UNCHANGED <<seenGroup, faults>>
           \/ /\ Fault
              /\ \E r \in {"No access", "Error"} : Return(p, r)
              /\ UNCHANGED seenGroup
        /\ UNCHANGED <<accounts, tree, rights, fileGroup, events, job, seen, aim, allSet, spoiled, requests>>

\* Its INSERT.
AddMember(p) ==
    /\ pc[p] = "member_row"
    /\ \/ /\ Exists(seenGroup[p])
          /\ members' = members \cup {<<job[p].login, seenGroup[p]>>}
          /\ Return(p, "Success") /\ UNCHANGED faults
       \/ /\ \/ ~Exists(seenGroup[p]) /\ UNCHANGED faults
             \/ Fault
          /\ Return(p, "Error") /\ UNCHANGED members
    /\ UNCHANGED <<users, groups, made, tree, rights, fileGroup, events, job, seen, seenGroup, aim, allSet, spoiled, requests>>

\* A new group of this name.
NewGroup(g) ==
    /\ made[g] < MaxGroups
    /\ made' = [made EXCEPT ![g] = @ + 1]
    /\ groups' = groups \cup {g}

\* CreateGroup, its SELECT. The "No access" of the switch is overwritten by the
\* call's result.
CreateGroup(p) ==
    LET g == job[p].group
    IN  /\ pc[p] = "create_group"
        /\ \/ /\ g \in groups
              /\ Return(p, "Already Exists") /\ UNCHANGED faults
           \/ /\ g \notin groups
              /\ Goto(p, "group_row") /\ UNCHANGED <<reply, faults>>
           \/ Fault /\ Return(p, "Error")
        /\ UNCHANGED <<accounts, tree, rights, fileGroup, events, job, seen, seenGroup, aim, allSet, spoiled, requests>>

\* Its INSERT, which the UNIQUE of the name refuses to the second of two.
AddGroup(p) ==
    LET g == job[p].group
    IN  /\ pc[p] = "group_row"
        /\ \/ /\ g \notin groups
              /\ NewGroup(g)
              /\ Return(p, "Success") /\ UNCHANGED faults
           \/ /\ \/ g \in groups /\ UNCHANGED faults
                 \/ Fault
              /\ Return(p, "Error") /\ UNCHANGED <<groups, made>>
        /\ UNCHANGED <<users, members, tree, rights, fileGroup, events, job, seen, seenGroup, aim, allSet, spoiled, requests>>

\* DeleteGroup, its SELECT.
DeleteGroup(p) ==
    LET g == job[p].group
    IN  /\ pc[p] = "delete_group"
        /\ \/ /\ g \notin groups
              /\ Return(p, "Group Not Found") /\ UNCHANGED <<seenGroup, faults>>
           \/ /\ g \in groups
              /\ seenGroup' = [seenGroup EXCEPT ![p] = Gid(g)]
              /\ Goto(p, "group_gone") /\ UNCHANGED <<reply, faults>>
           \/ Fault /\ Return(p, "Error") /\ UNCHANGED seenGroup
        /\ UNCHANGED <<accounts, tree, rights, fileGroup, events, job, seen, aim, allSet, spoiled, requests>>

\* Mutant: permissions_group.group_id without its REFERENCES.
RemoveGroupOnly(p) ==
    /\ pc[p] = "group_gone"
    /\ members' = {m \in members : m[2] # seenGroup[p]}
    /\ groups' = {g \in groups : Gid(g) # seenGroup[p]}
    /\ Return(p, "Success")
    /\ UNCHANGED <<users, made, tree, rights, fileGroup, events, job, seen, seenGroup, aim, allSet, spoiled, requests, faults>>

\* Its DELETEs: members first, then the group, with which the rows of
\* permissions_group that name it go (ON DELETE CASCADE): its files keep no such
\* row. If it is gone already that is "Success" too. A membership that comes
\* between the two DELETEs makes the second one fail: one of the faults.
RemoveGroup(p) ==
    /\ pc[p] = "group_gone"
    /\ \/ /\ members' = {m \in members : m[2] # seenGroup[p]}
          /\ groups' = {g \in groups : Gid(g) # seenGroup[p]}
          /\ fileGroup' = [n \in Ids |-> IF fileGroup[n] = seenGroup[p] THEN NoRow ELSE fileGroup[n]]
          /\ Return(p, "Success") /\ UNCHANGED faults
       \/ Fault /\ Return(p, "Error") /\ UNCHANGED <<groups, members, fileGroup>>
    /\ UNCHANGED <<users, made, tree, rights, events, job, seen, seenGroup, aim, allSet, spoiled, requests>>

\* Registrate: UserID, whose -1 for a failed query reads as "Exists".
Register(p) ==
    /\ pc[p] = "register"
    /\ \/ /\ job[p].user \in users /\ UNCHANGED faults
          /\ Return(p, "Exists")
       \/ Fault /\ Return(p, "Exists")
       \/ /\ job[p].user \notin users
          /\ Goto(p, "create_user")
          /\ UNCHANGED <<reply, faults>>
    /\ UNCHANGED <<accounts, tree, rights, fileGroup, events, job, seen, seenGroup, aim, allSet, spoiled, requests>>

\* CreateUser makes the account, its group and the membership, or nothing when
\* the login or the name of the group is taken; "Success" whatever happened.
CreateUser(p) ==
    LET u == job[p].user
        g == OwnGroup[u]
    IN  /\ pc[p] = "create_user"
        /\ \/ /\ u \notin users /\ g \notin groups
              /\ NewGroup(g)
              /\ users' = users \cup {u}
              /\ members' = members \cup {<<u, <<g, made[g] + 1>>>>}
              /\ UNCHANGED faults
           \/ /\ \/ (u \in users \/ g \in groups) /\ UNCHANGED faults
                 \/ Fault
              /\ UNCHANGED accounts
        /\ Return(p, "Success")
        /\ UNCHANGED <<tree, rights, fileGroup, events, job, seen, seenGroup, aim, allSet, spoiled, requests>>

-----------------------------------------------------------------------------
FileStep(p) ==
    \/ CreateResolve(p) \/ CreateInsert(p) \/ OwnerCheck(p) \/ FindNode(p) \/ DeleteNodes(p)
    \/ SetUserRights(p) \/ SetGroupRights(p) \/ SetAllRights(p) \/ RightsEvent(p)
    \/ AccessCheck(p) \/ AccessEvent(p)
GroupStep(p) ==
    \/ AddFileToGroup(p) \/ SetFileGroup(p) \/ AddUserToGroup(p) \/ AddMember(p)
    \/ CreateGroup(p) \/ AddGroup(p) \/ DeleteGroup(p) \/ RemoveGroup(p)
    \/ Register(p) \/ CreateUser(p)
Step(p) == FileStep(p) \/ GroupStep(p) \/ Respond(p)

Next == \E p \in Threads : Step(p) \/ \E j \in Jobs : Start(p, j)

Spec == Init /\ [][Next]_vars

-----------------------------------------------------------------------------
(* Properties. *)

Pcs == {"idle", "resolve", "insert", "check", "delete", "delete_rows", "access", "event", "reply",
        "add_file", "file_row", "add_user", "member_row", "create_group", "group_row",
        "delete_group", "group_gone", "register", "create_user"} \cup SetPcs
FileIds == GroupIds \cup {NoRow, NullGroup}
Class == SUBSET Letters

TypeOK ==
    /\ users \subseteq Users /\ groups \subseteq GroupNames
    /\ made \in [GroupNames -> Nat]
    /\ members \subseteq Users \X GroupIds
    /\ nodes \subseteq Ids /\ nextId \in Nat
    /\ node \in [Ids -> [name: AllNames, kind: {"FILE", "DIR"}, parent: Ids \cup {0},
                         owner: Users \cup {Nobody}]]
    /\ rights \in [Ids -> [user: Class, group: Class, all: Class]]
    /\ fileGroup \in [Ids -> FileIds]
    /\ events \subseteq [node: Ids, user: Users, right: Letters]
    /\ pc \in [Threads -> Pcs]
    /\ job \in [Threads -> Jobs \cup {NoJob}]
    /\ seen \in [Threads -> Ids \cup {0}]
    /\ seenGroup \in [Threads -> GroupIds \cup {NullGroup}]
    /\ aim \in [Threads -> Ids \cup {0}]
    /\ allSet \in [Threads -> BOOLEAN]
    /\ reply \in [Threads -> Replies]
    /\ spoiled \subseteq Threads /\ requests \in Nat /\ faults \in Nat

\* The nodes form one tree under 'root', however creations in a directory
\* and deletions of it interleave: every other node has a directory above it
\* that was made before, so GetFileTreeWithPermissions lists all of them. And
\* 'root' stays: no request deletes it.
Rooted ==
    /\ RootId \in nodes
    /\ \A n \in nodes \ {RootId} :
          /\ node[n].parent \in nodes /\ node[n].parent < n
          /\ node[node[n].parent].kind = "DIR"

\* A name is one node's: every handler finds its file by the name alone.
UniqueNames == \A m, n \in nodes : node[m].name = node[n].name => m = n

\* No row names a group that is gone: who was a member of a deleted group is
\* not one of a new group of that name, and its files are not the new one's.
GroupsExist ==
    /\ \A m \in members : Exists(m[2])
    /\ \A n \in Ids : fileGroup[n] \notin {NoRow, NullGroup} => Exists(fileGroup[n])

\* The transactions that change what IsRootOrOwner was asked about.
CheckedPcs == {"delete", "delete_rows", "set_user", "set_group", "set_all"}

\* Rights change and files disappear only on request of their owner, or of the
\* owner of a directory above; or of somebody whose file of that name was
\* deleted after he was checked.
OwnersOnly == [][\A n \in nodes : n \notin nodes' \/ rights'[n] # rights[n] =>
    \E p \in Threads, top \in nodes :
        /\ pc[p] \in CheckedPcs
        /\ n \in Below(top) /\ node[top].name = job[p].file
        /\ node[top].owner = job[p].user \/ seen[p] \notin nodes]_vars

\* When a change of rights comes to its "Success", the file list shows what the
\* dialog asked for, three transactions and two conversions before; unless another
\* change of that file was under way at one time with it.
RightsAsAsked == \A p \in Threads :
    /\ pc[p] = "rights_event" /\ allSet[p] /\ p \notin spoiled
    /\ seen[p] \in nodes /\ fileGroup[seen[p]] # NoRow
    => Shown(seen[p]) = job[p].mode

\* Who read, wrote or executed a file that still exists is in its log.
AccessLogged == \A p \in Threads :
    /\ pc[p] = "reply" /\ job[p].op \in AccessOps /\ reply[p] = "Success"
    /\ p \notin spoiled /\ seen[p] \in nodes
    => [node |-> seen[p], user |-> job[p].user, right |-> RightOf[job[p].op]] \in events

\* 20241201_05:58 'File "..." added to group "..."': a file answered to have been
\* added to a group has the group's row (unless it is gone).
AddedIsInGroup == [][\A p \in Threads :
    pc[p] = "file_row" /\ reply'[p] = "Success" /\ seen[p] \in nodes =>
        fileGroup'[seen[p]] = seenGroup[p]]_vars

\* 20241202_01:25 "the user is the owner of the file or root": only those who
\* are neither are refused (a file that has an owner).
RootIsAllowed == [][\A p \in Threads :
    /\ pc[p] = "check" /\ reply'[p] = "No access"
    /\ \E n \in Named(job[p].file) : node[n].owner \in Users
    => job[p].user \notin Roots]_vars

\* hello_window.cpp:71 "Success registration": there is an account then.
RegisteredIsUser == \A p \in Threads :
    job[p].op = "Registrate" /\ reply[p] = "Success" => job[p].user \in users
-----------------------------------------------------------------------------
(* The invariant that carries Rooted, UniqueNames, GroupsExist and OwnersOnly *)
(* (its induction is in PermissionStoreProofs).                               *)

TreeInv ==
    /\ nextId > RootId /\ \A n \in nodes : n < nextId
    /\ node[RootId] = RootNode
    /\ Rooted /\ UniqueNames

\* The request fits the transaction; a parent was a directory; a checked file
\* was the user's own, which 'root' never is; the one about to be deleted has that
\* name, and is the checked one unless that is gone.
ThreadOK(p) ==
    /\ pc[p] \in {"resolve", "insert"} => job[p].op \in {"CreateFile", "CreateDir"}
    /\ pc[p] \in {"check"} \cup CheckedPcs => job[p].op \in {"DeleteFile", "ChangeRights"}
    /\ pc[p] \in CheckedPcs \ {"delete", "delete_rows"} => job[p].op = "ChangeRights"
    /\ pc[p] \in {"access", "event"} => job[p].op \in AccessOps
    /\ pc[p] \in {"add_file", "file_row"} => job[p].op = "AddFileToGroup"
    /\ pc[p] \in {"add_user", "member_row"} => job[p].op = "AddUserToGroup"
    /\ pc[p] \in {"create_group", "group_row"} => job[p].op = "CreateGroup"
    /\ pc[p] \in {"delete_group", "group_gone"} => job[p].op = "DeleteGroup"
    /\ pc[p] \in {"register", "create_user"} => job[p].op = "Registrate"
    /\ pc[p] = "insert" =>
           seen[p] \in Ids /\ seen[p] < nextId /\ node[seen[p]].kind = "DIR"
    /\ pc[p] \in CheckedPcs =>
           /\ seen[p] \in Ids /\ seen[p] < nextId
           /\ job[p].file # RootName
           /\ node[seen[p]].owner = job[p].user /\ node[seen[p]].name = job[p].file
    /\ pc[p] \in {"delete", "delete_rows"} => job[p].op = "DeleteFile"
    /\ pc[p] = "delete_rows" =>
           /\ aim[p] \in Ids /\ aim[p] < nextId /\ node[aim[p]].name = job[p].file
           /\ aim[p] = seen[p] \/ seen[p] \notin nodes

StoreInv == TreeInv /\ GroupsExist /\ \A p \in Threads : ThreadOK(p)
=============================================================================
