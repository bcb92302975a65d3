----------------------------- MODULE FileService -----------------------------
(***************************************************************************)
(* What the files promise their users, without transactions, rows, strings *)
(* or failures: requests are under way, and what a request does to the     *)
(* files it does in one step, which is right at that moment: it makes a    *)
(* file under a free name in a directory that is there, with its own       *)
(* "Success"; or it sets one class of rights; or it takes a file away, with*)
(* all that is below it: the one of that name at a moment before, so that  *)
(* the "Success" of a deletion says that this file is gone, whoever took   *)
(* it.  The last two are for those who have made a file of that name, and  *)
(* for no other request.                                                   *)
(***************************************************************************)
EXTENDS Integers, Sequences

CONSTANTS
    Threads,   \* those that serve requests
    Requests,  \* what may be asked for
    NoRequest,
    Answers,   \* what may be answered
    Ids,       \* of files, used once
    Root,      \* the directory that is there before all others
    Default    \* the rights of a new file

VARIABLES
    known,     \* id -> name, kind, parent and owner of every file there ever was
    files,     \* the ids of those that exist
    rights,    \* id of such a one -> what the owner, the group and all others may
    asked,     \* thread -> the request it serves
    aim,       \* thread -> the file it is going to take away, or 0
    reply      \* thread -> its answer, "none" before

vars == <<known, files, rights, asked, aim, reply>>

Init ==
    /\ known = [n \in {1} |-> Root]
    /\ files = {1}
    /\ rights = [n \in {1} |-> Default]
    /\ asked = [p \in Threads |-> NoRequest]
    /\ aim = [p \in Threads |-> 0]
    /\ reply = [p \in Threads |-> "none"]

Named(f) == {n \in files : known[n].name = f}

\* u has made a file f, though it may be gone.
Made(u, f) == \E n \in DOMAIN known : known[n].owner = u /\ known[n].name = f

\* The file and all that is below it.
Subtree(top) == {n \in files :
    \A S \in SUBSET files :
        top \in S /\ (\A k \in files : known[k].parent \in S => k \in S) => n \in S}

\* What a permission string grants the class whose letters begin at place i.
Granted(mode, i) == {mode[i], mode[i + 1], mode[i + 2]} \ {"-"}

-----------------------------------------------------------------------------
Ask(p) ==
    /\ asked[p] = NoRequest
    /\ asked'[p] \in Requests
    /\ asked' = [asked EXCEPT ![p] = asked'[p]]
    /\ UNCHANGED <<known, files, rights, aim, reply>>

\* p is at a request of that kind.
Serves(p, ops) == asked[p] # NoRequest /\ asked[p].op \in ops /\ reply[p] = "none"

Succeed(p) == reply' = [reply EXCEPT ![p] = "Success"] /\ UNCHANGED asked

CreateIn(p, d, new) ==
    LET r == asked[p]
        made == [name |-> r.file, parent |-> d, owner |-> r.user,
                 kind |-> IF r.op = "CreateDir" THEN "DIR" ELSE "FILE"]
    IN  /\ known[d].kind = "DIR" /\ known[d].name = r.path[Len(r.path)]
        /\ known' = [n \in DOMAIN known \cup {new} |-> IF n = new THEN made ELSE known[n]]
        /\ files' = files \cup {new}
        /\ rights' = [n \in files' |-> IF n = new THEN Default ELSE rights[n]]

Create(p) ==
    /\ Serves(p, {"CreateFile", "CreateDir"})
    /\ Succeed(p) /\ UNCHANGED aim
    /\ Named(asked[p].file) = {}
    /\ \E d \in files, new \in Ids \ DOMAIN known : CreateIn(p, d, new)

Aim(p) ==
    /\ Serves(p, {"DeleteFile"})
    /\ Made(asked[p].user, asked[p].file)
    /\ \E top \in Named(asked[p].file) : aim' = [aim EXCEPT ![p] = top]
    /\ UNCHANGED <<known, files, rights, asked, reply>>

\* What p has aimed at is gone, now or since.
Delete(p) ==
    /\ aim[p] # 0 /\ aim' = [aim EXCEPT ![p] = 0]
    /\ Succeed(p)
    /\ files' = IF aim[p] \in files THEN files \ Subtree(aim[p]) ELSE files
    /\ rights' = [n \in files' |-> rights[n]]
    /\ UNCHANGED known

SetRights(p, class, i) ==
    /\ Serves(p, {"ChangeRights"})
    /\ UNCHANGED <<known, files, asked, aim, reply>>
    /\ Made(asked[p].user, asked[p].file)
    /\ \E n \in Named(asked[p].file) :
          rights' = [rights EXCEPT ![n] = [@ EXCEPT ![class] = Granted(asked[p].mode, i)]]

\* A refusal; or success with something else than making or deleting a file.
Answer(p) ==
    /\ asked[p] # NoRequest /\ reply[p] = "none"
    /\ reply'[p] \in Answers
    /\ reply'[p] = "Success" => asked[p].op \notin {"CreateFile", "CreateDir", "DeleteFile"}
    /\ reply' = [reply EXCEPT ![p] = reply'[p]]
    /\ aim' = [aim EXCEPT ![p] = 0]
    /\ UNCHANGED <<known, files, rights, asked>>

Respond(p) ==
    /\ reply[p] # "none"
    /\ asked' = [asked EXCEPT ![p] = NoRequest]
    /\ reply' = [reply EXCEPT ![p] = "none"]
    /\ UNCHANGED <<known, files, rights, aim>>

Serve(p) ==
    \/ Ask(p) \/ Create(p) \/ Aim(p) \/ Delete(p)
    \/ SetRights(p, "user", 0) \/ SetRights(p, "group", 3) \/ SetRights(p, "all", 6)
    \/ Answer(p) \/ Respond(p)

Next == \E p \in Threads : Serve(p)

Spec == Init /\ [][Next]_vars
==============================================================================
