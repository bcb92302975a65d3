---------------------------- MODULE StoreService -----------------------------
(***************************************************************************)
(* The handlers that work on files as an implementation of FileService:    *)
(* the refinement.                                                         *)
(***************************************************************************)
EXTENDS PermissionStore

\* Every row there was in nodes (ids are not used again).
KnownNodes == [n \in 1..nextId - 1 |-> node[n]]

\* The rights of those there are.
RightsNow == [n \in nodes |-> rights[n]]

\* What a deletion has selected and not yet deleted.
Aims == [p \in Threads |-> IF pc[p] = "delete_rows" THEN aim[p] ELSE 0]

Service == INSTANCE FileService WITH
    Requests <- Jobs, NoRequest <- NoJob, Answers <- Replies \ {"none"},
    Root <- RootNode, Default <- DefaultRights,
    known <- KnownNodes, files <- nodes, rights <- RightsNow,
    asked <- job, aim <- Aims

\* A creation is one transaction of two steps, a deletion two transactions of three, a
\* change of rights five with two conversions of the permission string, and others'
\* run in between; to the users each change of the files is one step, right when it is
\* made. The one thing the
\* service must allow that nobody would ask for: who has passed the check may find his
\* file gone and change another's of that name; he has made one of that name, though.
ImplementsService == Service!Spec
==============================================================================
