---------------------------- MODULE DispatchBoard ----------------------------
(***************************************************************************)
(* Sessions, tasks and threads as an implementation of RequestBoard: the   *)
(* refinement.                                                             *)
(***************************************************************************)
EXTENDS Dispatch

ReadRequests == {r \in Requests : r[2] <= read[r[1]]}

Board == INSTANCE RequestBoard WITH
    posted <- ReadRequests, stopped <- down, failed <- faults > 0, left <- torn

\* Whatever becomes of its session, its task and its thread, a request gets at most
\* one answer or refusal.  The answer is its own, but for a race for the shared string,
\* goes to its client, unless that client left, and after those to the client's earlier
\* requests, unless the client was hasty.
ImplementsBoard == Board!Spec
==============================================================================
