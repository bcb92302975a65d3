---------------------------- MODULE SeatRegistry -----------------------------
(***************************************************************************)
(* What signing in promises, without Redis, rows, threads or failures: a   *)
(* user is given a token only while he holds none, no token is given twice,*)
(* and a token may be lost at any moment (signed out, expired).            *)
(***************************************************************************)
CONSTANTS Users, Tokens

VARIABLES
    held,   \* user -> the tokens of his that are honoured
    spent   \* the tokens ever given out

vars == <<held, spent>>

Init == /\ held = [u \in Users |-> {}]
        /\ spent = {}

\* Login returns a new token: of a user who holds none, or one that is good
\* for nothing (it ran out before it was returned).
Grant(t) ==
    /\ t \notin spent
    /\ spent' = spent \cup {t}
    /\ \/ UNCHANGED held
       \/ \E u \in Users : held[u] = {} /\ held' = [held EXCEPT ![u] = {t}]

\* The users in gone sign out, or their tokens expire.
Release(gone) ==
    /\ held' = [u \in Users |-> IF u \in gone THEN {} ELSE held[u]]
    /\ UNCHANGED spent

Next == \/ \E t \in Tokens : Grant(t)
        \/ \E gone \in SUBSET Users : Release(gone)

Spec == Init /\ [][Next]_vars
==============================================================================
