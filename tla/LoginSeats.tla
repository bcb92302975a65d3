----------------------------- MODULE LoginSeats ------------------------------
(***************************************************************************)
(* Login, Quit and the expiry of keys as an implementation of SeatRegistry:*)
(* the refinement of the users whose sign-ins never overlapped.            *)
(***************************************************************************)
EXTENDS LoginSessions

\* The registry sees the tokens Login has returned and Redis honours.
SeatsOf == [u \in Users |-> {t \in Tokens : SeatToken(t) /\ owner[t] = u}]

Registry == INSTANCE SeatRegistry WITH held <- SeatsOf, spent <- answered

\* Three stores, eight calls and everything that may fail between them look to
\* the users like one registry that hands out at most one token each: the
\* promise IsUserActive is asked for in CreateSession.
ImplementsRegistry == Registry!Spec
==============================================================================
