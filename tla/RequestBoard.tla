---------------------------- MODULE RequestBoard -----------------------------
(***************************************************************************)
(* What the dispatch promises its clients, without sessions, threads,      *)
(* connections or memory: a board on which requests are posted and struck  *)
(* off, each with its own answer to its own client, or with a refusal.     *)
(* What the promise does not cover is named: clients that leave something  *)
(* behind or do not await their answers, and requests that meet at the     *)
(* shared string.                                                          *)
(***************************************************************************)
EXTENDS Integers

CONSTANTS
    Requests   \* <<client, number>>

VARIABLES
    posted,    \* requests that came in
    over,      \* those answered or refused
    answers,   \* the request, to whom, whose answer it was
    stopped,   \* the board is closed
    failed,    \* PostgreSQL or Redis has failed
    left,      \* clients that left with requests on the board
    hasty,     \* clients that did not await an answer
    raced      \* requests that met another one's answer

vars == <<posted, over, answers, stopped, failed, left, hasty, raced>>

Init ==
    /\ posted = {} /\ over = {} /\ answers = {} /\ raced = {}
    /\ left = {} /\ hasty = {}
    /\ stopped = FALSE /\ failed = FALSE

\* In the order in which the client asked.
Before(r) == {q \in Requests : q[1] = r[1] /\ q[2] < r[2]}

-----------------------------------------------------------------------------
Post(r) ==
    /\ ~stopped /\ r \notin posted /\ Before(r) \subseteq posted
    /\ posted' = posted \cup {r}
    /\ UNCHANGED <<over, answers, stopped, failed, left, hasty, raced>>

StrikeOff(r) == r \in posted \ over /\ over' = over \cup {r}

\* At most once, in order, to who asked, and with the answer to what was asked.
Answer(r) ==
    /\ ~stopped /\ StrikeOff(r)
    /\ Before(r) \subseteq over \/ r[1] \in hasty
    /\ \E x \in answers' :
          /\ answers' = answers \cup {x} /\ x.req = r
          /\ x.to = r[1] \/ r[1] \in left
          /\ x.data = r \/ r \in raced
    /\ UNCHANGED <<posted, stopped, failed, left, hasty, raced>>

Refuse(r) ==
    /\ ~stopped /\ StrikeOff(r)
    /\ UNCHANGED <<posted, answers, stopped, failed, left, hasty, raced>>

\* What clients and requests do that is not promised to end well.
Trouble ==
    /\ UNCHANGED <<posted, over, answers>>
    /\ left \subseteq left' /\ hasty \subseteq hasty'
    /\ raced \subseteq raced' /\ raced' \ raced \subseteq posted

Disturb == ~stopped /\ UNCHANGED <<stopped, failed>> /\ Trouble

Stop ==
    /\ ~stopped /\ stopped'
    /\ failed' \/ left' \cup hasty' \cup raced' # {}
    /\ Trouble

Next ==
    \/ Disturb \/ Stop
    \/ \E r \in Requests : Post(r) \/ Answer(r) \/ Refuse(r)

Spec == Init /\ [][Next]_vars
==============================================================================
