--------------------------- MODULE MCLoginSessions ---------------------------
(* Instances of LoginSessions for TLC. *)
EXTENDS LoginSeats, TLC

Symmetry == Permutations(Clients) \cup Permutations(Threads) \cup Permutations(Tokens)
=============================================================================
