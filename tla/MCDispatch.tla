------------------------------ MODULE MCDispatch ------------------------------
(* Instances of Dispatch for TLC: a client that does not await its answer, and *)
(* another.                                                                    *)
EXTENDS DispatchBoard, TLC

CONSTANTS c1, c2
MCSends == (c1 :> 2) @@ (c2 :> 1)

Symmetry == Permutations(Threads) \cup Permutations(Addrs)
===============================================================================
