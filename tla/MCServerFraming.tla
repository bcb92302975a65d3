--------------------------- MODULE MCServerFraming ---------------------------
(* Instances of ServerFraming for TLC: three lengths let a message be eaten   *)
(* whole, in part, or survive.                                                *)
EXTENDS ServerFraming
=============================================================================
