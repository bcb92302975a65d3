---------------------------- MODULE MCClientWindow ----------------------------
(* Instances of ClientWindow for TLC: answers of both kinds of header, among  *)
(* them two lists of users.                                                   *)
EXTENDS ClientWindow

MCOp == <<3, 8, 13, 12, 8>>
MCBody == <<4, 3, 4, 3, 4>>
===============================================================================
