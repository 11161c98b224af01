-------------------------- MODULE MCRegisterFiles --------------------------
(* Two files, one of which holds two keys.                                 *)
EXTENDS RegisterFiles

FileOfMC == [a |-> "setup", b |-> "setup", c |-> "alarm"]
=============================================================================
