----------------------------- MODULE MCClientMain -----------------------------
(* Every input of at most MaxLen characters.                               *)
EXTENDS ClientMain
=============================================================================
