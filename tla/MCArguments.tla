----------------------------- MODULE MCArguments -----------------------------
(* Every text of at most MaxLen characters.                                *)
EXTENDS Arguments
=============================================================================
