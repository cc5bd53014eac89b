------------------------------ MODULE MCSockets ------------------------------
(* Three descriptors are enough for a call to run next to one that is held *)
(* and one that was lost; three addresses to have one first, last and in   *)
(* between.                                                                *)
EXTENDS Sockets
=============================================================================
