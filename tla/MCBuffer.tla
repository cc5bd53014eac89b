------------------------------ MODULE MCBuffer ------------------------------
(* A buffer of 8 bytes with heads of two bytes of four values each.        *)
EXTENDS Buffer

(* Bodies that fit with their '\0', and one so long that the array grows.  *)
Fitting == 0 .. DefaultSize - HeadSize - 1
Growing == {13}

AllFitting == Fitting \cup Growing

(* One byte too many for the '\0', two for the body.                       *)
Overlong == Fitting \cup {6, 7}

Packets == 0 .. 3
=============================================================================
