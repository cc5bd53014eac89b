------------------------------ MODULE MCFraming ------------------------------
(* A head of two bytes of two values; bodies of none to three bytes, two   *)
(* of which look like heads.                                               *)
EXTENDS Framing

Four == {<<>>, <<1>>, <<0, 1>>, <<1, 0, 1>>}
=============================================================================
