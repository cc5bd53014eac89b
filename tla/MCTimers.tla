------------------------------- MODULE MCTimers -------------------------------
(* Seconds of three milliseconds, milliseconds of two ticks.               *)
EXTENDS Timers

(* Near ones, and one beyond the range of the int. *)
Some == {0, 2, 4, 12}
=============================================================================
