---------------------------- MODULE MCTimerHandler ----------------------------
(* TimerHandler with short delays, zero and a negative one among them. *)
EXTENDS TimerHandler

MCDelay == {-1, 0, 1}
===============================================================================
