---------------------------- MODULE MCTimerWheel ----------------------------
(* TimerWheel with two timers on a wheel of four slots of two time units,  *)
(* for a little more than one turn of the wheel.  With the longest stall   *)
(* the longest timeout still fits in the wheel.                            *)
EXTENDS TimerWheel
=============================================================================
