--------------------------- MODULE MCTimerEvents ---------------------------
(* Instances of TimerEvents for TLC. *)
EXTENDS TimerEvents
=============================================================================
