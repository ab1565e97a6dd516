----------------------------- MODULE MCTimerLed -----------------------------
(* TimerLed for TLC: files that can overlap at a close, one period to ask. *)
EXTENDS TimerLed, TLC

CONSTANTS f1, f2, f3
=============================================================================
