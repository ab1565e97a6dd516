-------------------------- MODULE MCDriverLifecycle --------------------------
(* DriverLifecycle for TLC: every driver, in turn, as its own initial state. *)
EXTENDS DriverLifecycle, TLC
=============================================================================
