------------------------------ MODULE MCKeyIrq ------------------------------
(* KeyIrq for TLC: two readers that race the callback for the status. *)
EXTENDS KeyIrq, TLC

CONSTANTS r1, r2
=============================================================================
