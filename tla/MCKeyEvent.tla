----------------------------- MODULE MCKeyEvent -----------------------------
(* KeyEvent for TLC: two files in the mix of modes each cfg names. *)
EXTENDS KeyEvent, TLC

CONSTANTS r1, r2
=============================================================================
