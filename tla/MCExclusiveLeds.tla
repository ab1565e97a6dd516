--------------------------- MODULE MCExclusiveLeds ---------------------------
(* ExclusiveLeds for TLC: a holder, and three files that race for its place. *)
EXTENDS ExclusiveLeds, TLC

CONSTANTS f1, f2, f3, f4
=============================================================================
