----------------------------- MODULE MCKeyInput -----------------------------
(* KeyInput for TLC; the cfg bounds the edges. *)
EXTENDS KeyInput
=============================================================================
