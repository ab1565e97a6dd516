----------------------------- MODULE MCPlainLed -----------------------------
(* PlainLed for TLC: two files, the LED's pin and one neighbour. *)
EXTENDS PlainLed, TLC

CONSTANTS f1, f2

\* Two of moder, otyper, ospeedr and pupdr: one set up and one to come.
TwoRegisters == <<"moder", "pupdr">>
=============================================================================
