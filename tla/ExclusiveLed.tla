---------------------------- MODULE ExclusiveLed ----------------------------
(***************************************************************************)
(* What atomic_gpioled, spinlock, semaphore_gpioled and mutex each promise *)
(* with a primitive of their own: one file at a time holds the LED, and    *)
(* only its holder changes it.                                             *)
(***************************************************************************)
EXTENDS LedCommand

VARIABLES
    open,                  \* the files that hold the LED
    led                    \* level of the LED's gpio

vars == <<open, led>>

TypeOK == open \subseteq Files /\ led \in Level

Init == open = {} /\ led = Off

Open(f) ==
    /\ open = {}
    /\ open' = {f}
    /\ UNCHANGED led

Write(f) ==
    /\ open = {f}
    /\ led' \in Level
    /\ UNCHANGED open

Close(f) ==
    /\ open = {f}
    /\ open' = {}
    /\ UNCHANGED led

Next == \E f \in Files : Open(f) \/ Write(f) \/ Close(f)

Spec == Init /\ [][Next]_vars
=============================================================================
