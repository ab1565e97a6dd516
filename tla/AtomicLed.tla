----------------------------- MODULE AtomicLed -----------------------------
(***************************************************************************)
(* atomic_gpioled: an open takes the LED by decrementing an atomic from 1  *)
(* to 0.  An open that fails has already decremented it, and puts it back  *)
(* in a second step; other opens see the difference meanwhile.             *)
(***************************************************************************)
EXTENDS LedCommand, Integers

VARIABLES
    lock,                  \* gpioled.lock
    pc,                    \* control point of each file
    led                    \* level of the LED's gpio

vars == <<lock, pc, led>>

Point == {"closed", "undo", "held"}

Held == {f \in Files : pc[f] = "held"}
Undoing == {f \in Files : pc[f] = "undo"}

TypeOK ==
    /\ lock \in Int
    /\ pc \in [Files -> Point]
    /\ led \in Level

Init ==
    /\ lock = 1
    /\ pc = [f \in Files |-> "closed"]
    /\ led = Off

\* mutant: any decrement that ends at or below zero opens the device
NotPositive(value) == value <= 0

\* atomic_dec_and_test
ReachesZero(value) == value = 0

led_open(f) ==
    /\ pc[f] = "closed"
    /\ lock' = lock - 1
    /\ pc' = [pc EXCEPT ![f] = IF ReachesZero(lock - 1) THEN "held" ELSE "undo"]
    /\ UNCHANGED led

\* mutant: -EBUSY without atomic_inc
NotPutBack == lock

PutBack == lock + 1

\* atomic_inc, return -EBUSY
OpenFails(f) ==
    /\ pc[f] = "undo"
    /\ lock' = PutBack
    /\ pc' = [pc EXCEPT ![f] = "closed"]
    /\ UNCHANGED led

Write(f) ==
    /\ pc[f] = "held"
    /\ \E cnt \in Length, byte \in Byte : led' \in led_write(cnt, byte, led)
    /\ UNCHANGED <<lock, pc>>

led_release(f) ==
    /\ pc[f] = "held"
    /\ lock' = lock + 1
    /\ pc' = [pc EXCEPT ![f] = "closed"]
    /\ UNCHANGED led

Next == \E f \in Files : led_open(f) \/ OpenFails(f) \/ Write(f) \/ led_release(f)

Spec == Init /\ [][Next]_vars

-----------------------------------------------------------------------------
(***************************************************************************)
(* The atomic counts who took from it, whatever the order of their steps:  *)
(* when all have put back, the device can be opened again.                 *)
(***************************************************************************)
LockCountsTakers == lock = 1 - Cardinality(Held \cup Undoing)

(***************************************************************************)
(* An open is refused only when the device is in use, or another refused   *)
(* open has yet to put its decrement back.                                 *)
(***************************************************************************)
BusyHasCause ==
    [][\A f \in Files : pc[f] = "closed" /\ pc'[f] = "undo" => Held # {} \/ Undoing # {}]_vars
=============================================================================
