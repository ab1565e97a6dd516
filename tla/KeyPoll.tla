------------------------------ MODULE KeyPoll ------------------------------
(***************************************************************************)
(* The polled key (key/key.c): open claims the gpio, and a read that finds *)
(* the key down waits for its release in a loop.  One open has the gpio at *)
(* a time, so whoever reads at the same time shares its file, by fork.     *)
(***************************************************************************)
EXTENDS SharedFields

VARIABLES
    pin,                   \* level of the key gpio: 1 is released (pulled up)
    gpio                   \* the gpio is requested

keyVars == <<pin, gpio>>

KEY0VALUE == 240           \* 0xF0
INVAKEY == 0

Fields == {"keyvalue"}
Order == <<"keyvalue">>

\* A key that is down at load is one that moves before anything else happens.
Init ==
    /\ pin = 1
    /\ gpio = FALSE

\* The user moves the key.
Move ==
    /\ pin' = 1 - pin
    /\ UNCHANGED <<gpio, fieldVars>>

Goto(r, from, to) ==
    /\ at[r] = from
    /\ at' = [at EXCEPT ![r] = to]
    /\ UNCHANGED <<dev, done, word, out, saw, seen>>

\* gpio_request refuses a second open; gpio_direction_input may fail unheeded.
key_open(r) ==
    /\ ~gpio
    /\ gpio' = TRUE
    /\ Goto(r, "closed", "idle")
    /\ UNCHANGED pin

\* A process that has the file forks, between two of its calls.
Fork(r, child) ==
    /\ at[r] = "idle"
    /\ Goto(child, "closed", "idle")
    /\ UNCHANGED keyVars

\* key_release runs when the last of the processes closes.
GpioAfterClose(r) == \E s \in Readers \ {r} : at[s] # "closed"

Close(r) ==
    /\ Goto(r, "idle", "closed")
    /\ gpio' = GpioAfterClose(r)
    /\ UNCHANGED pin

ReadStart(r) == Enter(r, "look") /\ UNCHANGED keyVars

LooksReleased(r) ==
    /\ pin = 1
    /\ Observe(r, "look", INVAKEY, INVAKEY)
    /\ UNCHANGED keyVars

LooksPressed(r) ==
    /\ pin = 0
    /\ Goto(r, "look", "spin")
    /\ UNCHANGED keyVars

\* The loop ends at the release, and the read has seen a press.
SpinEnds(r) ==
    /\ pin = 1
    /\ Observe(r, "spin", KEY0VALUE, KEY0VALUE)
    /\ UNCHANGED keyVars

\* atomic_set, atomic_read, copy_to_user
SetGetCopy(r) ==
    /\ Put(r, Order) \/ Take(r, Order) \/ CopyToUser(r)
    /\ UNCHANGED keyVars

key_read(r) ==
    ReadStart(r) \/ LooksReleased(r) \/ LooksPressed(r) \/ SpinEnds(r) \/ SetGetCopy(r)

Next ==
    \/ Move
    \/ \E r \in Readers : key_open(r) \/ Close(r) \/ key_read(r)
    \/ \E r, child \in Readers : Fork(r, child)
=============================================================================
