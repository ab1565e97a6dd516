------------------------------ MODULE KeyLine ------------------------------
(***************************************************************************)
(* The part the four key drivers (keyirq, blockio, noblockio, asyncnoti)   *)
(* share: the key's gpio, the edge interrupt it raises, and the debounce   *)
(* timer that key_interrupt re-arms.  The interrupt handler runs on either *)
(* CPU at any moment; the timer core runs at most one instance of a timer  *)
(* callback at a time, but re-arms it freely while the callback runs.      *)
(***************************************************************************)
EXTENDS Naturals

CONSTANT MaxEdges          \* bound: the edges the user and the bouncing contact make

ASSUME MaxEdgesAssumption == MaxEdges \in Nat

KEY_PRESS == 0
KEY_RELEASE == 1
KEY_KEEP == 2

key_status == {KEY_PRESS, KEY_RELEASE, KEY_KEEP}

VARIABLES
    pin,                   \* level of the key gpio: 1 is released (pulled up)
    edges,                 \* edges since the driver was loaded
    irq,                   \* an edge interrupt is latched and not yet handled
    timer,                 \* the debounce timer is armed
    cb,                    \* control point of key_timer_function
    cur,                   \* its current_val
    last_val               \* its static last_val

lineVars == <<pin, edges, irq, timer, cb, cur, last_val>>

Level == {0, 1}

\* The key may be held down while the driver is loaded: nothing at load reads
\* its gpio, and the static last_val starts at 1 whatever the level is.
LineInit ==
    /\ pin \in Level /\ edges = 0
    /\ irq = FALSE /\ timer = FALSE
    /\ cb = "idle" /\ cur = 1 /\ last_val = 1

\* The user moves the key, or the contact bounces: both edges interrupt.
Edge ==
    /\ edges < MaxEdges
    /\ edges' = edges + 1
    /\ pin' = 1 - pin
    /\ irq' = TRUE
    /\ UNCHANGED <<timer, cb, cur, last_val>>

\* mutant: the handler skips mod_timer while the callback is running
ArmedUnlessRunning == timer \/ cb = "idle"

\* mod_timer pushes an armed timer back and arms an idle one: either way it
\* is armed afterwards, and it will sample after the edge that armed it.
ArmedByInterrupt == TRUE

key_interrupt ==
    /\ irq
    /\ irq' = FALSE
    /\ timer' = ArmedByInterrupt
    /\ UNCHANGED <<pin, edges, cb, cur, last_val>>

\* The timer expires: it is disarmed before its callback is entered.
TimerExpires ==
    /\ timer /\ cb = "idle"
    /\ timer' = FALSE
    /\ cb' = "enter"
    /\ UNCHANGED <<pin, edges, irq, cur, last_val>>

\* mutant: the bit of the gpio's register is taken for its level
RegisterBit == 8 * pin

\* gpio_get_value
SampledLevel == pin

ReadGpio(next) ==
    /\ cur' = SampledLevel
    /\ cb' = next
    /\ UNCHANGED <<pin, edges, irq, timer, last_val>>

GoTo(next) ==
    /\ cb' = next
    /\ UNCHANGED <<pin, edges, irq, timer, cur, last_val>>

\* mutant: last_val is taken from a second look at the gpio
LatchedAgain == pin

\* last_val = current_val, the last statement of the callback.
LatchedLevel == cur

Latch ==
    /\ last_val' = LatchedLevel
    /\ cb' = "idle"
    /\ UNCHANGED <<pin, edges, irq, timer, cur>>

\* Where the debouncer has got to: while the callback holds a sample, that
\* sample is what last_val is about to become.
Settled == IF cb \in {"idle", "enter"} THEN last_val ELSE cur

\* The key has not moved since the load: no code has looked at its gpio yet.
Untouched == edges = 0

(***************************************************************************)
(* Once the key has moved, whatever level it has taken, either an          *)
(* interrupt, the armed timer or a callback that has yet to sample will    *)
(* still notice it, or the driver has it already: no edge is forgotten,    *)
(* however the interrupt, the re-arming and the running callback           *)
(* interleave.                                                             *)
(***************************************************************************)
EdgeNotForgotten ==
    Untouched \/ irq \/ timer \/ cb = "enter" \/ Settled = pin
=============================================================================
