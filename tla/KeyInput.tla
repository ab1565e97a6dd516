----------------------------- MODULE KeyInput ------------------------------
(***************************************************************************)
(* The input key (input/keyinput.c).  It debounces by masking: the         *)
(* interrupt handler disables its own interrupt and arms the timer, and    *)
(* the timer callback samples the gpio, reports the level to the input     *)
(* core and enables the interrupt again.  While the interrupt is disabled  *)
(* the interrupt core latches an edge and replays it on the enable.        *)
(***************************************************************************)
EXTENDS Integers, Sequences

CONSTANTS
    MaxEdges,              \* bound: the edges the user and the bouncing contact make
    MaxWaiting             \* bound: repeats come when no more events than this wait

ASSUME MaxEdgesAssumption == MaxEdges \in Nat

VARIABLES
    pin,                   \* level of the key gpio: 1 is released (pulled up)
    edges,                 \* edges since the driver was loaded
    irq,                   \* an edge interrupt is latched and not yet handled
    depth,                 \* how often the interrupt is disabled
    isr,                   \* control point of key_interrupt
    timer,                 \* the debounce timer is armed
    cb,                    \* control point of key_timer_function
    val,                   \* its val
    key0,                  \* the input core's state of KEY_0: 1 is down
    events,                \* EV_KEY events not yet read from the event file
    shown                  \* what keyinputApp printed last: 1 is a press

lineVars == <<pin, edges, irq>>
driverVars == <<depth, isr, timer, cb, val>>
inputVars == <<key0, events, shown>>
vars == <<lineVars, driverVars, inputVars>>

Level == {0, 1}

\* The values of an EV_KEY event: released, pressed, held down.
Repeated == 2
EventValue == {0, 1, Repeated}

TypeOK ==
    /\ pin \in Level /\ val \in Level /\ key0 \in Level /\ shown \in Level
    /\ edges \in 0..MaxEdges
    /\ irq \in BOOLEAN /\ timer \in BOOLEAN
    /\ depth \in 0..1
    /\ isr \in {"idle", "arm"}
    /\ cb \in {"idle", "sample", "report", "enable"}
    /\ events \in Seq(EventValue)

\* The key may be held down while the driver is probed: nothing reads its gpio
\* then, and the input core takes KEY_0 for released.
Init ==
    /\ pin \in Level /\ edges = 0 /\ irq = FALSE
    /\ depth = 0 /\ isr = "idle"
    /\ timer = FALSE /\ cb = "idle" /\ val = 1
    /\ key0 = 0 /\ events = <<>> /\ shown = 0

\* The user moves the key, or the contact bounces: both edges are latched.
Edge ==
    /\ edges < MaxEdges
    /\ edges' = edges + 1
    /\ pin' = 1 - pin
    /\ irq' = TRUE
    /\ UNCHANGED <<driverVars, inputVars>>

-----------------------------------------------------------------------------
(***************************************************************************)
(* key_interrupt: disable_irq_nosync, then mod_timer                       *)
(***************************************************************************)

\* The interrupt core runs a handler that is enabled and not running already.
DisableSelf ==
    /\ irq /\ depth = 0 /\ isr = "idle"
    /\ irq' = FALSE
    /\ depth' = depth + 1
    /\ isr' = "arm"
    /\ UNCHANGED <<pin, edges, timer, cb, val, inputVars>>

ArmTimer ==
    /\ isr = "arm"
    /\ timer' = TRUE
    /\ isr' = "idle"
    /\ UNCHANGED <<lineVars, depth, cb, val, inputVars>>

key_interrupt == DisableSelf \/ ArmTimer

-----------------------------------------------------------------------------
(***************************************************************************)
(* key_timer_function                                                      *)
(***************************************************************************)

\* The timer core disarms the timer and enters the callback.
TimerExpires ==
    /\ timer /\ cb = "idle"
    /\ timer' = FALSE
    /\ cb' = "sample"
    /\ UNCHANGED <<lineVars, depth, isr, val, inputVars>>

\* mutant: the bit of the gpio's register is taken for its level
RegisterBit == 8 * pin

\* gpio_get_value
SampledLevel == pin

Sample ==
    /\ cb = "sample"
    /\ val' = SampledLevel
    /\ cb' = "report"
    /\ UNCHANGED <<lineVars, depth, isr, timer, inputVars>>

\* mutant: the level is reported as it is, though the key pulls the gpio down
NotInverted == val

\* input_report_key(!val): the input core passes on a changed key only.
Down == IF val = 0 THEN 1 ELSE 0

Report ==
    /\ cb = "report"
    /\ key0' = Down
    /\ events' = IF Down # key0 THEN Append(events, Down) ELSE events
    /\ cb' = "enable"
    /\ UNCHANGED <<lineVars, depth, isr, timer, val, shown>>

\* mutant: the interrupt is enabled only when there was something to report
DepthAfterPress == IF val = 0 THEN depth - 1 ELSE depth

DepthAfterEnable == depth - 1

Enable ==
    /\ cb = "enable"
    /\ depth' = DepthAfterEnable
    /\ cb' = "idle"
    /\ UNCHANGED <<lineVars, isr, timer, val, inputVars>>

key_timer_function == Sample \/ Report \/ Enable

-----------------------------------------------------------------------------
\* evbit has EV_REP: while the key is down the input core repeats the event.
AutoRepeat ==
    /\ key0 = 1
    /\ Len(events) <= MaxWaiting
    /\ events' = Append(events, Repeated)
    /\ UNCHANGED <<lineVars, driverVars, key0, shown>>

\* keyinputApp reads one event after the other; all but 0 it prints as a press.
ReadEvent ==
    /\ events # <<>>
    /\ shown' = IF Head(events) = 0 THEN 0 ELSE 1
    /\ events' = Tail(events)
    /\ UNCHANGED <<lineVars, driverVars, key0>>

Next ==
    \/ Edge
    \/ key_interrupt \/ TimerExpires \/ key_timer_function
    \/ AutoRepeat \/ ReadEvent

Spec == Init /\ [][Next]_vars

\* Interrupts, timers and the application run; nobody has to move the key, and
\* no repeat is needed.
FairSpec ==
    /\ Spec
    /\ WF_vars(key_interrupt) /\ WF_vars(TimerExpires)
    /\ WF_vars(key_timer_function) /\ WF_vars(ReadEvent)

-----------------------------------------------------------------------------
(***************************************************************************)
(* disable_irq_nosync and enable_irq pair up: the interrupt is off, once,  *)
(* exactly while the handler, the timer or the callback is on its way to   *)
(* enable it.  One enable too many and the interrupt core warns; one too   *)
(* few and the key is dead.                                                *)
(***************************************************************************)
MaskedWhileOwed ==
    depth = IF isr = "arm" \/ timer \/ cb # "idle" THEN 1 ELSE 0

\* The key has not moved since the probe: no code has looked at its gpio yet.
Untouched == edges = 0

Told == IF cb = "report" THEN Down ELSE key0

(***************************************************************************)
(* The masking loses no move of the key: once it has moved, the level the  *)
(* input core has been told, or is about to be told, is the pin's, unless  *)
(* an edge is latched or a sample is still to be taken.                    *)
(***************************************************************************)
EdgeNotForgotten ==
    Untouched \/ irq \/ isr = "arm" \/ timer \/ cb = "sample" \/ Told = 1 - pin

(***************************************************************************)
(* Once the contact is quiet, what the application has printed last is     *)
(* what the input core says, repeats or not, the interrupt is on, and the  *)
(* core agrees with the pin, if the key has moved at all: a key held down  *)
(* since before the probe is not reported until it moves.                  *)
(***************************************************************************)
ReportSettles ==
    <>[](depth = 0 /\ shown = key0 /\ (Untouched \/ key0 = 1 - pin))
=============================================================================
