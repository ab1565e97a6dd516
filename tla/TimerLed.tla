------------------------------ MODULE TimerLed ------------------------------
(***************************************************************************)
(* timer: an LED that a kernel timer toggles.  timer_function re-arms its  *)
(* own timer; ioctls start it, stop it and give it a period.  Opening the  *)
(* device requests the LED's gpio, which makes it exclusive by the way,    *)
(* and led_release frees the gpio before it stops the timer.               *)
(* Each file is used by one thread, as timerApp.c does.                    *)
(***************************************************************************)
EXTENDS Naturals

CONSTANTS
    Files,                 \* open files, each with the process that uses it
    Periods,               \* arguments of SETPERIOD_CMD
    DefaultPeriod,         \* 1000 ms, the timerperiod timer_open sets
    NotArmed

ASSUME PeriodsAssumption ==
    /\ DefaultPeriod \notin Periods
    /\ NotArmed \notin Periods \cup {DefaultPeriod}

VARIABLES
    pc,                    \* control point of each file
    gpio,                  \* the led gpio is requested
    led,                   \* its level
    timer,                 \* the period the timer is armed with
    timerperiod,           \* timerdev.timerperiod
    cb,                    \* control point of timer_function
    sta,                   \* its static sta
    last,                  \* ghost: the last ioctl of each file
    asked,                 \* ghost: the period last asked for
    overlapped             \* ghost: opened while another release was under way

vars == <<pc, gpio, led, timer, timerperiod, cb, sta, last, asked, overlapped>>

Off == 1                   \* the LED is active low
On == 0

Point == {"closed", "direction", "open", "stop", "free", "del"}
Command == {"none", "CLOSE_CMD", "OPEN_CMD", "SETPERIOD_CMD"}
AnyPeriod == Periods \cup {DefaultPeriod}

TypeOK ==
    /\ pc \in [Files -> Point]
    /\ gpio \in BOOLEAN
    /\ led \in {On, Off} /\ sta \in {On, Off}
    /\ timer \in AnyPeriod \cup {NotArmed}
    /\ timerperiod \in AnyPeriod
    /\ cb \in {"idle", "toggle", "rearm"}
    /\ last \in [Files -> Command]
    /\ asked \in AnyPeriod
    /\ overlapped \in [Files -> BOOLEAN]

\* led_init does not touch the LED: that it is dark when the module is loaded
\* is an assumption about the board.
Init ==
    /\ pc = [f \in Files |-> "closed"]
    /\ gpio = FALSE /\ led = Off
    /\ timer = NotArmed /\ timerperiod = DefaultPeriod
    /\ cb = "idle" /\ sta = Off
    /\ last = [f \in Files |-> "none"]
    /\ asked = DefaultPeriod
    /\ overlapped = [f \in Files |-> FALSE]

-----------------------------------------------------------------------------
(***************************************************************************)
(* timer_function                                                          *)
(***************************************************************************)
Expire ==
    /\ timer # NotArmed /\ cb = "idle"
    /\ timer' = NotArmed
    /\ cb' = "toggle"
    /\ UNCHANGED <<pc, gpio, led, timerperiod, sta, last, asked, overlapped>>

\* mutant: sta = ~sta
SwitchedBitwise == 0 - (sta + 1)

Switched == 1 - sta

\* sta = !sta; gpio_set_value(dev->led_gpio, sta), requested or not
Toggle ==
    /\ cb = "toggle"
    /\ sta' = Switched
    /\ led' = sta'
    /\ cb' = "rearm"
    /\ UNCHANGED <<pc, gpio, timer, timerperiod, last, asked, overlapped>>

\* mutant: the callback does not re-arm its timer
OneShot == timer

NextExpiry == timerperiod

\* mod_timer with dev->timerperiod
Rearm ==
    /\ cb = "rearm"
    /\ timer' = NextExpiry
    /\ cb' = "idle"
    /\ UNCHANGED <<pc, gpio, led, timerperiod, sta, last, asked, overlapped>>

timer_function == Toggle \/ Rearm

-----------------------------------------------------------------------------
(***************************************************************************)
(* timer_open                                                              *)
(***************************************************************************)
Goto(f, point) == pc' = [pc EXCEPT ![f] = point]

GpioFree == ~gpio

\* led_parse_dt and gpio_request succeed.
OpenRequests(f) ==
    /\ pc[f] = "closed" /\ GpioFree
    /\ Goto(f, "direction")
    /\ gpio' = TRUE
    /\ timerperiod' = DefaultPeriod
    /\ overlapped' = [overlapped EXCEPT ![f] = \E g \in Files : pc[g] = "del"]
    /\ UNCHANGED <<led, timer, cb, sta, last, asked>>

\* The gpio is taken, by another file or by a failed open: -EBUSY.
OpenBusy(f) ==
    /\ pc[f] = "closed" /\ ~GpioFree
    /\ timerperiod' = DefaultPeriod
    /\ UNCHANGED <<pc, gpio, led, timer, cb, sta, last, asked, overlapped>>

\* gpio_direction_output(led_gpio, 1)
OpenSucceeds(f) ==
    /\ pc[f] = "direction"
    /\ Goto(f, "open")
    /\ led' = Off
    /\ UNCHANGED <<gpio, timer, timerperiod, cb, sta, last, asked, overlapped>>

\* It fails: the open returns the error and the gpio stays requested.
OpenFails(f) ==
    /\ pc[f] = "direction"
    /\ Goto(f, "closed")
    /\ overlapped' = [overlapped EXCEPT ![f] = FALSE]
    /\ UNCHANGED <<gpio, led, timer, timerperiod, cb, sta, last, asked>>

timer_open(f) == OpenRequests(f) \/ OpenBusy(f) \/ OpenSucceeds(f) \/ OpenFails(f)

-----------------------------------------------------------------------------
(***************************************************************************)
(* timer_unlocked_ioctl                                                    *)
(***************************************************************************)
OpenCmd(f) ==
    /\ pc[f] = "open"
    /\ timer' = timerperiod
    /\ last' = [last EXCEPT ![f] = "OPEN_CMD"]
    /\ UNCHANGED <<pc, gpio, led, timerperiod, cb, sta, asked, overlapped>>

\* The period is kept in a local variable and armed once.
SetPeriodCmd(f, arg) ==
    /\ pc[f] = "open"
    /\ timer' = arg
    /\ asked' = arg
    /\ last' = [last EXCEPT ![f] = "SETPERIOD_CMD"]
    /\ UNCHANGED <<pc, gpio, led, timerperiod, cb, sta, overlapped>>

CloseCmd(f) ==
    /\ pc[f] = "open"
    /\ Goto(f, "stop")
    /\ UNCHANGED <<gpio, led, timer, timerperiod, cb, sta, last, asked, overlapped>>

\* mutant: del_timer, which does not wait for a running callback
NotWaitedFor == TRUE

CallbackDone == cb = "idle"

\* mutant: the timer is waited for instead of being deleted
WaitedOut == timer = NotArmed

Deletable == TRUE

\* del_timer_sync returns when the callback is not running, and has taken
\* the timer off whatever the callback did last.
DelTimerSync ==
    /\ CallbackDone /\ Deletable
    /\ timer' = NotArmed

CloseCmdReturns(f) ==
    /\ pc[f] = "stop"
    /\ DelTimerSync
    /\ Goto(f, "open")
    /\ last' = [last EXCEPT ![f] = "CLOSE_CMD"]
    /\ UNCHANGED <<gpio, led, timerperiod, cb, sta, asked, overlapped>>

timer_unlocked_ioctl(f) ==
    \/ OpenCmd(f) \/ CloseCmd(f) \/ CloseCmdReturns(f)
    \/ \E arg \in Periods : SetPeriodCmd(f, arg)

-----------------------------------------------------------------------------
(***************************************************************************)
(* led_release: set the gpio, free it, stop the timer, in this order       *)
(***************************************************************************)
ReleaseSets(f) ==
    /\ pc[f] = "open"
    /\ Goto(f, "free")
    /\ led' = Off
    /\ last' = [last EXCEPT ![f] = "none"]
    /\ asked' = DefaultPeriod
    /\ overlapped' = [overlapped EXCEPT ![f] = FALSE]
    /\ UNCHANGED <<gpio, timer, timerperiod, cb, sta>>

ReleaseFrees(f) ==
    /\ pc[f] = "free"
    /\ Goto(f, "del")
    /\ gpio' = FALSE
    /\ UNCHANGED <<led, timer, timerperiod, cb, sta, last, asked, overlapped>>

ReleaseStops(f) ==
    /\ pc[f] = "del"
    /\ DelTimerSync
    /\ Goto(f, "closed")
    /\ UNCHANGED <<gpio, led, timerperiod, cb, sta, last, asked, overlapped>>

led_release(f) == ReleaseSets(f) \/ ReleaseFrees(f) \/ ReleaseStops(f)

-----------------------------------------------------------------------------
Next ==
    \/ Expire
    \/ timer_function
    \/ \E f \in Files : timer_open(f) \/ timer_unlocked_ioctl(f) \/ led_release(f)

Spec == Init /\ [][Next]_vars

(***************************************************************************)
(* A callback runs on and so does a call.  del_timer_sync tries            *)
(* again at once while the callback runs, and the callback is away for a   *)
(* second at a time, so the two meet: its return is strongly fair.         *)
(***************************************************************************)
FairSpec ==
    /\ Spec
    /\ WF_vars(Expire) /\ WF_vars(timer_function)
    /\ \A f \in Files :
          /\ WF_vars(ReleaseFrees(f))
          /\ SF_vars(CloseCmdReturns(f)) /\ SF_vars(ReleaseStops(f))

-----------------------------------------------------------------------------
(***************************************************************************)
(* The gpio request makes the device exclusive: one file at a time is      *)
(* between its gpio_request and its gpio_free.                             *)
(***************************************************************************)
HasGpio(f) == pc[f] \in {"direction", "open", "stop", "free"}

OneFileHasGpio ==
    /\ \A f, g \in Files : HasGpio(f) /\ HasGpio(g) => f = g
    /\ \A f \in Files : HasGpio(f) => gpio

(***************************************************************************)
(* No timer outlives the files: when every release has returned, the       *)
(* self-arming timer is off and its callback is not running, so that the   *)
(* next file starts in the dark and the module can be unloaded.            *)
(***************************************************************************)
NoTimerWithoutFile ==
    (\A f \in Files : pc[f] \in {"closed", "direction"})
        => timer = NotArmed /\ cb = "idle"

(***************************************************************************)
(* CLOSE_CMD sticks: until the file says otherwise nothing toggles its     *)
(* LED, not even what an earlier file's late release has left running.     *)
(***************************************************************************)
ClosedStaysQuiet ==
    \A f \in Files : pc[f] = "open" /\ last[f] = "CLOSE_CMD"
        => timer = NotArmed /\ cb = "idle"

(***************************************************************************)
(* OPEN_CMD and SETPERIOD_CMD stick too: the LED goes on toggling, unless  *)
(* the file was opened while another was being released, whose             *)
(* del_timer_sync then stops a timer that is no longer its own.            *)
(***************************************************************************)
StartedKeepsBlinking ==
    \A f \in Files :
        pc[f] = "open" /\ last[f] \in {"OPEN_CMD", "SETPERIOD_CMD"} /\ ~overlapped[f]
            => timer # NotArmed \/ cb # "idle"

\* Stopping the timer ends, although the timer re-arms itself.
StopsReturn == \A f \in Files : pc[f] \in {"stop", "del"} ~> pc[f] \in {"open", "closed"}

-----------------------------------------------------------------------------
(***************************************************************************)
(* What the sources say and the code does not do.                          *)
(***************************************************************************)

\* timer.c:144, "turn the LED off when the APP ends" (in Chinese)
DarkWhenClosed == (\A f \in Files : pc[f] = "closed") => led = Off

(***************************************************************************)
(* timerApp.c:47, "set the period" (in Chinese): until another period is   *)
(* asked for, the callback re-arms its timer with this one.                *)
(***************************************************************************)
PeriodKept == [][cb = "rearm" /\ cb' = "idle" => timer' = asked]_vars
=============================================================================
