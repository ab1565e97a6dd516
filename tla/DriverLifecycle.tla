--------------------------- MODULE DriverLifecycle ---------------------------
(***************************************************************************)
(* One life of one driver: init or probe call by call, any call that can   *)
(* fail failing, the error path from its label, a working life, exit or    *)
(* remove call by call; and meanwhile the interrupts, timer expiries and   *)
(* users that the held resources let in.  A fault ends the story.          *)
(***************************************************************************)
EXTENDS DriverTables, FiniteSets

CONSTANT MaxUsers          \* bound on the files open at a time

ASSUME MaxUsersAssumption == MaxUsers \in Nat \ {0}

VARIABLES
    driver,                \* name of the driver
    phase,                 \* where it is in its life
    at,                    \* next entry of init, unwind or exit
    held,                  \* resources it holds, objects it has set up
    bad,                   \* released without being held
    armed,                 \* its timer is pending
    users,                 \* open files
    fault                  \* the use of something that is not there

vars == <<driver, phase, at, held, bad, armed, users, fault>>

D == Table[driver]

Resource ==
    {"map", "gpio", "irq", "region", "cdev", "class", "device", "misc", "mem",
     "sem", "timer", "client", "idev", "input"}

\* The calls of the present phase
Calls == CASE phase = "loading"   -> D.init
           [] phase = "unwinding" -> D.unwind
           [] phase = "unloading" -> D.exit
           [] OTHER               -> <<>>

\* Not objects to give back, only memory set up for use.
SetUp == {"sem", "timer", "client"}

Owned == held \ SetUp

TypeOK ==
    /\ driver \in Drivers
    /\ phase \in {"loading", "unwinding", "failed", "live", "unloading", "gone"}
    /\ at \in 1..Len(Calls) + 1
    /\ held \subseteq Resource
    /\ bad \subseteq Resource
    /\ armed \in BOOLEAN
    /\ users \in 0..MaxUsers
    /\ fault \in {"none", "irq_before_timer", "irq_after_unload",
                  "timer_after_unload", "timer_unready", "op_unready"}

Init ==
    /\ driver \in Drivers
    /\ phase = "loading" /\ at = 1
    /\ held = {} /\ bad = {}
    /\ armed = FALSE /\ users = 0
    /\ fault = "none"

\* A module whose init failed or whose exit ended is freed; after a failed
\* probe or an unbind the bus driver stays loaded.
TextFreed == phase \in {"failed", "gone"} /\ ~D.bus

Acquire ==
    /\ phase = "loading" /\ at <= Len(Calls)
    /\ held' = held \cup {Calls[at].resource}
    /\ at' = at + 1
    /\ UNCHANGED <<driver, phase, bad, armed, users, fault>>

AcquireFails ==
    /\ phase = "loading" /\ at <= Len(Calls)
    /\ \E label \in Calls[at].fail :
          CASE label = Ignored -> phase' = phase /\ at' = at + 1
            [] label = Success -> phase' = "live" /\ at' = 1
            [] OTHER           -> phase' = "unwinding" /\ at' = label
    /\ UNCHANGED <<driver, held, bad, armed, users, fault>>

InitReturns ==
    /\ phase = "loading" /\ at > Len(Calls)
    /\ phase' = "live" /\ at' = 1
    /\ UNCHANGED <<driver, held, bad, armed, users, fault>>

\* del_timer_sync stops the timer, which can be armed again; the other
\* objects cannot be used once they are released.
Release(resource) ==
    /\ held' = IF resource = "timer" THEN held ELSE held \ {resource}
    /\ bad' = IF resource \in held THEN bad ELSE bad \cup {resource}
    /\ armed' = (armed /\ resource # "timer")
    /\ at' = at + 1

Unwind ==
    /\ phase = "unwinding" /\ at <= Len(Calls)
    /\ Release(Calls[at])
    /\ UNCHANGED <<driver, phase, users, fault>>

UnwindReturns ==
    /\ phase = "unwinding" /\ at > Len(Calls)
    /\ phase' = "failed" /\ at' = 1
    /\ UNCHANGED <<driver, held, bad, armed, users, fault>>

\* rmmod, which an open file of the module refuses, or the bus, which has no
\* such scruple
RemoveStarts ==
    /\ phase = "live"
    /\ D.bus \/ users = 0
    /\ phase' = "unloading" /\ at' = 1
    /\ UNCHANGED <<driver, held, bad, armed, users, fault>>

Remove ==
    /\ phase = "unloading" /\ at <= Len(Calls)
    /\ Release(Calls[at])
    /\ UNCHANGED <<driver, phase, users, fault>>

RemoveReturns ==
    /\ phase = "unloading" /\ at > Len(Calls)
    /\ phase' = "gone" /\ at' = 1
    /\ UNCHANGED <<driver, held, bad, armed, users, fault>>

-----------------------------------------------------------------------------
\* A key edge runs key_interrupt as soon as, and as long as, it is requested.
Interrupt ==
    /\ "irq" \in held
    /\ LET broken == CASE TextFreed                         -> "irq_after_unload"
                       [] ~TextFreed /\ "timer" \notin held -> "irq_before_timer"
                       [] OTHER                             -> "none"
       IN /\ fault' = broken
          /\ armed' = (broken = "none")
    /\ UNCHANGED <<driver, phase, at, held, bad, users>>

Expire ==
    /\ armed
    /\ armed' = FALSE
    /\ fault' = CASE TextFreed                                  -> "timer_after_unload"
                  [] ~TextFreed /\ ~(D.callback \subseteq held) -> "timer_unready"
                  [] OTHER                                      -> "none"
    /\ UNCHANGED <<driver, phase, at, held, bad, users>>

Unready == IF D.ops \subseteq held THEN "none" ELSE "op_unready"

\* The node exists while its device or misc device does; a module on its way
\* out cannot be opened.  An open that always fails uses the device too.
Open ==
    /\ {"cdev", "device"} \subseteq held \/ "misc" \in held
    /\ phase \in {"loading", "live"} \/ D.bus
    /\ IF D.opens
       THEN users < MaxUsers /\ users' = users + 1 /\ fault' = fault
       ELSE users' = users /\ fault' = Unready
    /\ UNCHANGED <<driver, phase, at, held, bad, armed>>

\* read, write, poll, ioctl; timer's ioctl may start the timer.
Operation ==
    /\ users > 0
    /\ fault' = Unready
    /\ armed' \in {armed, "timer" \in D.ops /\ fault' = "none"}
    /\ UNCHANGED <<driver, phase, at, held, bad, users>>

\* timer's led_release deletes the timer; the last reference to a cdev in the
\* device's own memory goes with the file.
Close ==
    /\ users > 0
    /\ users' = users - 1
    /\ fault' = IF "mem" \in D.ops \ held THEN "op_unready" ELSE "none"
    /\ armed' = (armed /\ "timer" \notin D.ops)
    /\ UNCHANGED <<driver, phase, at, held, bad>>

Next ==
    /\ fault = "none"
    /\ \/ Acquire \/ AcquireFails \/ InitReturns
       \/ Unwind \/ UnwindReturns
       \/ RemoveStarts \/ Remove \/ RemoveReturns
       \/ Interrupt \/ Expire \/ Open \/ Operation \/ Close

Spec == Init /\ [][Next]_vars

-----------------------------------------------------------------------------
KeyDrivers == {"keyirq", "blockio", "noblockio", "asyncnoti"}
Sensors == {"ap3216c", "icm20608"}

\* What a failed init leaves behind.
Leaks(name) ==
    CASE name \in KeyDrivers  -> {"irq"}
      [] name = "chrdevbase"  -> {"region", "cdev", "class"}
      [] name \in Sensors     -> {"class"}
      [] name = "keyinput"    -> {"gpio", "idev"}
      [] OTHER                -> {}

(***************************************************************************)
(* A failed init or probe gives back all that it took, whichever call      *)
(* failed, but for these leaks: the key drivers never free their           *)
(* interrupt, chrdevbase returns before its cdev, and so on.               *)
(***************************************************************************)
FailedInitReleasesAll == phase = "failed" => Owned \subseteq Leaks(driver)

\* What an exit leaves behind.
Keeps(name) == IF name \in {"gpioled", "beep", "atomic"} THEN {"gpio"} ELSE {}

(***************************************************************************)
(* exit and remove give back all that init took, so that the driver can be *)
(* loaded again, but for the gpio of gpioled, beep and atomic.             *)
(***************************************************************************)
UnloadReleasesAll == phase = "gone" => Owned = Keeps(driver)

\* What is released without being held.
Wrong(name) ==
    CASE name = "chrdevbase"                            -> {"cdev"}
      [] name \in {"timer", "dts_platform", "miscbeep"} -> {"gpio"}
      [] name = "ap3216c"                               -> {"device"}
      [] name = "icm20608"   -> {"region", "cdev", "device", "class"}
      [] name = "keyinput"                              -> {"irq"}
      [] OTHER                                          -> {}

(***************************************************************************)
(* No error path and no exit releases what was not acquired, but for what  *)
(* an ignored failure (cdev_add of chrdevbase, the gpio of the bus         *)
(* drivers, the irq of keyinput), timer's borrowed gpio or a sensor's      *)
(* wrong label brings with it.                                             *)
(***************************************************************************)
ReleasesOnlyWhatItHolds == bad \subseteq Wrong(driver)

\* The drivers and phases in which the fault f is known to happen.
KnownWindow(f) ==
    \/ /\ driver \in KeyDrivers
       /\ \/ f = "irq_before_timer" /\ phase \in {"loading", "unwinding"}
          \/ f = "irq_after_unload" /\ phase = "failed"
          \/ f = "timer_unready" /\ phase = "unloading"
          \/ f = "timer_after_unload" /\ phase = "gone"
    \/ /\ driver = "keyinput"
       /\ \/ f = "irq_before_timer" /\ phase = "loading"
          \/ f = "timer_unready" /\ phase \in {"loading", "unwinding", "unloading"}
    \/ f = "op_unready" /\ driver \in {"timer", "sema", "ap3216c"} /\ phase = "loading"
    \/ f = "op_unready" /\ driver = "icm20608" /\ phase \in {"loading", "unloading", "gone"}
    \/ f = "op_unready" /\ driver = "platform" /\ phase \in {"unloading", "gone"}
    \/ /\ f = "op_unready" /\ driver \in {"dts_platform", "miscbeep"}
       /\ phase \in {"loading", "live", "unloading", "gone"}

(***************************************************************************)
(* No interrupt, expiry or file operation finds an object missing that it  *)
(* needs, but for the windows named here: between request_irq and          *)
(* timer_setup, after a leaked interrupt, between del_timer_sync and       *)
(* free_irq, between device_create and the last set-up, and after a bus    *)
(* took the device from under an open file.                                *)
(***************************************************************************)
FaultsOnlyInKnownWindows == fault # "none" => KnownWindow(fault)
=============================================================================
