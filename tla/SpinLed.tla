------------------------------ MODULE SpinLed ------------------------------
(***************************************************************************)
(* spinlock: the count of opens is a plain variable, tested and changed    *)
(* under a spinlock by led_open and led_release.                           *)
(***************************************************************************)
EXTENDS LedCommand

VARIABLES
    status,                \* gpioled.status, the number of opens
    locked,                \* gpioled.lock
    pc,                    \* control point of each file
    led                    \* level of the LED's gpio

vars == <<status, locked, pc, led>>

Point == {"closed", "opening", "test", "count", "held", "closing", "drop"}

TypeOK ==
    /\ status \in Nat /\ locked \in BOOLEAN
    /\ pc \in [Files -> Point]
    /\ led \in Level

Init ==
    /\ status = 0 /\ locked = FALSE
    /\ pc = [f \in Files |-> "closed"]
    /\ led = Off

Move(f, from, to) ==
    /\ pc[f] = from
    /\ pc' = [pc EXCEPT ![f] = to]

\* mutant: the lock is not taken
LockIgnored == TRUE

LockFree == ~locked

\* spin_lock_irqsave, on the way in and on the way out
SpinLock(f) ==
    /\ LockFree
    /\ locked' = TRUE
    /\ Move(f, "opening", "test") \/ Move(f, "closing", "drop")
    /\ UNCHANGED <<status, led>>

OpenStart(f) ==
    /\ Move(f, "closed", "opening")
    /\ UNCHANGED <<status, locked, led>>

\* mutant: -EBUSY is returned with the lock held
LockKept == locked

LockGivenBack == FALSE

\* if (gpioled.status) { unlock; return -EBUSY; }
OpenBusy(f) ==
    /\ status # 0
    /\ Move(f, "test", "closed")
    /\ locked' = LockGivenBack
    /\ UNCHANGED <<status, led>>

OpenFree(f) ==
    /\ status = 0
    /\ Move(f, "test", "count")
    /\ UNCHANGED <<status, locked, led>>

\* gpioled.status++, unlock, return 0
OpenCount(f) ==
    /\ Move(f, "count", "held")
    /\ status' = status + 1
    /\ locked' = FALSE
    /\ UNCHANGED led

Write(f) ==
    /\ pc[f] = "held"
    /\ \E cnt \in Length, byte \in Byte : led' \in led_write(cnt, byte, led)
    /\ UNCHANGED <<status, locked, pc>>

ReleaseStart(f) ==
    /\ Move(f, "held", "closing")
    /\ UNCHANGED <<status, locked, led>>

\* mutant: release leaves the count as it is
CountKept == status

CountDropped == IF status # 0 THEN status - 1 ELSE status

\* if (dev->status) dev->status--, unlock
ReleaseDrop(f) ==
    /\ Move(f, "drop", "closed")
    /\ status' = CountDropped
    /\ locked' = FALSE
    /\ UNCHANGED led

led_open(f) == OpenStart(f) \/ OpenBusy(f) \/ OpenFree(f) \/ OpenCount(f)
led_release(f) == ReleaseStart(f) \/ ReleaseDrop(f)

Next == \E f \in Files : SpinLock(f) \/ led_open(f) \/ Write(f) \/ led_release(f)

Spec == Init /\ [][Next]_vars

\* What a call does next once it has the lock.
InDriver(f) == OpenBusy(f) \/ OpenFree(f) \/ OpenCount(f) \/ ReleaseDrop(f)

-----------------------------------------------------------------------------
Inside == {f \in Files : pc[f] \in {"test", "count", "drop"}}

\* Who holds the LED: from the count to the end of the release.
Holding == {f \in Files : pc[f] \in {"held", "closing", "drop"}}

(***************************************************************************)
(* "return BUSY if dev is used. otherwise return zero": an open finds the  *)
(* status set exactly when some file holds the LED, and so is refused only *)
(* then and let in only then.                                              *)
(***************************************************************************)
StatusMeansUsed ==
    \A f \in Files : pc[f] = "test" => (status # 0 <=> Holding # {})

\* An open or a close that has begun comes to its end.
CallsReturn ==
    \A f \in Files : pc[f] \in {"opening", "closing"} ~> pc[f] \in {"held", "closed"}
=============================================================================
