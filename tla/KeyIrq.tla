------------------------------- MODULE KeyIrq -------------------------------
(***************************************************************************)
(* keyirq: the first interrupt-driven key driver.  Its status is a plain   *)
(* variable; the timer callback writes it, and key_read copies and clears  *)
(* it, under one spinlock, on two CPUs.  The lock is modelled as the word  *)
(* it is: who holds it shows only in the control points.                   *)
(***************************************************************************)
EXTENDS KeyLine, FiniteSets

CONSTANT Readers           \* open files, each with the process that reads it

ASSUME ReadersAssumption == IsFiniteSet(Readers)

VARIABLES
    status,                \* the static status
    locked,                \* key.spinlock
    pc,                    \* control point of each reader
    given,                 \* ghost: what each read copied last
    posted                 \* ghost: what the callback wrote last

vars == <<lineVars, status, locked, pc, given, posted>>

ReaderPoint == {"closed", "idle", "spin", "copy", "clear"}
CallbackPoint == {"idle", "enter", "post", "latch"}

TypeOK ==
    /\ pin \in Level /\ cur \in Level /\ last_val \in Level
    /\ edges \in 0..MaxEdges
    /\ irq \in BOOLEAN /\ timer \in BOOLEAN /\ locked \in BOOLEAN
    /\ cb \in CallbackPoint
    /\ status \in key_status /\ posted \in key_status
    /\ pc \in [Readers -> ReaderPoint]
    /\ given \in [Readers -> key_status]

Init ==
    /\ LineInit
    /\ status = KEY_KEEP /\ posted = KEY_KEEP
    /\ locked = FALSE
    /\ pc = [r \in Readers |-> "closed"]
    /\ given = [r \in Readers |-> KEY_KEEP]

-----------------------------------------------------------------------------
\* mutant: the lock is not taken
LockIgnored == TRUE

\* spin_lock_irqsave gets past a lock nobody holds.
LockFree == ~locked

\* spin_lock_irqsave, then gpio_get_value.
LockAndSample ==
    /\ cb = "enter" /\ LockFree
    /\ locked' = TRUE
    /\ ReadGpio("post")
    /\ UNCHANGED <<status, pc, given, posted>>

\* A pressed key is reported at every sample, a release only after a press.
Reported == IF cur = 0 THEN KEY_PRESS
            ELSE IF last_val = 0 THEN KEY_RELEASE ELSE KEY_KEEP

Post ==
    /\ cb = "post"
    /\ status' = Reported
    /\ posted' = Reported
    /\ GoTo("latch")
    /\ UNCHANGED <<locked, pc, given>>

\* last_val = current_val, then spin_unlock_irqrestore.
LatchAndUnlock ==
    /\ cb = "latch"
    /\ locked' = FALSE
    /\ Latch
    /\ UNCHANGED <<status, pc, given, posted>>

key_timer_function == LockAndSample \/ Post \/ LatchAndUnlock

-----------------------------------------------------------------------------
Move(r, from, to) ==
    /\ pc[r] = from
    /\ pc' = [pc EXCEPT ![r] = to]

key_open(r) ==
    /\ Move(r, "closed", "idle")
    /\ UNCHANGED <<lineVars, status, locked, given, posted>>

key_release(r) ==
    /\ Move(r, "idle", "closed")
    /\ UNCHANGED <<lineVars, status, locked, given, posted>>

ReadStart(r) ==
    /\ Move(r, "idle", "spin")
    /\ UNCHANGED <<lineVars, status, locked, given, posted>>

Lock(r) ==
    /\ LockFree
    /\ Move(r, "spin", "copy")
    /\ locked' = TRUE
    /\ UNCHANGED <<lineVars, status, given, posted>>

\* copy_to_user: the int arrives, or the copy faults and nothing does.
CopyToUser(r) ==
    /\ Move(r, "copy", "clear")
    /\ given' = [given EXCEPT ![r] = status] \/ given' = given
    /\ UNCHANGED <<lineVars, status, locked, posted>>

\* mutant: a read returns before spin_unlock_irqrestore
UnlockForgotten == locked

Unlocked == FALSE

ClearAndUnlock(r) ==
    /\ Move(r, "clear", "idle")
    /\ status' = KEY_KEEP
    /\ locked' = Unlocked
    /\ UNCHANGED <<lineVars, given, posted>>

ReadStep(r) == Lock(r) \/ CopyToUser(r) \/ ClearAndUnlock(r)

LineStep ==
    /\ Edge \/ key_interrupt \/ TimerExpires
    /\ UNCHANGED <<status, locked, pc, given, posted>>

Next ==
    \/ LineStep
    \/ key_timer_function
    \/ \E r \in Readers : key_open(r) \/ key_release(r) \/ ReadStart(r) \/ ReadStep(r)

Spec == Init /\ [][Next]_vars

(***************************************************************************)
(* The spinlocks of this kernel are ticket locks: whoever spins is served  *)
(* in turn, so taking the lock is strongly fair, whatever else contends.   *)
(***************************************************************************)
FairSpec ==
    /\ Spec
    /\ WF_vars(key_interrupt /\ LineStep)
    /\ WF_vars(TimerExpires /\ LineStep)
    /\ SF_vars(key_timer_function)
    /\ \A r \in Readers : SF_vars(ReadStep(r))

-----------------------------------------------------------------------------
(***************************************************************************)
(* spin_lock_irqsave protects what it is there for: at most one of the     *)
(* callback and the readers is between lock and unlock.                    *)
(***************************************************************************)
Reading == {r \in Readers : pc[r] \in {"copy", "clear"}}
CallbackInside == cb \in {"post", "latch"}

AtMostOneInside ==
    /\ CallbackInside => Reading = {}
    /\ \A r, s \in Reading : r = s

(***************************************************************************)
(* The driver implements the mailbox: a read is one indivisible take, even *)
(* though it copies first and clears later.  From the copy on the slot is  *)
(* empty, whatever the status still says; only the lock makes that true.   *)
(***************************************************************************)
Slot == IF \E r \in Readers : pc[r] = "clear" THEN KEY_KEEP ELSE status

Mailbox == INSTANCE EventMailbox
    WITH Reports <- key_status, Nothing <- KEY_KEEP,
         slot <- Slot, latest <- posted, inbox <- given

ImplementsMailbox == Mailbox!Spec

\* Every read that has asked for the lock comes back.
ReadsReturn == \A r \in Readers : pc[r] = "spin" ~> pc[r] = "idle"

(***************************************************************************)
(* A key that is pressed and held is reported: once it has moved and the   *)
(* contact is quiet for good, the last report the callback posts agrees    *)
(* with where the key stays.  A key that was down at load and never moves  *)
(* is not reported.                                                        *)
(***************************************************************************)
LastReportAgrees == <>[](Untouched \/ (posted = KEY_PRESS <=> pin = 0))
=============================================================================
