------------------------------ MODULE MutexLed ------------------------------
(***************************************************************************)
(* mutex: an open is mutex_lock_interruptible, a release mutex_unlock.     *)
(* led_init initialises the mutex at its start and once more at its end,   *)
(* after device_create has let processes open the device.  The second      *)
(* mutex_init forgets the owner and the waiters the mutex has by then.     *)
(***************************************************************************)
EXTENDS LedCommand, Sequences, SequencesExt

VARIABLES
    early,                 \* do processes open the device before led_init ends?
    loaded,                \* led_init has returned
    owner,                 \* gpioled.lock: its owner, if any
    waiters,               \* and its queue
    pc,                    \* control point of each file
    led                    \* level of the LED's gpio

vars == <<early, loaded, owner, waiters, pc, led>>

Point == {"closed", "queued", "held", "lost"}

Held == {f \in Files : pc[f] = "held"}

TypeOK ==
    /\ early \in BOOLEAN /\ loaded \in BOOLEAN
    /\ owner \subseteq Files
    /\ waiters \in Seq(Files)
    /\ pc \in [Files -> Point]
    /\ led \in Level

\* device_create has returned, and the first mutex_init long before it.
Init ==
    /\ early \in BOOLEAN
    /\ loaded = FALSE
    /\ owner = {} /\ waiters = <<>>
    /\ pc = [f \in Files |-> "closed"]
    /\ led = Off

\* The second mutex_init: waiters stay asleep on a list the mutex has lost.
MutexInitAgain ==
    /\ ~loaded
    /\ loaded' = TRUE
    /\ owner' = {} /\ waiters' = <<>>
    /\ pc' = [f \in Files |-> IF pc[f] = "queued" THEN "lost" ELSE pc[f]]
    /\ UNCHANGED <<early, led>>

MayOpen == loaded \/ early

\* mutant: the lock is taken whoever owns it
OwnerIgnored == TRUE

Unowned == owner = {}

Lock(f) ==
    /\ MayOpen /\ Unowned
    /\ \/ pc[f] = "closed" /\ UNCHANGED waiters
       \/ waiters # <<>> /\ f = Head(waiters) /\ waiters' = Tail(waiters)
    /\ owner' = {f}
    /\ pc' = [pc EXCEPT ![f] = "held"]
    /\ UNCHANGED <<early, loaded, led>>

Wait(f) ==
    /\ MayOpen /\ ~Unowned /\ pc[f] = "closed"
    /\ waiters' = Append(waiters, f)
    /\ pc' = [pc EXCEPT ![f] = "queued"]
    /\ UNCHANGED <<early, loaded, owner, led>>

\* A signal ends the wait, the only thing that can for a waiter that is lost.
Interrupted(f) ==
    /\ \/ pc[f] = "lost" /\ UNCHANGED waiters
       \/ /\ pc[f] = "queued"
          /\ \E i \in DOMAIN waiters :
                waiters[i] = f /\ waiters' = RemoveAt(waiters, i)
    /\ pc' = [pc EXCEPT ![f] = "closed"]
    /\ UNCHANGED <<early, loaded, owner, led>>

led_open(f) == Lock(f) \/ Wait(f) \/ Interrupted(f)

Write(f) ==
    /\ pc[f] = "held"
    /\ \E cnt \in Length, byte \in Byte : led' \in led_write(cnt, byte, led)
    /\ UNCHANGED <<early, loaded, owner, waiters, pc>>

\* mutant: the release leaves the owner in place
OwnerKept == owner

OwnerAfterUnlock == {}

\* mutex_unlock clears the owner, whoever that is by now.
led_release(f) ==
    /\ pc[f] = "held"
    /\ owner' = OwnerAfterUnlock
    /\ pc' = [pc EXCEPT ![f] = "closed"]
    /\ UNCHANGED <<early, loaded, waiters, led>>

Next ==
    \/ MutexInitAgain
    \/ \E f \in Files : led_open(f) \/ Write(f) \/ led_release(f)

Spec == Init /\ [][Next]_vars

-----------------------------------------------------------------------------
(***************************************************************************)
(* The owner the mutex knows is a holder, and at most one other holder     *)
(* exists, one that opened before the second mutex_init or was left over   *)
(* from such a one: the damage never grows, and there is none at all when  *)
(* nobody opens early.                                                     *)
(***************************************************************************)
HoldersBounded ==
    /\ owner \subseteq Held
    /\ Cardinality(Held \ owner) <= IF early THEN 1 ELSE 0

(***************************************************************************)
(* "handling race condation by mutex" (README.md, item 9): one holder at a *)
(* time, whenever it opened the device.                                    *)
(***************************************************************************)
OneHolder == Cardinality(Held) <= 1
=============================================================================
