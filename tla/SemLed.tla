------------------------------- MODULE SemLed -------------------------------
(***************************************************************************)
(* semaphore_gpioled: an open is down_interruptible, a release is up.  The *)
(* kernel's semaphore queues who finds it taken, and up hands it straight  *)
(* to the first in the queue.  The driver initialises it last, after       *)
(* device_create has already let processes open the device.                *)
(***************************************************************************)
EXTENDS LedCommand, Sequences, SequencesExt

VARIABLES
    ready,                 \* sema_init has run
    count,                 \* gpioled.sem: its count
    wait_list,             \* and its queue
    pc,                    \* control point of each file
    led                    \* level of the LED's gpio

vars == <<ready, count, wait_list, pc, led>>

Point == {"closed", "queued", "granted", "held", "dead"}

At(point) == {f \in Files : pc[f] = point}

TypeOK ==
    /\ ready \in BOOLEAN
    /\ count \in 0..1
    /\ wait_list \in Seq(Files)
    /\ pc \in [Files -> Point]
    /\ led \in Level

\* device_create has returned; the static semaphore is still all zeroes.
Init ==
    /\ ready = FALSE
    /\ count = 0 /\ wait_list = <<>>
    /\ pc = [f \in Files |-> "closed"]
    /\ led = Off

\* sema_init(&gpioled.sem, SEMA_MAX), at the end of led_init
SemaInit ==
    /\ ~ready
    /\ ready' = TRUE
    /\ count' = 1 /\ wait_list' = <<>>
    /\ UNCHANGED <<pc, led>>

\* down on a semaphore whose list head is zero: the kernel oopses in
\* list_add_tail and the opener never returns.
OpenTooEarly(f) ==
    /\ ~ready /\ pc[f] = "closed"
    /\ pc' = [pc EXCEPT ![f] = "dead"]
    /\ UNCHANGED <<ready, count, wait_list, led>>

DownFree(f) ==
    /\ ready /\ count > 0 /\ pc[f] = "closed"
    /\ count' = count - 1
    /\ pc' = [pc EXCEPT ![f] = "held"]
    /\ UNCHANGED <<ready, wait_list, led>>

DownWait(f) ==
    /\ ready /\ count = 0 /\ pc[f] = "closed"
    /\ wait_list' = Append(wait_list, f)
    /\ pc' = [pc EXCEPT ![f] = "queued"]
    /\ UNCHANGED <<ready, count, led>>

\* The task that up chose runs, and its open returns 0.
DownReturns(f) ==
    /\ pc[f] = "granted"
    /\ pc' = [pc EXCEPT ![f] = "held"]
    /\ UNCHANGED <<ready, count, wait_list, led>>

\* A signal takes a queued task off the list: -ERESTARTSYS.
DownInterrupted(f) ==
    /\ pc[f] = "queued"
    /\ \E i \in DOMAIN wait_list :
          wait_list[i] = f /\ wait_list' = RemoveAt(wait_list, i)
    /\ pc' = [pc EXCEPT ![f] = "closed"]
    /\ UNCHANGED <<ready, count, led>>

led_open(f) == DownFree(f) \/ DownWait(f) \/ DownReturns(f) \/ DownInterrupted(f)

Write(f) ==
    /\ pc[f] = "held"
    /\ \E cnt \in Length, byte \in Byte : led' \in led_write(cnt, byte, led)
    /\ UNCHANGED <<ready, count, wait_list, pc>>

\* mutant: up serves the youngest waiter
Youngest == Len(wait_list)

\* mutant: up both wakes a waiter and counts
CountedAnyway == count + 1

Served == 1

CountAfterHandOff == count

\* up: the first waiter is given the semaphore, or else the count goes up.
led_release(f) ==
    /\ pc[f] = "held"
    /\ IF wait_list = <<>>
       THEN /\ count' = count + 1
            /\ pc' = [pc EXCEPT ![f] = "closed"]
            /\ UNCHANGED wait_list
       ELSE /\ count' = CountAfterHandOff
            /\ pc' = [pc EXCEPT ![f] = "closed", ![wait_list[Served]] = "granted"]
            /\ wait_list' = RemoveAt(wait_list, Served)
    /\ UNCHANGED <<ready, led>>

Next ==
    \/ SemaInit
    \/ \E f \in Files : OpenTooEarly(f) \/ led_open(f) \/ Write(f) \/ led_release(f)

Spec == Init /\ [][Next]_vars

-----------------------------------------------------------------------------
(***************************************************************************)
(* Nobody queues for a semaphore that nobody has: a waiter's turn is never *)
(* lost between a signal, an open and a release.                           *)
(***************************************************************************)
NoStrandedWaiter == wait_list # <<>> => count = 0 /\ At("held") \cup At("granted") # {}

\* First come, first served: nobody who queues is overtaken for ever.
WaiterServed == \A f \in Files : pc[f] = "queued" ~> pc[f] # "queued"
=============================================================================
