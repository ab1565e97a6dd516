------------------------------ MODULE KeyEvent ------------------------------
(***************************************************************************)
(* The key drivers built on a wait queue: blockio (blocking read),         *)
(* noblockio (O_NONBLOCK read and poll) and asyncnoti (SIGIO).  Their      *)
(* shared code is the same; NonBlock and Async say which files use the     *)
(* parts that only the later drivers have, and blockio is NonBlock = {}    *)
(* and Async = {}.  An event lives in one atomic, key.status; a read waits *)
(* for it, copies it to the user and then clears it, each in a step of its *)
(* own, while the timer callback may post, erase and wake in between.      *)
(***************************************************************************)
EXTENDS KeyLine, FiniteSets

CONSTANTS
    Readers,               \* open files, each with the process that uses it
    NonBlock,              \* those opened with O_NONBLOCK
    Async                  \* those whose owner may turn FASYNC on

ASSUME ReadersAssumption ==
    /\ IsFiniteSet(Readers)
    /\ NonBlock \subseteq Readers
    /\ Async \subseteq Readers

VARIABLES
    status,                \* key.status
    pc,                    \* control point of each reader
    r_wait,                \* tasks queued on key.r_wait and not yet woken
    async_queue,           \* key.async_queue
    sigio,                 \* owners with a SIGIO pending
    got,                   \* ghost: who has copied the event status holds
    lastEvent              \* ghost: the last event posted

readerVars == <<pc, r_wait, async_queue, sigio>>
vars == <<lineVars, status, readerVars, got, lastEvent>>

WaitPoint == {"queue", "recheck", "sleep"}
ReaderPoint == {"closed", "idle", "check", "copy", "clear"} \cup WaitPoint
CallbackPoint == {"idle", "enter", "post", "keep", "wake", "kill", "latch"}

TypeOK ==
    /\ pin \in Level /\ cur \in Level /\ last_val \in Level
    /\ edges \in 0..MaxEdges
    /\ irq \in BOOLEAN /\ timer \in BOOLEAN
    /\ cb \in CallbackPoint
    /\ status \in key_status
    /\ pc \in [Readers -> ReaderPoint]
    /\ r_wait \subseteq Readers
    /\ async_queue \subseteq Readers
    /\ sigio \subseteq Readers
    /\ got \subseteq Readers
    /\ lastEvent \in {KEY_PRESS, KEY_RELEASE}

Init ==
    /\ LineInit
    /\ status = KEY_KEEP
    /\ pc = [r \in Readers |-> "closed"]
    /\ r_wait = {} /\ async_queue = {} /\ sigio = {}
    /\ got = {} /\ lastEvent = KEY_RELEASE

-----------------------------------------------------------------------------
(***************************************************************************)
(* key_timer_function                                                      *)
(***************************************************************************)

\* mutant: the callback compares with nothing and reports every sample
ChangedAlways(now, before) == TRUE

\* The first branch needs a released key before, the second a pressed one.
Changed(now, before) == (now = 0 /\ before = 1) \/ (now = 1 /\ before = 0)

Sample ==
    /\ cb = "enter"
    /\ ReadGpio(IF Changed(SampledLevel, last_val) THEN "post" ELSE "keep")
    /\ UNCHANGED <<status, readerVars, got, lastEvent>>

Post ==
    /\ cb = "post"
    /\ status' = IF cur = 0 THEN KEY_PRESS ELSE KEY_RELEASE
    /\ lastEvent' = status'
    /\ got' = {}
    /\ GoTo("wake")
    /\ UNCHANGED readerVars

\* The else branch: no change of level, so the status goes back to KEEP.
Keep ==
    /\ cb = "keep"
    /\ status' = KEY_KEEP
    /\ GoTo("latch")
    /\ UNCHANGED <<readerVars, got, lastEvent>>

\* mutant: the callback posts without waking anybody
AwakeNobody(r) == pc[r]

\* wake_up_interruptible: every queued task is made runnable; one that was
\* asleep goes round the wait loop again.
Awake(r) == IF r \in r_wait /\ pc[r] = "sleep" THEN "queue" ELSE pc[r]

Wake ==
    /\ cb = "wake"
    /\ pc' = [r \in Readers |-> Awake(r)]
    /\ r_wait' = {}
    /\ GoTo("kill")
    /\ UNCHANGED <<status, async_queue, sigio, got, lastEvent>>

\* mutant: kill_fasync is left out of one branch
SignalledOnPress == IF cur = 0 THEN sigio \cup async_queue ELSE sigio

\* if (key.async_queue) kill_fasync(&key.async_queue, SIGIO, POLL_IN)
Signalled == sigio \cup async_queue

Kill ==
    /\ cb = "kill"
    /\ sigio' = Signalled
    /\ GoTo("latch")
    /\ UNCHANGED <<status, pc, r_wait, async_queue, got, lastEvent>>

LatchLast ==
    /\ cb = "latch"
    /\ Latch
    /\ UNCHANGED <<status, readerVars, got, lastEvent>>

key_timer_function == Sample \/ Post \/ Keep \/ Wake \/ Kill \/ LatchLast

-----------------------------------------------------------------------------
(***************************************************************************)
(* The file operations                                                     *)
(***************************************************************************)

Move(r, from, to) ==
    /\ pc[r] = from
    /\ pc' = [pc EXCEPT ![r] = to]

key_open(r) ==
    /\ Move(r, "closed", "idle")
    /\ UNCHANGED <<lineVars, status, r_wait, async_queue, sigio, got, lastEvent>>

\* mutant: release forgets to leave the fasync queue
AfterReleaseForgotten(r) == async_queue

\* key_release ends in key_fasync(-1, file, 0): the file leaves the queue.
AfterRelease(r) == async_queue \ {r}

key_release(r) ==
    /\ Move(r, "idle", "closed")
    /\ async_queue' = AfterRelease(r)
    /\ UNCHANGED <<lineVars, status, r_wait, sigio, got, lastEvent>>

key_fasync(r, on) ==
    /\ r \in Async /\ pc[r] = "idle"
    /\ async_queue' = IF on THEN async_queue \cup {r} ELSE async_queue \ {r}
    /\ UNCHANGED <<lineVars, status, pc, r_wait, sigio, got, lastEvent>>

\* read(2) enters key_read.
ReadStart(r) ==
    /\ Move(r, "idle", "check")
    /\ UNCHANGED <<lineVars, status, r_wait, async_queue, sigio, got, lastEvent>>

\* The first look at the status: a non-blocking read gives up with -EAGAIN on
\* KEEP, a blocking one enters the loop of wait_event_interruptible.
FirstCheck(r) ==
    /\ Move(r, "check", IF status # KEY_KEEP THEN "copy"
                        ELSE IF r \in NonBlock THEN "idle" ELSE "queue")
    /\ UNCHANGED <<lineVars, status, r_wait, async_queue, sigio, got, lastEvent>>

\* key_poll: poll_wait is the same queueing, and select or poll the same loop.
PollStart(r) ==
    /\ r \in NonBlock
    /\ Move(r, "idle", "queue")
    /\ UNCHANGED <<lineVars, status, r_wait, async_queue, sigio, got, lastEvent>>

\* The task queues itself before it looks at the condition again.
Enqueue(r) ==
    /\ Move(r, "queue", "recheck")
    /\ r_wait' = r_wait \cup {r}
    /\ UNCHANGED <<lineVars, status, async_queue, sigio, got, lastEvent>>

\* What a satisfied wait returns to: the rest of key_read, or the caller of poll.
Satisfied(r) == IF r \in NonBlock THEN "idle" ELSE "copy"

ConditionHolds(r) ==
    /\ status # KEY_KEEP
    /\ Move(r, "recheck", Satisfied(r))
    /\ r_wait' = r_wait \ {r}
    /\ UNCHANGED <<lineVars, status, async_queue, sigio, got, lastEvent>>

\* mutant: the task marks itself asleep without noticing it was woken
SleepPointBlind(r) == "sleep"

\* schedule(): a task that was woken since it queued does not sleep.
SleepPoint(r) == IF r \in r_wait THEN "sleep" ELSE "queue"

ConditionFails(r) ==
    /\ status = KEY_KEEP
    /\ Move(r, "recheck", SleepPoint(r))
    /\ UNCHANGED <<lineVars, status, r_wait, async_queue, sigio, got, lastEvent>>

\* A signal, or select's timeout, ends the wait: -ERESTARTSYS or 0.
Interrupted(r) ==
    /\ pc[r] = "sleep"
    /\ Move(r, "sleep", "idle")
    /\ r_wait' = r_wait \ {r}
    /\ UNCHANGED <<lineVars, status, async_queue, sigio, got, lastEvent>>

\* copy_to_user reads the status once more: it may be KEEP by now.  A fault
\* copies nothing, and key_read goes on to clear the status all the same.
CopyToUser(r) ==
    /\ Move(r, "copy", "clear")
    /\ \/ got' = IF status # KEY_KEEP THEN got \cup {r} ELSE got
       \/ got' = got
    /\ UNCHANGED <<lineVars, status, r_wait, async_queue, sigio, lastEvent>>

\* mutant: the read returns without atomic_set(&key.status, KEY_KEEP)
AfterReadKept == status

AfterRead == KEY_KEEP

Clear(r) ==
    /\ Move(r, "clear", "idle")
    /\ status' = AfterRead
    /\ UNCHANGED <<lineVars, r_wait, async_queue, sigio, got, lastEvent>>

\* The process takes its SIGIO: a sleeping call ends first, then the handler
\* runs, which reads the key when the file is open.
TakeSignal(r) ==
    /\ r \in sigio
    /\ pc[r] \in {"idle", "closed"}
    /\ sigio' = sigio \ {r}
    /\ pc' = [pc EXCEPT ![r] = IF @ = "idle" THEN "check" ELSE "closed"]
    /\ UNCHANGED <<lineVars, status, r_wait, async_queue, got, lastEvent>>

InCall(r) ==
    \/ FirstCheck(r) \/ Enqueue(r) \/ ConditionHolds(r) \/ ConditionFails(r)
    \/ CopyToUser(r) \/ Clear(r)

UserStep(r) ==
    \/ key_open(r) \/ key_release(r) \/ key_fasync(r, TRUE) \/ key_fasync(r, FALSE)
    \/ ReadStart(r) \/ PollStart(r) \/ Interrupted(r)

-----------------------------------------------------------------------------
LineStep ==
    /\ Edge \/ key_interrupt \/ TimerExpires
    /\ UNCHANGED <<status, readerVars, got, lastEvent>>

Next ==
    \/ LineStep
    \/ key_timer_function
    \/ \E r \in Readers : InCall(r) \/ UserStep(r) \/ TakeSignal(r)

Spec == Init /\ [][Next]_vars

(***************************************************************************)
(* Interrupts are delivered, armed timers expire, a callback runs to its   *)
(* end and a call that is not asleep is scheduled.  A signal is taken, and *)
(* a sleep it is pending for ends.  Nothing makes the user move the key,   *)
(* open or read.                                                           *)
(***************************************************************************)
Fairness ==
    /\ WF_vars(key_interrupt /\ LineStep)
    /\ WF_vars(TimerExpires /\ LineStep)
    /\ WF_vars(key_timer_function)
    /\ \A r \in Readers : WF_vars(InCall(r))
    /\ \A r \in Readers : WF_vars(TakeSignal(r))
    /\ \A r \in Readers : WF_vars(r \in sigio /\ Interrupted(r))

FairSpec == Spec /\ Fairness

-----------------------------------------------------------------------------
(***************************************************************************)
(* No reader sleeps beside an event: one that is asleep while the status   *)
(* is not KEEP is still queued, and the callback is about to wake it.      *)
(* This is what queueing before the second look (wait_event_interruptible, *)
(* poll_wait) and setting the status before wake_up must guarantee.        *)
(***************************************************************************)
NoLostWakeup ==
    \A r \in Readers :
        pc[r] = "sleep" /\ status # KEY_KEEP => cb = "wake" /\ r \in r_wait

(***************************************************************************)
(* A reader that is about to copy has not had this event before: whoever   *)
(* copied an event clears the status before a read of its own can see it.  *)
(***************************************************************************)
NoDoubleDelivery ==
    \A r \in Readers : pc[r] = "copy" /\ status # KEY_KEEP => r \notin got

(***************************************************************************)
(* Only an open file is signalled: kill_fasync must never find a file that *)
(* was closed in async_queue.                                              *)
(***************************************************************************)
OnlyOpenFilesSignalled == \A r \in async_queue : pc[r] # "closed"

(***************************************************************************)
(* Presses and releases alternate: the debounced driver never reports a    *)
(* second press without a release between, whatever the contact does.      *)
(***************************************************************************)
EventsAlternate == [][cb = "post" /\ cb' = "wake" => status' # lastEvent]_vars

(***************************************************************************)
(* Once the contact is quiet, the driver's view of the key is the pin's    *)
(* level, if the key has moved at all: of a key that is held down at load  *)
(* and never moves, no driver learns.                                      *)
(***************************************************************************)
DebounceSettles == <>[](cb = "idle" /\ (Untouched \/ last_val = pin))

\* A reader that sleeps when an event is there gets out of its sleep.
SleeperWakes ==
    \A r \in Readers : (pc[r] = "sleep" /\ status # KEY_KEEP) ~> pc[r] # "sleep"

\* An event posted while a file is in the fasync queue reaches its owner.
SigioArrives ==
    \A r \in Async :
        (cb = "wake" /\ r \in async_queue) ~> (r \in sigio \/ r \notin async_queue)
=============================================================================
