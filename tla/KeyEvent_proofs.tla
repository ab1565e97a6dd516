--------------------------- MODULE KeyEvent_proofs ---------------------------
(***************************************************************************)
(* KeyEvent's invariants, for any set of readers in any mix of modes and   *)
(* any number of edges.                                                    *)
(***************************************************************************)
EXTENDS KeyEvent, TLAPS

\* A sleeping reader is queued, and an event it could take has its wake-up coming.
SleepersQueued ==
    \A r \in Readers : pc[r] = "sleep" => r \in r_wait

\* Who has copied the event that status still holds is about to clear it.
DeliveredIsBeingCleared ==
    \A r \in got : status # KEY_KEEP => pc[r] = "clear"

EventOf(level) == IF level = 0 THEN KEY_PRESS ELSE KEY_RELEASE

\* The level the last event reported: the callback's sample once it is posted.
Reported == IF cb \in {"wake", "kill", "latch"} THEN cur ELSE last_val

EventMatchesLevel ==
    /\ lastEvent = EventOf(Reported)
    /\ cb = "post" => cur # last_val
    /\ cb = "keep" => cur = last_val

IInv ==
    /\ TypeOK
    /\ EdgeNotForgotten
    /\ SleepersQueued
    /\ NoLostWakeup
    /\ DeliveredIsBeingCleared
    /\ OnlyOpenFilesSignalled
    /\ EventMatchesLevel

USE DEF KEY_PRESS, KEY_RELEASE, KEY_KEEP, key_status, Level,
        WaitPoint, ReaderPoint, CallbackPoint, lineVars, readerVars

LEMMA InitIInv == Init => IInv
<1> SUFFICES ASSUME Init PROVE IInv
  OBVIOUS
<1>1. TypeOK
  <2>1. edges \in 0..MaxEdges
    BY MaxEdgesAssumption DEF Init, LineInit
  <2>2. pc \in [Readers -> ReaderPoint]
    BY DEF Init
  <2> QED
    BY <2>1, <2>2 DEF Init, LineInit, TypeOK
<1>2. EdgeNotForgotten /\ EventMatchesLevel
  BY DEF Init, LineInit, EdgeNotForgotten, Untouched, EventMatchesLevel, EventOf, Reported
<1>3. SleepersQueued /\ NoLostWakeup /\ DeliveredIsBeingCleared /\ OnlyOpenFilesSignalled
  BY DEF Init, SleepersQueued, NoLostWakeup, DeliveredIsBeingCleared, OnlyOpenFilesSignalled
<1> QED
  BY <1>1, <1>2, <1>3 DEF IInv

(***************************************************************************)
(* The key, the interrupt and the timer leave the readers alone.           *)
(***************************************************************************)
LEMMA LineKeepsIInv == IInv /\ LineStep => IInv'
<1> SUFFICES ASSUME IInv, LineStep PROVE IInv'
  OBVIOUS
<1>1. UNCHANGED <<status, readerVars, got, lastEvent, cur, last_val>>
  BY DEF LineStep, Edge, key_interrupt, TimerExpires
<1>2. cb' = cb \/ (cb = "idle" /\ cb' = "enter")
  BY DEF LineStep, Edge, key_interrupt, TimerExpires
<1>3. TypeOK'
  <2>1. edges' \in 0..MaxEdges
    BY MaxEdgesAssumption DEF IInv, TypeOK, LineStep, Edge, key_interrupt, TimerExpires
  <2>2. pin' \in Level
    BY DEF IInv, TypeOK, LineStep, Edge, key_interrupt, TimerExpires
  <2>3. irq' \in BOOLEAN /\ timer' \in BOOLEAN
    BY DEF IInv, TypeOK, LineStep, Edge, key_interrupt, ArmedByInterrupt, TimerExpires
  <2> QED
    BY <1>1, <1>2, <2>1, <2>2, <2>3 DEF IInv, TypeOK
<1>4. EdgeNotForgotten'
  BY DEF IInv, TypeOK, EdgeNotForgotten, Untouched, Settled,
         LineStep, Edge, key_interrupt, ArmedByInterrupt, TimerExpires
<1>5. (SleepersQueued /\ NoLostWakeup /\ DeliveredIsBeingCleared /\ OnlyOpenFilesSignalled)'
  BY <1>1, <1>2 DEF IInv, SleepersQueued, NoLostWakeup, DeliveredIsBeingCleared,
                    OnlyOpenFilesSignalled
<1>6. EventMatchesLevel'
  BY <1>1, <1>2 DEF IInv, EventMatchesLevel, EventOf, Reported
<1> QED
  BY <1>3, <1>4, <1>5, <1>6 DEF IInv

(***************************************************************************)
(* The timer callback.                                                     *)
(***************************************************************************)
LEMMA CallbackKeepsIInv == IInv /\ key_timer_function => IInv'
<1> SUFFICES ASSUME IInv, key_timer_function PROVE IInv'
  OBVIOUS
<1> USE DEF IInv, EventMatchesLevel, EventOf, Reported, EdgeNotForgotten, Untouched, Settled
<1>1. CASE Sample
  <2>1. TypeOK' /\ EdgeNotForgotten'
    BY <1>1 DEF TypeOK, Sample, ReadGpio, SampledLevel, Changed
  <2>2. EventMatchesLevel'
    BY <1>1 DEF TypeOK, Sample, ReadGpio, SampledLevel, Changed
  <2>3. (SleepersQueued /\ NoLostWakeup /\ DeliveredIsBeingCleared /\ OnlyOpenFilesSignalled)'
    BY <1>1 DEF Sample, ReadGpio, SampledLevel, Changed, SleepersQueued, NoLostWakeup,
                DeliveredIsBeingCleared, OnlyOpenFilesSignalled
  <2> QED
    BY <2>1, <2>2, <2>3
<1>2. CASE Post
  <2>1. TypeOK' /\ EdgeNotForgotten' /\ EventMatchesLevel'
    BY <1>2 DEF TypeOK, Post, GoTo
  <2>2. (SleepersQueued /\ NoLostWakeup /\ DeliveredIsBeingCleared /\ OnlyOpenFilesSignalled)'
    BY <1>2 DEF Post, GoTo, SleepersQueued, NoLostWakeup,
                DeliveredIsBeingCleared, OnlyOpenFilesSignalled
  <2> QED
    BY <2>1, <2>2
<1>3. CASE Keep
  <2>1. TypeOK' /\ EdgeNotForgotten' /\ EventMatchesLevel'
    BY <1>3 DEF TypeOK, Keep, GoTo
  <2>2. (SleepersQueued /\ NoLostWakeup /\ DeliveredIsBeingCleared /\ OnlyOpenFilesSignalled)'
    BY <1>3 DEF Keep, GoTo, SleepersQueued, NoLostWakeup,
                DeliveredIsBeingCleared, OnlyOpenFilesSignalled
  <2> QED
    BY <2>1, <2>2
<1>4. CASE Wake
  <2>1. TypeOK' /\ EdgeNotForgotten' /\ EventMatchesLevel'
    BY <1>4 DEF TypeOK, Wake, Awake, GoTo
  <2>2. \A r \in Readers : pc'[r] # "sleep" /\ (pc[r] # "sleep" => pc'[r] = pc[r])
    BY <1>4 DEF Wake, Awake, SleepersQueued
  <2>3. \A r \in Readers : pc[r] # "closed" => pc'[r] # "closed"
    BY <1>4 DEF Wake, Awake
  <2>4. UNCHANGED <<status, got, async_queue>> /\ got \subseteq Readers /\ async_queue \subseteq Readers
    BY <1>4 DEF Wake, TypeOK
  <2>5. (SleepersQueued /\ NoLostWakeup)'
    BY <2>2 DEF SleepersQueued, NoLostWakeup
  <2>6. (DeliveredIsBeingCleared /\ OnlyOpenFilesSignalled)'
    BY <2>2, <2>3, <2>4 DEF DeliveredIsBeingCleared, OnlyOpenFilesSignalled
  <2> QED
    BY <2>1, <2>5, <2>6
<1>5. CASE Kill
  <2>1. TypeOK' /\ EdgeNotForgotten' /\ EventMatchesLevel'
    BY <1>5 DEF TypeOK, Kill, Signalled, GoTo
  <2>2. (SleepersQueued /\ NoLostWakeup /\ DeliveredIsBeingCleared /\ OnlyOpenFilesSignalled)'
    BY <1>5 DEF Kill, GoTo, SleepersQueued, NoLostWakeup,
                DeliveredIsBeingCleared, OnlyOpenFilesSignalled
  <2> QED
    BY <2>1, <2>2
<1>6. CASE LatchLast
  <2>1. TypeOK' /\ EdgeNotForgotten' /\ EventMatchesLevel'
    BY <1>6 DEF TypeOK, LatchLast, Latch, LatchedLevel
  <2>2. (SleepersQueued /\ NoLostWakeup /\ DeliveredIsBeingCleared /\ OnlyOpenFilesSignalled)'
    BY <1>6 DEF LatchLast, Latch, SleepersQueued, NoLostWakeup,
                DeliveredIsBeingCleared, OnlyOpenFilesSignalled
  <2> QED
    BY <2>1, <2>2
<1> QED
  BY <1>1, <1>2, <1>3, <1>4, <1>5, <1>6 DEF key_timer_function

(***************************************************************************)
(* A reader's step leaves the line alone.                                  *)
(***************************************************************************)
LEMMA ReaderKeepsIInv ==
  ASSUME IInv, NEW r \in Readers, InCall(r) \/ UserStep(r) \/ TakeSignal(r)
  PROVE  IInv'
<1>1. UNCHANGED <<lineVars, lastEvent>>
  BY DEF InCall, UserStep, FirstCheck, Enqueue, ConditionHolds, ConditionFails, CopyToUser,
         Clear, key_open, key_release, key_fasync, ReadStart, PollStart, Interrupted, TakeSignal
<1>2. EdgeNotForgotten' /\ EventMatchesLevel'
  BY <1>1 DEF IInv, EdgeNotForgotten, Untouched, Settled, EventMatchesLevel, EventOf, Reported
<1> USE DEF IInv, TypeOK, SleepersQueued, NoLostWakeup, DeliveredIsBeingCleared,
            OnlyOpenFilesSignalled
<1>3. CASE FirstCheck(r)
  BY <1>1, <1>2, <1>3 DEF FirstCheck, Move
<1>4. CASE Enqueue(r)
  BY <1>1, <1>2, <1>4 DEF Enqueue, Move
<1>5. CASE ConditionHolds(r)
  BY <1>1, <1>2, <1>5 DEF ConditionHolds, Satisfied, Move
<1>6. CASE ConditionFails(r)
  BY <1>1, <1>2, <1>6 DEF ConditionFails, SleepPoint, Move
<1>7. CASE CopyToUser(r)
  BY <1>1, <1>2, <1>7 DEF CopyToUser, Move
<1>8. CASE Clear(r)
  BY <1>1, <1>2, <1>8 DEF Clear, AfterRead, Move
<1>9. CASE key_open(r)
  BY <1>1, <1>2, <1>9 DEF key_open, Move
<1>10. CASE key_release(r)
  BY <1>1, <1>2, <1>10 DEF key_release, AfterRelease, Move
<1>11. CASE key_fasync(r, TRUE)
  BY <1>1, <1>2, <1>11 DEF key_fasync
<1>12. CASE key_fasync(r, FALSE)
  BY <1>1, <1>2, <1>12 DEF key_fasync
<1>13. CASE ReadStart(r)
  BY <1>1, <1>2, <1>13 DEF ReadStart, Move
<1>14. CASE PollStart(r)
  BY <1>1, <1>2, <1>14 DEF PollStart, Move
<1>15. CASE Interrupted(r)
  BY <1>1, <1>2, <1>15 DEF Interrupted, Move
<1>16. CASE TakeSignal(r)
  BY <1>1, <1>2, <1>16 DEF TakeSignal
<1> QED
  BY <1>3, <1>4, <1>5, <1>6, <1>7, <1>8, <1>9, <1>10, <1>11, <1>12, <1>13, <1>14, <1>15, <1>16 DEF InCall, UserStep

LEMMA NextIInv == IInv /\ [Next]_vars => IInv'
<1> SUFFICES ASSUME IInv, [Next]_vars PROVE IInv'
  OBVIOUS
<1>1. CASE LineStep
  BY <1>1, LineKeepsIInv
<1>2. CASE key_timer_function
  BY <1>2, CallbackKeepsIInv
<1>3. CASE \E r \in Readers : InCall(r) \/ UserStep(r) \/ TakeSignal(r)
  BY <1>3, ReaderKeepsIInv
<1>4. CASE UNCHANGED vars
  BY <1>4 DEF vars, IInv, TypeOK, EdgeNotForgotten, Untouched, Settled, SleepersQueued, NoLostWakeup,
              DeliveredIsBeingCleared, OnlyOpenFilesSignalled, EventMatchesLevel, EventOf,
              Reported
<1> QED
  BY <1>1, <1>2, <1>3, <1>4 DEF Next

LEMMA InductiveInvariant == Spec => []IInv
  BY InitIInv, NextIInv, PTL DEF Spec

(***************************************************************************)
(* Every variable keeps to its type.                                       *)
(***************************************************************************)
THEOREM TypeCorrect == Spec => []TypeOK
  BY InductiveInvariant, PTL DEF IInv

(***************************************************************************)
(* key_interrupt, mod_timer and key_timer_function never forget an edge.   *)
(***************************************************************************)
THEOREM EdgesNoticed == Spec => []EdgeNotForgotten
  BY InductiveInvariant, PTL DEF IInv

(***************************************************************************)
(* No reader of key_read or key_poll sleeps beside an event.               *)
(***************************************************************************)
THEOREM WakeupsNotLost == Spec => []NoLostWakeup
  BY InductiveInvariant, PTL DEF IInv

(***************************************************************************)
(* kill_fasync finds open files only.                                      *)
(***************************************************************************)
THEOREM SignalsGoToOpenFiles == Spec => []OnlyOpenFilesSignalled
  BY InductiveInvariant, PTL DEF IInv

(***************************************************************************)
(* key_read never hands the same event to the same reader twice.           *)
(***************************************************************************)
THEOREM EventsDeliveredOnce == Spec => []NoDoubleDelivery
<1>1. IInv => NoDoubleDelivery
  BY DEF IInv, DeliveredIsBeingCleared, NoDoubleDelivery
<1> QED
  BY <1>1, InductiveInvariant, PTL

(***************************************************************************)
(* The events key_timer_function posts are press and release in turn.      *)
(***************************************************************************)
THEOREM PressAndReleaseInTurn == Spec => EventsAlternate
<1> DEFINE Alternates == cb = "post" /\ cb' = "wake" => status' # lastEvent
<1>1. IInv /\ [Next]_vars => [Alternates]_vars
  <2> SUFFICES ASSUME IInv, Next, cb = "post", cb' = "wake" PROVE status' # lastEvent
    BY DEF vars
  <2>1. CASE LineStep
    BY <2>1 DEF LineStep, Edge, key_interrupt, TimerExpires
  <2>2. CASE key_timer_function
    <3>1. Post
      BY <2>2 DEF key_timer_function, Sample, Keep, Wake, Kill, LatchLast
    <3> QED
      BY <3>1 DEF Post, IInv, TypeOK, EventMatchesLevel, EventOf, Reported
  <2>3. CASE \E r \in Readers : InCall(r) \/ UserStep(r) \/ TakeSignal(r)
    BY <2>3 DEF InCall, UserStep, FirstCheck, Enqueue, ConditionHolds, ConditionFails,
                CopyToUser, Clear, key_open, key_release, key_fasync, ReadStart, PollStart,
                Interrupted, TakeSignal
  <2> QED
    BY <2>1, <2>2, <2>3 DEF Next
<1> QED
  BY <1>1, InductiveInvariant, PTL DEF Spec, EventsAlternate

(***************************************************************************)
(* When the key has moved since the load, the contact is quiet and the     *)
(* driver at rest, its view of the key and the last event it posted are    *)
(* the level of the pin: the safety half of DebounceSettles, and that a    *)
(* press or release is not only noticed but also reported.  It says        *)
(* nothing of a key held down since before the load, which no code reads.  *)
(***************************************************************************)
AtRest == ~irq /\ ~timer /\ cb = "idle"

LastEventAgrees ==
    AtRest => Untouched \/ (last_val = pin /\ lastEvent = EventOf(pin))

THEOREM ReportedAtRest == Spec => []LastEventAgrees
<1>1. IInv => LastEventAgrees
  BY DEF IInv, EdgeNotForgotten, Untouched, Settled, EventMatchesLevel, Reported, AtRest, LastEventAgrees
<1> QED
  BY <1>1, InductiveInvariant, PTL
=============================================================================
