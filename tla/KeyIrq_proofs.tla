---------------------------- MODULE KeyIrq_proofs ----------------------------
(***************************************************************************)
(* KeyIrq implements EventMailbox, for any number of readers and edges.    *)
(***************************************************************************)
EXTENDS KeyIrq, TLAPS

\* The lock word is set exactly while somebody is between lock and unlock.
LockedIffInside == locked <=> CallbackInside \/ Reading # {}

IInv ==
    /\ TypeOK
    /\ EdgeNotForgotten
    /\ LockedIffInside
    /\ AtMostOneInside

USE DEF KEY_PRESS, KEY_RELEASE, KEY_KEEP, key_status, Level,
        ReaderPoint, CallbackPoint, lineVars

LEMMA InitIInv == Init => IInv
<1> SUFFICES ASSUME Init PROVE IInv
  OBVIOUS
<1>1. edges \in 0..MaxEdges
  BY MaxEdgesAssumption DEF Init, LineInit
<1>2. TypeOK
  BY <1>1 DEF Init, LineInit, TypeOK
<1>3. EdgeNotForgotten
  BY DEF Init, LineInit, EdgeNotForgotten, Untouched
<1>4. LockedIffInside /\ AtMostOneInside
  BY DEF Init, LineInit, LockedIffInside, AtMostOneInside, CallbackInside, Reading
<1> QED
  BY <1>2, <1>3, <1>4 DEF IInv

LEMMA LineKeepsIInv == IInv /\ LineStep => IInv'
<1> SUFFICES ASSUME IInv, LineStep PROVE IInv'
  OBVIOUS
<1>1. UNCHANGED <<status, locked, pc, given, posted, cur, last_val>>
  BY DEF LineStep, Edge, key_interrupt, TimerExpires
<1>2. cb' = cb \/ (cb = "idle" /\ cb' = "enter")
  BY DEF LineStep, Edge, key_interrupt, TimerExpires
<1>3. TypeOK'
  <2>1. edges' \in 0..MaxEdges
    BY MaxEdgesAssumption DEF IInv, TypeOK, LineStep, Edge, key_interrupt, TimerExpires
  <2>2. pin' \in Level
    BY DEF IInv, TypeOK, LineStep, Edge, key_interrupt, TimerExpires
  <2>3. irq' \in BOOLEAN /\ timer' \in BOOLEAN
    BY DEF IInv, TypeOK, LineStep, Edge, key_interrupt, ArmedByInterrupt, TimerExpires
  <2> QED
    BY <1>1, <1>2, <2>1, <2>2, <2>3 DEF IInv, TypeOK
<1>4. EdgeNotForgotten'
  BY DEF IInv, TypeOK, EdgeNotForgotten, Untouched, Settled,
         LineStep, Edge, key_interrupt, ArmedByInterrupt, TimerExpires
<1>5. (LockedIffInside /\ AtMostOneInside)'
  BY <1>1, <1>2 DEF IInv, LockedIffInside, AtMostOneInside, CallbackInside, Reading
<1> QED
  BY <1>3, <1>4, <1>5 DEF IInv

LEMMA CallbackKeepsIInv == IInv /\ key_timer_function => IInv'
<1> SUFFICES ASSUME IInv, key_timer_function PROVE IInv'
  OBVIOUS
<1>1. UNCHANGED <<pin, edges, irq, timer, pc, given>>
  BY DEF key_timer_function, LockAndSample, Post, LatchAndUnlock, ReadGpio, SampledLevel, GoTo, Latch
<1>2. TypeOK' /\ EdgeNotForgotten'
  BY <1>1 DEF IInv, TypeOK, EdgeNotForgotten, Untouched, Settled, key_timer_function, LockAndSample,
              Post, LatchAndUnlock, ReadGpio, SampledLevel, GoTo, Latch, LatchedLevel, Reported
<1>3. CASE LockAndSample
  <2>1. Reading = {} /\ Reading' = Reading
    BY <1>1, <1>3 DEF IInv, LockedIffInside, LockAndSample, LockFree, Reading
  <2>2. CallbackInside' /\ locked'
    BY <1>3 DEF LockAndSample, ReadGpio, CallbackInside
  <2> QED
    BY <1>2, <2>1, <2>2 DEF IInv, LockedIffInside, AtMostOneInside
<1>4. CASE Post
  BY <1>2, <1>4 DEF IInv, LockedIffInside, AtMostOneInside, CallbackInside, Reading, Post, GoTo
<1>5. CASE LatchAndUnlock
  <2>1. Reading' = {} /\ ~CallbackInside'
    BY <1>1, <1>5 DEF IInv, AtMostOneInside, CallbackInside, Reading, LatchAndUnlock, Latch
  <2>2. ~locked'
    BY <1>5, Zenon DEF LatchAndUnlock
  <2> QED
    BY <1>2, <2>1, <2>2 DEF IInv, LockedIffInside, AtMostOneInside
<1> QED
  BY <1>3, <1>4, <1>5 DEF key_timer_function

LEMMA ReaderKeepsIInv ==
  ASSUME IInv, NEW r \in Readers,
         key_open(r) \/ key_release(r) \/ ReadStart(r) \/ ReadStep(r)
  PROVE  IInv'
<1>1. UNCHANGED <<lineVars, posted>>
  BY DEF key_open, key_release, ReadStart, ReadStep, Lock, CopyToUser, ClearAndUnlock
<1>2. EdgeNotForgotten'
  BY <1>1 DEF IInv, EdgeNotForgotten, Untouched, Settled
<1> USE DEF IInv, TypeOK
<1>3. CASE key_open(r) \/ key_release(r) \/ ReadStart(r)
  BY <1>1, <1>2, <1>3 DEF key_open, key_release, ReadStart, Move,
                          LockedIffInside, AtMostOneInside, CallbackInside, Reading
<1>4. CASE Lock(r)
  <2>1. Reading = {} /\ ~CallbackInside
    BY <1>4 DEF Lock, LockFree, LockedIffInside
  <2>2. Reading' = {r} /\ locked' /\ ~CallbackInside'
    BY <1>1, <1>4, <2>1 DEF Lock, Move, Reading, CallbackInside
  <2>3. TypeOK'
    BY <1>1, <1>4 DEF Lock, Move
  <2> QED
    BY <1>2, <2>2, <2>3 DEF LockedIffInside, AtMostOneInside
<1>5. CASE CopyToUser(r)
  <2>1. Reading' = Reading
    BY <1>5 DEF CopyToUser, Move, Reading
  <2>2. TypeOK'
    BY <1>1, <1>5 DEF CopyToUser, Move
  <2> QED
    BY <1>1, <1>2, <1>5, <2>1, <2>2
    DEF CopyToUser, LockedIffInside, AtMostOneInside, CallbackInside
<1>6. CASE ClearAndUnlock(r)
  <2>1. Reading' = {} /\ ~CallbackInside'
    BY <1>1, <1>6 DEF ClearAndUnlock, Move, Reading, CallbackInside, AtMostOneInside
  <2>2. TypeOK'
    BY <1>1, <1>6 DEF ClearAndUnlock, Move, Unlocked
  <2>3. ~locked'
    BY <1>6, Zenon DEF ClearAndUnlock, Unlocked
  <2> QED
    BY <1>2, <2>1, <2>2, <2>3 DEF LockedIffInside, AtMostOneInside
<1> QED
  BY <1>3, <1>4, <1>5, <1>6 DEF ReadStep

LEMMA NextIInv == IInv /\ [Next]_vars => IInv'
<1> SUFFICES ASSUME IInv, [Next]_vars PROVE IInv'
  OBVIOUS
<1>1. CASE UNCHANGED vars
  BY <1>1 DEF vars, IInv, TypeOK, EdgeNotForgotten, Untouched, Settled, LockedIffInside,
              AtMostOneInside, CallbackInside, Reading
<1> QED
  BY <1>1, LineKeepsIInv, CallbackKeepsIInv, ReaderKeepsIInv DEF Next

LEMMA InductiveInvariant == Spec => []IInv
  BY InitIInv, NextIInv, PTL DEF Spec

\* The state of keyirq and of its line keeps its type.
THEOREM TypeCorrect == Spec => []TypeOK
  BY InductiveInvariant, PTL DEF IInv

(***************************************************************************)
(* key.spinlock keeps the callback and the readers out of each other's     *)
(* critical sections.                                                      *)
(***************************************************************************)
THEOREM MutualExclusion == Spec => []AtMostOneInside
  BY InductiveInvariant, PTL DEF IInv

(***************************************************************************)
(* No path out of the callback or key_read leaves the lock behind: whoever *)
(* spins, spins for somebody who is on the way to the unlock.  It is the   *)
(* safety half of ReadsReturn.                                             *)
(***************************************************************************)
THEOREM LockGivenBack == Spec => []LockedIffInside
  BY InductiveInvariant, PTL DEF IInv

-----------------------------------------------------------------------------
(***************************************************************************)
(* The refinement: a report is the callback's Post, a take is the copy.    *)
(***************************************************************************)
LEMMA InitMaps == Init => Mailbox!Init
  BY DEF Init, Mailbox!Init, Slot

LEMMA CallbackMaps == IInv /\ key_timer_function => [Mailbox!Next]_Mailbox!vars
<1> SUFFICES ASSUME IInv, key_timer_function PROVE [Mailbox!Next]_Mailbox!vars
  OBVIOUS
<1>1. CASE LockAndSample \/ LatchAndUnlock
  BY <1>1 DEF LockAndSample, LatchAndUnlock, Mailbox!vars, Slot
<1>2. CASE Post
  <2>1. Slot = status /\ Slot' = status'
    BY <1>2 DEF IInv, AtMostOneInside, CallbackInside, Reading, Post, Slot
  <2>2. Reported \in key_status /\ Mailbox!Report(Reported)
    BY <1>2, <2>1 DEF Post, Mailbox!Report, Reported
  <2> QED
    BY <2>2 DEF Mailbox!Next
<1> QED
  BY <1>1, <1>2 DEF key_timer_function

LEMMA ReaderMaps ==
  ASSUME IInv, NEW r \in Readers,
         key_open(r) \/ key_release(r) \/ ReadStart(r) \/ ReadStep(r)
  PROVE  [Mailbox!Next]_Mailbox!vars
<1> USE DEF IInv, TypeOK
<1>1. CASE key_open(r) \/ key_release(r) \/ ReadStart(r) \/ Lock(r)
  <2>1. UNCHANGED <<status, posted, given>>
    BY <1>1 DEF key_open, key_release, ReadStart, Lock
  <2>2. (\E s \in Readers : pc[s] = "clear")' <=> (\E s \in Readers : pc[s] = "clear")
    BY <1>1 DEF key_open, key_release, ReadStart, Lock, Move
  <2> QED
    BY <2>1, <2>2 DEF Mailbox!vars, Slot
<1>2. CASE CopyToUser(r)
  <2>1. \A s \in Readers : pc[s] # "clear"
    BY <1>2 DEF CopyToUser, Move, AtMostOneInside, Reading
  <2>2. Slot = status /\ Slot' = KEY_KEEP
    BY <1>2, <2>1 DEF CopyToUser, Move, Slot
  <2>3. Mailbox!Take(r) \/ Mailbox!Fault
    BY <1>2, <2>2 DEF CopyToUser, Mailbox!Take, Mailbox!Fault
  <2> QED
    BY <2>3 DEF Mailbox!Next
<1>3. CASE ClearAndUnlock(r)
  <2>1. Slot = KEY_KEEP /\ Slot' = KEY_KEEP
    BY <1>3 DEF ClearAndUnlock, Move, Slot
  <2> QED
    BY <1>3, <2>1 DEF ClearAndUnlock, Mailbox!vars
<1> QED
  BY <1>1, <1>2, <1>3 DEF ReadStep

(***************************************************************************)
(* keyirq implements the mailbox: every step of the interrupt, the timer   *)
(* callback and key_read is a report, a take, a fault or no visible step.  *)
(***************************************************************************)
THEOREM KeyIrqImplementsMailbox == Spec => ImplementsMailbox
<1>1. IInv /\ [Next]_vars => [Mailbox!Next]_Mailbox!vars
  <2> SUFFICES ASSUME IInv, [Next]_vars PROVE [Mailbox!Next]_Mailbox!vars
    OBVIOUS
  <2>1. CASE LineStep
    BY <2>1 DEF LineStep, Mailbox!vars, Slot
  <2>2. CASE UNCHANGED vars
    BY <2>2 DEF vars, Mailbox!vars, Slot
  <2> QED
    BY <2>1, <2>2, CallbackMaps, ReaderMaps DEF Next
<1> QED
  BY <1>1, InitMaps, InductiveInvariant, PTL DEF Spec, ImplementsMailbox, Mailbox!Spec

-----------------------------------------------------------------------------
(***************************************************************************)
(* What every implementation of the mailbox promises, proved of the        *)
(* abstract specification, and so of keyirq: a read is given the latest    *)
(* report or nothing, never an older one, whatever the callback posted     *)
(* while the read waited for the lock.                                     *)
(***************************************************************************)
Fresh == Slot \in {KEY_KEEP, posted}

GivenLatest == \A r \in Readers : given'[r] # given[r] => given'[r] \in {KEY_KEEP, posted}

LEMMA MailboxGivesLatest == Mailbox!Spec => [][GivenLatest]_given
<1>1. Mailbox!Init => Fresh
  BY DEF Mailbox!Init, Fresh
<1>2. Fresh /\ [Mailbox!Next]_Mailbox!vars => Fresh' /\ [GivenLatest]_given
  <2> SUFFICES ASSUME Fresh, [Mailbox!Next]_Mailbox!vars PROVE Fresh' /\ [GivenLatest]_given
    OBVIOUS
  <2> USE DEF Fresh, GivenLatest
  <2>1. ASSUME NEW e \in key_status, Mailbox!Report(e) PROVE Fresh' /\ given' = given
    BY <2>1 DEF Mailbox!Report
  <2>2. ASSUME NEW r \in Readers, Mailbox!Take(r) PROVE Fresh' /\ GivenLatest
    BY <2>2 DEF Mailbox!Take
  <2>3. CASE Mailbox!Fault
    BY <2>3 DEF Mailbox!Fault
  <2>4. CASE UNCHANGED Mailbox!vars
    BY <2>4 DEF Mailbox!vars
  <2> QED
    BY <2>1, <2>2, <2>3, <2>4 DEF Mailbox!Next
<1> QED
  BY <1>1, <1>2, PTL DEF Mailbox!Spec

THEOREM ReadsGiveLatestReport == Spec => [][GivenLatest]_given
  BY KeyIrqImplementsMailbox, MailboxGivesLatest, PTL DEF ImplementsMailbox

-----------------------------------------------------------------------------
(***************************************************************************)
(* What the callback has posted agrees with the level it last took for the *)
(* key's, until it samples again; from its Post on, with its sample.       *)
(***************************************************************************)
PostedMatchesLevel ==
    posted = KEY_PRESS <=> (IF cb = "latch" THEN cur ELSE last_val) = 0

LEMMA PostedKept == IInv /\ PostedMatchesLevel /\ [Next]_vars => PostedMatchesLevel'
<1> SUFFICES ASSUME IInv, PostedMatchesLevel, [Next]_vars PROVE PostedMatchesLevel'
  OBVIOUS
<1> USE DEF IInv, TypeOK, PostedMatchesLevel
<1>1. CASE LineStep
  BY <1>1 DEF LineStep, Edge, key_interrupt, TimerExpires
<1>2. CASE LockAndSample
  BY <1>2 DEF LockAndSample, ReadGpio
<1>3. CASE Post
  BY <1>3 DEF Post, GoTo, Reported
<1>4. CASE LatchAndUnlock
  BY <1>4 DEF LatchAndUnlock, Latch, LatchedLevel
<1>5. ASSUME NEW r \in Readers, key_open(r) \/ key_release(r) \/ ReadStart(r) \/ ReadStep(r)
      PROVE  PostedMatchesLevel'
  BY <1>5 DEF key_open, key_release, ReadStart, ReadStep, Lock, CopyToUser, ClearAndUnlock
<1>6. CASE UNCHANGED vars
  BY <1>6 DEF vars
<1> QED
  BY <1>1, <1>2, <1>3, <1>4, <1>5, <1>6 DEF Next, key_timer_function

(***************************************************************************)
(* When the key has moved since the load, the contact is quiet and the     *)
(* driver at rest, the last report is a press exactly if the key is down:  *)
(* the safety half of LastReportAgrees.  Of a key held down since before   *)
(* the load it says nothing: no code reads the gpio before an edge.        *)
(***************************************************************************)
AtRest == ~irq /\ ~timer /\ cb = "idle"

LastReportTrue ==
    AtRest => Untouched \/ (posted = KEY_PRESS <=> pin = 0)

THEOREM ReportedAtRest == Spec => []LastReportTrue
<1>1. Init => PostedMatchesLevel
  BY DEF Init, LineInit, PostedMatchesLevel
<1>2. IInv /\ PostedMatchesLevel => LastReportTrue
  BY DEF IInv, EdgeNotForgotten, Untouched, Settled, PostedMatchesLevel, AtRest, LastReportTrue
<1> QED
  BY <1>1, <1>2, PostedKept, InductiveInvariant, PTL DEF Spec
=============================================================================
