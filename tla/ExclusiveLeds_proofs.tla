------------------------ MODULE ExclusiveLeds_proofs ------------------------
(***************************************************************************)
(* The four exclusive drivers, for any finite set of files: the safety of  *)
(* each, and that whichever is loaded implements ExclusiveLed.  A section  *)
(* per driver shows its invariant kept and its holders changing as they    *)
(* may; the last section puts the four together.                           *)
(***************************************************************************)
EXTENDS ExclusiveLeds, FiniteSetTheorems, SequenceTheorems, TLAPS

\* What a step of a driver may do to the holders, as ExclusiveLed sees it.
HolderStep(before, after) ==
    \/ after = before /\ led' = led
    \/ \E f \in Files :
          \/ before = {} /\ after = {f} /\ led' = led
          \/ before = {f} /\ after = {f} /\ led' \in Level
          \/ before = {f} /\ after = {} /\ led' = led

AtMostOne(S) == \A f, g \in S : f = g

USE DEF Level, On, Off, Atomic!Level, Atomic!On, Atomic!Off, Spin!Level, Spin!On,
        Spin!Off, Sem!Level, Sem!On, Sem!Off, Mutex!Level, Mutex!On, Mutex!Off

\* The drivers' modules count as this one does.
LEMMA SameCardinality ==
  \A S : Atomic!Cardinality(S) = Cardinality(S) /\ Mutex!Cardinality(S) = Cardinality(S)
<1>1. ASSUME NEW S PROVE Atomic!Cardinality(S) = Cardinality(S)
  BY DEF Atomic!Cardinality, Cardinality
<1>2. ASSUME NEW S PROVE Mutex!Cardinality(S) = Cardinality(S)
  BY DEF Mutex!Cardinality, Cardinality
<1> QED
  BY <1>1, <1>2

-----------------------------------------------------------------------------
(***************************************************************************)
(* atomic_gpioled: the atomic counts its takers, so a decrement that ends  *)
(* at zero finds none.                                                     *)
(***************************************************************************)
Takers == Atomic!Held \cup Atomic!Undoing

AtomicInv == Atomic!TypeOK /\ Atomic!LockCountsTakers /\ AtMostOne(Atomic!Held)

LEMMA AtomicInit == Atomic!Init => AtomicInv
<1> SUFFICES ASSUME Atomic!Init PROVE AtomicInv
  OBVIOUS
<1>1. Takers = {}
  BY DEF Atomic!Init, Takers, Atomic!Held, Atomic!Undoing
<1>2. Cardinality(Takers) = 0
  BY <1>1, FS_EmptySet
<1> QED
  BY <1>1, <1>2, SameCardinality DEF Atomic!Init, AtomicInv, Atomic!TypeOK, Atomic!Point,
                    Atomic!LockCountsTakers, AtMostOne, Takers

LEMMA TakersFinite == IsFiniteSet(Takers) /\ Cardinality(Takers) \in Nat
<1>1. Takers \subseteq Files
  BY DEF Takers, Atomic!Held, Atomic!Undoing
<1>2. IsFiniteSet(Takers)
  BY <1>1, FilesAssumption, FS_Subset
<1> QED
  BY <1>2, FS_CardinalityType

\* An open counts one taker more, and holds the LED if there was none.
LEMMA AtomicOpenTakes ==
  ASSUME AtomicInv, NEW f \in Files, Atomic!led_open(f)
  PROVE  /\ Atomic!TypeOK' /\ Atomic!LockCountsTakers' /\ led' = led
         /\ Atomic!Held' = IF Takers = {} THEN {f} ELSE Atomic!Held
<1> USE DEF AtomicInv, Atomic!TypeOK, Atomic!Point, Atomic!led_open
<1>1. f \notin Takers
  BY DEF Takers, Atomic!Held, Atomic!Undoing
<1>2. Takers' = Takers \cup {f}
  BY DEF Takers, Atomic!Held, Atomic!Undoing
<1>3. Cardinality(Takers') = Cardinality(Takers) + 1
  BY <1>1, <1>2, TakersFinite, FS_AddElement
<1>4. lock = 1 - Cardinality(Takers) /\ lock' = lock - 1
  BY SameCardinality DEF Atomic!LockCountsTakers, Takers
<1>5. Atomic!LockCountsTakers'
  BY <1>3, <1>4, TakersFinite, SameCardinality DEF Atomic!LockCountsTakers, Takers
<1>6. Atomic!ReachesZero(lock - 1) <=> Takers = {}
  BY <1>4, TakersFinite, FS_EmptySet DEF Atomic!ReachesZero
<1>7. Atomic!TypeOK'
  BY <1>4, TakersFinite
<1>8. Atomic!Held' = IF Takers = {} THEN {f} ELSE Atomic!Held
  BY <1>1, <1>6 DEF Takers, Atomic!Held
<1> QED
  BY <1>5, <1>7, <1>8

\* A refused open and a release give back what they took.
LEMMA AtomicPutBackGives ==
  ASSUME AtomicInv, NEW f \in Files, Atomic!OpenFails(f) \/ Atomic!led_release(f)
  PROVE  /\ Atomic!TypeOK' /\ Atomic!LockCountsTakers' /\ led' = led
         /\ Atomic!Held' = Atomic!Held \ {f}
<1> USE DEF AtomicInv, Atomic!TypeOK, Atomic!Point, Atomic!OpenFails,
            Atomic!PutBack, Atomic!led_release
<1>1. f \in Takers
  BY DEF Takers, Atomic!Held, Atomic!Undoing
<1>2. Takers' = Takers \ {f} /\ Atomic!Held' = Atomic!Held \ {f}
  BY DEF Takers, Atomic!Held, Atomic!Undoing
<1>3. Cardinality(Takers') = Cardinality(Takers) - 1
  BY <1>1, <1>2, TakersFinite, FS_RemoveElement
<1>4. lock = 1 - Cardinality(Takers) /\ lock' = lock + 1
  BY SameCardinality DEF Atomic!LockCountsTakers, Takers
<1>5. Atomic!LockCountsTakers'
  BY <1>3, <1>4, TakersFinite, SameCardinality DEF Atomic!LockCountsTakers, Takers
<1>6. Atomic!TypeOK'
  BY <1>4, TakersFinite
<1> QED
  BY <1>2, <1>5, <1>6

LEMMA AtomicWrite ==
  ASSUME AtomicInv, NEW f \in Files, Atomic!Write(f)
  PROVE  /\ Atomic!TypeOK' /\ Atomic!LockCountsTakers' /\ led' \in Level
         /\ Atomic!Held' = Atomic!Held /\ Atomic!Held = {f}
<1> USE DEF AtomicInv, Atomic!TypeOK, Atomic!Write
<1>1. led' \in Level
  BY DEF Atomic!led_write, Atomic!LevelAfter, Atomic!Databuf, Atomic!Length,
         Atomic!Byte, Atomic!LEDON, Atomic!LEDOFF, Atomic!OtherByte
<1>2. Atomic!Held = {f}
  BY DEF AtMostOne, Atomic!Held
<1> QED
  BY <1>1, <1>2 DEF Atomic!LockCountsTakers, Atomic!Held, Atomic!Undoing

LEMMA AtomicStep ==
  ASSUME AtomicInv, Atomic!Next
  PROVE  AtomicInv' /\ HolderStep(Atomic!Held, Atomic!Held')
<1>1. PICK f \in Files : \/ Atomic!led_open(f) \/ Atomic!OpenFails(f)
                         \/ Atomic!Write(f) \/ Atomic!led_release(f)
  BY DEF Atomic!Next
<1> USE DEF HolderStep
<1>2. CASE Atomic!led_open(f)
  <2>1. Takers = {} => Atomic!Held = {}
    BY DEF Takers
  <2> QED
    BY <1>2, <2>1, AtomicOpenTakes DEF AtomicInv, AtMostOne
<1>3. CASE Atomic!OpenFails(f) \/ Atomic!led_release(f)
  <2>1. Atomic!Held = {f} \/ f \notin Atomic!Held
    BY DEF AtomicInv, AtMostOne
  <2> QED
    BY <1>3, <2>1, AtomicPutBackGives DEF AtomicInv, AtMostOne
<1>4. CASE Atomic!Write(f)
  BY <1>4, AtomicWrite DEF AtomicInv, AtMostOne
<1> QED
  BY <1>1, <1>2, <1>3, <1>4

\* A step that turns an open away finds a taker.
LEMMA AtomicRefusal ==
  ASSUME AtomicInv, Atomic!Next,
         NEW f \in Files, pc[f] = "closed", pc'[f] = "undo"
  PROVE  Atomic!Held # {} \/ Atomic!Undoing # {}
<1>1. Atomic!led_open(f)
  BY DEF AtomicInv, Atomic!TypeOK, Atomic!Next, Atomic!led_open, Atomic!OpenFails,
         Atomic!Write, Atomic!led_release
<1>2. Takers = {} => f \in Atomic!Held'
  BY <1>1, AtomicOpenTakes
<1>3. f \notin Atomic!Held'
  BY DEF Atomic!Held
<1> QED
  BY <1>2, <1>3 DEF Takers

-----------------------------------------------------------------------------
(***************************************************************************)
(* spinlock: the lock is set exactly while somebody is between lock and    *)
(* unlock, who is alone; the status counts the holders, one or none.       *)
(***************************************************************************)
LockProtects ==
    /\ locked <=> Spin!Inside # {}
    /\ AtMostOne(Spin!Inside)

StatusCounts ==
    /\ AtMostOne(Spin!Holding)
    /\ status = IF Spin!Holding = {} THEN 0 ELSE 1
    /\ \A f \in Files : pc[f] = "count" => Spin!Holding = {}

SpinInv == Spin!TypeOK /\ LockProtects /\ StatusCounts

LEMMA SpinInit == Spin!Init => SpinInv
<1> SUFFICES ASSUME Spin!Init PROVE SpinInv
  OBVIOUS
<1>1. Spin!Inside = {} /\ Spin!Holding = {}
  BY DEF Spin!Init, Spin!Inside, Spin!Holding
<1> QED
  BY <1>1 DEF Spin!Init, SpinInv, Spin!TypeOK, Spin!Point, LockProtects,
              StatusCounts, AtMostOne

LEMMA SpinWrite ==
  ASSUME SpinInv, NEW f \in Files, Spin!Write(f)
  PROVE  SpinInv' /\ HolderStep(Spin!Holding, Spin!Holding')
<1> USE DEF SpinInv, Spin!TypeOK, Spin!Write
<1>1. led' \in Level
  BY DEF Spin!led_write, Spin!LevelAfter, Spin!Databuf, Spin!Length,
         Spin!Byte, Spin!LEDON, Spin!LEDOFF, Spin!OtherByte
<1>2. Spin!Holding' = Spin!Holding /\ Spin!Inside' = Spin!Inside
  BY DEF Spin!Holding, Spin!Inside
<1>3. Spin!Holding = {f}
  BY DEF StatusCounts, AtMostOne, Spin!Holding
<1> QED
  BY <1>1, <1>2, <1>3 DEF LockProtects, StatusCounts, HolderStep

\* The step that takes the lock, and those that leave lock and status alone.
LEMMA SpinAround ==
  ASSUME SpinInv, NEW f \in Files,
         \/ Spin!SpinLock(f) \/ Spin!OpenStart(f) \/ Spin!OpenFree(f)
         \/ Spin!ReleaseStart(f)
  PROVE  SpinInv' /\ HolderStep(Spin!Holding, Spin!Holding')
<1> USE DEF SpinInv, Spin!TypeOK, Spin!Point, Spin!Move
<1>1. Spin!Holding' = Spin!Holding /\ led' = led /\ status' = status
  BY DEF Spin!SpinLock, Spin!OpenStart, Spin!OpenFree, Spin!ReleaseStart, Spin!Holding
<1>2. Spin!TypeOK'
  BY DEF Spin!SpinLock, Spin!OpenStart, Spin!OpenFree, Spin!ReleaseStart
<1>3. CASE Spin!SpinLock(f)
  <2>1. Spin!Inside = {} /\ Spin!Inside' = {f} /\ locked'
    BY <1>3 DEF Spin!SpinLock, Spin!LockFree, LockProtects, Spin!Inside
  <2>2. \A g \in Files : pc'[g] = "count" => pc[g] = "count"
    BY <1>3 DEF Spin!SpinLock
  <2> QED
    BY <1>1, <1>2, <2>1, <2>2 DEF LockProtects, StatusCounts, AtMostOne, HolderStep
<1>4. CASE Spin!OpenStart(f) \/ Spin!ReleaseStart(f)
  <2>1. Spin!Inside' = Spin!Inside /\ locked' = locked
    BY <1>4 DEF Spin!OpenStart, Spin!ReleaseStart, Spin!Inside
  <2>2. \A g \in Files : pc'[g] = "count" => pc[g] = "count"
    BY <1>4 DEF Spin!OpenStart, Spin!ReleaseStart
  <2> QED
    BY <1>1, <1>2, <2>1, <2>2 DEF LockProtects, StatusCounts, AtMostOne, HolderStep
<1>5. CASE Spin!OpenFree(f)
  <2>1. Spin!Inside' = Spin!Inside /\ locked' = locked
    BY <1>5 DEF Spin!OpenFree, Spin!Inside
  <2>2. Spin!Holding = {}
    BY <1>5 DEF Spin!OpenFree, StatusCounts
  <2> QED
    BY <1>1, <1>2, <2>1, <2>2 DEF LockProtects, StatusCounts, AtMostOne, HolderStep
<1> QED
  BY <1>3, <1>4, <1>5

\* The three steps that unlock: nobody is inside after them.
LEMMA SpinUnlocks ==
  ASSUME SpinInv, NEW f \in Files,
         Spin!OpenBusy(f) \/ Spin!OpenCount(f) \/ Spin!ReleaseDrop(f)
  PROVE  SpinInv' /\ HolderStep(Spin!Holding, Spin!Holding')
<1> USE DEF SpinInv, Spin!TypeOK, Spin!Point, Spin!Move
<1>1. Spin!Inside' = {}
  BY DEF Spin!OpenBusy, Spin!OpenCount, Spin!ReleaseDrop, LockProtects,
         AtMostOne, Spin!Inside
<1>2. led' = led /\ LockProtects' /\ \A g \in Files : pc'[g] # "count"
  <2>1. ~locked'
    BY Zenon DEF Spin!OpenBusy, Spin!OpenCount, Spin!ReleaseDrop, Spin!LockGivenBack
  <2>2. led' = led /\ \A g \in Files : pc'[g] # "count"
    BY <1>1 DEF Spin!OpenBusy, Spin!OpenCount, Spin!ReleaseDrop, Spin!Inside
  <2> QED
    BY <1>1, <2>1, <2>2 DEF LockProtects, AtMostOne
<1>3. pc' \in [Files -> Spin!Point] /\ locked' \in BOOLEAN
  BY DEF Spin!OpenBusy, Spin!OpenCount, Spin!ReleaseDrop, Spin!LockGivenBack
<1>4. CASE Spin!OpenBusy(f)
  <2>1. Spin!Holding' = Spin!Holding /\ status' = status
    BY <1>4 DEF Spin!OpenBusy, Spin!Holding
  <2> QED
    BY <1>2, <1>3, <2>1 DEF StatusCounts, AtMostOne, HolderStep
<1>5. CASE Spin!OpenCount(f)
  <2>1. Spin!Holding = {} /\ status' = 1
    BY <1>5 DEF Spin!OpenCount, StatusCounts
  <2>2. Spin!Holding' = {f}
    BY <1>5, <2>1 DEF Spin!OpenCount, Spin!Holding
  <2> QED
    BY <1>2, <1>3, <2>1, <2>2 DEF StatusCounts, AtMostOne, HolderStep
<1>6. CASE Spin!ReleaseDrop(f)
  <2>1. Spin!Holding = {f} /\ Spin!Holding' = {}
    BY <1>6 DEF Spin!ReleaseDrop, StatusCounts, AtMostOne, Spin!Holding
  <2>2. status' = 0
    BY <1>6, <2>1 DEF Spin!ReleaseDrop, Spin!CountDropped, StatusCounts
  <2> QED
    BY <1>2, <1>3, <2>1, <2>2 DEF StatusCounts, AtMostOne, HolderStep
<1> QED
  BY <1>4, <1>5, <1>6

LEMMA SpinStep ==
  ASSUME SpinInv, Spin!Next
  PROVE  SpinInv' /\ HolderStep(Spin!Holding, Spin!Holding')
BY SpinWrite, SpinAround, SpinUnlocks
DEF Spin!Next, Spin!led_open, Spin!led_release

-----------------------------------------------------------------------------
(***************************************************************************)
(* semaphore_gpioled: once initialised, the count is zero exactly when one *)
(* file has the semaphore, or has been handed it; and only then is there   *)
(* a queue.  Before that every open dies.                                  *)
(***************************************************************************)
SemOwners == Sem!At("held") \cup Sem!At("granted")

SemInv ==
    /\ Sem!TypeOK
    /\ AtMostOne(SemOwners)
    /\ ~ready => SemOwners = {} /\ wait_list = <<>>
    /\ ready => (count = 0 <=> SemOwners # {})
    /\ wait_list # <<>> => count = 0

LEMMA SemInit == Sem!Init => SemInv
<1> SUFFICES ASSUME Sem!Init PROVE SemInv
  OBVIOUS
<1>1. SemOwners = {}
  BY DEF Sem!Init, SemOwners, Sem!At
<1>2. wait_list = <<>> /\ <<>> \in Seq(Files)
  BY DEF Sem!Init
<1>3. ready = FALSE /\ count = 0 /\ count \in 0..1 /\ led = Off /\ pc \in [Files -> Sem!Point]
  BY DEF Sem!Init, Sem!Point
<1>4. Sem!TypeOK
  BY <1>2, <1>3 DEF Sem!TypeOK
<1> QED
  BY <1>1, <1>2, <1>3, <1>4 DEF SemInv, AtMostOne

LEMMA RemoveAtKeepsType ==
  ASSUME NEW list \in Seq(Files), NEW i \in DOMAIN list
  PROVE  Sem!RemoveAt(list, i) \in Seq(Files) /\ Mutex!RemoveAt(list, i) \in Seq(Files)
  BY DEF Sem!RemoveAt, Mutex!RemoveAt

LEMMA SemWrite ==
  ASSUME SemInv, NEW f \in Files, Sem!Write(f)
  PROVE  SemInv' /\ HolderStep(Sem!At("held"), Sem!At("held")')
<1> USE DEF SemInv, Sem!TypeOK, Sem!Write
<1>1. led' \in Level
  BY DEF Sem!led_write, Sem!LevelAfter, Sem!Databuf, Sem!Length,
         Sem!Byte, Sem!LEDON, Sem!LEDOFF, Sem!OtherByte
<1>2. Sem!At("held")' = Sem!At("held") /\ SemOwners' = SemOwners
  BY DEF Sem!At, SemOwners
<1>3. Sem!At("held") = {f}
  BY DEF AtMostOne, Sem!At, SemOwners
<1> QED
  BY <1>1, <1>2, <1>3 DEF HolderStep

\* The steps that leave the owners of the semaphore as they are.
LEMMA SemAround ==
  ASSUME SemInv,
         \/ Sem!SemaInit
         \/ \E f \in Files : \/ Sem!OpenTooEarly(f) \/ Sem!DownWait(f)
                             \/ Sem!DownInterrupted(f)
  PROVE  SemInv' /\ HolderStep(Sem!At("held"), Sem!At("held")')
<1> USE DEF SemInv, Sem!TypeOK, Sem!Point
<1>1. Sem!At("held")' = Sem!At("held") /\ SemOwners' = SemOwners /\ led' = led
  BY DEF Sem!SemaInit, Sem!OpenTooEarly, Sem!DownWait, Sem!DownInterrupted,
         Sem!At, SemOwners
<1>2. CASE Sem!SemaInit
  BY <1>1, <1>2 DEF Sem!SemaInit, AtMostOne, HolderStep
<1>3. ASSUME NEW f \in Files, Sem!OpenTooEarly(f) PROVE SemInv'
  BY <1>1, <1>3 DEF Sem!OpenTooEarly, AtMostOne
<1>4. ASSUME NEW f \in Files, Sem!DownWait(f) PROVE SemInv'
  BY <1>1, <1>4 DEF Sem!DownWait, AtMostOne
<1>5. ASSUME NEW f \in Files, Sem!DownInterrupted(f) PROVE SemInv'
  <2>1. wait_list' \in Seq(Files) /\ wait_list # <<>>
    BY <1>5, RemoveAtKeepsType DEF Sem!DownInterrupted
  <2> QED
    BY <1>1, <1>5, <2>1 DEF Sem!DownInterrupted, AtMostOne
<1> QED
  BY <1>1, <1>2, <1>3, <1>4, <1>5 DEF HolderStep

LEMMA SemGets ==
  ASSUME SemInv, NEW f \in Files, Sem!DownFree(f) \/ Sem!DownReturns(f)
  PROVE  SemInv' /\ HolderStep(Sem!At("held"), Sem!At("held")')
<1> USE DEF SemInv, Sem!TypeOK, Sem!Point
<1>1. Sem!At("held") = {} /\ SemOwners \subseteq {f}
  BY DEF Sem!DownFree, Sem!DownReturns, Sem!At, SemOwners, AtMostOne
<1>2. Sem!At("held")' = {f} /\ SemOwners' = {f} /\ led' = led
  BY <1>1 DEF Sem!DownFree, Sem!DownReturns, Sem!At, SemOwners
<1>3. Sem!TypeOK' /\ ready /\ ready' /\ count' = 0
  BY DEF Sem!DownFree, Sem!DownReturns, Sem!At, SemOwners
<1> QED
  BY <1>1, <1>2, <1>3 DEF AtMostOne, HolderStep

LEMMA SemGives ==
  ASSUME SemInv, NEW f \in Files, Sem!led_release(f)
  PROVE  SemInv' /\ HolderStep(Sem!At("held"), Sem!At("held")')
<1> USE DEF SemInv, Sem!TypeOK, Sem!Point, Sem!led_release
<1>1. SemOwners = {f} /\ Sem!At("held") = {f} /\ ready /\ count = 0 /\ led' = led
  BY DEF Sem!At, SemOwners, AtMostOne
<1>2. CASE wait_list = <<>>
  <2>1. SemOwners' = {} /\ Sem!At("held")' = {}
    BY <1>1, <1>2 DEF Sem!At, SemOwners
  <2> QED
    BY <1>1, <1>2, <2>1 DEF AtMostOne, HolderStep
<1>3. CASE wait_list # <<>>
  <2>1. 1 \in DOMAIN wait_list /\ wait_list[1] \in Files
    BY <1>3
  <2>2. wait_list' \in Seq(Files)
    BY <1>3, <2>1, RemoveAtKeepsType DEF Sem!Served
  <2>3. SemOwners' = {wait_list[1]} /\ Sem!At("held")' = {}
    BY <1>1, <1>3, <2>1 DEF Sem!At, SemOwners, Sem!Served
  <2>4. count' = 0 /\ ready' /\ pc' \in [Files -> Sem!Point]
    BY <1>1, <1>3 DEF Sem!CountAfterHandOff
  <2> QED
    BY <1>1, <2>2, <2>3, <2>4 DEF AtMostOne, HolderStep
<1> QED
  BY <1>2, <1>3

LEMMA SemStep ==
  ASSUME SemInv, Sem!Next
  PROVE  SemInv' /\ HolderStep(Sem!At("held"), Sem!At("held")')
BY SemWrite, SemAround, SemGets, SemGives DEF Sem!Next, Sem!led_open

(***************************************************************************)
(* Its queue: who is queued is in it, once, and nobody else is; and it is  *)
(* served in order.                                                        *)
(***************************************************************************)
NoneTwice(list) == \A i, j \in 1..Len(list) : list[i] = list[j] => i = j

WaitersQueued ==
    /\ NoneTwice(wait_list)
    /\ \A f \in Files :
          pc[f] = "queued" <=> \E i \in 1..Len(wait_list) : wait_list[i] = f

Ahead(f, g) ==
    \E i, j \in 1..Len(wait_list) : i < j /\ wait_list[i] = f /\ wait_list[j] = g

\* Who waits behind f stays there, and is not served while f still waits.
NotOvertaken ==
    \A f, g \in Files : Ahead(f, g) /\ pc'[f] = "queued" =>
        pc'[g] # "granted" /\ (pc'[g] = "queued" => Ahead(f, g)')

\* What is left of a list without its i-th member, and where.
LEMMA Removed ==
  ASSUME NEW list \in Seq(Files), NEW i \in 1..Len(list)
  PROVE  LET rest == Sem!RemoveAt(list, i)
         IN  /\ Len(rest) = Len(list) - 1
             /\ \A j \in 1..Len(rest) : rest[j] = IF j < i THEN list[j] ELSE list[j + 1]
<1> DEFINE front == SubSeq(list, 1, i - 1)
           back == SubSeq(list, i + 1, Len(list))
<1>1. /\ front \in Seq(Files) /\ Len(front) = i - 1
      /\ \A j \in 1..(i - 1) : front[j] = list[j]
  <2>1. \A j \in 1..(i - 1) : list[j] \in Files
    BY LenProperties
  <2> QED
    BY <2>1, LenProperties, SubSeqProperties
<1>2. /\ back \in Seq(Files) /\ Len(back) = Len(list) - i
      /\ \A j \in 1..(Len(list) - i) : back[j] = list[i + j]
  <2>1. \A j \in (i + 1)..Len(list) : list[j] \in Files
    BY LenProperties
  <2>2. Len(list) \in Nat
    BY LenProperties
  <2> QED
    BY <2>1, <2>2, SubSeqProperties
<1> HIDE DEF front, back
<1>3. /\ Len(front \o back) = Len(list) - 1
      /\ \A j \in 1..(Len(list) - 1) :
            (front \o back)[j] = IF j < i THEN list[j] ELSE list[j + 1]
  <2>1. /\ Len(front \o back) = Len(front) + Len(back)
        /\ \A j \in 1..(Len(front) + Len(back)) :
              (front \o back)[j] = IF j <= Len(front) THEN front[j] ELSE back[j - Len(front)]
    BY <1>1, <1>2, ConcatProperties
  <2>2. Len(list) \in Nat /\ i \in Nat /\ 1 <= i /\ i <= Len(list)
    BY LenProperties
  <2>3. Len(front \o back) = Len(list) - 1
    BY <1>1, <1>2, <2>1, <2>2
  <2>4. ASSUME NEW j \in 1..(Len(list) - 1)
        PROVE  (front \o back)[j] = IF j < i THEN list[j] ELSE list[j + 1]
    <3>1. (front \o back)[j] = IF j < i THEN front[j] ELSE back[j - (i - 1)]
      BY <1>1, <1>2, <2>1, <2>2
    <3>2. CASE j < i
      BY <1>1, <2>2, <3>1, <3>2
    <3>3. CASE ~(j < i)
      <4>1. j - (i - 1) \in 1..(Len(list) - i) /\ i + (j - (i - 1)) = j + 1
        BY <2>2, <3>3
      <4>2. back[j - (i - 1)] = list[j + 1]
        BY <1>2, <4>1
      <4> QED
        BY <3>1, <3>3, <4>2
    <3> QED
      BY <3>2, <3>3
  <2> QED
    BY <2>3, <2>4
<1> QED
  BY <1>3 DEF Sem!RemoveAt, front, back

\* The rest of a list has all but its i-th member, once each and in their order.
AllBut(i, list, rest) ==
    /\ NoneTwice(rest)
    /\ \A f : (\E j \in 1..Len(rest) : rest[j] = f)
                <=> f # list[i] /\ \E j \in 1..Len(list) : list[j] = f
    /\ \A k, l \in 1..Len(list) : k < l /\ k # i /\ l # i =>
          \E a, b \in 1..Len(rest) : a < b /\ rest[a] = list[k] /\ rest[b] = list[l]

LEMMA OthersStay ==
  ASSUME NEW list \in Seq(Files), NEW i \in 1..Len(list), NoneTwice(list)
  PROVE  AllBut(i, list, Sem!RemoveAt(list, i))
<1> DEFINE rest == Sem!RemoveAt(list, i)
           from(j) == IF j < i THEN j ELSE j + 1
           to(k) == IF k < i THEN k ELSE k - 1
<1>1. Len(list) \in Nat
  OBVIOUS
<1>2. /\ Len(rest) = Len(list) - 1
      /\ \A j \in 1..Len(rest) : rest[j] = IF j < i THEN list[j] ELSE list[j + 1]
  BY Removed
<1> HIDE DEF rest
<1>3. \A j \in 1..Len(rest) : from(j) \in 1..Len(list) /\ from(j) # i /\ rest[j] = list[from(j)]
  BY <1>1, <1>2
<1>4. \A k \in 1..Len(list) : k # i => to(k) \in 1..Len(rest) /\ rest[to(k)] = list[k]
  BY <1>1, <1>2
<1>5. NoneTwice(rest)
  BY <1>1, <1>2, <1>3 DEF NoneTwice
<1>6. ASSUME NEW f
      PROVE  (\E j \in 1..Len(rest) : rest[j] = f)
               <=> f # list[i] /\ \E j \in 1..Len(list) : list[j] = f
  <2>1. ASSUME NEW j \in 1..Len(rest), rest[j] = f
        PROVE  f # list[i] /\ \E k \in 1..Len(list) : list[k] = f
    <3> HIDE DEF from
    <3> QED
      BY <1>3, <2>1 DEF NoneTwice
  <2>2. ASSUME NEW k \in 1..Len(list), list[k] = f, f # list[i]
        PROVE  \E j \in 1..Len(rest) : rest[j] = f
    <3> HIDE DEF to
    <3> QED
      BY <1>4, <2>2
  <2> QED
    BY <2>1, <2>2
<1>7. ASSUME NEW k \in 1..Len(list), NEW l \in 1..Len(list), k < l, k # i, l # i
      PROVE  \E a, b \in 1..Len(rest) : a < b /\ rest[a] = list[k] /\ rest[b] = list[l]
  <2>1. to(k) < to(l)
    BY <1>1, <1>7
  <2> QED
    BY <1>4, <1>7, <2>1
<1> QED
  BY <1>5, <1>6, <1>7 DEF rest, AllBut

LEMMA SemQueue ==
  ASSUME SemInv, WaitersQueued, Sem!Next
  PROVE  WaitersQueued' /\ NotOvertaken
<1> USE DEF SemInv, Sem!TypeOK, Sem!Point
<1>1. CASE Sem!SemaInit
  BY <1>1 DEF Sem!SemaInit, WaitersQueued, NoneTwice, NotOvertaken, Ahead
<1>2. ASSUME NEW f \in Files,
             \/ Sem!OpenTooEarly(f) \/ Sem!DownFree(f) \/ Sem!DownReturns(f)
             \/ Sem!Write(f)
      PROVE  WaitersQueued' /\ NotOvertaken
  <2>1. /\ wait_list' = wait_list
        /\ \A g \in Files : pc'[g] = "queued" <=> pc[g] = "queued"
        /\ \A g \in Files : pc'[g] = "granted" => pc[g] = "granted"
    BY <1>2 DEF Sem!OpenTooEarly, Sem!DownFree, Sem!DownReturns, Sem!Write
  <2> QED
    BY <2>1 DEF WaitersQueued, NoneTwice, NotOvertaken, Ahead
<1>3. ASSUME NEW f \in Files, Sem!DownWait(f) PROVE WaitersQueued' /\ NotOvertaken
  <2>1. /\ Len(wait_list') = Len(wait_list) + 1
        /\ \A i \in 1..Len(wait_list) : wait_list'[i] = wait_list[i]
        /\ wait_list'[Len(wait_list) + 1] = f
    BY <1>3 DEF Sem!DownWait
  <2>2. pc[f] = "closed" /\ pc' = [pc EXCEPT ![f] = "queued"]
    BY <1>3 DEF Sem!DownWait
  <2>3. Len(wait_list) \in Nat
    OBVIOUS
  <2>4. WaitersQueued'
    BY <2>1, <2>2, <2>3 DEF WaitersQueued, NoneTwice
  <2>5. \A g, h \in Files : Ahead(g, h) => Ahead(g, h)' /\ pc'[h] # "granted"
    BY <2>1, <2>2, <2>3 DEF WaitersQueued, Ahead
  <2> QED
    BY <2>4, <2>5 DEF NotOvertaken
<1>4. ASSUME NEW i \in 1..Len(wait_list), wait_list' = Sem!RemoveAt(wait_list, i),
             \A g \in Files : pc'[g] = "queued" <=> pc[g] = "queued" /\ g # wait_list[i]
      PROVE  /\ WaitersQueued'
             /\ \A g, h \in Files : Ahead(g, h) /\ g # wait_list[i] /\ h # wait_list[i]
                   => Ahead(g, h)'
  <2>1. /\ NoneTwice(wait_list')
        /\ \A g : (\E j \in 1..Len(wait_list') : wait_list'[j] = g)
                    <=> g # wait_list[i] /\ \E j \in 1..Len(wait_list) : wait_list[j] = g
        /\ \A k, l \in 1..Len(wait_list) : k < l /\ k # i /\ l # i =>
              \E a, b \in 1..Len(wait_list') :
                 a < b /\ wait_list'[a] = wait_list[k] /\ wait_list'[b] = wait_list[l]
    <3>1. AllBut(i, wait_list, wait_list')
      BY <1>4, OthersStay DEF WaitersQueued
    <3> QED
      BY <3>1 DEF AllBut
  <2>2. WaitersQueued'
    BY <1>4, <2>1, Zenon DEF WaitersQueued
  <2>3. ASSUME NEW g \in Files, NEW h \in Files, Ahead(g, h),
               g # wait_list[i], h # wait_list[i]
        PROVE  Ahead(g, h)'
    <3>1. PICK k, l \in 1..Len(wait_list) : k < l /\ wait_list[k] = g /\ wait_list[l] = h
      BY <2>3 DEF Ahead
    <3>2. k # i /\ l # i
      BY <2>3, <3>1
    <3>3. \E a, b \in 1..Len(wait_list') :
             a < b /\ wait_list'[a] = wait_list[k] /\ wait_list'[b] = wait_list[l]
      BY <2>1, <3>1, <3>2
    <3> QED
      BY <3>1, <3>3 DEF Ahead
  <2> QED
    BY <2>2, <2>3
<1>5. ASSUME NEW f \in Files, Sem!DownInterrupted(f) PROVE WaitersQueued' /\ NotOvertaken
  <2>1. PICK i \in 1..Len(wait_list) :
           wait_list[i] = f /\ wait_list' = Sem!RemoveAt(wait_list, i)
    BY <1>5 DEF Sem!DownInterrupted
  <2>2. /\ \A g \in Files : pc'[g] = "queued" <=> pc[g] = "queued" /\ g # f
        /\ \A g \in Files : pc'[g] = "granted" => pc[g] = "granted"
        /\ pc'[f] = "closed"
    BY <1>5 DEF Sem!DownInterrupted
  <2>3. WaitersQueued' /\ \A g, h \in Files : Ahead(g, h) /\ g # f /\ h # f => Ahead(g, h)'
    BY <1>4, <2>1, <2>2
  <2>4. \A g, h \in Files : Ahead(g, h) => pc[h] = "queued"
    BY DEF WaitersQueued, Ahead
  <2>5. NotOvertaken
    <3> SUFFICES ASSUME NEW g \in Files, NEW h \in Files, Ahead(g, h), pc'[g] = "queued"
                 PROVE  pc'[h] # "granted" /\ (pc'[h] = "queued" => Ahead(g, h)')
      BY DEF NotOvertaken
    <3> QED
      BY <2>2, <2>3, <2>4
  <2> QED
    BY <2>3, <2>5
<1>6. ASSUME NEW f \in Files, Sem!led_release(f), wait_list = <<>>
      PROVE  WaitersQueued' /\ NotOvertaken
  <2>1. /\ wait_list' = wait_list
        /\ \A g \in Files : pc'[g] = "queued" <=> pc[g] = "queued"
    BY <1>6 DEF Sem!led_release
  <2> QED
    BY <1>6, <2>1 DEF WaitersQueued, NoneTwice, NotOvertaken, Ahead
<1>7. ASSUME NEW f \in Files, Sem!led_release(f), wait_list # <<>>
      PROVE  WaitersQueued' /\ NotOvertaken
  <2>1. 1 \in 1..Len(wait_list) /\ wait_list[1] \in Files /\ Len(wait_list) \in Nat
    BY <1>7
  <2>2. /\ wait_list' = Sem!RemoveAt(wait_list, 1)
        /\ pc' = [pc EXCEPT ![f] = "closed", ![wait_list[1]] = "granted"]
        /\ pc[f] = "held"
    BY <1>7 DEF Sem!led_release, Sem!Served
  <2>3. pc[wait_list[1]] = "queued"
    BY <2>1 DEF WaitersQueued
  <2>4. /\ \A g \in Files : pc'[g] = "queued" <=> pc[g] = "queued" /\ g # wait_list[1]
        /\ \A g \in Files : pc'[g] = "granted" => g = wait_list[1] \/ pc[g] = "granted"
        /\ pc'[wait_list[1]] = "granted"
    BY <2>1, <2>2, <2>3
  <2>5. \A g, h \in Files : Ahead(g, h) => h # wait_list[1] /\ pc[h] = "queued"
    BY <2>1 DEF Ahead, WaitersQueued, NoneTwice
  <2> QED
    BY <1>4, <2>1, <2>2, <2>4, <2>5 DEF NotOvertaken
<1> QED
  BY <1>1, <1>2, <1>3, <1>5, <1>6, <1>7 DEF Sem!Next, Sem!led_open

-----------------------------------------------------------------------------
(***************************************************************************)
(* mutex: the owner is a holder, and beside it there is at most one more,  *)
(* none before the second mutex_init or when nobody opens before that.     *)
(***************************************************************************)
MutexInv ==
    /\ Mutex!TypeOK
    /\ owner \subseteq Mutex!Held
    /\ AtMostOne(owner)
    /\ AtMostOne(Mutex!Held \ owner)
    /\ ~loaded \/ ~early => Mutex!Held = owner
    /\ ~loaded /\ ~early => Mutex!Held = {}

LEMMA MutexInit == Mutex!Init => MutexInv
<1> SUFFICES ASSUME Mutex!Init PROVE MutexInv
  OBVIOUS
<1>1. Mutex!Held = {} /\ owner = {}
  BY DEF Mutex!Init, Mutex!Held
<1>2. waiters = <<>> /\ <<>> \in Seq(Files)
  BY DEF Mutex!Init
<1>3. /\ early \in BOOLEAN /\ loaded = FALSE /\ led = Off
      /\ pc \in [Files -> Mutex!Point]
  BY DEF Mutex!Init, Mutex!Point
<1>4. Mutex!TypeOK
  BY <1>1, <1>2, <1>3 DEF Mutex!TypeOK
<1> QED
  BY <1>1, <1>4 DEF MutexInv, AtMostOne

\* Unless files open early the holders change as ExclusiveLed says.
MutexHolderStep == ~early => HolderStep(Mutex!Held, Mutex!Held')

LEMMA MutexWrite ==
  ASSUME MutexInv, NEW f \in Files, Mutex!Write(f)
  PROVE  MutexInv' /\ MutexHolderStep
<1> USE DEF MutexInv, Mutex!TypeOK, Mutex!Write
<1>1. led' \in Level
  BY DEF Mutex!led_write, Mutex!LevelAfter, Mutex!Databuf, Mutex!Length,
         Mutex!Byte, Mutex!LEDON, Mutex!LEDOFF, Mutex!OtherByte
<1>2. Mutex!Held' = Mutex!Held
  BY DEF Mutex!Held
<1>3. ~early => Mutex!Held = {f}
  BY DEF AtMostOne, Mutex!Held
<1> QED
  BY <1>1, <1>2, <1>3 DEF MutexHolderStep, HolderStep

LEMMA MutexAround ==
  ASSUME MutexInv,
         \/ Mutex!MutexInitAgain
         \/ \E f \in Files : Mutex!Wait(f) \/ Mutex!Interrupted(f)
  PROVE  MutexInv' /\ MutexHolderStep
<1> USE DEF MutexInv, Mutex!TypeOK, Mutex!Point
<1>1. Mutex!Held' = Mutex!Held /\ led' = led
  BY DEF Mutex!MutexInitAgain, Mutex!Wait, Mutex!Interrupted, Mutex!Held
<1>2. CASE Mutex!MutexInitAgain
  <2>1. <<>> \in Seq(Files) /\ AtMostOne(Mutex!Held)
    BY <1>2 DEF Mutex!MutexInitAgain
  <2>2. Mutex!TypeOK'
    BY <1>2, <2>1 DEF Mutex!MutexInitAgain
  <2> QED
    BY <1>1, <1>2, <2>1, <2>2
    DEF Mutex!MutexInitAgain, AtMostOne, MutexHolderStep, HolderStep
<1>3. ASSUME NEW f \in Files, Mutex!Wait(f) PROVE MutexInv'
  BY <1>1, <1>3 DEF Mutex!Wait, AtMostOne
<1>4. ASSUME NEW f \in Files, Mutex!Interrupted(f) PROVE MutexInv'
  <2>1. waiters' \in Seq(Files)
    BY <1>4, RemoveAtKeepsType DEF Mutex!Interrupted
  <2> QED
    BY <1>1, <1>4, <2>1 DEF Mutex!Interrupted, AtMostOne
<1> QED
  BY <1>1, <1>2, <1>3, <1>4 DEF MutexHolderStep, HolderStep

LEMMA MutexLocks ==
  ASSUME MutexInv, NEW f \in Files, Mutex!Lock(f)
  PROVE  MutexInv' /\ MutexHolderStep
<1> USE DEF MutexInv, Mutex!TypeOK, Mutex!Point, Mutex!Lock
<1>1. owner = {} /\ owner' = {f} /\ led' = led /\ (loaded \/ early)
  BY DEF Mutex!Unowned, Mutex!MayOpen
<1>2. Mutex!Held' = Mutex!Held \cup {f}
  BY DEF Mutex!Held
<1>3. Mutex!TypeOK'
  <2>1. CASE pc[f] = "closed" /\ UNCHANGED waiters
    BY <2>1
  <2>2. CASE waiters # <<>> /\ f = Head(waiters) /\ waiters' = Tail(waiters)
    BY <2>2
  <2> QED
    BY <2>1, <2>2
<1>4. AtMostOne(Mutex!Held) /\ (~loaded \/ ~early => Mutex!Held = {})
  BY <1>1
<1> QED
  BY <1>1, <1>2, <1>3, <1>4 DEF AtMostOne, MutexHolderStep, HolderStep

LEMMA MutexUnlocks ==
  ASSUME MutexInv, NEW f \in Files, Mutex!led_release(f)
  PROVE  MutexInv' /\ MutexHolderStep
<1> USE DEF MutexInv, Mutex!TypeOK, Mutex!Point, Mutex!led_release
<1>1. f \in Mutex!Held /\ Mutex!Held' = Mutex!Held \ {f}
  BY DEF Mutex!Held
<1>2. owner' = {} /\ led' = led /\ Mutex!TypeOK'
  BY DEF Mutex!OwnerAfterUnlock
<1>3. AtMostOne(Mutex!Held')
  BY <1>1 DEF AtMostOne
<1>4. ~loaded \/ ~early => Mutex!Held = {f}
  BY <1>1 DEF AtMostOne
<1> QED
  BY <1>1, <1>2, <1>3, <1>4 DEF AtMostOne, MutexHolderStep, HolderStep

LEMMA MutexStep ==
  ASSUME MutexInv, Mutex!Next
  PROVE  MutexInv' /\ MutexHolderStep
BY MutexWrite, MutexAround, MutexLocks, MutexUnlocks DEF Mutex!Next, Mutex!led_open

-----------------------------------------------------------------------------
(***************************************************************************)
(* The four together.                                                      *)
(***************************************************************************)
IInv ==
    /\ driver \in Driver
    /\ driver = "atomic" => AtomicInv
    /\ driver = "spin" => SpinInv
    /\ driver = "sem" => SemInv
    /\ driver = "mutex" => MutexInv
    /\ driver # "mutex" => ~early

LEMMA InitIInv == Init => IInv
  BY AtomicInit, SpinInit, SemInit, MutexInit DEF Init, IInv

\* A step of the loaded driver keeps its invariant and moves the holders.
LEMMA NextKeepsIInv ==
  ASSUME IInv, Next
  PROVE  /\ IInv' /\ driver' = driver /\ early' = early
         /\ driver = "atomic" => HolderStep(Atomic!Held, Atomic!Held')
         /\ driver = "spin" => HolderStep(Spin!Holding, Spin!Holding')
         /\ driver = "sem" => HolderStep(Sem!At("held"), Sem!At("held")')
         /\ driver = "mutex" => MutexHolderStep
<1> USE DEF IInv, Loaded, mutexVars
<1>1. CASE AtomicRuns /\ Atomic!Next
  BY <1>1, AtomicStep DEF AtomicRuns
<1>2. CASE SpinRuns /\ Spin!Next
  BY <1>2, SpinStep DEF SpinRuns
<1>3. CASE SemRuns /\ Sem!Next
  BY <1>3, SemStep DEF SemRuns
<1>4. CASE MutexRuns /\ Mutex!Next
  <2>1. early' = early
    BY <1>4 DEF Mutex!Next, Mutex!MutexInitAgain, Mutex!led_open, Mutex!Lock, Mutex!Wait,
                Mutex!Interrupted, Mutex!Write, Mutex!led_release
  <2> QED
    BY <1>4, <2>1, MutexStep DEF MutexRuns
<1> QED
  BY <1>1, <1>2, <1>3, <1>4 DEF Next

LEMMA StutterKeepsIInv == IInv /\ UNCHANGED vars => IInv'
<1> SUFFICES ASSUME IInv, UNCHANGED vars PROVE IInv'
  OBVIOUS
<1> USE DEF IInv, vars, atomicVars, spinVars, semVars, mutexVars, AtMostOne
<1>1. driver = "atomic" => AtomicInv'
  BY DEF AtomicInv, Atomic!TypeOK, Atomic!LockCountsTakers, Atomic!Held, Atomic!Undoing
<1>2. driver = "spin" => SpinInv'
  BY DEF SpinInv, Spin!TypeOK, LockProtects, StatusCounts, Spin!Inside, Spin!Holding
<1>3. driver = "sem" => SemInv'
  BY DEF SemInv, Sem!TypeOK, SemOwners, Sem!At
<1>4. driver = "mutex" => MutexInv'
  BY DEF MutexInv, Mutex!TypeOK, Mutex!Held
<1> QED
  BY <1>1, <1>2, <1>3, <1>4

LEMMA InductiveInvariant == Spec => []IInv
<1>1. IInv /\ [Next]_vars => IInv'
  BY NextKeepsIInv, StutterKeepsIInv
<1> QED
  BY InitIInv, <1>1, PTL DEF Spec

\* Every driver's state keeps its type.
THEOREM TypeCorrect == Spec => []TypeOK
<1>1. IInv => TypeOK
  BY DEF IInv, TypeOK, AtomicInv, SpinInv, SemInv, MutexInv
<1> QED
  BY <1>1, InductiveInvariant, PTL

(***************************************************************************)
(* atomic_gpioled: its lock is 1 less the opens that hold it or are being  *)
(* refused; with none of either, the next open succeeds.                   *)
(***************************************************************************)
THEOREM AtomicCountsTakers == Spec => []LockCountsTakers
<1>1. IInv => LockCountsTakers
  BY DEF IInv, AtomicInv, LockCountsTakers
<1> QED
  BY <1>1, InductiveInvariant, PTL

\* atomic_gpioled: no open is refused without a cause.
THEOREM RefusalsHaveCause == Spec => BusyHasCause
<1> DEFINE Cause == \A f \in Files :
                       pc[f] = "closed" /\ pc'[f] = "undo" =>
                          Atomic!Held # {} \/ Atomic!Undoing # {}
<1>1. IInv /\ [Next]_vars => [Cause]_(Atomic!vars)
  <2> SUFFICES ASSUME IInv, Next, NEW f \in Files, pc[f] = "closed", pc'[f] = "undo"
               PROVE  Atomic!Held # {} \/ Atomic!Undoing # {}
    BY DEF vars, Atomic!vars, atomicVars
  <2>1. driver = "atomic"
    BY NextKeepsIInv
    DEF IInv, Driver, SpinInv, Spin!TypeOK, Spin!Point, SemInv, Sem!TypeOK, Sem!Point,
        MutexInv, Mutex!TypeOK, Mutex!Point
  <2>2. AtomicInv /\ Atomic!Next
    BY <2>1 DEF IInv, Next, AtomicRuns, SpinRuns, SemRuns, MutexRuns, Loaded
  <2> QED
    BY <2>2, AtomicRefusal
<1> QED
  BY <1>1, InductiveInvariant, PTL DEF Spec, BusyHasCause, Atomic!BusyHasCause

\* spinlock: led_open returns -EBUSY if the device is used, and only then.
THEOREM BusyIffUsed == Spec => []StatusMeansUsed
<1>1. IInv => StatusMeansUsed
  BY DEF IInv, SpinInv, StatusCounts, StatusMeansUsed, Spin!StatusMeansUsed
<1> QED
  BY <1>1, InductiveInvariant, PTL

(***************************************************************************)
(* spinlock: every return of led_open and led_release, the refusal too,    *)
(* gives the lock back; whoever spins, spins for a call on its way out.    *)
(* It is the safety half of CallsReturn.                                   *)
(***************************************************************************)
LockHeldInside == driver = "spin" => (locked <=> Spin!Inside # {}) /\ AtMostOne(Spin!Inside)

THEOREM LockNotLeaked == Spec => []LockHeldInside
<1>1. IInv => LockHeldInside
  BY DEF IInv, SpinInv, LockProtects, LockHeldInside
<1> QED
  BY <1>1, InductiveInvariant, PTL

\* semaphore_gpioled: whoever queues, queues behind somebody.
THEOREM TurnsNotLost == Spec => []NoStrandedWaiter
<1>1. IInv => NoStrandedWaiter
  BY DEF IInv, SemInv, SemOwners, NoStrandedWaiter, Sem!NoStrandedWaiter
<1> QED
  BY <1>1, InductiveInvariant, PTL

(***************************************************************************)
(* semaphore_gpioled serves first come, first served, with signals taking  *)
(* waiters out anywhere in the queue: nobody is handed the LED before one  *)
(* who waited ahead of it and still does.  It is the safety half of        *)
(* WaiterServed.                                                           *)
(***************************************************************************)
TurnsInOrder == [][driver = "sem" => NotOvertaken]_vars

THEOREM ServedInOrder == Spec => TurnsInOrder
<1> DEFINE Queued == driver = "sem" => WaitersQueued
           InOrder == driver = "sem" => NotOvertaken
<1>1. Init => Queued
  BY DEF Init, Sem!Init, WaitersQueued, NoneTwice
<1>2. IInv /\ Queued /\ [Next]_vars => Queued' /\ [InOrder]_vars
  <2>1. CASE UNCHANGED vars
    BY <2>1 DEF vars, semVars, WaitersQueued, NoneTwice
  <2>2. CASE Next /\ driver = "sem"
    BY <2>2, SemQueue, NextKeepsIInv DEF IInv, Next, SemRuns, AtomicRuns, SpinRuns, MutexRuns, Loaded
  <2>3. CASE Next /\ driver # "sem"
    BY <2>3 DEF Next, SemRuns, AtomicRuns, SpinRuns, MutexRuns, Loaded
  <2> QED
    BY <2>1, <2>2, <2>3
<1> HIDE DEF Queued, InOrder
<1>3. Spec => [][InOrder]_vars
  BY <1>1, <1>2, InductiveInvariant, PTL DEF Spec
<1> QED
  BY <1>3 DEF TurnsInOrder, InOrder

(***************************************************************************)
(* mutex: the second mutex_init lets in one holder too many at most, and   *)
(* none if nobody opens before it.                                         *)
(***************************************************************************)
THEOREM DamageBounded == Spec => []HoldersBounded
<1>1. IInv => HoldersBounded
  <2> SUFFICES ASSUME MutexInv PROVE Mutex!HoldersBounded
    BY DEF IInv, HoldersBounded
  <2> DEFINE Extra == Mutex!Held \ owner
  <2>1. (Extra = {} \/ \E f \in Extra : Extra = {f}) /\ (~early => Extra = {})
    <3>1. ASSUME NEW f \in Extra PROVE Extra = {f}
      BY <3>1 DEF MutexInv, AtMostOne
    <3>2. ~early => Extra = {}
      BY DEF MutexInv
    <3> QED
      BY <3>1, <3>2
  <2>2. Cardinality(Extra) \in {0, 1} /\ (Extra = {} => Cardinality(Extra) = 0)
    BY <2>1, FS_EmptySet, FS_Singleton
  <2> QED
    BY <2>1, <2>2, SameCardinality
    DEF MutexInv, Mutex!TypeOK, Mutex!HoldersBounded
<1> QED
  BY <1>1, InductiveInvariant, PTL

LEMMA StepMaps == IInv /\ [Next]_vars => [Exclusive!Next]_(Exclusive!vars)
<1> USE DEF Exclusive!vars, Holders, Excepted, IInv, Driver
<1>1. ASSUME IInv, UNCHANGED vars PROVE UNCHANGED Exclusive!vars
  BY <1>1 DEF vars, mutexVars, Atomic!Held, Spin!Holding, Sem!At, Mutex!Held
<1>2. ASSUME IInv, Next, ~Excepted PROVE HolderStep(Holders, Holders') /\ ~Excepted'
  BY <1>2, NextKeepsIInv DEF MutexHolderStep
<1>3. ASSUME IInv, Next, Excepted PROVE UNCHANGED Exclusive!vars
  BY <1>3, NextKeepsIInv
<1>4. ASSUME HolderStep(Holders, Holders'), ~Excepted, ~Excepted'
      PROVE  [Exclusive!Next]_(Exclusive!vars)
  <2> HIDE DEF Holders, Excepted
  <2> QED
    BY <1>4 DEF HolderStep, Exclusive!Next, Exclusive!Open, Exclusive!Write,
                Exclusive!Close, Exclusive!Level, Exclusive!On, Exclusive!Off
<1> QED
  BY <1>1, <1>2, <1>3, <1>4

(***************************************************************************)
(* Whichever driver is loaded is an ExclusiveLed: one file at a time holds *)
(* the LED, and only its holder's writes reach it; but for mutex opened    *)
(* before led_init has ended.                                              *)
(***************************************************************************)
THEOREM DriversAreExclusive == Spec => ImplementsExclusiveLed
<1>1. Init => Exclusive!Init
  BY DEF Init, Driver, Exclusive!Init, Holders, Excepted, Exclusive!Off, Atomic!Init,
         Spin!Init, Sem!Init, Mutex!Init, Atomic!Held, Spin!Holding, Sem!At, Mutex!Held
<1> QED
  BY <1>1, StepMaps, InductiveInvariant, PTL
  DEF Spec, ImplementsExclusiveLed, Exclusive!Spec
=============================================================================
