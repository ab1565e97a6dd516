--------------------------- MODULE ExclusiveLeds ---------------------------
(***************************************************************************)
(* The board's one LED and the four drivers for it, atomic_gpioled,        *)
(* spinlock, semaphore_gpioled and mutex.  They claim the same gpio, so    *)
(* one of them is loaded; its state is what it is and the others' rests.   *)
(***************************************************************************)
EXTENDS LedCommand, Integers, Sequences

VARIABLES
    driver,                              \* the module that is loaded
    lock,                                \* of atomic_gpioled
    status, locked,                      \* of spinlock
    ready, count, wait_list,             \* of semaphore_gpioled
    early, loaded, owner, waiters,       \* of mutex
    pc,                                  \* control point of each file
    led                                  \* level of the LED's gpio

Atomic == INSTANCE AtomicLed
Spin == INSTANCE SpinLed
Sem == INSTANCE SemLed
Mutex == INSTANCE MutexLed

atomicVars == <<lock>>
spinVars == <<status, locked>>
semVars == <<ready, count, wait_list>>
mutexVars == <<early, loaded, owner, waiters>>

vars == <<driver, atomicVars, spinVars, semVars, mutexVars, pc, led>>

Driver == {"atomic", "spin", "sem", "mutex"}

Init ==
    /\ driver \in Driver
    /\ Atomic!Init /\ Spin!Init /\ Sem!Init
    /\ Mutex!Init /\ (driver # "mutex" => ~early)

Loaded(name) == driver = name /\ UNCHANGED driver

AtomicRuns == Loaded("atomic") /\ UNCHANGED <<spinVars, semVars, mutexVars>>
SpinRuns == Loaded("spin") /\ UNCHANGED <<atomicVars, semVars, mutexVars>>
SemRuns == Loaded("sem") /\ UNCHANGED <<atomicVars, spinVars, mutexVars>>
MutexRuns == Loaded("mutex") /\ UNCHANGED <<atomicVars, spinVars, semVars>>

Next ==
    \/ AtomicRuns /\ Atomic!Next
    \/ SpinRuns /\ Spin!Next
    \/ SemRuns /\ Sem!Next
    \/ MutexRuns /\ Mutex!Next

Spec == Init /\ [][Next]_vars

(***************************************************************************)
(* Ticket spinlocks serve in turn, and a call in the driver runs on.  For  *)
(* the semaphore: led_init runs to its end, a chosen waiter is scheduled,  *)
(* and, as spinlockAPP.c does after its 25 seconds, a holder closes the    *)
(* file.  Nothing is asked of atomic_gpioled and mutex.                    *)
(***************************************************************************)
FairSpec ==
    /\ Spec
    /\ WF_vars(SemRuns /\ Sem!SemaInit)
    /\ \A f \in Files :
          /\ SF_vars(SpinRuns /\ Spin!SpinLock(f))
          /\ WF_vars(SpinRuns /\ Spin!InDriver(f))
          /\ WF_vars(SemRuns /\ Sem!DownReturns(f))
          /\ WF_vars(SemRuns /\ Sem!led_release(f))

-----------------------------------------------------------------------------
\* Whatever driver is loaded, its own state keeps its type.
TypeOK ==
    /\ driver \in Driver
    /\ driver = "atomic" => Atomic!TypeOK
    /\ driver = "spin" => Spin!TypeOK
    /\ driver = "sem" => Sem!TypeOK
    /\ driver = "mutex" => Mutex!TypeOK

(***************************************************************************)
(* atomic_gpioled: the counter counts who took from it, and an open is     *)
(* refused only beside a holder or another refusal on its way out.         *)
(***************************************************************************)
LockCountsTakers == driver = "atomic" => Atomic!LockCountsTakers

BusyHasCause == Atomic!BusyHasCause

\* spinlock: an open finds the status set exactly when the LED is held.
StatusMeansUsed == driver = "spin" => Spin!StatusMeansUsed

\* spinlock: an open or a close that has begun comes to its end.
CallsReturn == driver = "spin" => Spin!CallsReturn

\* semaphore_gpioled: no waiter's turn is lost, and every waiter gets one.
NoStrandedWaiter == driver = "sem" => Sem!NoStrandedWaiter

WaiterServed == driver = "sem" => Sem!WaiterServed

\* mutex: what its second mutex_init can do to the exclusion, at worst.
HoldersBounded == driver = "mutex" => Mutex!HoldersBounded

(***************************************************************************)
(* Each driver is an ExclusiveLed: one file at a time holds the LED, and   *)
(* only its holder writes it.  The exception is mutex with opens before    *)
(* led_init ends, of which only HoldersBounded is true.                    *)
(***************************************************************************)
Excepted == driver = "mutex" /\ early

Holders ==
    CASE Excepted          -> {}
      [] driver = "atomic" -> Atomic!Held
      [] driver = "spin"   -> Spin!Holding
      [] driver = "sem"    -> Sem!At("held")
      [] OTHER             -> Mutex!Held

Exclusive ==
    INSTANCE ExclusiveLed WITH open <- Holders, led <- IF Excepted THEN Off ELSE led

ImplementsExclusiveLed == Exclusive!Spec

\* README.md, item 9, "handling race condation by mutex": one holder at a time.
OneHolder == driver = "mutex" => Mutex!OneHolder
=============================================================================
