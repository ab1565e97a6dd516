----------------------- MODULE DriverLifecycle_proofs -----------------------
(***************************************************************************)
(* What the life of each driver keeps true for any number of open files.   *)
(* Story says for any table what is held and what was released in vain, by *)
(* how far init, error path or exit has come; that it is inductive needs   *)
(* of a table only that it is well formed.  The tables enter at the end:   *)
(* the facts about each, and the properties that follow.                   *)
(***************************************************************************)
EXTENDS DriverLifecycle, TLAPS

-----------------------------------------------------------------------------
(***************************************************************************)
(* A table d: what its first calls acquire, and what its releases cover    *)
(***************************************************************************)
Steps(d) == 1..Len(d.init)

\* What the calls of init before the n-th acquire, failures ignored or not.
Acquired(d, n) == {d.init[i].resource : i \in 1..n - 1}

\* What they have acquired for certain.
Certain(d, n) ==
    {r \in Acquired(d, n) :
        \E i \in 1..n - 1 : d.init[i].resource = r /\ Ignored \notin d.init[i].fail}

MayHold(d, n, h) == Certain(d, n) \subseteq h /\ h \subseteq Acquired(d, n)

\* The calls of init before which it may return 0: its end, or a Success.
Ends(d) == {Len(d.init) + 1} \cup {k \in Steps(d) : Success \in d.init[k].fail}

Given(calls, from, to) == {calls[j] : j \in from..to - 1}
Unwound(d, l) == Given(d.unwind, l, Len(d.unwind) + 1)
Exited(d) == Given(d.exit, 1, Len(d.exit) + 1)

\* A process can open the device.
Node(h) == {"cdev", "device"} \subseteq h \/ "misc" \in h

ErrorLabels(d) == 1..Len(d.unwind) + 1

WellFormed(d) ==
    /\ Len(d.init) \in Nat /\ Len(d.unwind) \in Nat /\ Len(d.exit) \in Nat
    /\ \A k \in Steps(d) :
          /\ d.init[k].resource \in Resource
          /\ d.init[k].fail \subseteq {Ignored, Success} \cup ErrorLabels(d)
    /\ \A j \in 1..Len(d.unwind) : d.unwind[j] \in Resource
    /\ \A j \in 1..Len(d.exit) : d.exit[j] \in Resource
    /\ \A i, j \in 1..Len(d.unwind) : d.unwind[i] = d.unwind[j] => i = j
    /\ \A i, j \in 1..Len(d.exit) : d.exit[i] = d.exit[j] => i = j

(***************************************************************************)
(* The facts about a table                                                 *)
(***************************************************************************)
LeaksOnly(d, leaks) ==
    \A k \in Steps(d) : \A l \in d.init[k].fail \cap ErrorLabels(d) :
        Acquired(d, k) \subseteq SetUp \cup leaks \cup Unwound(d, l)

KeepsOnly(d, keeps) ==
    \A n \in Ends(d) :
        /\ Acquired(d, n) \subseteq SetUp \cup keeps \cup Exited(d)
        /\ keeps \subseteq Certain(d, n) \ (SetUp \cup Exited(d))

ReleasesHeld(d, wrong) ==
    /\ \A k \in Steps(d) : \A l \in d.init[k].fail \cap ErrorLabels(d) :
          Unwound(d, l) \subseteq Certain(d, k) \cup wrong
    /\ \A n \in Ends(d) : Exited(d) \subseteq Certain(d, n) \cup wrong

\* Once the node exists, init fails no more.
NodeLast(d) ==
    \A k \in Steps(d) :
        d.init[k].fail \subseteq {Ignored} \/ Acquired(d, k) \cap {"device", "misc"} = {}

\* What the operations use is there when init returns 0 with a node, or already
\* when the node is made.
OpsReady(d, name) ==
    /\ name \notin {"dts_platform", "miscbeep"} =>
          \A n \in Ends(d) : Node(Acquired(d, n)) => d.ops \subseteq Certain(d, n)
    /\ name \notin {"dts_platform", "miscbeep", "timer", "sema", "ap3216c", "icm20608"} =>
          \A n \in 1..Len(d.init) + 1 :
              Node(Acquired(d, n)) => d.ops \subseteq Certain(d, n)
    /\ d.opens /\ d.bus => name \in {"platform", "dts_platform", "miscbeep", "icm20608"}
    /\ ~d.opens => /\ name = "ap3216c" /\ d.bus
                   /\ "misc" \notin Acquired(d, Len(d.init) + 1)
                   /\ Len(d.exit) > 0 /\ d.exit[1] = "cdev"

\* Interrupt and timer: who has them, and that each comes with what it needs.
TimerReady(d, name) ==
    /\ "irq" \in Acquired(d, Len(d.init) + 1) =>
          name \in KeyDrivers \cup {"keyinput"} /\ ~d.bus
    /\ "timer" \in Acquired(d, Len(d.init) + 1) \cup d.ops => ~d.bus
    /\ name \notin KeyDrivers \cup {"keyinput"} => d.callback = {}
    /\ \A n \in Ends(d) :
          /\ "irq" \in Acquired(d, n) => "timer" \in Certain(d, n)
          /\ "timer" \in Acquired(d, n) => d.callback \ {"irq"} \subseteq Certain(d, n)
          /\ "timer" \in Acquired(d, n) /\ name \notin KeyDrivers => "timer" \in Exited(d)
    /\ "timer" \in d.ops => d.callback = {}

KeyTimer(d) ==
    /\ \A k \in Steps(d) : \A l \in d.init[k].fail \cap ErrorLabels(d) :
          "timer" \notin Acquired(d, k)
    /\ \A n \in 1..Len(d.init) + 1 :
          "timer" \in Acquired(d, n) => d.callback \subseteq Certain(d, n)

TimerUnwound(d) ==
    /\ \A k \in Steps(d) : \A l \in d.init[k].fail \cap ErrorLabels(d) :
          /\ "irq" \in Acquired(d, k) => "timer" \in Certain(d, k)
          /\ "timer" \in Acquired(d, k) => "timer" \in Unwound(d, l)
          /\ \A j \in l..Len(d.unwind) :
                d.unwind[j] = "timer" /\ "irq" \in Acquired(d, k) =>
                    \E i \in l..j - 1 : d.unwind[i] = "irq"
    /\ \A j \in 1..Len(d.exit) :
          d.exit[j] = "timer" /\ "irq" \in Acquired(d, Len(d.init) + 1) =>
              \E i \in 1..j - 1 : d.exit[i] = "irq"

TableFact(d, name) ==
    /\ WellFormed(d)
    /\ LeaksOnly(d, Leaks(name)) /\ KeepsOnly(d, Keeps(name)) /\ ReleasesHeld(d, Wrong(name))
    /\ NodeLast(d) /\ OpsReady(d, name)
    /\ TimerReady(d, name)
    /\ IF name \in KeyDrivers THEN KeyTimer(d) ELSE TimerUnwound(d)

-----------------------------------------------------------------------------
(***************************************************************************)
(* The inductive invariant                                                 *)
(***************************************************************************)

\* h has been held and given gone through; a timer so deleted stays off, but
\* for the key drivers, whose interrupt arms it again.
After(h, given) ==
    /\ held = h \ (given \ {"timer"})
    /\ bad = given \ h
    /\ "timer" \in given /\ driver \notin KeyDrivers => ~armed

\* How many entries of its releases a phase has done, less one.
Done(calls, ends) == IF phase = ends THEN Len(calls) + 1 ELSE at

Loading == phase = "loading" => MayHold(D, at, held) /\ bad = {}

Failing ==
    phase \in {"unwinding", "failed"} =>
        \E k \in Steps(D) : \E l \in D.init[k].fail \cap ErrorLabels(D), h \in SUBSET Resource :
            /\ MayHold(D, k, h)
            /\ l <= Done(D.unwind, "failed")
            /\ After(h, Given(D.unwind, l, Done(D.unwind, "failed")))

Living == phase = "live" => bad = {} /\ \E n \in Ends(D) : MayHold(D, n, held)

Leaving ==
    phase \in {"unloading", "gone"} =>
        \E n \in Ends(D), h \in SUBSET Resource :
            /\ MayHold(D, n, h)
            /\ After(h, Given(D.exit, 1, Done(D.exit, "gone")))

Story == Loading /\ Failing /\ Living /\ Leaving

\* Files are open only where and while the node is, or a bus took it away.
UsersOpened ==
    users > 0 =>
        /\ D.opens /\ phase \notin {"unwinding", "failed"}
        /\ phase \in {"loading", "live"} => Node(held)
        /\ phase \in {"unloading", "gone"} => D.bus

\* The timer is armed by the interrupt or by an operation, once it is set up.
ArmedByCause ==
    armed =>
        /\ "timer" \in held
        /\ phase \in {"loading", "live"} => "irq" \in held \/ "timer" \in D.ops

FaultKnown == fault # "none" => KnownWindow(fault)

Inv == TypeOK /\ Story /\ UsersOpened /\ ArmedByCause /\ FaultKnown

-----------------------------------------------------------------------------
(***************************************************************************)
(* Tables, one entry on                                                    *)
(***************************************************************************)

\* A call of init that succeeds adds its resource; one whose failure is
\* ignored may leave it out.
LEMMA OneCallOn ==
    ASSUME NEW d, WellFormed(d), NEW n \in Steps(d), NEW h, MayHold(d, n, h)
    PROVE  /\ MayHold(d, n + 1, h \cup {d.init[n].resource})
           /\ Ignored \in d.init[n].fail => MayHold(d, n + 1, h)
<1> DEFINE r == d.init[n].resource
<1>1. Len(d.init) \in Nat
  BY DEF WellFormed
<1>2. n \in Nat /\ n >= 1 /\ n + 1 - 1 = n /\ 1..n = 1..n - 1 \cup {n} /\ n \notin 1..n - 1
  BY <1>1 DEF Steps
<1>3. Acquired(d, n + 1) = Acquired(d, n) \cup {r}
  BY <1>2 DEF Acquired
<1>4. Certain(d, n + 1) \subseteq Certain(d, n) \cup {r}
  BY <1>2, <1>3 DEF Certain
<1>5. Ignored \in d.init[n].fail => Certain(d, n + 1) \subseteq Certain(d, n)
  <2> SUFFICES ASSUME Ignored \in d.init[n].fail, NEW x \in Certain(d, n + 1)
               PROVE  x \in Certain(d, n)
    OBVIOUS
  <2>1. PICK i \in 1..n : d.init[i].resource = x /\ Ignored \notin d.init[i].fail
    BY <1>2 DEF Certain
  <2>2. i \in 1..n - 1
    BY <1>2, <2>1
  <2> QED
    BY <2>1, <2>2 DEF Certain, Acquired
<1> QED
  BY <1>3, <1>4, <1>5 DEF MayHold

\* Nothing is held before the first call.
LEMMA NothingYet == ASSUME NEW d PROVE MayHold(d, 1, {})
BY DEF MayHold, Certain, Acquired

\* What may be held is a resource.
LEMMA HeldAreResources ==
    ASSUME NEW d, WellFormed(d), NEW n \in 1..Len(d.init) + 1, NEW h, MayHold(d, n, h)
    PROVE  h \in SUBSET Resource
<1>1. \A i \in 1..n - 1 : i \in Steps(d)
  BY DEF Steps, WellFormed
<1> QED
  BY <1>1 DEF MayHold, Acquired, WellFormed

\* The next release is a new one.
LEMMA OneReleaseOn ==
    ASSUME NEW calls, Len(calls) \in Nat,
           \A i, j \in 1..Len(calls) : calls[i] = calls[j] => i = j,
           NEW from \in Nat \ {0}, NEW to \in 1..Len(calls), from <= to
    PROVE  /\ Given(calls, from, to + 1) = Given(calls, from, to) \cup {calls[to]}
           /\ calls[to] \notin Given(calls, from, to)
<1>1. from..to + 1 - 1 = from..to - 1 \cup {to} /\ to \notin from..to - 1
  OBVIOUS
<1>2. \A j \in from..to - 1 : j \in 1..Len(calls)
  OBVIOUS
<1> QED
  BY <1>1, <1>2 DEF Given

\* The places where init ends are places before or after its calls.
LEMMA EndsAreSteps ==
    ASSUME NEW d, WellFormed(d) PROVE Ends(d) \subseteq 1..Len(d.init) + 1
BY DEF Ends, Steps, WellFormed

LEMMA EndsAcquire ==
    ASSUME NEW d, WellFormed(d), NEW n \in 1..Len(d.init) + 1
    PROVE  Acquired(d, n) \subseteq Acquired(d, Len(d.init) + 1)
<1>1. \A i \in 1..n - 1 : i \in 1..Len(d.init) + 1 - 1
  BY DEF WellFormed
<1> QED
  BY <1>1 DEF Acquired

-----------------------------------------------------------------------------
(***************************************************************************)
(* The steps, for a table that is well formed                              *)
(***************************************************************************)

\* Init establishes the invariant.
LEMMA Beginning == ASSUME Init, WellFormed(D) PROVE Inv
<1>1. Calls = D.init
  BY DEF Init, Calls
<1>2. TypeOK
  <2>1. users \in 0..MaxUsers
    BY MaxUsersAssumption DEF Init
  <2>2. at \in 1..Len(Calls) + 1
    BY <1>1 DEF Init, WellFormed
  <2> QED
    BY <2>1, <2>2 DEF Init, TypeOK
<1>3. Story
  BY NothingYet DEF Init, Story, Loading, Failing, Living, Leaving
<1> QED
  BY <1>2, <1>3 DEF Init, Inv, UsersOpened, ArmedByCause, FaultKnown

\* Every step keeps the types; a goto leads to an entry of the error path or
\* past its end.
LEMMA TypesKept ==
    ASSUME TypeOK, WellFormed(D), [Next]_vars PROVE TypeOK'
<1>1. /\ Len(D.init) \in Nat /\ Len(D.unwind) \in Nat /\ Len(D.exit) \in Nat
      /\ \A k \in Steps(D) : /\ D.init[k].resource \in Resource
                            /\ D.init[k].fail \subseteq {0, -1} \cup 1..Len(D.unwind) + 1
      /\ \A j \in 1..Len(D.unwind) : D.unwind[j] \in Resource
      /\ \A j \in 1..Len(D.exit) : D.exit[j] \in Resource
  BY DEF WellFormed, ErrorLabels, Ignored, Success
<1>2. driver' = driver
  BY DEF Next, Acquire, AcquireFails, InitReturns, Unwind, UnwindReturns, RemoveStarts,
         Remove, RemoveReturns, Interrupt, Expire, Open, Operation, Close, vars
<1>3. /\ phase = "loading" => Calls = D.init
      /\ phase = "unwinding" => Calls = D.unwind
      /\ phase = "unloading" => Calls = D.exit
  BY DEF Calls
<1>4. at' \in 1..Len(Calls') + 1
  <2>1. CASE Acquire \/ Unwind \/ Remove
    <3>1. at \in 1..Len(Calls) + 1 /\ at <= Len(Calls) /\ at' = at + 1
      BY <2>1 DEF TypeOK, Acquire, Unwind, Remove, Release
    <3>2. phase' = phase /\ phase \in {"loading", "unwinding", "unloading"}
      BY <2>1 DEF Acquire, Unwind, Remove
    <3>3. Len(Calls) \in Nat
      BY <1>1, <1>3, <3>2
    <3>4. Calls' = Calls
      BY <1>2, <3>2 DEF Calls, D
    <3> QED
      BY <3>1, <3>3, <3>4
  <2>2. CASE AcquireFails
    <3>1. phase = "loading" /\ at \in 1..Len(D.init)
      BY <1>1, <1>3, <2>2 DEF TypeOK, AcquireFails
    <3>2. PICK l \in D.init[at].fail :
            \/ phase' = phase /\ at' = at + 1
            \/ phase' = "live" /\ at' = 1
            \/ l \in 1..Len(D.unwind) + 1 /\ phase' = "unwinding" /\ at' = l
      BY <1>1, <1>3, <2>2, <3>1 DEF AcquireFails, Ignored, Success, Steps
    <3>3. CASE phase' = phase /\ at' = at + 1
      <4>1. Calls' = D.init
        BY <1>2, <3>1, <3>3 DEF Calls, D
      <4> QED
        BY <1>1, <3>1, <3>3, <4>1
    <3>4. CASE phase' = "live" /\ at' = 1
      BY <3>4 DEF Calls
    <3>5. CASE l \in 1..Len(D.unwind) + 1 /\ phase' = "unwinding" /\ at' = l
      <4>1. Calls' = D.unwind
        BY <1>2, <3>5 DEF Calls, D
      <4> QED
        BY <3>5, <4>1
    <3> QED
      BY <3>2, <3>3, <3>4, <3>5
  <2>3. CASE InitReturns \/ UnwindReturns \/ RemoveReturns
    BY <2>3 DEF InitReturns, UnwindReturns, RemoveReturns, Calls
  <2>4. CASE RemoveStarts
    <3>1. Calls' = D.exit /\ at' = 1
      BY <1>2, <2>4 DEF RemoveStarts, Calls, D
    <3> QED
      BY <1>1, <3>1
  <2>5. CASE Interrupt \/ Expire \/ Open \/ Operation \/ Close \/ UNCHANGED vars
    <3>1. at' = at /\ Calls' = Calls
      BY <2>5 DEF Interrupt, Expire, Open, Operation, Close, vars, Calls, D
    <3> QED
      BY <3>1 DEF TypeOK
  <2> QED
    BY <2>1, <2>2, <2>3, <2>4, <2>5 DEF Next
<1>5. held' \subseteq Resource /\ bad' \subseteq Resource
  <2>1. CASE Acquire
    BY <1>1, <1>3, <2>1 DEF TypeOK, Acquire, Steps
  <2>2. CASE Unwind
    <3>1. Calls[at] \in Resource
      BY <1>1, <1>3, <2>2 DEF TypeOK, Unwind
    <3> QED
      BY <2>2, <3>1 DEF TypeOK, Unwind, Release
  <2>3. CASE Remove
    <3>1. Calls[at] \in Resource
      BY <1>1, <1>3, <2>3 DEF TypeOK, Remove
    <3> QED
      BY <2>3, <3>1 DEF TypeOK, Remove, Release
  <2>4. CASE ~(Acquire \/ Unwind \/ Remove)
    BY <2>4 DEF TypeOK, Next, AcquireFails, InitReturns, UnwindReturns, RemoveStarts,
                RemoveReturns, Interrupt, Expire, Open, Operation, Close, vars
  <2> QED
    BY <2>1, <2>2, <2>3, <2>4
<1>6. driver' \in Drivers /\ users' \in 0..MaxUsers
  BY MaxUsersAssumption
  DEF TypeOK, Next, Acquire, AcquireFails, InitReturns, Unwind, UnwindReturns, RemoveStarts,
      Remove, RemoveReturns, Interrupt, Expire, Open, Operation, Close, vars
<1>7. phase' \in {"loading", "unwinding", "failed", "live", "unloading", "gone"}
  BY DEF TypeOK, Next, Acquire, AcquireFails, InitReturns, Unwind, UnwindReturns, RemoveStarts,
         Remove, RemoveReturns, Interrupt, Expire, Open, Operation, Close, vars
<1>8. armed' \in BOOLEAN
  BY DEF TypeOK, Next, Acquire, AcquireFails, InitReturns, Unwind, UnwindReturns, RemoveStarts,
         Remove, RemoveReturns, Release, Interrupt, Expire, Open, Operation, Close, vars
<1>9. fault' \in {"none", "irq_before_timer", "irq_after_unload", "timer_after_unload",
                  "timer_unready", "op_unready"}
  BY DEF TypeOK, Next, Acquire, AcquireFails, InitReturns, Unwind, UnwindReturns, RemoveStarts,
         Remove, RemoveReturns, Interrupt, Expire, Open, Operation, Close, Unready, vars
<1> QED
  BY <1>4, <1>5, <1>6, <1>7, <1>8, <1>9 DEF TypeOK

\* A release adds to what was given.
LEMMA Released ==
    ASSUME TypeOK, NEW STATE h, NEW STATE g, NEW STATE r,
           After(h, g), r \notin g, Release(r)
    PROVE  /\ held' = h \ ((g \cup {r}) \ {"timer"})
           /\ bad' = (g \cup {r}) \ h
           /\ "timer" \in g \cup {r} /\ driver \notin KeyDrivers => ~armed'
<1>1. r \in held <=> r \in h
  BY DEF After
<1>2. held' = h \ ((g \cup {r}) \ {"timer"})
  BY DEF After, Release
<1>3. bad' = (g \cup {r}) \ h
  BY <1>1 DEF After, Release
<1>4. armed' => armed /\ r # "timer"
  BY DEF TypeOK, Release
<1> QED
  BY <1>2, <1>3, <1>4 DEF After

\* What can happen between two calls, and arms no timer that was deleted.
Between == Interrupt \/ Expire \/ Open \/ Operation \/ Close \/ UNCHANGED vars

LEMMA NothingMoves ==
    ASSUME Between PROVE UNCHANGED <<driver, phase, at, held, bad>>
BY DEF Between, Interrupt, Expire, Open, Operation, Close, vars

LEMMA ArmedAnew ==
    ASSUME TypeOK, UsersOpened, TimerReady(D, driver), Between,
           phase \in {"unwinding", "failed", "unloading", "gone"}, armed'
    PROVE  armed \/ "irq" \in held
<1>1. CASE Operation
  <2>1. "timer" \notin D.ops
    BY <1>1 DEF Operation, UsersOpened, TypeOK, TimerReady
  <2> QED
    BY <1>1, <2>1 DEF Operation, TypeOK
<1>2. CASE ~Operation
  BY <1>2 DEF Between, Interrupt, Expire, Open, Close, vars, TypeOK
<1> QED
  BY <1>1, <1>2

\* init: calls that succeed, fail or have their failure ignored.
LEMMA StoryOfInit ==
    ASSUME TypeOK, Loading, WellFormed(D), Acquire \/ AcquireFails \/ InitReturns
    PROVE  Story'
<1>1. driver' = driver /\ D' = D /\ phase = "loading" /\ bad' = bad /\ armed' = armed
  BY DEF Acquire, AcquireFails, InitReturns, D
<1>2. MayHold(D, at, held) /\ bad = {} /\ Len(D.init) \in Nat /\ at \in 1..Len(D.init) + 1
  BY <1>1 DEF Loading, TypeOK, Calls, WellFormed
<1>3. CASE Acquire
  <2>1. at \in Steps(D) /\ held' = held \cup {D.init[at].resource} /\ at' = at + 1
        /\ phase' = "loading"
    BY <1>2, <1>3 DEF Acquire, Calls, Steps
  <2>2. MayHold(D, at', held')
    BY <1>2, <2>1, OneCallOn
  <2> QED
    BY <1>1, <1>2, <2>1, <2>2 DEF Story, Loading, Failing, Living, Leaving
<1>4. CASE AcquireFails
  <2>1. at \in Steps(D) /\ held' = held
    BY <1>2, <1>4 DEF AcquireFails, Calls, Steps
  <2>2. PICK l \in D.init[at].fail :
          \/ l = Ignored /\ phase' = "loading" /\ at' = at + 1
          \/ l = Success /\ phase' = "live" /\ at' = 1
          \/ l \in ErrorLabels(D) /\ phase' = "unwinding" /\ at' = l
    BY <1>1, <1>4, <2>1 DEF AcquireFails, Calls, WellFormed
  <2>3. CASE l = Ignored /\ phase' = "loading" /\ at' = at + 1
    <3>1. MayHold(D, at', held')
      BY <1>2, <2>1, <2>2, <2>3, OneCallOn
    <3> QED
      BY <1>1, <1>2, <2>3, <3>1 DEF Story, Loading, Failing, Living, Leaving
  <2>4. CASE l = Success /\ phase' = "live" /\ at' = 1
    <3>1. at \in Ends(D)
      BY <2>1, <2>2, <2>4 DEF Ends
    <3>2. Living'
      BY <1>1, <1>2, <2>1, <3>1 DEF Living
    <3> QED
      BY <2>4, <3>2 DEF Story, Loading, Failing, Leaving
  <2>5. CASE l \in ErrorLabels(D) /\ phase' = "unwinding" /\ at' = l
    <3>1. Done(D.unwind, "failed")' = l /\ l \in Nat
      BY <1>1, <2>5 DEF Done, ErrorLabels
    <3>2. Given(D'.unwind, l, l) = {}
      BY <3>1 DEF Given
    <3>3. held \in SUBSET Resource
      BY DEF TypeOK
    <3>4. held' = held \ ({} \ {"timer"}) /\ bad' = {} \ held
      BY <1>1, <1>2, <2>1
    <3>5. Failing'
      BY <1>1, <1>2, <2>1, <2>2, <2>5, <3>1, <3>2, <3>3, <3>4 DEF Failing, After
    <3> QED
      BY <2>5, <3>5 DEF Story, Loading, Living, Leaving
  <2> QED
    BY <2>2, <2>3, <2>4, <2>5
<1>5. CASE InitReturns
  <2>1. at \in Ends(D) /\ phase' = "live" /\ held' = held
    BY <1>2, <1>5 DEF InitReturns, Calls, Ends
  <2>2. Living'
    BY <1>1, <1>2, <2>1 DEF Living
  <2> QED
    BY <2>1, <2>2 DEF Story, Loading, Failing, Leaving
<1> QED
  BY <1>3, <1>4, <1>5

\* The error path.
LEMMA StoryOfUnwinding ==
    ASSUME TypeOK, Failing, WellFormed(D), Unwind \/ UnwindReturns
    PROVE  Story'
<1>1. driver' = driver /\ D' = D /\ phase = "unwinding" /\ phase' \in {"unwinding", "failed"}
  BY DEF Unwind, UnwindReturns, D
<1>2. Len(D.unwind) \in Nat /\ at \in 1..Len(D.unwind) + 1 /\ Calls = D.unwind
  BY <1>1 DEF TypeOK, Calls, WellFormed
<1>3. PICK k \in Steps(D) : \E l \in D.init[k].fail \cap ErrorLabels(D), h \in SUBSET Resource :
        MayHold(D, k, h) /\ l <= at /\ After(h, Given(D.unwind, l, at))
  BY <1>1 DEF Failing, Done
<1>4. PICK l \in D.init[k].fail \cap ErrorLabels(D), h \in SUBSET Resource :
        MayHold(D, k, h) /\ l <= at /\ After(h, Given(D.unwind, l, at))
  BY <1>3
<1>5. CASE Unwind
  <2>1. at \in 1..Len(D.unwind) /\ Release(D.unwind[at]) /\ at' = at + 1 /\ phase' = "unwinding"
    BY <1>2, <1>5 DEF Unwind, Release
  <2>2. l \in Nat \ {0}
    BY <1>2 DEF ErrorLabels
  <2>3. /\ Given(D.unwind, l, at + 1) = Given(D.unwind, l, at) \cup {D.unwind[at]}
        /\ D.unwind[at] \notin Given(D.unwind, l, at)
    BY <1>2, <1>4, <2>1, <2>2, OneReleaseOn DEF WellFormed
  <2>4. Done(D.unwind, "failed")' = at + 1 /\ l <= at + 1
    BY <1>2, <1>4, <2>1, <2>2 DEF Done
  <2> DEFINE given == Given(D.unwind, l, at + 1)
  <2>5. /\ held' = h \ (given \ {"timer"})
        /\ bad' = given \ h
        /\ "timer" \in given /\ driver \notin KeyDrivers => ~armed'
    BY <1>4, <2>1, <2>3, Released
  <2>6. Failing'
    BY <1>1, <1>4, <2>4, <2>5 DEF Failing, After
  <2> QED
    BY <2>1, <2>6 DEF Story, Loading, Living, Leaving
<1>6. CASE UnwindReturns
  <2>1. /\ at = Len(D.unwind) + 1 /\ phase' = "failed"
        /\ held' = held /\ bad' = bad /\ armed' = armed
    BY <1>2, <1>6 DEF UnwindReturns
  <2>2. Done(D.unwind, "failed")' = at
    BY <1>1, <2>1 DEF Done
  <2>3. Failing'
    BY <1>1, <1>4, <2>1, <2>2 DEF Failing, After
  <2> QED
    BY <2>1, <2>3 DEF Story, Loading, Living, Leaving
<1> QED
  BY <1>5, <1>6

\* exit or remove.
LEMMA StoryOfRemoval ==
    ASSUME TypeOK, Living, Leaving, WellFormed(D), RemoveStarts \/ Remove \/ RemoveReturns
    PROVE  Story'
<1>1. /\ driver' = driver /\ D' = D /\ phase \in {"live", "unloading"}
      /\ phase' \in {"unloading", "gone"} /\ Len(D.exit) \in Nat
  BY DEF RemoveStarts, Remove, RemoveReturns, D, WellFormed
<1>2. CASE RemoveStarts
  <2>1. /\ phase' = "unloading" /\ at' = 1 /\ held' = held /\ bad' = {} /\ armed' = armed
        /\ \E n \in Ends(D) : MayHold(D, n, held)
    BY <1>2 DEF RemoveStarts, Living
  <2>2. Done(D.exit, "gone")' = 1 /\ Given(D'.exit, 1, 1) = {}
    BY <1>1, <2>1 DEF Done, Given
  <2>3. held \in SUBSET Resource /\ held' = held \ ({} \ {"timer"}) /\ bad' = {} \ held
    BY <2>1 DEF TypeOK
  <2>4. Leaving'
    BY <1>1, <2>1, <2>2, <2>3 DEF Leaving, After
  <2> QED
    BY <2>1, <2>4 DEF Story, Loading, Failing, Living
<1>3. CASE Remove \/ RemoveReturns
  <2>1. phase = "unloading" /\ at \in 1..Len(D.exit) + 1 /\ Calls = D.exit
    BY <1>3 DEF TypeOK, Calls, Remove, RemoveReturns
  <2>2. PICK n \in Ends(D), h \in SUBSET Resource :
          MayHold(D, n, h) /\ After(h, Given(D.exit, 1, at))
    BY <2>1 DEF Leaving, Done
  <2>3. CASE Remove
    <3>1. at \in 1..Len(D.exit) /\ Release(D.exit[at]) /\ at' = at + 1 /\ phase' = "unloading"
      BY <1>1, <2>1, <2>3 DEF Remove, Release
    <3>2. /\ Given(D.exit, 1, at + 1) = Given(D.exit, 1, at) \cup {D.exit[at]}
          /\ D.exit[at] \notin Given(D.exit, 1, at)
      <4>1. 1 \in Nat \ {0} /\ 1 <= at
        BY <3>1
      <4> QED
        BY <1>1, <3>1, <4>1, OneReleaseOn DEF WellFormed
    <3> DEFINE given == Given(D.exit, 1, at + 1)
    <3>3. /\ held' = h \ (given \ {"timer"})
          /\ bad' = given \ h
          /\ "timer" \in given /\ driver \notin KeyDrivers => ~armed'
      BY <2>2, <3>1, <3>2, Released
    <3>4. Done(D.exit, "gone")' = at + 1
      BY <3>1 DEF Done
    <3>5. Leaving'
      BY <1>1, <2>2, <3>3, <3>4 DEF Leaving, After
    <3> QED
      BY <3>1, <3>5 DEF Story, Loading, Failing, Living
  <2>4. CASE RemoveReturns
    <3>1. /\ at = Len(D.exit) + 1 /\ phase' = "gone"
          /\ held' = held /\ bad' = bad /\ armed' = armed
      BY <1>1, <2>1, <2>4 DEF RemoveReturns
    <3>2. Done(D.exit, "gone")' = at
      BY <1>1, <3>1 DEF Done
    <3>3. Leaving'
      BY <1>1, <2>2, <3>1, <3>2 DEF Leaving, After
    <3> QED
      BY <3>1, <3>3 DEF Story, Loading, Failing, Living
  <2> QED
    BY <1>3, <2>3, <2>4
<1> QED
  BY <1>2, <1>3

\* In between only the interrupt could arm a timer that was deleted; where it
\* matters, its release came before.
LEMMA StoryBetween ==
    ASSUME TypeOK, Story, UsersOpened, Between, WellFormed(D), TimerReady(D, driver),
           driver \notin KeyDrivers => TimerUnwound(D)
    PROVE  Story'
<1>1. UNCHANGED <<driver, phase, at, held, bad>> /\ D' = D
  BY NothingMoves DEF D
<1>2. Loading' /\ Living'
  BY <1>1 DEF Story, Loading, Living
<1>3. Failing'
  <2> SUFFICES ASSUME phase \in {"unwinding", "failed"} PROVE Failing'
    BY <1>1 DEF Failing
  <2> DEFINE done == Done(D.unwind, "failed")
  <2>1. PICK k \in Steps(D) : \E l \in D.init[k].fail \cap ErrorLabels(D), h \in SUBSET Resource :
          MayHold(D, k, h) /\ l <= done /\ After(h, Given(D.unwind, l, done))
    BY DEF Story, Failing
  <2>2. PICK l \in D.init[k].fail \cap ErrorLabels(D), h \in SUBSET Resource :
          MayHold(D, k, h) /\ l <= done /\ After(h, Given(D.unwind, l, done))
    BY <2>1
  <2>3. Done(D.unwind, "failed")' = done
    BY <1>1 DEF Done
  <2>4. ASSUME "timer" \in Given(D.unwind, l, done), driver \notin KeyDrivers, armed'
        PROVE  FALSE
    <3>1. "irq" \in held
      BY <2>2, <2>4, ArmedAnew DEF After
    <3>2. PICK j \in l..done - 1 : D.unwind[j] = "timer"
      BY <2>4 DEF Given
    <3>3. done \in 1..Len(D.unwind) + 1 /\ l \in Nat /\ Len(D.unwind) \in Nat
      BY DEF Done, TypeOK, Calls, ErrorLabels, WellFormed
    <3>4. "irq" \in Acquired(D, k)
      BY <2>2, <3>1 DEF After, MayHold
    <3>5. PICK i \in l..j - 1 : D.unwind[i] = "irq"
      <4>1. j \in l..Len(D.unwind)
        BY <3>2, <3>3
      <4> QED
        BY <2>4, <3>2, <3>4, <4>1 DEF TimerUnwound
    <3>6. i \in l..done - 1
      BY <3>2, <3>3, <3>5
    <3> QED
      BY <2>2, <3>1, <3>5, <3>6 DEF After, Given
  <2> QED
    BY <1>1, <2>2, <2>3, <2>4 DEF Failing, After
<1>4. Leaving'
  <2> SUFFICES ASSUME phase \in {"unloading", "gone"} PROVE Leaving'
    BY <1>1 DEF Leaving
  <2> DEFINE done == Done(D.exit, "gone")
  <2>1. PICK n \in Ends(D), h \in SUBSET Resource :
          MayHold(D, n, h) /\ After(h, Given(D.exit, 1, done))
    BY DEF Story, Leaving
  <2>2. Done(D.exit, "gone")' = done
    BY <1>1 DEF Done
  <2>3. ASSUME "timer" \in Given(D.exit, 1, done), driver \notin KeyDrivers, armed'
        PROVE  FALSE
    <3>1. "irq" \in held
      BY <2>1, <2>3, ArmedAnew DEF After
    <3>2. PICK j \in 1..done - 1 : D.exit[j] = "timer"
      BY <2>3 DEF Given
    <3>3. done \in 1..Len(D.exit) + 1 /\ Len(D.exit) \in Nat
      BY DEF Done, TypeOK, Calls, WellFormed
    <3>4. "irq" \in Acquired(D, n)
      BY <2>1, <3>1 DEF After, MayHold
    <3>5. "irq" \in Acquired(D, Len(D.init) + 1)
      BY <3>4, EndsAreSteps, EndsAcquire
    <3>6. PICK i \in 1..j - 1 : D.exit[i] = "irq"
      BY <2>3, <3>2, <3>3, <3>5 DEF TimerUnwound
    <3>7. i \in 1..done - 1
      BY <3>2, <3>3, <3>6
    <3> QED
      BY <2>1, <3>1, <3>6, <3>7 DEF After, Given
  <2> QED
    BY <1>1, <2>1, <2>2, <2>3 DEF Leaving, After
<1> QED
  BY <1>2, <1>3, <1>4 DEF Story

LEMMA StoryKept ==
    ASSUME TypeOK, Story, UsersOpened, [Next]_vars, WellFormed(D), TimerReady(D, driver),
           driver \notin KeyDrivers => TimerUnwound(D)
    PROVE  Story'
BY StoryOfInit, StoryOfUnwinding, StoryOfRemoval, StoryBetween DEF Next, Between, Story

\* The error path is never walked with the node in place.
LEMMA NoNodeLeft ==
    ASSUME Failing, NodeLast(D), phase \in {"unwinding", "failed"} PROVE ~Node(held)
<1>1. PICK k \in Steps(D) : \E l \in D.init[k].fail \cap ErrorLabels(D), h \in SUBSET Resource :
        MayHold(D, k, h) /\ After(h, Given(D.unwind, l, Done(D.unwind, "failed")))
  BY DEF Failing
<1>2. held \subseteq Acquired(D, k)
  BY <1>1 DEF After, MayHold
<1>3. ~(D.init[k].fail \subseteq {Ignored})
  BY <1>1 DEF ErrorLabels, Ignored
<1> QED
  BY <1>2, <1>3 DEF NodeLast, Node

LEMMA UsersKept ==
    ASSUME TypeOK, Story, UsersOpened, [Next]_vars, WellFormed(D), NodeLast(D)
    PROVE  UsersOpened'
<1>1. driver' = driver /\ D' = D
  BY DEF Next, Acquire, AcquireFails, InitReturns, Unwind, UnwindReturns, RemoveStarts,
         Remove, RemoveReturns, Interrupt, Expire, Open, Operation, Close, vars, D
<1>2. CASE Acquire
  BY <1>1, <1>2 DEF UsersOpened, Acquire, Node
<1>3. CASE AcquireFails
  <2>1. PICK l \in D.init[at].fail : phase' = "unwinding" => l \notin {Ignored, Success}
    BY <1>3 DEF AcquireFails, Calls
  <2>2. held' = held /\ users' = users /\ phase = "loading"
        /\ phase' \in {"loading", "live", "unwinding"}
    BY <1>3 DEF AcquireFails
  <2>3. users > 0 => phase' # "unwinding"
    <3>1. at \in Steps(D) /\ held \subseteq Acquired(D, at)
      BY <1>3 DEF AcquireFails, Calls, TypeOK, Steps, WellFormed, Story, Loading, MayHold
    <3> QED
      BY <2>1, <2>2, <3>1 DEF UsersOpened, NodeLast, Node
  <2> QED
    BY <1>1, <2>2, <2>3 DEF UsersOpened
<1>4. CASE InitReturns \/ Unwind \/ UnwindReturns
  BY <1>1, <1>4 DEF UsersOpened, InitReturns, Unwind, UnwindReturns, TypeOK
<1>5. CASE RemoveStarts \/ Remove \/ RemoveReturns
  BY <1>1, <1>5 DEF UsersOpened, RemoveStarts, Remove, RemoveReturns, TypeOK
<1>6. CASE Open
  <2>1. phase \notin {"unwinding", "failed"}
    BY <1>6, NoNodeLeft DEF Open, Node, Story
  <2> QED
    BY <1>1, <1>6, <2>1 DEF UsersOpened, Open, Node, TypeOK
<1>7. CASE Interrupt \/ Expire \/ Operation \/ Close \/ UNCHANGED vars
  <2>1. users' \in {users, users - 1} /\ phase' = phase /\ held' = held
    BY <1>7 DEF Interrupt, Expire, Operation, Close, vars
  <2> QED
    BY <1>1, <2>1 DEF UsersOpened, TypeOK
<1> QED
  BY <1>2, <1>3, <1>4, <1>5, <1>6, <1>7 DEF Next

LEMMA ArmedKept ==
    ASSUME TypeOK, ArmedByCause, [Next]_vars PROVE ArmedByCause'
<1>1. driver' = driver /\ D' = D /\ ("timer" \in held => "timer" \in held')
  BY DEF Next, Acquire, AcquireFails, InitReturns, Unwind, UnwindReturns, RemoveStarts,
         Remove, RemoveReturns, Release, Interrupt, Expire, Open, Operation, Close, vars, D
<1>2. CASE Acquire \/ AcquireFails \/ InitReturns
  <2>1. /\ armed' = armed /\ held \subseteq held' /\ phase = "loading"
    BY <1>2 DEF Acquire, AcquireFails, InitReturns
  <2> QED
    BY <1>1, <2>1 DEF ArmedByCause
<1>3. CASE Unwind \/ UnwindReturns \/ RemoveStarts \/ Remove \/ RemoveReturns
  <2>1. /\ armed' => armed
        /\ phase' \notin {"loading", "live"}
    BY <1>3 DEF TypeOK, Unwind, UnwindReturns, RemoveStarts, Remove, RemoveReturns, Release
  <2> QED
    BY <1>1, <2>1 DEF ArmedByCause
<1>4. CASE Interrupt
  BY <1>1, <1>4 DEF Interrupt, ArmedByCause
<1>5. CASE Operation
  <2>1. armed' => armed \/ ("timer" \in D.ops /\ D.ops \subseteq held)
    BY <1>5 DEF TypeOK, Operation, Unready
  <2> QED
    BY <1>1, <1>5, <2>1 DEF Operation, ArmedByCause
<1>6. CASE Expire \/ Open \/ Close \/ UNCHANGED vars
  <2>1. phase' = phase /\ held' = held /\ (armed' => armed)
    BY <1>6 DEF TypeOK, Expire, Open, Close, vars
  <2> QED
    BY <1>1, <2>1 DEF ArmedByCause
<1> QED
  BY <1>2, <1>3, <1>4, <1>5, <1>6 DEF Next

-----------------------------------------------------------------------------
(***************************************************************************)
(* The faults                                                              *)
(***************************************************************************)

\* An interrupt after its driver is a key driver's, whose init failed.
LEMMA LateInterrupt ==
    ASSUME TypeOK, Story, TableFact(D, driver), TextFreed, "irq" \in held
    PROVE  KnownWindow("irq_after_unload")
<1>1. CASE phase = "failed"
  <2>1. PICK k \in Steps(D) : \E l \in D.init[k].fail \cap ErrorLabels(D), h \in SUBSET Resource :
          MayHold(D, k, h) /\ After(h, Unwound(D, l))
    BY <1>1 DEF Story, Failing, Done, Unwound
  <2>2. "irq" \in Leaks(driver)
    BY <2>1 DEF After, MayHold, TableFact, LeaksOnly, SetUp
  <2>3. driver \in KeyDrivers
    BY <2>2 DEF Leaks
  <2> QED
    BY <1>1, <2>3 DEF KnownWindow
<1>2. CASE phase = "gone"
  <2>1. PICK n \in Ends(D), h \in SUBSET Resource : MayHold(D, n, h) /\ After(h, Exited(D))
    BY <1>2 DEF Story, Leaving, Done, Exited
  <2>2. "irq" \in Keeps(driver)
    BY <2>1 DEF After, MayHold, TableFact, KeepsOnly, SetUp
  <2> QED
    BY <2>2 DEF Keeps
<1> QED
  BY <1>1, <1>2 DEF TextFreed

\* An interrupt before its timer comes while init or the error path of a key
\* driver, or init of keyinput, is on its way.
LEMMA EarlyInterrupt ==
    ASSUME TypeOK, Story, TableFact(D, driver), ~TextFreed, "irq" \in held, "timer" \notin held
    PROVE  KnownWindow("irq_before_timer")
<1>1. WellFormed(D)
  BY DEF TableFact
<1>2. \A n \in 1..Len(D.init) + 1 :
        "irq" \in Acquired(D, n) => driver \in KeyDrivers \cup {"keyinput"} /\ ~D.bus
  BY <1>1, EndsAcquire DEF TableFact, TimerReady
<1>3. CASE phase = "loading"
  <2>1. at \in 1..Len(D.init) + 1
    BY <1>3 DEF TypeOK, Calls
  <2>2. driver \in KeyDrivers \cup {"keyinput"}
    BY <1>2, <1>3, <2>1 DEF Story, Loading, MayHold
  <2> QED
    BY <1>3, <2>2 DEF KnownWindow
<1>4. CASE phase \in {"unwinding", "failed"}
  <2>1. PICK k \in Steps(D) : \E l \in D.init[k].fail \cap ErrorLabels(D), h \in SUBSET Resource :
          MayHold(D, k, h) /\ After(h, Given(D.unwind, l, Done(D.unwind, "failed")))
    BY <1>4 DEF Story, Failing
  <2>2. "irq" \in Acquired(D, k) /\ "timer" \notin Certain(D, k)
    BY <2>1 DEF After, MayHold
  <2>3. driver \in KeyDrivers
    BY <2>1, <2>2 DEF TableFact, TimerUnwound
  <2>4. ~D.bus
    BY <1>1, <1>2, <2>2 DEF Steps, WellFormed
  <2> QED
    BY <1>4, <2>3, <2>4 DEF KnownWindow, TextFreed
<1>5. ASSUME NEW n \in Ends(D), NEW h, MayHold(D, n, h), "irq" \in h, "timer" \notin h
      PROVE  FALSE
  BY <1>5 DEF MayHold, TableFact, TimerReady
<1>6. phase # "live"
  BY <1>5 DEF Story, Living
<1>7. phase \notin {"unloading", "gone"}
  BY <1>5 DEF Story, Leaving, After
<1> QED
  BY <1>3, <1>4, <1>6, <1>7 DEF TypeOK

\* A timer that outlives its driver was armed anew by a key driver's interrupt.
LEMMA LateTimer ==
    ASSUME TypeOK, Story, ArmedByCause, TableFact(D, driver), TextFreed, armed
    PROVE  KnownWindow("timer_after_unload")
<1>1. "timer" \in held
  BY DEF ArmedByCause
<1>2. phase # "failed"
  <2> SUFFICES ASSUME phase = "failed" PROVE FALSE
    OBVIOUS
  <2>1. PICK k \in Steps(D) : \E l \in D.init[k].fail \cap ErrorLabels(D), h \in SUBSET Resource :
          MayHold(D, k, h) /\ After(h, Unwound(D, l))
    BY DEF Story, Failing, Done, Unwound
  <2>2. "timer" \in Acquired(D, k)
    BY <1>1, <2>1 DEF After, MayHold
  <2>3. driver \notin KeyDrivers
    BY <2>1, <2>2 DEF TableFact, KeyTimer
  <2> QED
    BY <2>1, <2>2, <2>3 DEF After, TableFact, TimerUnwound
<1>3. phase = "gone"
  BY <1>2 DEF TextFreed
<1>4. PICK n \in Ends(D), h \in SUBSET Resource : MayHold(D, n, h) /\ After(h, Exited(D))
  BY <1>3 DEF Story, Leaving, Done, Exited
<1>5. driver \in KeyDrivers
  BY <1>1, <1>4 DEF After, MayHold, TableFact, TimerReady
<1> QED
  BY <1>3, <1>5 DEF KnownWindow

\* A timer that misses what its function uses: a key driver's during exit, or
\* keyinput's outside its working life.
LEMMA UnreadyTimer ==
    ASSUME TypeOK, Story, ArmedByCause, TableFact(D, driver), ~TextFreed,
           armed, ~(D.callback \subseteq held)
    PROVE  KnownWindow("timer_unready")
<1>1. WellFormed(D) /\ "timer" \in held
  BY DEF TableFact, ArmedByCause
<1>2. driver \in KeyDrivers \cup {"keyinput"} /\ "timer" \notin D.ops
  BY DEF TableFact, TimerReady
<1>3. \A n \in 1..Len(D.init) + 1 : "timer" \in Acquired(D, n) => ~D.bus
  BY <1>1, EndsAcquire DEF TableFact, TimerReady
<1>4. CASE phase \in {"unwinding", "failed"}
  <2>1. PICK k \in Steps(D) : \E l \in D.init[k].fail \cap ErrorLabels(D), h \in SUBSET Resource :
          MayHold(D, k, h) /\ After(h, Given(D.unwind, l, Done(D.unwind, "failed")))
    BY <1>4 DEF Story, Failing
  <2>2. "timer" \in Acquired(D, k) /\ k \in 1..Len(D.init) + 1
    BY <1>1, <2>1 DEF After, MayHold, Steps, WellFormed
  <2>3. driver \notin KeyDrivers
    BY <2>1, <2>2 DEF TableFact, KeyTimer
  <2>4. ~D.bus
    BY <1>3, <2>2
  <2> QED
    BY <1>2, <1>4, <2>3, <2>4 DEF KnownWindow, TextFreed
<1>5. CASE phase \in {"unloading", "gone"}
  <2>1. PICK n \in Ends(D), h \in SUBSET Resource :
          MayHold(D, n, h) /\ After(h, Given(D.exit, 1, Done(D.exit, "gone")))
    BY <1>5 DEF Story, Leaving
  <2>2. ~D.bus
    BY <1>1, <1>3, <2>1, EndsAreSteps DEF After, MayHold
  <2> QED
    BY <1>2, <1>5, <2>2 DEF KnownWindow, TextFreed
<1>6. CASE phase = "loading"
  <2>1. at \in 1..Len(D.init) + 1 /\ MayHold(D, at, held)
    BY <1>6 DEF TypeOK, Calls, Story, Loading
  <2>2. driver \notin KeyDrivers
    BY <1>1, <2>1 DEF MayHold, TableFact, KeyTimer
  <2> QED
    BY <1>2, <1>6, <2>2 DEF KnownWindow
<1>7. CASE phase = "live"
  <2>1. PICK n \in Ends(D) : MayHold(D, n, held)
    BY <1>7 DEF Story, Living
  <2>2. "irq" \in held
    BY <1>2, <1>7 DEF ArmedByCause
  <2>3. D.callback \ {"irq"} \subseteq held
    BY <1>1, <2>1 DEF MayHold, TableFact, TimerReady
  <2> QED
    BY <2>2, <2>3
<1> QED
  BY <1>4, <1>5, <1>6, <1>7 DEF TypeOK

\* The node is only there where the operations' objects are, but for what
\* OpsReady leaves out.
LEMMA NodeReady ==
    ASSUME TypeOK, Story, TableFact(D, driver), Node(held), ~(D.ops \subseteq held),
           phase \in {"loading", "live"}
    PROVE  KnownWindow("op_unready")
<1>1. CASE phase = "loading"
  <2>1. at \in 1..Len(D.init) + 1 /\ MayHold(D, at, held)
    BY <1>1 DEF TypeOK, Calls, Story, Loading
  <2>2. driver \in {"dts_platform", "miscbeep", "timer", "sema", "ap3216c", "icm20608"}
    BY <2>1 DEF TableFact, OpsReady, MayHold, Node
  <2> QED
    BY <1>1, <2>2 DEF KnownWindow
<1>2. CASE phase = "live"
  <2>1. PICK n \in Ends(D) : MayHold(D, n, held)
    BY <1>2 DEF Story, Living
  <2>2. driver \in {"dts_platform", "miscbeep"}
    BY <2>1 DEF TableFact, OpsReady, MayHold, Node
  <2> QED
    BY <1>2, <2>2 DEF KnownWindow
<1> QED
  BY <1>1, <1>2

LEMMA UnreadyOperation ==
    ASSUME TypeOK, Story, UsersOpened, TableFact(D, driver), users > 0, ~(D.ops \subseteq held)
    PROVE  KnownWindow("op_unready")
<1>1. CASE phase \in {"loading", "live"}
  BY <1>1, NodeReady DEF UsersOpened
<1>2. CASE phase \in {"unloading", "gone"}
  <2>1. driver \in {"platform", "dts_platform", "miscbeep", "icm20608"}
    BY <1>2 DEF UsersOpened, TableFact, OpsReady
  <2> QED
    BY <1>2, <2>1 DEF KnownWindow
<1> QED
  BY <1>1, <1>2 DEF UsersOpened, TypeOK

\* ap3216c's open, which always fails, comes only while probe still runs; its
\* remove takes the cdev first.
LEMMA UnreadyOpen ==
    ASSUME TypeOK, Story, TableFact(D, driver), Node(held), ~D.opens, ~(D.ops \subseteq held)
    PROVE  KnownWindow("op_unready")
<1>1. WellFormed(D) /\ driver = "ap3216c" /\ Len(D.exit) > 0 /\ D.exit[1] = "cdev"
  BY DEF TableFact, OpsReady
<1>2. \A n \in Ends(D) : "misc" \notin Acquired(D, n)
  BY <1>1, EndsAreSteps, EndsAcquire DEF TableFact, OpsReady
<1>3. phase \notin {"unwinding", "failed"}
  BY NoNodeLeft DEF Story, TableFact
<1>4. phase \notin {"unloading", "gone"}
  <2> SUFFICES ASSUME phase \in {"unloading", "gone"} PROVE FALSE
    OBVIOUS
  <2>1. PICK n \in Ends(D), h \in SUBSET Resource :
          MayHold(D, n, h) /\ After(h, Given(D.exit, 1, Done(D.exit, "gone")))
    BY DEF Story, Leaving
  <2>2. "cdev" \in held /\ Node(h)
    BY <1>2, <2>1 DEF After, MayHold, Node
  <2>3. D.ops \subseteq h
    BY <1>1, <2>1, <2>2 DEF TableFact, OpsReady, MayHold, Node
  <2>4. Done(D.exit, "gone") \in Nat /\ Done(D.exit, "gone") > 1
    <3>1. CASE phase = "gone"
      BY <1>1, <3>1 DEF Done, WellFormed
    <3>2. CASE phase = "unloading"
      <4>1. at \in 1..Len(D.exit) + 1 /\ Done(D.exit, "gone") = at
        BY <3>2 DEF TypeOK, Calls, Done
      <4>2. at = 1 => Given(D.exit, 1, at) = {}
        BY DEF Given
      <4>3. at # 1
        BY <2>1, <2>3, <4>1, <4>2 DEF After
      <4> QED
        BY <1>1, <4>1, <4>3 DEF WellFormed
    <3> QED
      BY <3>1, <3>2
  <2>5. "cdev" \in Given(D.exit, 1, Done(D.exit, "gone"))
    BY <1>1, <2>4 DEF Given
  <2> QED
    BY <2>1, <2>2, <2>5 DEF After
<1> QED
  BY <1>3, <1>4, NodeReady DEF TypeOK

LEMMA FaultsKept ==
    ASSUME TypeOK, Story, UsersOpened, ArmedByCause, FaultKnown, TableFact(D, driver),
           [Next]_vars
    PROVE  FaultKnown'
<1>1. CASE fault' = fault
  <2>1. CASE UNCHANGED vars
    BY <2>1 DEF FaultKnown, KnownWindow, vars
  <2>2. CASE Next
    BY <1>1, <2>2 DEF Next, FaultKnown
  <2> QED
    BY <2>1, <2>2
<1>2. CASE fault' # fault
  <2>1. \/ Interrupt \/ Expire \/ Open \/ Operation \/ Close
    BY <1>2 DEF Next, Acquire, AcquireFails, InitReturns, Unwind, UnwindReturns, RemoveStarts,
                Remove, RemoveReturns, vars
  <2>2. driver' = driver /\ phase' = phase
    BY <2>1, NothingMoves DEF Between
  <2>3. fault' # "none" => KnownWindow(fault')
    <3>1. CASE Interrupt
      BY <3>1, LateInterrupt, EarlyInterrupt DEF Interrupt
    <3>2. CASE Expire
      BY <3>2, LateTimer, UnreadyTimer DEF Expire
    <3>3. CASE Open
      BY <1>2, <3>3, UnreadyOpen DEF Open, Unready, Node
    <3>4. CASE Operation
      BY <3>4, UnreadyOperation DEF Operation, Unready
    <3>5. CASE Close
      BY <3>5, UnreadyOperation DEF Close
    <3> QED
      BY <2>1, <3>1, <3>2, <3>3, <3>4, <3>5
  <2> QED
    BY <2>2, <2>3 DEF FaultKnown, KnownWindow
<1> QED
  BY <1>1, <1>2

-----------------------------------------------------------------------------
(***************************************************************************)
(* The tables, entry by entry                                              *)
(***************************************************************************)
Entry == [resource : Resource, fail : SUBSET Int]

LEMMA AnEntry ==
    /\ \A r \in Resource : Setup(r) \in Entry
    /\ \A r \in Resource, l \in Int : Take(r, l) \in Entry
BY DEF Take, Setup, Entry

LEMMA ChrdevbaseEntries ==
    /\ Len(chrdevbase.init) = 5 /\ chrdevbase.init[1] = Setup("map")
    /\ chrdevbase.init[2] = Take("region", 1)
    /\ chrdevbase.init[3] = GoOn("cdev")
    /\ chrdevbase.init[4] = Take("class", 1)
    /\ chrdevbase.init[5] = Take("device", 1)
    /\ chrdevbase.unwind = <<"map">>
    /\ chrdevbase.exit = <<"map", "cdev", "region", "device", "class">>
    /\ chrdevbase.ops = {"map"} /\ chrdevbase.callback = {} /\ ~chrdevbase.bus
    /\ chrdevbase.opens
<1>2. /\ Len(chrdevbase.init) = 5 /\ chrdevbase.init[1] = Setup("map")
      /\ chrdevbase.init[2] = Take("region", 1)
      /\ chrdevbase.init[3] = GoOn("cdev")
      /\ chrdevbase.init[4] = Take("class", 1)
      /\ chrdevbase.init[5] = Take("device", 1)
  BY DEF chrdevbase, Driver
<1>4. chrdevbase.unwind = <<"map">>
  BY DEF chrdevbase, Driver
<1>6. chrdevbase.exit = <<"map", "cdev", "region", "device", "class">>
  BY DEF chrdevbase, Driver
<1>7. /\ chrdevbase.ops = {"map"} /\ chrdevbase.callback = {} /\ ~chrdevbase.bus
      /\ chrdevbase.opens
  BY DEF chrdevbase, Driver
<1> QED
  BY <1>2, <1>4, <1>6, <1>7

LEMMA PlainLedEntries ==
    /\ Len(gpioled.init) = 5 /\ gpioled.init[1] = Take("gpio", 5)
    /\ gpioled.init[2] = Take("region", 4)
    /\ gpioled.init[3] = Take("cdev", 3) /\ gpioled.init[4] = Take("class", 2)
    /\ gpioled.init[5] = Take("device", 1)
    /\ Len(gpioled.unwind) = 4 /\ gpioled.unwind[1] = "class"
    /\ gpioled.unwind[2] = "cdev" /\ gpioled.unwind[3] = "region"
    /\ gpioled.unwind[4] = "gpio"
    /\ gpioled.exit = <<"cdev", "region", "device", "class">>
    /\ gpioled.ops = {"gpio"} /\ gpioled.callback = {} /\ ~gpioled.bus
    /\ gpioled.opens
<1>1. gpioled.init =
        <<Take("gpio", 5)>>
        \o <<Take("region", 4), Take("cdev", 3), Take("class", 2), Take("device", 1)>>
  BY Zenon DEF gpioled, Driver, CharDev
<1>2. /\ Len(gpioled.init) = 5 /\ gpioled.init[1] = Take("gpio", 5)
      /\ gpioled.init[2] = Take("region", 4)
      /\ gpioled.init[3] = Take("cdev", 3) /\ gpioled.init[4] = Take("class", 2)
      /\ gpioled.init[5] = Take("device", 1)
  BY <1>1, AnEntry DEF Resource, GoOn
<1>3. gpioled.unwind = Append(<<"class", "cdev", "region">>, "gpio")
  BY Zenon DEF gpioled, Driver, Labels
<1>4. /\ Len(gpioled.unwind) = 4 /\ gpioled.unwind[1] = "class"
      /\ gpioled.unwind[2] = "cdev" /\ gpioled.unwind[3] = "region"
      /\ gpioled.unwind[4] = "gpio"
  BY <1>3
<1>6. gpioled.exit = <<"cdev", "region", "device", "class">>
  BY DEF gpioled, Driver
<1>7. /\ gpioled.ops = {"gpio"} /\ gpioled.callback = {} /\ ~gpioled.bus
      /\ gpioled.opens
  BY DEF gpioled, Driver
<1> QED
  BY <1>2, <1>4, <1>6, <1>7

LEMMA SpinLedEntries ==
    /\ Len(spinlock.init) = 5 /\ spinlock.init[1] = Take("gpio", 5)
    /\ spinlock.init[2] = Take("region", 4)
    /\ spinlock.init[3] = Take("cdev", 3)
    /\ spinlock.init[4] = Take("class", 2)
    /\ spinlock.init[5] = Take("device", 1)
    /\ Len(spinlock.unwind) = 4 /\ spinlock.unwind[1] = "class"
    /\ spinlock.unwind[2] = "cdev" /\ spinlock.unwind[3] = "region"
    /\ spinlock.unwind[4] = "gpio"
    /\ Len(spinlock.exit) = 5 /\ spinlock.exit[1] = "cdev"
    /\ spinlock.exit[2] = "region" /\ spinlock.exit[3] = "device"
    /\ spinlock.exit[4] = "class" /\ spinlock.exit[5] = "gpio"
    /\ spinlock.ops = {"gpio"} /\ spinlock.callback = {} /\ ~spinlock.bus
    /\ spinlock.opens
<1>1. spinlock.init =
        <<Take("gpio", 5)>>
        \o <<Take("region", 4), Take("cdev", 3), Take("class", 2), Take("device", 1)>>
  BY Zenon DEF spinlock, gpioled, Driver, CharDev
<1>2. /\ Len(spinlock.init) = 5 /\ spinlock.init[1] = Take("gpio", 5)
      /\ spinlock.init[2] = Take("region", 4)
      /\ spinlock.init[3] = Take("cdev", 3)
      /\ spinlock.init[4] = Take("class", 2)
      /\ spinlock.init[5] = Take("device", 1)
  BY <1>1, AnEntry DEF Resource, GoOn
<1>3. spinlock.unwind = Append(<<"class", "cdev", "region">>, "gpio")
  BY Zenon DEF spinlock, gpioled, Driver, Labels
<1>4. /\ Len(spinlock.unwind) = 4 /\ spinlock.unwind[1] = "class"
      /\ spinlock.unwind[2] = "cdev" /\ spinlock.unwind[3] = "region"
      /\ spinlock.unwind[4] = "gpio"
  BY <1>3
<1>5. spinlock.exit = Append(<<"cdev", "region", "device", "class">>, "gpio")
  BY Zenon DEF spinlock, gpioled, Driver
<1>6. /\ Len(spinlock.exit) = 5 /\ spinlock.exit[1] = "cdev"
      /\ spinlock.exit[2] = "region" /\ spinlock.exit[3] = "device"
      /\ spinlock.exit[4] = "class" /\ spinlock.exit[5] = "gpio"
  BY <1>5
<1>7. /\ spinlock.ops = {"gpio"} /\ spinlock.callback = {} /\ ~spinlock.bus
      /\ spinlock.opens
  BY DEF spinlock, gpioled, Driver
<1> QED
  BY <1>2, <1>4, <1>6, <1>7

LEMMA SemaLedEntries ==
    /\ Len(sema.init) = 6 /\ sema.init[1] = Take("gpio", 5)
    /\ sema.init[2] = Take("region", 4) /\ sema.init[3] = Take("cdev", 3)
    /\ sema.init[4] = Take("class", 2) /\ sema.init[5] = Take("device", 1)
    /\ sema.init[6] = Setup("sem")
    /\ Len(sema.unwind) = 4 /\ sema.unwind[1] = "class"
    /\ sema.unwind[2] = "cdev" /\ sema.unwind[3] = "region"
    /\ sema.unwind[4] = "gpio"
    /\ Len(sema.exit) = 5 /\ sema.exit[1] = "cdev" /\ sema.exit[2] = "region"
    /\ sema.exit[3] = "device" /\ sema.exit[4] = "class"
    /\ sema.exit[5] = "gpio"
    /\ sema.ops = {"gpio", "sem"} /\ sema.callback = {} /\ ~sema.bus
    /\ sema.opens
<1>1. sema.init =
        Append(<<Take("gpio", 5)>>
           \o <<Take("region", 4), Take("cdev", 3), Take("class", 2), Take("device", 1)>>,
           Setup("sem"))
  BY Zenon DEF sema, spinlock, gpioled, Driver, CharDev
<1>2. /\ Len(sema.init) = 6 /\ sema.init[1] = Take("gpio", 5)
      /\ sema.init[2] = Take("region", 4) /\ sema.init[3] = Take("cdev", 3)
      /\ sema.init[4] = Take("class", 2) /\ sema.init[5] = Take("device", 1)
      /\ sema.init[6] = Setup("sem")
  BY <1>1, AnEntry DEF Resource, GoOn
<1>3. sema.unwind = Append(<<"class", "cdev", "region">>, "gpio")
  BY Zenon DEF sema, spinlock, gpioled, Driver, Labels
<1>4. /\ Len(sema.unwind) = 4 /\ sema.unwind[1] = "class"
      /\ sema.unwind[2] = "cdev" /\ sema.unwind[3] = "region"
      /\ sema.unwind[4] = "gpio"
  BY <1>3
<1>5. sema.exit = Append(<<"cdev", "region", "device", "class">>, "gpio")
  BY Zenon DEF sema, spinlock, gpioled, Driver
<1>6. /\ Len(sema.exit) = 5 /\ sema.exit[1] = "cdev" /\ sema.exit[2] = "region"
      /\ sema.exit[3] = "device" /\ sema.exit[4] = "class"
      /\ sema.exit[5] = "gpio"
  BY <1>5
<1>7. /\ sema.ops = {"gpio", "sem"} /\ sema.callback = {} /\ ~sema.bus
      /\ sema.opens
  BY DEF sema, spinlock, gpioled, Driver
<1> QED
  BY <1>2, <1>4, <1>6, <1>7

LEMMA TimerLedEntries ==
    /\ Len(timer.init) = 5 /\ timer.init[1] = Take("region", 4)
    /\ timer.init[2] = Take("cdev", 3) /\ timer.init[3] = Take("class", 2)
    /\ timer.init[4] = Take("device", 1) /\ timer.init[5] = Setup("timer")
    /\ Len(timer.unwind) = 4 /\ timer.unwind[1] = "class"
    /\ timer.unwind[2] = "cdev" /\ timer.unwind[3] = "region"
    /\ timer.unwind[4] = "gpio"
    /\ timer.exit = <<"timer", "cdev", "region", "device", "class">>
    /\ timer.ops = {"timer"} /\ timer.callback = {} /\ ~timer.bus
    /\ timer.opens
<1>1. timer.init =
        <<Take("region", 4), Take("cdev", 3), Take("class", 2), Take("device", 1)>>
        \o <<Setup("timer")>>
  BY Zenon DEF timer, Driver, CharDev
<1>2. /\ Len(timer.init) = 5 /\ timer.init[1] = Take("region", 4)
      /\ timer.init[2] = Take("cdev", 3) /\ timer.init[3] = Take("class", 2)
      /\ timer.init[4] = Take("device", 1) /\ timer.init[5] = Setup("timer")
  BY <1>1, AnEntry DEF Resource, GoOn
<1>3. timer.unwind = Append(<<"class", "cdev", "region">>, "gpio")
  BY Zenon DEF timer, Driver, Labels
<1>4. /\ Len(timer.unwind) = 4 /\ timer.unwind[1] = "class"
      /\ timer.unwind[2] = "cdev" /\ timer.unwind[3] = "region"
      /\ timer.unwind[4] = "gpio"
  BY <1>3
<1>6. timer.exit = <<"timer", "cdev", "region", "device", "class">>
  BY DEF timer, Driver
<1>7. /\ timer.ops = {"timer"} /\ timer.callback = {} /\ ~timer.bus
      /\ timer.opens
  BY DEF timer, Driver
<1> QED
  BY <1>2, <1>4, <1>6, <1>7

LEMMA KeyEntries ==
    /\ Len(key.init) = 4 /\ key.init[1] = Take("region", 4)
    /\ key.init[2] = Take("cdev", 3) /\ key.init[3] = Take("class", 2)
    /\ key.init[4] = Take("device", 1)
    /\ key.unwind = <<"class", "cdev", "region">>
    /\ key.exit = <<"cdev", "region", "device", "class">>
    /\ key.ops = {} /\ key.callback = {} /\ ~key.bus /\ key.opens
<1>2. /\ Len(key.init) = 4 /\ key.init[1] = Take("region", 4)
      /\ key.init[2] = Take("cdev", 3) /\ key.init[3] = Take("class", 2)
      /\ key.init[4] = Take("device", 1)
  BY DEF key, Driver, CharDev
<1>4. key.unwind = <<"class", "cdev", "region">>
  BY DEF key, Driver, Labels
<1>6. key.exit = <<"cdev", "region", "device", "class">>
  BY DEF key, Driver
<1>7. key.ops = {} /\ key.callback = {} /\ ~key.bus /\ key.opens
  BY DEF key, Driver
<1> QED
  BY <1>2, <1>4, <1>6, <1>7

LEMMA KeyDriverEntries ==
    /\ Len(keyirq.init) = 7 /\ keyirq.init[1] = Take("gpio", 5)
    /\ keyirq.init[2] = Take("irq", 4) /\ keyirq.init[3] = Take("region", 4)
    /\ keyirq.init[4] = Take("cdev", 3) /\ keyirq.init[5] = Take("class", 2)
    /\ keyirq.init[6] = Take("device", 1) /\ keyirq.init[7] = Setup("timer")
    /\ Len(keyirq.unwind) = 4 /\ keyirq.unwind[1] = "class"
    /\ keyirq.unwind[2] = "cdev" /\ keyirq.unwind[3] = "region"
    /\ keyirq.unwind[4] = "gpio"
    /\ keyirq.exit = <<"cdev", "region", "timer", "device", "class", "irq", "gpio">>
    /\ keyirq.ops = {} /\ keyirq.callback = {"gpio"} /\ ~keyirq.bus
    /\ keyirq.opens
<1>1. keyirq.init =
        <<Take("gpio", 5), Take("irq", 4)>>
        \o <<Take("region", 4), Take("cdev", 3), Take("class", 2), Take("device", 1)>>
        \o <<Setup("timer")>>
  BY Zenon DEF keyirq, Driver, CharDev
<1>2. /\ Len(keyirq.init) = 7 /\ keyirq.init[1] = Take("gpio", 5)
      /\ keyirq.init[2] = Take("irq", 4) /\ keyirq.init[3] = Take("region", 4)
      /\ keyirq.init[4] = Take("cdev", 3) /\ keyirq.init[5] = Take("class", 2)
      /\ keyirq.init[6] = Take("device", 1) /\ keyirq.init[7] = Setup("timer")
  BY <1>1, AnEntry DEF Resource, GoOn
<1>3. keyirq.unwind = Append(<<"class", "cdev", "region">>, "gpio")
  BY Zenon DEF keyirq, Driver, Labels
<1>4. /\ Len(keyirq.unwind) = 4 /\ keyirq.unwind[1] = "class"
      /\ keyirq.unwind[2] = "cdev" /\ keyirq.unwind[3] = "region"
      /\ keyirq.unwind[4] = "gpio"
  BY <1>3
<1>6. keyirq.exit = <<"cdev", "region", "timer", "device", "class", "irq", "gpio">>
  BY DEF keyirq, Driver
<1>7. /\ keyirq.ops = {} /\ keyirq.callback = {"gpio"} /\ ~keyirq.bus
      /\ keyirq.opens
  BY DEF keyirq, Driver
<1> QED
  BY <1>2, <1>4, <1>6, <1>7

LEMMA PlatformEntries ==
    /\ Len(platform.init) = 5 /\ platform.init[1] = Setup("map")
    /\ platform.init[2] = Take("region", 4)
    /\ platform.init[3] = Take("cdev", 3)
    /\ platform.init[4] = Take("class", 2)
    /\ platform.init[5] = Take("device", 1)
    /\ Len(platform.unwind) = 4 /\ platform.unwind[1] = "class"
    /\ platform.unwind[2] = "cdev" /\ platform.unwind[3] = "region"
    /\ platform.unwind[4] = "map"
    /\ platform.exit = <<"map", "cdev", "region", "device", "class">>
    /\ platform.ops = {"map"} /\ platform.callback = {} /\ platform.bus
    /\ platform.opens
<1>1. platform.init =
        <<Setup("map")>>
        \o <<Take("region", 4), Take("cdev", 3), Take("class", 2), Take("device", 1)>>
  BY Zenon DEF platform, Driver, CharDev
<1>2. /\ Len(platform.init) = 5 /\ platform.init[1] = Setup("map")
      /\ platform.init[2] = Take("region", 4)
      /\ platform.init[3] = Take("cdev", 3)
      /\ platform.init[4] = Take("class", 2)
      /\ platform.init[5] = Take("device", 1)
  BY <1>1, AnEntry DEF Resource, GoOn
<1>3. platform.unwind = Append(<<"class", "cdev", "region">>, "map")
  BY Zenon DEF platform, Driver, Labels
<1>4. /\ Len(platform.unwind) = 4 /\ platform.unwind[1] = "class"
      /\ platform.unwind[2] = "cdev" /\ platform.unwind[3] = "region"
      /\ platform.unwind[4] = "map"
  BY <1>3
<1>6. platform.exit = <<"map", "cdev", "region", "device", "class">>
  BY DEF platform, Driver
<1>7. /\ platform.ops = {"map"} /\ platform.callback = {} /\ platform.bus
      /\ platform.opens
  BY DEF platform, Driver
<1> QED
  BY <1>2, <1>4, <1>6, <1>7

LEMMA DtsPlatformEntries ==
    /\ Len(dts_platform.init) = 5 /\ dts_platform.init[1] = GoOn("gpio")
    /\ dts_platform.init[2] = Take("region", 4)
    /\ dts_platform.init[3] = Take("cdev", 3)
    /\ dts_platform.init[4] = Take("class", 2)
    /\ dts_platform.init[5] = Take("device", 1)
    /\ Len(dts_platform.unwind) = 4 /\ dts_platform.unwind[1] = "class"
    /\ dts_platform.unwind[2] = "cdev" /\ dts_platform.unwind[3] = "region"
    /\ dts_platform.unwind[4] = "gpio"
    /\ dts_platform.exit = <<"gpio", "cdev", "region", "device", "class">>
    /\ dts_platform.ops = {"gpio"} /\ dts_platform.callback = {}
    /\ dts_platform.bus /\ dts_platform.opens
<1>1. dts_platform.init =
        <<GoOn("gpio")>>
        \o <<Take("region", 4), Take("cdev", 3), Take("class", 2), Take("device", 1)>>
  BY Zenon DEF dts_platform, Driver, CharDev
<1>2. /\ Len(dts_platform.init) = 5 /\ dts_platform.init[1] = GoOn("gpio")
      /\ dts_platform.init[2] = Take("region", 4)
      /\ dts_platform.init[3] = Take("cdev", 3)
      /\ dts_platform.init[4] = Take("class", 2)
      /\ dts_platform.init[5] = Take("device", 1)
  BY <1>1, AnEntry DEF Resource, GoOn
<1>3. dts_platform.unwind = Append(<<"class", "cdev", "region">>, "gpio")
  BY Zenon DEF dts_platform, Driver, Labels
<1>4. /\ Len(dts_platform.unwind) = 4 /\ dts_platform.unwind[1] = "class"
      /\ dts_platform.unwind[2] = "cdev" /\ dts_platform.unwind[3] = "region"
      /\ dts_platform.unwind[4] = "gpio"
  BY <1>3
<1>6. dts_platform.exit = <<"gpio", "cdev", "region", "device", "class">>
  BY DEF dts_platform, Driver
<1>7. /\ dts_platform.ops = {"gpio"} /\ dts_platform.callback = {}
      /\ dts_platform.bus /\ dts_platform.opens
  BY DEF dts_platform, Driver
<1> QED
  BY <1>2, <1>4, <1>6, <1>7

LEMMA MiscBeepEntries ==
    /\ Len(miscbeep.init) = 2 /\ miscbeep.init[1] = GoOn("gpio")
    /\ miscbeep.init[2] = Take("misc", 1)
    /\ miscbeep.unwind = <<"gpio">>
    /\ miscbeep.exit = <<"gpio", "misc">>
    /\ miscbeep.ops = {"gpio"} /\ miscbeep.callback = {} /\ miscbeep.bus
    /\ miscbeep.opens
<1>2. /\ Len(miscbeep.init) = 2 /\ miscbeep.init[1] = GoOn("gpio")
      /\ miscbeep.init[2] = Take("misc", 1)
  BY DEF miscbeep, Driver
<1>4. miscbeep.unwind = <<"gpio">>
  BY DEF miscbeep, Driver
<1>6. miscbeep.exit = <<"gpio", "misc">>
  BY DEF miscbeep, Driver
<1>7. /\ miscbeep.ops = {"gpio"} /\ miscbeep.callback = {} /\ miscbeep.bus
      /\ miscbeep.opens
  BY DEF miscbeep, Driver
<1> QED
  BY <1>2, <1>4, <1>6, <1>7

LEMMA Ap3216cEntries ==
    /\ Len(ap3216c.init) = 6 /\ ap3216c.init[1] = Take("mem", 5)
    /\ ap3216c.init[2] = Take("region", 4)
    /\ ap3216c.init[3] = Take("cdev", 3) /\ ap3216c.init[4] = Take("class", 2)
    /\ ap3216c.init[5] = Take("device", 1)
    /\ ap3216c.init[6] = Setup("client")
    /\ ap3216c.unwind = <<"device", "cdev", "region", "mem">>
    /\ ap3216c.exit = <<"cdev", "region", "device", "class", "mem">>
    /\ ap3216c.ops = {"mem", "client"} /\ ap3216c.callback = {} /\ ap3216c.bus
    /\ ~ap3216c.opens
<1>1. ap3216c.init =
        <<Take("mem", 5)>>
        \o <<Take("region", 4), Take("cdev", 3), Take("class", 2), Take("device", 1)>>
        \o <<Setup("client")>>
  BY Zenon DEF ap3216c, Driver, CharDev
<1>2. /\ Len(ap3216c.init) = 6 /\ ap3216c.init[1] = Take("mem", 5)
      /\ ap3216c.init[2] = Take("region", 4)
      /\ ap3216c.init[3] = Take("cdev", 3) /\ ap3216c.init[4] = Take("class", 2)
      /\ ap3216c.init[5] = Take("device", 1)
      /\ ap3216c.init[6] = Setup("client")
  BY <1>1, AnEntry DEF Resource, GoOn
<1>4. ap3216c.unwind = <<"device", "cdev", "region", "mem">>
  BY DEF ap3216c, Driver
<1>6. ap3216c.exit = <<"cdev", "region", "device", "class", "mem">>
  BY DEF ap3216c, Driver
<1>7. /\ ap3216c.ops = {"mem", "client"} /\ ap3216c.callback = {} /\ ap3216c.bus
      /\ ~ap3216c.opens
  BY DEF ap3216c, Driver
<1> QED
  BY <1>2, <1>4, <1>6, <1>7

LEMMA Icm20608Entries ==
    /\ Len(icm20608.init) = 6 /\ icm20608.init[1] = Take("mem", 5)
    /\ icm20608.init[2] = Take("region", Success)
    /\ icm20608.init[3] = Take("cdev", 3)
    /\ icm20608.init[4] = Take("class", 2)
    /\ icm20608.init[5] = Take("device", 1)
    /\ icm20608.init[6] = Setup("client")
    /\ icm20608.unwind = <<"device", "cdev", "region", "mem">>
    /\ icm20608.exit = <<"cdev", "region", "device", "class", "mem">>
    /\ icm20608.ops = {"mem", "client"} /\ icm20608.callback = {}
    /\ icm20608.bus /\ icm20608.opens
<1>1. icm20608.init =
        <<Take("mem", 5)>>
        \o <<Take("region", Success), Take("cdev", 3), Take("class", 2), Take("device", 1)>>
        \o <<Setup("client")>>
  BY Zenon DEF icm20608, Driver, CharDev
<1>2. /\ Len(icm20608.init) = 6 /\ icm20608.init[1] = Take("mem", 5)
      /\ icm20608.init[2] = Take("region", Success)
      /\ icm20608.init[3] = Take("cdev", 3)
      /\ icm20608.init[4] = Take("class", 2)
      /\ icm20608.init[5] = Take("device", 1)
      /\ icm20608.init[6] = Setup("client")
  BY <1>1, AnEntry DEF Resource, GoOn
<1>4. icm20608.unwind = <<"device", "cdev", "region", "mem">>
  BY DEF icm20608, Driver
<1>6. icm20608.exit = <<"cdev", "region", "device", "class", "mem">>
  BY DEF icm20608, Driver
<1>7. /\ icm20608.ops = {"mem", "client"} /\ icm20608.callback = {}
      /\ icm20608.bus /\ icm20608.opens
  BY DEF icm20608, Driver
<1> QED
  BY <1>2, <1>4, <1>6, <1>7

LEMMA KeyinputEntries ==
    /\ Len(keyinput.init) = 5 /\ keyinput.init[1] = Take("gpio", 4)
    /\ keyinput.init[2] = [resource |-> "irq", fail |-> {Ignored, 4}]
    /\ keyinput.init[3] = Setup("timer") /\ keyinput.init[4] = Setup("idev")
    /\ keyinput.init[5] = Take("input", 1)
    /\ keyinput.unwind = <<"irq", "gpio", "timer">>
    /\ keyinput.exit = <<"irq", "gpio", "timer", "input", "idev">>
    /\ keyinput.ops = {} /\ keyinput.callback = {"gpio", "irq", "idev"}
    /\ ~keyinput.bus /\ keyinput.opens
<1>2. /\ Len(keyinput.init) = 5 /\ keyinput.init[1] = Take("gpio", 4)
      /\ keyinput.init[2] = [resource |-> "irq", fail |-> {Ignored, 4}]
      /\ keyinput.init[3] = Setup("timer") /\ keyinput.init[4] = Setup("idev")
      /\ keyinput.init[5] = Take("input", 1)
  BY DEF keyinput, Driver
<1>4. keyinput.unwind = <<"irq", "gpio", "timer">>
  BY DEF keyinput, Driver
<1>6. keyinput.exit = <<"irq", "gpio", "timer", "input", "idev">>
  BY DEF keyinput, Driver
<1>7. /\ keyinput.ops = {} /\ keyinput.callback = {"gpio", "irq", "idev"}
      /\ ~keyinput.bus /\ keyinput.opens
  BY DEF keyinput, Driver
<1> QED
  BY <1>2, <1>4, <1>6, <1>7

-----------------------------------------------------------------------------
(***************************************************************************)
(* The facts, table by table: what is left behind, kept or released in     *)
(* vain, and when the node, the interrupt and the timer are ready.         *)
(***************************************************************************)
USE DEF Take, GoOn, Setup, Ignored, Success, SetUp, Steps, ErrorLabels, Ends, Node, Acquired,
        Certain, Given, Unwound, Exited

LEMMA ChrdevbaseFacts == TableFact(chrdevbase, "chrdevbase")
<1>1. WellFormed(chrdevbase)
  BY ChrdevbaseEntries DEF WellFormed, Resource
<1>2. /\ LeaksOnly(chrdevbase, {"region", "cdev", "class"})
      /\ Leaks("chrdevbase") = {"region", "cdev", "class"}
  <2>1. LeaksOnly(chrdevbase, {"region", "cdev", "class"})
    BY ChrdevbaseEntries DEF LeaksOnly
  <2> QED
    BY <2>1 DEF Leaks, KeyDrivers, Sensors
<1>3. KeepsOnly(chrdevbase, {}) /\ Keeps("chrdevbase") = {}
  <2>1. KeepsOnly(chrdevbase, {})
    BY ChrdevbaseEntries DEF KeepsOnly
  <2> QED
    BY <2>1 DEF Keeps
<1>4. ReleasesHeld(chrdevbase, {"cdev"}) /\ Wrong("chrdevbase") = {"cdev"}
  <2>1. ReleasesHeld(chrdevbase, {"cdev"})
    BY ChrdevbaseEntries DEF ReleasesHeld
  <2> QED
    BY <2>1 DEF Wrong
<1>5. NodeLast(chrdevbase)
  BY ChrdevbaseEntries DEF NodeLast
<1>6. OpsReady(chrdevbase, "chrdevbase")
  BY ChrdevbaseEntries DEF OpsReady
<1>7. TimerReady(chrdevbase, "chrdevbase")
  BY ChrdevbaseEntries DEF TimerReady, KeyDrivers
<1>8. TimerUnwound(chrdevbase) /\ "chrdevbase" \notin KeyDrivers
  BY ChrdevbaseEntries DEF TimerUnwound, KeyDrivers
<1> QED
  BY <1>1, <1>2, <1>3, <1>4, <1>5, <1>6, <1>7, <1>8 DEF TableFact

LEMMA PlainLedFacts ==
    ASSUME NEW name \in {"gpioled", "beep", "atomic"} PROVE TableFact(gpioled, name)
<1>1. WellFormed(gpioled)
  BY PlainLedEntries DEF WellFormed, Resource
<1>2. LeaksOnly(gpioled, {}) /\ Leaks(name) = {}
  <2>1. LeaksOnly(gpioled, {})
    BY PlainLedEntries DEF LeaksOnly
  <2> QED
    BY <2>1 DEF Leaks, KeyDrivers, Sensors
<1>3. KeepsOnly(gpioled, {"gpio"}) /\ Keeps(name) = {"gpio"}
  <2>1. KeepsOnly(gpioled, {"gpio"})
    BY PlainLedEntries DEF KeepsOnly
  <2> QED
    BY <2>1 DEF Keeps
<1>4. ReleasesHeld(gpioled, {}) /\ Wrong(name) = {}
  <2>1. ReleasesHeld(gpioled, {})
    BY PlainLedEntries DEF ReleasesHeld
  <2> QED
    BY <2>1 DEF Wrong
<1>5. NodeLast(gpioled)
  BY PlainLedEntries DEF NodeLast
<1>6. OpsReady(gpioled, name)
  BY PlainLedEntries DEF OpsReady
<1>7. TimerReady(gpioled, name)
  BY PlainLedEntries DEF TimerReady, KeyDrivers
<1>8. TimerUnwound(gpioled) /\ name \notin KeyDrivers
  BY PlainLedEntries DEF TimerUnwound, KeyDrivers
<1> QED
  BY <1>1, <1>2, <1>3, <1>4, <1>5, <1>6, <1>7, <1>8 DEF TableFact

LEMMA SpinLedFacts ==
    ASSUME NEW name \in {"spinlock", "mutex"} PROVE TableFact(spinlock, name)
<1>1. WellFormed(spinlock)
  BY SpinLedEntries DEF WellFormed, Resource
<1>2. LeaksOnly(spinlock, {}) /\ Leaks(name) = {}
  <2>1. LeaksOnly(spinlock, {})
    BY SpinLedEntries DEF LeaksOnly
  <2> QED
    BY <2>1 DEF Leaks, KeyDrivers, Sensors
<1>3. KeepsOnly(spinlock, {}) /\ Keeps(name) = {}
  <2>1. KeepsOnly(spinlock, {})
    BY SpinLedEntries DEF KeepsOnly
  <2> QED
    BY <2>1 DEF Keeps
<1>4. ReleasesHeld(spinlock, {}) /\ Wrong(name) = {}
  <2>1. ReleasesHeld(spinlock, {})
    BY SpinLedEntries DEF ReleasesHeld
  <2> QED
    BY <2>1 DEF Wrong
<1>5. NodeLast(spinlock)
  BY SpinLedEntries DEF NodeLast
<1>6. OpsReady(spinlock, name)
  BY SpinLedEntries DEF OpsReady
<1>7. TimerReady(spinlock, name)
  BY SpinLedEntries DEF TimerReady, KeyDrivers
<1>8. TimerUnwound(spinlock) /\ name \notin KeyDrivers
  BY SpinLedEntries DEF TimerUnwound, KeyDrivers
<1> QED
  BY <1>1, <1>2, <1>3, <1>4, <1>5, <1>6, <1>7, <1>8 DEF TableFact

LEMMA SemaLedFacts == TableFact(sema, "sema")
<1>1. WellFormed(sema)
  BY SemaLedEntries DEF WellFormed, Resource
<1>2. LeaksOnly(sema, {}) /\ Leaks("sema") = {}
  <2>1. LeaksOnly(sema, {})
    BY SemaLedEntries DEF LeaksOnly
  <2> QED
    BY <2>1 DEF Leaks, KeyDrivers, Sensors
<1>3. KeepsOnly(sema, {}) /\ Keeps("sema") = {}
  <2>1. KeepsOnly(sema, {})
    BY SemaLedEntries DEF KeepsOnly
  <2> QED
    BY <2>1 DEF Keeps
<1>4. ReleasesHeld(sema, {}) /\ Wrong("sema") = {}
  <2>1. ReleasesHeld(sema, {})
    BY SemaLedEntries DEF ReleasesHeld
  <2> QED
    BY <2>1 DEF Wrong
<1>5. NodeLast(sema)
  BY SemaLedEntries DEF NodeLast
<1>6. OpsReady(sema, "sema")
  BY SemaLedEntries DEF OpsReady
<1>7. TimerReady(sema, "sema")
  BY SemaLedEntries DEF TimerReady, KeyDrivers
<1>8. TimerUnwound(sema) /\ "sema" \notin KeyDrivers
  BY SemaLedEntries DEF TimerUnwound, KeyDrivers
<1> QED
  BY <1>1, <1>2, <1>3, <1>4, <1>5, <1>6, <1>7, <1>8 DEF TableFact

LEMMA TimerLedFacts == TableFact(timer, "timer")
<1>1. WellFormed(timer)
  BY TimerLedEntries DEF WellFormed, Resource
<1>2. LeaksOnly(timer, {}) /\ Leaks("timer") = {}
  <2>1. LeaksOnly(timer, {})
    BY TimerLedEntries DEF LeaksOnly
  <2> QED
    BY <2>1 DEF Leaks, KeyDrivers, Sensors
<1>3. KeepsOnly(timer, {}) /\ Keeps("timer") = {}
  <2>1. KeepsOnly(timer, {})
    BY TimerLedEntries DEF KeepsOnly
  <2> QED
    BY <2>1 DEF Keeps
<1>4. ReleasesHeld(timer, {"gpio"}) /\ Wrong("timer") = {"gpio"}
  <2>1. ReleasesHeld(timer, {"gpio"})
    BY TimerLedEntries DEF ReleasesHeld
  <2> QED
    BY <2>1 DEF Wrong
<1>5. NodeLast(timer)
  BY TimerLedEntries DEF NodeLast
<1>6. OpsReady(timer, "timer")
  BY TimerLedEntries DEF OpsReady
<1>7. TimerReady(timer, "timer")
  BY TimerLedEntries DEF TimerReady, KeyDrivers
<1>8. TimerUnwound(timer) /\ "timer" \notin KeyDrivers
  BY TimerLedEntries DEF TimerUnwound, KeyDrivers
<1> QED
  BY <1>1, <1>2, <1>3, <1>4, <1>5, <1>6, <1>7, <1>8 DEF TableFact

LEMMA KeyFacts == TableFact(key, "key")
<1>1. WellFormed(key)
  BY KeyEntries DEF WellFormed, Resource
<1>2. LeaksOnly(key, {}) /\ Leaks("key") = {}
  <2>1. LeaksOnly(key, {})
    BY KeyEntries DEF LeaksOnly
  <2> QED
    BY <2>1 DEF Leaks, KeyDrivers, Sensors
<1>3. KeepsOnly(key, {}) /\ Keeps("key") = {}
  <2>1. KeepsOnly(key, {})
    BY KeyEntries DEF KeepsOnly
  <2> QED
    BY <2>1 DEF Keeps
<1>4. ReleasesHeld(key, {}) /\ Wrong("key") = {}
  <2>1. ReleasesHeld(key, {})
    BY KeyEntries DEF ReleasesHeld
  <2> QED
    BY <2>1 DEF Wrong
<1>5. NodeLast(key)
  BY KeyEntries DEF NodeLast
<1>6. OpsReady(key, "key")
  BY KeyEntries DEF OpsReady
<1>7. TimerReady(key, "key")
  BY KeyEntries DEF TimerReady, KeyDrivers
<1>8. TimerUnwound(key) /\ "key" \notin KeyDrivers
  BY KeyEntries DEF TimerUnwound, KeyDrivers
<1> QED
  BY <1>1, <1>2, <1>3, <1>4, <1>5, <1>6, <1>7, <1>8 DEF TableFact

LEMMA KeyDriverFacts ==
    ASSUME NEW name \in {"keyirq", "blockio", "noblockio", "asyncnoti"}
    PROVE  TableFact(keyirq, name)
<1>1. WellFormed(keyirq)
  BY KeyDriverEntries DEF WellFormed, Resource
<1>2. LeaksOnly(keyirq, {"irq"}) /\ Leaks(name) = {"irq"}
  <2>1. LeaksOnly(keyirq, {"irq"})
    BY KeyDriverEntries DEF LeaksOnly
  <2> QED
    BY <2>1 DEF Leaks, KeyDrivers, Sensors
<1>3. KeepsOnly(keyirq, {}) /\ Keeps(name) = {}
  <2>1. KeepsOnly(keyirq, {})
    BY KeyDriverEntries DEF KeepsOnly
  <2> QED
    BY <2>1 DEF Keeps
<1>4. ReleasesHeld(keyirq, {}) /\ Wrong(name) = {}
  <2>1. ReleasesHeld(keyirq, {})
    BY KeyDriverEntries DEF ReleasesHeld
  <2> QED
    BY <2>1 DEF Wrong
<1>5. NodeLast(keyirq)
  BY KeyDriverEntries DEF NodeLast
<1>6. OpsReady(keyirq, name)
  BY KeyDriverEntries DEF OpsReady
<1>7. TimerReady(keyirq, name)
  BY KeyDriverEntries DEF TimerReady, KeyDrivers
<1>8. KeyTimer(keyirq) /\ name \in KeyDrivers
  BY KeyDriverEntries DEF KeyTimer, KeyDrivers
<1> QED
  BY <1>1, <1>2, <1>3, <1>4, <1>5, <1>6, <1>7, <1>8 DEF TableFact

LEMMA PlatformFacts == TableFact(platform, "platform")
<1>1. WellFormed(platform)
  BY PlatformEntries DEF WellFormed, Resource
<1>2. LeaksOnly(platform, {}) /\ Leaks("platform") = {}
  <2>1. LeaksOnly(platform, {})
    BY PlatformEntries DEF LeaksOnly
  <2> QED
    BY <2>1 DEF Leaks, KeyDrivers, Sensors
<1>3. KeepsOnly(platform, {}) /\ Keeps("platform") = {}
  <2>1. KeepsOnly(platform, {})
    BY PlatformEntries DEF KeepsOnly
  <2> QED
    BY <2>1 DEF Keeps
<1>4. ReleasesHeld(platform, {}) /\ Wrong("platform") = {}
  <2>1. ReleasesHeld(platform, {})
    BY PlatformEntries DEF ReleasesHeld
  <2> QED
    BY <2>1 DEF Wrong
<1>5. NodeLast(platform)
  BY PlatformEntries DEF NodeLast
<1>6. OpsReady(platform, "platform")
  BY PlatformEntries DEF OpsReady
<1>7. TimerReady(platform, "platform")
  BY PlatformEntries DEF TimerReady, KeyDrivers
<1>8. TimerUnwound(platform) /\ "platform" \notin KeyDrivers
  BY PlatformEntries DEF TimerUnwound, KeyDrivers
<1> QED
  BY <1>1, <1>2, <1>3, <1>4, <1>5, <1>6, <1>7, <1>8 DEF TableFact

LEMMA DtsPlatformFacts == TableFact(dts_platform, "dts_platform")
<1>1. WellFormed(dts_platform)
  BY DtsPlatformEntries DEF WellFormed, Resource
<1>2. LeaksOnly(dts_platform, {}) /\ Leaks("dts_platform") = {}
  <2>1. LeaksOnly(dts_platform, {})
    BY DtsPlatformEntries DEF LeaksOnly
  <2> QED
    BY <2>1 DEF Leaks, KeyDrivers, Sensors
<1>3. KeepsOnly(dts_platform, {}) /\ Keeps("dts_platform") = {}
  <2>1. KeepsOnly(dts_platform, {})
    BY DtsPlatformEntries DEF KeepsOnly
  <2> QED
    BY <2>1 DEF Keeps
<1>4. ReleasesHeld(dts_platform, {"gpio"}) /\ Wrong("dts_platform") = {"gpio"}
  <2>1. ReleasesHeld(dts_platform, {"gpio"})
    BY DtsPlatformEntries DEF ReleasesHeld
  <2> QED
    BY <2>1 DEF Wrong
<1>5. NodeLast(dts_platform)
  BY DtsPlatformEntries DEF NodeLast
<1>6. OpsReady(dts_platform, "dts_platform")
  BY DtsPlatformEntries DEF OpsReady
<1>7. TimerReady(dts_platform, "dts_platform")
  BY DtsPlatformEntries DEF TimerReady, KeyDrivers
<1>8. TimerUnwound(dts_platform) /\ "dts_platform" \notin KeyDrivers
  BY DtsPlatformEntries DEF TimerUnwound, KeyDrivers
<1> QED
  BY <1>1, <1>2, <1>3, <1>4, <1>5, <1>6, <1>7, <1>8 DEF TableFact

LEMMA MiscBeepFacts == TableFact(miscbeep, "miscbeep")
<1>1. WellFormed(miscbeep)
  BY MiscBeepEntries DEF WellFormed, Resource
<1>2. LeaksOnly(miscbeep, {}) /\ Leaks("miscbeep") = {}
  <2>1. LeaksOnly(miscbeep, {})
    BY MiscBeepEntries DEF LeaksOnly
  <2> QED
    BY <2>1 DEF Leaks, KeyDrivers, Sensors
<1>3. KeepsOnly(miscbeep, {}) /\ Keeps("miscbeep") = {}
  <2>1. KeepsOnly(miscbeep, {})
    BY MiscBeepEntries DEF KeepsOnly
  <2> QED
    BY <2>1 DEF Keeps
<1>4. ReleasesHeld(miscbeep, {"gpio"}) /\ Wrong("miscbeep") = {"gpio"}
  <2>1. ReleasesHeld(miscbeep, {"gpio"})
    BY MiscBeepEntries DEF ReleasesHeld
  <2> QED
    BY <2>1 DEF Wrong
<1>5. NodeLast(miscbeep)
  BY MiscBeepEntries DEF NodeLast
<1>6. OpsReady(miscbeep, "miscbeep")
  BY MiscBeepEntries DEF OpsReady
<1>7. TimerReady(miscbeep, "miscbeep")
  BY MiscBeepEntries DEF TimerReady, KeyDrivers
<1>8. TimerUnwound(miscbeep) /\ "miscbeep" \notin KeyDrivers
  BY MiscBeepEntries DEF TimerUnwound, KeyDrivers
<1> QED
  BY <1>1, <1>2, <1>3, <1>4, <1>5, <1>6, <1>7, <1>8 DEF TableFact

LEMMA Ap3216cFacts == TableFact(ap3216c, "ap3216c")
<1>1. WellFormed(ap3216c)
  BY Ap3216cEntries DEF WellFormed, Resource
<1>2. LeaksOnly(ap3216c, {"class"}) /\ Leaks("ap3216c") = {"class"}
  <2>1. LeaksOnly(ap3216c, {"class"})
    BY Ap3216cEntries DEF LeaksOnly
  <2> QED
    BY <2>1 DEF Leaks, KeyDrivers, Sensors
<1>3. KeepsOnly(ap3216c, {}) /\ Keeps("ap3216c") = {}
  <2>1. KeepsOnly(ap3216c, {})
    BY Ap3216cEntries DEF KeepsOnly
  <2> QED
    BY <2>1 DEF Keeps
<1>4. ReleasesHeld(ap3216c, {"device"}) /\ Wrong("ap3216c") = {"device"}
  <2>1. ReleasesHeld(ap3216c, {"device"})
    BY Ap3216cEntries DEF ReleasesHeld
  <2> QED
    BY <2>1 DEF Wrong
<1>5. NodeLast(ap3216c)
  BY Ap3216cEntries DEF NodeLast
<1>6. OpsReady(ap3216c, "ap3216c")
  BY Ap3216cEntries DEF OpsReady
<1>7. TimerReady(ap3216c, "ap3216c")
  BY Ap3216cEntries DEF TimerReady, KeyDrivers
<1>8. TimerUnwound(ap3216c) /\ "ap3216c" \notin KeyDrivers
  BY Ap3216cEntries DEF TimerUnwound, KeyDrivers
<1> QED
  BY <1>1, <1>2, <1>3, <1>4, <1>5, <1>6, <1>7, <1>8 DEF TableFact

LEMMA Icm20608Facts == TableFact(icm20608, "icm20608")
<1>1. WellFormed(icm20608)
  BY Icm20608Entries DEF WellFormed, Resource
<1>2. LeaksOnly(icm20608, {"class"}) /\ Leaks("icm20608") = {"class"}
  <2>1. LeaksOnly(icm20608, {"class"})
    BY Icm20608Entries DEF LeaksOnly
  <2> QED
    BY <2>1 DEF Leaks, KeyDrivers, Sensors
<1>3. KeepsOnly(icm20608, {}) /\ Keeps("icm20608") = {}
  <2>1. KeepsOnly(icm20608, {})
    BY Icm20608Entries DEF KeepsOnly
  <2> QED
    BY <2>1 DEF Keeps
<1>4. /\ ReleasesHeld(icm20608, {"region", "cdev", "device", "class"})
      /\ Wrong("icm20608") = {"region", "cdev", "device", "class"}
  <2>1. ReleasesHeld(icm20608, {"region", "cdev", "device", "class"})
    BY Icm20608Entries DEF ReleasesHeld
  <2> QED
    BY <2>1 DEF Wrong
<1>5. NodeLast(icm20608)
  BY Icm20608Entries DEF NodeLast
<1>6. OpsReady(icm20608, "icm20608")
  BY Icm20608Entries DEF OpsReady
<1>7. TimerReady(icm20608, "icm20608")
  BY Icm20608Entries DEF TimerReady, KeyDrivers
<1>8. TimerUnwound(icm20608) /\ "icm20608" \notin KeyDrivers
  BY Icm20608Entries DEF TimerUnwound, KeyDrivers
<1> QED
  BY <1>1, <1>2, <1>3, <1>4, <1>5, <1>6, <1>7, <1>8 DEF TableFact

LEMMA KeyinputFacts == TableFact(keyinput, "keyinput")
<1>1. WellFormed(keyinput)
  BY KeyinputEntries DEF WellFormed, Resource
<1>2. LeaksOnly(keyinput, {"gpio", "idev"}) /\ Leaks("keyinput") = {"gpio", "idev"}
  <2>1. LeaksOnly(keyinput, {"gpio", "idev"})
    BY KeyinputEntries DEF LeaksOnly
  <2> QED
    BY <2>1 DEF Leaks, KeyDrivers, Sensors
<1>3. KeepsOnly(keyinput, {}) /\ Keeps("keyinput") = {}
  <2>1. KeepsOnly(keyinput, {})
    BY KeyinputEntries DEF KeepsOnly
  <2> QED
    BY <2>1 DEF Keeps
<1>4. ReleasesHeld(keyinput, {"irq"}) /\ Wrong("keyinput") = {"irq"}
  <2>1. ReleasesHeld(keyinput, {"irq"})
    BY KeyinputEntries DEF ReleasesHeld
  <2> QED
    BY <2>1 DEF Wrong
<1>5. NodeLast(keyinput)
  BY KeyinputEntries DEF NodeLast
<1>6. OpsReady(keyinput, "keyinput")
  BY KeyinputEntries DEF OpsReady
<1>7. TimerReady(keyinput, "keyinput")
  BY KeyinputEntries DEF TimerReady, KeyDrivers
<1>8. TimerUnwound(keyinput) /\ "keyinput" \notin KeyDrivers
  BY KeyinputEntries DEF TimerUnwound, KeyDrivers
<1> QED
  BY <1>1, <1>2, <1>3, <1>4, <1>5, <1>6, <1>7, <1>8 DEF TableFact

HIDE DEF Take, GoOn, Setup, Ignored, Success, SetUp, Steps, ErrorLabels, Ends, Node, Acquired,
         Certain, Given, Unwound, Exited

\* Each driver finds its own table, and the facts hold of it.
LEMMA Facts == \A name \in Drivers : TableFact(Table[name], name)
<1>1. \A name \in Drivers :
        name \in {"chrdevbase", "gpioled", "beep", "atomic", "spinlock", "mutex", "sema", "timer",
                 "key", "keyirq", "blockio", "noblockio", "asyncnoti", "platform",
                 "dts_platform", "miscbeep", "ap3216c", "icm20608", "keyinput"}
  BY DEF Drivers, Table
<1>2. \A name \in {"gpioled", "beep", "atomic"} : Table[name] = gpioled
  BY DEF Table, beep, atomic
<1>3. \A name \in {"spinlock", "mutex"} : Table[name] = spinlock
  BY DEF Table, mutex
<1>4. \A name \in {"keyirq", "blockio", "noblockio", "asyncnoti"} : Table[name] = keyirq
  BY DEF Table, blockio, noblockio, asyncnoti
<1>5. /\ Table["chrdevbase"] = chrdevbase /\ Table["sema"] = sema
      /\ Table["timer"] = timer /\ Table["key"] = key
      /\ Table["platform"] = platform /\ Table["dts_platform"] = dts_platform
      /\ Table["miscbeep"] = miscbeep /\ Table["ap3216c"] = ap3216c
      /\ Table["icm20608"] = icm20608 /\ Table["keyinput"] = keyinput
  BY DEF Table
<1> QED
  BY <1>1, <1>2, <1>3, <1>4, <1>5, ChrdevbaseFacts, PlainLedFacts, SpinLedFacts, SemaLedFacts,
     TimerLedFacts, KeyFacts, KeyDriverFacts, PlatformFacts, DtsPlatformFacts, MiscBeepFacts,
     Ap3216cFacts, Icm20608Facts, KeyinputFacts

-----------------------------------------------------------------------------
(***************************************************************************)
(* Inv is inductive: Story, who has files open, what armed the timer and   *)
(* the faults found so far carry each other through every step.            *)
(***************************************************************************)
THEOREM LifeInvariant == Spec => []Inv
<1>1. TypeOK => TableFact(D, driver)
  BY Facts DEF TypeOK, D
<1>2. Init => Inv
  <2> SUFFICES ASSUME Init PROVE Inv
    OBVIOUS
  <2>1. WellFormed(D)
    BY Facts DEF Init, D, TableFact
  <2> QED
    BY <2>1, Beginning
<1>3. Inv /\ [Next]_vars => Inv'
  <2> SUFFICES ASSUME Inv, [Next]_vars PROVE Inv'
    OBVIOUS
  <2>1. /\ TypeOK /\ Story /\ UsersOpened /\ ArmedByCause /\ FaultKnown
        /\ TableFact(D, driver)
    BY <1>1 DEF Inv
  <2>2. /\ WellFormed(D) /\ NodeLast(D) /\ TimerReady(D, driver)
        /\ driver \notin KeyDrivers => TimerUnwound(D)
    BY <2>1 DEF TableFact
  <2>3. TypeOK'
    BY <2>1, <2>2, TypesKept
  <2>4. Story'
    BY <2>1, <2>2, StoryKept
  <2>5. UsersOpened'
    BY <2>1, <2>2, UsersKept
  <2>6. ArmedByCause'
    BY <2>1, ArmedKept
  <2>7. FaultKnown'
    BY <2>1, FaultsKept
  <2> QED
    BY <2>3, <2>4, <2>5, <2>6, <2>7 DEF Inv
<1> QED
  BY <1>2, <1>3, PTL DEF Spec

(***************************************************************************)
(* Every life keeps the types: whichever call fails, its goto leads to an  *)
(* entry of the error path or past its end.                                *)
(***************************************************************************)
THEOREM TypeCorrect == Spec => []TypeOK
BY LifeInvariant, PTL DEF Inv

(***************************************************************************)
(* A failed init or probe leaves behind only the leaks named by Leaks,     *)
(* whichever call failed, whichever failure was ignored before and however *)
(* many opened the device meanwhile.                                       *)
(***************************************************************************)
THEOREM FailureGivesBack == Spec => []FailedInitReleasesAll
<1>1. Inv => FailedInitReleasesAll
  <2> SUFFICES ASSUME Inv, phase = "failed", NEW x \in Owned PROVE x \in Leaks(driver)
    BY DEF FailedInitReleasesAll
  <2>1. PICK k \in Steps(D) : \E l \in D.init[k].fail \cap ErrorLabels(D), h \in SUBSET Resource :
          MayHold(D, k, h) /\ After(h, Unwound(D, l))
    BY DEF Inv, Story, Failing, Done, Unwound
  <2>2. LeaksOnly(D, Leaks(driver))
    BY Facts DEF Inv, TypeOK, D, TableFact
  <2> QED
    BY <2>1, <2>2 DEF Owned, SetUp, After, MayHold, LeaksOnly
<1> QED
  BY <1>1, LifeInvariant, PTL

(***************************************************************************)
(* exit and remove leave nothing behind, so that insmod can succeed again, *)
(* but for gpioled, beep and atomic, which always keep their gpio.         *)
(***************************************************************************)
THEOREM UnloadGivesBack == Spec => []UnloadReleasesAll
<1>1. Inv => UnloadReleasesAll
  <2> SUFFICES ASSUME Inv, phase = "gone" PROVE Owned = Keeps(driver)
    BY DEF UnloadReleasesAll
  <2>1. PICK n \in Ends(D), h \in SUBSET Resource : MayHold(D, n, h) /\ After(h, Exited(D))
    BY DEF Inv, Story, Leaving, Done, Exited
  <2>2. KeepsOnly(D, Keeps(driver))
    BY Facts DEF Inv, TypeOK, D, TableFact
  <2> QED
    BY <2>1, <2>2 DEF Owned, SetUp, After, MayHold, KeepsOnly
<1> QED
  BY <1>1, LifeInvariant, PTL

(***************************************************************************)
(* At no point of an error path or an exit has anything been released that *)
(* was not held, but for what Wrong names.                                 *)
(***************************************************************************)
THEOREM NothingReleasedInVain == Spec => []ReleasesOnlyWhatItHolds
<1>1. Inv => ReleasesOnlyWhatItHolds
  <2> SUFFICES ASSUME Inv, NEW x \in bad PROVE x \in Wrong(driver)
    BY DEF ReleasesOnlyWhatItHolds
  <2>1. ReleasesHeld(D, Wrong(driver)) /\ WellFormed(D)
    BY Facts DEF Inv, TypeOK, D, TableFact
  <2>2. CASE phase \in {"unwinding", "failed"}
    <3> DEFINE done == Done(D.unwind, "failed")
    <3>1. PICK k \in Steps(D) :
            \E l \in D.init[k].fail \cap ErrorLabels(D), h \in SUBSET Resource :
              MayHold(D, k, h) /\ After(h, Given(D.unwind, l, done))
      BY <2>2 DEF Inv, Story, Failing
    <3>2. PICK l \in D.init[k].fail \cap ErrorLabels(D), h \in SUBSET Resource :
            MayHold(D, k, h) /\ After(h, Given(D.unwind, l, done))
      BY <3>1
    <3>3. /\ done \in 1..Len(D.unwind) + 1 /\ Len(D.unwind) \in Nat /\ l \in Nat
      BY <2>1, <2>2 DEF Inv, TypeOK, Calls, Done, WellFormed, ErrorLabels
    <3>4. \A j \in l..done - 1 : j \in l..Len(D.unwind) + 1 - 1
      BY <3>3
    <3>5. x \in Unwound(D, l) /\ x \notin Certain(D, k)
      BY <3>2, <3>4 DEF After, Given, Unwound, MayHold
    <3> QED
      BY <2>1, <3>2, <3>5 DEF ReleasesHeld
  <2>3. CASE phase \in {"unloading", "gone"}
    <3> DEFINE done == Done(D.exit, "gone")
    <3>1. PICK n \in Ends(D), h \in SUBSET Resource :
            MayHold(D, n, h) /\ After(h, Given(D.exit, 1, done))
      BY <2>3 DEF Inv, Story, Leaving
    <3>2. done \in 1..Len(D.exit) + 1 /\ Len(D.exit) \in Nat
      BY <2>1, <2>3 DEF Inv, TypeOK, Calls, Done, WellFormed
    <3>3. \A j \in 1..done - 1 : j \in 1..Len(D.exit) + 1 - 1
      BY <3>2
    <3>4. x \in Exited(D) /\ x \notin Certain(D, n)
      BY <3>1, <3>3 DEF After, Given, Exited, MayHold
    <3> QED
      BY <2>1, <3>4 DEF ReleasesHeld
  <2> QED
    BY <2>2, <2>3 DEF Inv, TypeOK, Story, Loading, Living
<1> QED
  BY <1>1, LifeInvariant, PTL

(***************************************************************************)
(* No interrupt, timer or file operation uses what is not there outside    *)
(* the windows that KnownWindow names, whatever the files open.            *)
(***************************************************************************)
THEOREM NoOtherWindows == Spec => []FaultsOnlyInKnownWindows
<1>1. Inv => FaultsOnlyInKnownWindows
  BY DEF Inv, FaultKnown, FaultsOnlyInKnownWindows
<1> QED
  BY <1>1, LifeInvariant, PTL
=============================================================================
