# Formal models of alientek_linux_driver

This directory holds TLA+ models of the Linux drivers of this repository (the
LED, beeper, key, timer and sensor exercises for the Alientek STM32MP1 board),
the TLC configurations that check them on small instances, and TLAPS proofs of
the main results for every instance. Each driver is a kernel module of its own.
A driver talks to processes through file operations, to the hardware through
gpio, interrupt, I2C, SPI and register calls, and to the kernel's timers, wait
queues, locks, module loader and driver core. The difficulty is in these
meetings: the board has two CPUs and a preemptive kernel.

`PROJECT.json` lists the components, runs, mutants, findings, hazards and
theorems, and maps each definition to the source lines it stands for.

## Inventory

| component | state | operations | hard because |
|---|---|---|---|
| `blockio`, `noblockio`, `asyncnoti` | one atomic `status`, a wait queue, a fasync queue, `last_val`, a debounce timer | interrupt, timer callback, open, read (blocking or not), poll, fasync, release | callback, interrupt and readers interleave without a lock |
| `keyirq` | plain `status`, spinlock, timer | interrupt, timer callback, read | copy and clear are two statements on two CPUs |
| `atomic_gpioled`, `spinlock`, `semaphore_gpioled`, `mutex` | a counter, lock, semaphore or mutex; the LED's gpio | open, write, release | one holder at a time, races between opens, late initialisation |
| `timer` | a timer that re-arms itself, period, gpio | timer callback, open, three ioctls, release | release, ioctls and callback of several files |
| all drivers | resources acquired and released | init/probe with its error labels, exit/remove | partial failure, events during loading and unloading |
| `gpioled`, `beep`, `chrdevbase`, `platform`, `dts_platform`, `miscbeep` | gpio or mapped registers of a port shared with other pins | init, open, write, release, remove | removal under an open file, unlocked register updates |
| `key` | the gpio, `keyvalue` | open, read by busy waiting, release | a value shared by the processes of one file |
| `input/keyinput` | irq and its disable depth, timer, the input device's key state | interrupt disables itself, timer reports and enables; the application reads events | pairing, latched edges, order of removal |
| `icm20608` | device fields for seven words | probe, open, read, release | fields shared by readers, failing transfers, signs |
| `ap3216c` | the sensor's system register, device fields for three counts | probe, open, read | an open of two transfers that fails on success |

What makes each correct:

- Key drivers: no edge is forgotten; presses and releases alternate; no reader
  sleeps beside an event; no reader gets one event twice; only open files are
  signalled.
- Exclusive LEDs: one holder at a time, only the holder changes the LED, a
  refusal has a cause, waiters are served.
- Timer: a stop stops, a start starts, nothing runs without a file.
- Input key: disables and enables pair up, no move is lost behind the mask, the
  report comes to agree with the key.
- Plain LEDs: a write changes the LED's pin and no other user's.
- Shared reads: a read delivers what was observed while it ran, decoded to the
  word that was measured.
- Life cycle: what is acquired is released once, and nothing is used that is
  not there.

## Modules

| module | models | refines |
|---|---|---|
| `KeyLine` | the key's gpio, `key_interrupt`, the timer's arming, the start and end of `key_timer_function`; shared by the two below | |
| `KeyEvent` | `blockio` (`NonBlock = Async = {}`), `noblockio`, `asyncnoti` | |
| `KeyIrq` | `keyirq` | `EventMailbox` |
| `EventMailbox` | abstract: one slot, the latest report, indivisible takes | |
| `LedCommand` | `led_write`, the same code in all LED drivers over gpio | |
| `ExclusiveLed` | abstract: one holder, only it changes the LED | |
| `AtomicLed`, `SpinLed`, `SemLed`, `MutexLed` | the four drivers that differ in how open excludes | `ExclusiveLed` |
| `ExclusiveLeds` | the board's one LED under whichever of the four is loaded | `ExclusiveLed` |
| `TimerLed` | `timer` | |
| `KeyInput` | `input/keyinput.c` and `keyinputApp.c`, with the input core's key state and autorepeat | |
| `PlainLed` | the six LED and beeper drivers without exclusion, in three builds, and the gpio port with a neighbour's pin | |
| `SharedFields` | the shape the reads of `key`, `icm20608` and `ap3216c` have: observe, put into device fields, take from them, copy | |
| `KeyPoll`, `MotionSensor`, `LightSensor` | `key`, `icm20608`, `ap3216c`, over `SharedFields` | |
| `SensorWords` | the bytes of both sensors and the drivers' arithmetic on them, with the encoding as reference | |
| `SharedReads` | readers of one of the three devices | |
| `DriverTables` | for each of the 19 drivers, the acquisitions of init, the goto of each failure, the releases of the error path and of exit | |
| `DriverLifecycle` | one life of a driver from its table, with failures, interrupts, expiries, users and removal | |
| `MC...` | the instances for TLC | |
| `..._proofs` | theorems and their proofs | |

How state and actions correspond to code:

- Each process has a control point `pc`. An action runs from one shared-memory
  access (or call that may block) to the next. `key_read` of blockio, for
  example, is `ReadStart`, `FirstCheck`, then the loop of
  `wait_event_interruptible` (`Enqueue`, `ConditionHolds`, `ConditionFails`,
  `Interrupted`), then `CopyToUser` and `Clear`.
- A timer callback has a control point `cb`. The timer core disarms a timer
  before it enters the callback, runs one instance of it at a time, and lets
  anybody arm it meanwhile. `mod_timer` on an armed timer leaves it armed.
- `wake_up_interruptible`, `kill_fasync`, `down_interruptible`, `up`,
  `mutex_lock_interruptible`, `gpio_request` and `del_timer_sync` are modelled
  by what the kernel does; these definitions are marked external in the map.
- Ghost variables (`got`, `lastEvent`, `given`, `posted`, `last`, `asked`,
  `overlapped`) record history for the properties. No guard of a code action
  reads them.
- `copy_to_user` may fault: nothing is copied and, as in the code, the status
  is cleared all the same. `copy_from_user` never gives a negative result, so
  the -EFAULT branch under it is dead; a write of no bytes acts on whatever
  the stack holds, and `Databuf` leaves that choice free.
- In `KeyEvent`, poll and select are used by the files opened with O_NONBLOCK,
  as `noblockioAPP.c` does. A file may be asynchronous and blocking:
  `asyncnotiApp.c` reads its flags with F_GETFD and so clears O_NONBLOCK.
- The key may be up or down when a driver is loaded (`LineInit`, `Init` of
  `KeyInput`). No driver reads the gpio then: `last_val` is a static 1
  (`blockio.c:132`) and the input core takes KEY_0 for released. A key held at
  load is therefore not reported until it moves, and its release is swallowed,
  because the level it brings is the one the driver started with. The properties
  that tie a report to the pin (`EdgeNotForgotten`, `DebounceSettles`,
  `LastReportAgrees`, `ReportSettles` and the theorems `ReportedAtRest`) speak
  of a key that has moved since the load (`Untouched` is the escape); for a key
  that has not they claim nothing.

- `PlainLed` keeps one field per pin in each register, which is what the masks
  of the code select. `build` is how a driver reaches the pin: `gpio` for
  `gpioled`, `beep`, `dts_platform` and `miscbeep`; `bsrr` for `chrdevbase` and
  for `platform` without USE_ODR; `odr` for `platform` as its Makefile builds
  it. A read-modify-write is a `Load` and a `Store` with a copy in between;
  BSRR reads as zero and changes only the pins whose bit is written, so that a
  write to it is one step. `led_remove` is the removal of the two platform
  drivers over gpio, which write the pin before anything else. Freeing and
  faults on removal are `DriverLifecycle`'s.
- In `SharedReads` each field is put and taken in a step of its own.
  `MotionSensor` gives the seven words of a sample the same value, which tells
  samples apart and leaves the words to `SensorWords`. One process at a time
  has opened `key`; others share its file by `Fork`. `LightSensor` has no read,
  because its open never succeeds.
- A failed transfer of `icm20608` leaves `data[14]` with what the stack held,
  perhaps the bytes of an earlier call (`icm20608.c:127`). Nothing was observed
  then, and the ghost `saw` records `NoReading`, which is no word;
  `DeliveredFromOverlap` lets it explain any word, for the call itself and for
  the calls that overlap it, and for no later one.
- `TimerLed` starts with the LED dark. `led_init` does not touch it; that it is
  dark when the module is loaded is an assumption about the board.

A driver's table is read like its code. `Take("cdev", 3)` is a call that
acquires the cdev and goes to the third entry of the error path when it fails;
an entry past the end returns with nothing released. `GoOn` is a call whose
failure is ignored, `Setup` one that cannot fail or is not looked at. Device
tree parsing fails before anything is held (its effect is that of a failing
first acquisition), and so has no entry. `register_chrdev_region`, which runs
in place of `alloc_chrdev_region` once a major number is known, has the same
label.

## Runs

| run | cfg | bounds | shows |
|---|---|---|---|
| `key_event` | `MCKeyEvent` | 1 blocking asynchronous and 1 non-blocking file, 4 edges, key up or down at load | the safety of the three drivers; debouncing settles, sleepers wake, SIGIO arrives |
| `key_irq` | `MCKeyIrq` | 2 files, 4 edges, key up or down at load | exclusion, refinement of the mailbox; reads return, the last report is right |
| `exclusive_leds` | `MCExclusiveLeds` | 4 files, each driver in turn, mutex with and without early opens | each driver's bookkeeping, the refinement of `ExclusiveLed`, calls return, waiters are served; the damage of the second `mutex_init` is one extra holder |
| `timer_led` | `MCTimerLed` | 3 files, one period beside the default | stops stop, starts start, nothing runs without a file |
| `key_input` | `MCKeyInput` | 5 edges, repeats while at most 1 event waits, key up or down at probe | no move is lost behind the mask; disables and enables pair up; report, application and key come to agree |
| `plain_led` | `MCPlainLed` | 2 files, 2 configuration registers, 1 neighbour | which writes can be undone, and that no others are |
| `shared_reads` | `MCSharedReads` | 2 readers, readings -32768 and 32767, one content of the stack | reads deliver what overlaps them, for `key` and `icm20608`, failed transfers apart |
| `driver_lifecycle` | `MCDriverLifecycle` | every driver, 2 users | what leaks, what is released unheld, what is used when missing |
| `mutex_led_claim` | `MCExclusiveLedsOneHolder` | 4 files | a statement of the sources that the code does not keep |
| `timer_led_dark`, `timer_led_period` | `MCTimerLed...` | 1 file | two more |
| `light_sensor_active` | `MCSharedReadsLightSensorActivated` | as `shared_reads` | and a fourth |

Why the bounds are enough. `MaxEdges` bounds the edges of the key. Every state
of the debouncer is reached with two (press, and a bounce while the callback
runs); four give a press, its release and a bounce of each. Two readers give
every pair of control points, and the properties speak of one reader or of a
pair. The proofs remove both bounds for the safety properties. A third LED file
is needed for a waiter behind a waiter, a fourth for a mutex damaged while two
queue. `MaxUsers` is 2 because a removal cares only whether a file is open.

The input key needs an edge while the timer is armed, while the callback is
before and after its sample, and one more to settle; with one more event
waiting, a repeat and a report queue behind each other. Two of the four
configuration registers of a port give one that is done and one that is to
come; the proof takes any sequence of them. A third file or neighbour adds
nothing to an overlap of two. The two readings are the ends of the 16-bit
range, where a wrong sign shows; `WordsRoundTrip` covers every word. Of a failed
transfer it matters that its words are of no reading, and one content of the
stack, which differs from both readings, is enough for that; the proof takes
any.

Deadlock is checked except in `key_input`, where the key may be let go and
nothing is left to do, in `exclusive_leds`, where every opener of the
semaphore's driver may have died in an open before `sema_init`, and `driver_lifecycle`, where a
life ends and a fault stops it. The other machines can always make another
call.

Fairness. Interrupts, timers and runnable tasks are scheduled (WF). Spinlocks
of this kernel are ticket locks, so that whoever spins is served (SF on taking
the lock). `del_timer_sync` retries while the callback runs, and the callback is
away for a whole period (SF). With the semaphore a holder closes its file in the
end, as `spinlockAPP.c` does after 25 seconds. Users are never obliged to move
the key, open, read or write; `keyinputApp` reads in an endless loop, and so
its reads are fair. `plain_led` and `shared_reads` check safety only.

`PortKept` and `DeliveredFromOverlap` say what the code keeps, exceptions
included. The first allows a wrong field only in a register which the build
changes without the port's lock, and only after a write fell between the read
and the write of another pin's user. The second does not say that a read's
fields are of one sample, since they need not be, and says nothing of a read
that overlaps a failed transfer.

The properties of `DriverLifecycle` name their exceptions: the drivers that do
leak or do have the window are listed in the property, and everything else is
excluded. A driver that joins the list, or a window that opens elsewhere,
violates it. The exceptions are tight: each is reached, in each of the phases it
names. That a life keeps its types is proved, and is not checked by the run,
because no slip in the drivers would break it.

## Findings

- `timer.c:144`: the LED may stay lit after the last close, because the timer is
  stopped after the LED is written.
- `timer.c:170`: SETPERIOD_CMD never reaches `dev->timerperiod`, so the period
  lasts for one expiry: `timer_function` re-arms with the default.
- `mutex.c:236`: the second `mutex_init` comes after `device_create` and lets
  two holders in.
- `ap3216c.c:139`: `ap3216c_write_reg` returns `-EIO` after success too. Every
  open fails, and the sensor is reset and never activated, although line 162
  says "ALS and PS + IR function active" and `ap3216cAPP.c` reads it.

Beside these, the exceptions in `DriverLifecycle` are defects that no text of
the repository speaks about: the key drivers leak their interrupt on a failed
init, request it before the timer is set up, and on exit stop the timer before
the interrupt that arms it; `gpioled`, `beep` and `atomic` keep their gpio;
the sensors leak their class; `icm20608` reports success with nothing set up;
the bus drivers go on using what the removal took away.

The later models show more of that kind, none of which contradicts a line of
the repository closely enough to be listed as a finding:

- `platform/leddriver.c`, as its Makefile builds it (USE_ODR): `led_switch`
  sets the bit for LEDON and clears it for LEDOFF although the LED is active
  low, and the probe clears bit 0 of ODR (lines 206-210) just after switching
  the LED off by BSRR ("led set defalut is off"), so that it ends lit.
- The same `led_switch`, and the inits of `chrdevbase` and `platform`, may set
  back another pin's field (`PortKept` names the registers).
- A key held while its driver is loaded is not reported, nor is its release.
- `icm20608_read` reports success after a failed transfer and gives the user
  what the stack held. Readers that overlap may get a mixture of samples. The
  transfer is one byte longer than the buffer it receives into (line 57).
- `key_open` returns the error of `gpio_request`, where its comment says that
  it always returns 0 (line 97). A read of `key` may give what another process
  of the same file observed. The same comment stands over opens that do nothing
  and was copied to `led_open` (`atomic.c:39-43`, "led_open do nothing",
  "always return 0"), which answers -EBUSY while the LED is held; `BusyHasCause`
  says when.
- `miscbeep` and `dts_platform` switch off first and remove the node later: a
  write in between leaves the beeper or the LED on.
- `sema_gpioled.c:48` announces "return BUSY if dev is used"; the open waits in
  `down_interruptible` (`DownWait`).
- The plain LED drivers do not look at `cnt`.

## Proofs

All constants are arbitrary under their named assumptions (finite sets of
files or readers, any bound on edges).

- `KeyEvent_proofs`. The inductive invariant `IInv` is `TypeOK` with the
  properties and what they need: a reader that sleeps is queued unless the
  callback is past its `Post` and before its `Wake`, who is closed is in no
  queue, what the callback holds agrees with its control point and with
  `lastEvent`, and a copied event is followed by a clear. `NoLostWakeup` alone
  is not inductive, because it says nothing of a task between queueing and
  sleeping. Type correctness, `EdgeNotForgotten`, `NoLostWakeup`,
  `NoDoubleDelivery`, `OnlyOpenFilesSignalled` and `EventsAlternate` follow.
  A second layer, `LastEventAgrees`, gives `ReportedAtRest`: when neither edge,
  timer nor callback is under way, `last_val` is the pin's level and the last
  event reported is that level's, once the key has moved since the load.
- `KeyIrq_proofs`. `locked` holds exactly when the callback or one reader is
  inside (`LockGivenBack`); with that each step maps to a step of `EventMailbox`
  or a stutter, under the mapping that shows the slot as empty from the copy on.
  That a read is given the latest report or nothing is proved of `EventMailbox`
  and holds of `keyirq` by the refinement. `PostedMatchesLevel` ties the last
  report to the level the callback took, and so at rest to the pin.
- `ExclusiveLeds_proofs`. One invariant per driver, and the lemma that a step of
  the driver keeps it and changes the holders only as `ExclusiveLed` allows
  (`HolderStep`); the last section combines them. `atomic`: the counter is one
  minus the cardinality of the files that took from it, so a decrement that ends
  at zero found none. `spin`: who is between lock and unlock is alone and has
  set the lock, nobody else has, and the status counts the holders. `sem`: once
  initialised, the count is zero exactly when one file has the semaphore or has
  been handed it; `NoStrandedWaiter` alone says nothing of the count without a
  queue. That the queue holds who waits, once each (`WaitersQueued`), and what
  removing a member leaves of a list (`OthersStay`) give `ServedInOrder`. `mutex`:
  the owner holds, and beside it at most one more; until the second
  `mutex_init` owner and holders are the same, without which the reset could
  leave several behind. Every safety property of the run `exclusive_leds`
  follows for any finite set of files.

- `TimerLed_proofs`. Beside the properties the invariant says that at most one
  file has the gpio (`OneFileHasGpio`), that a file's last ioctl counts only
  while it is open, and that whoever opens while a release has still to stop
  the timer is marked as overlapped (`LateReleaseNoted`). Without the last,
  `StartedKeepsBlinking` could be broken by a late `del_timer_sync` and is not
  inductive. Files and periods are arbitrary.
- `KeyInput_proofs`. Of handler, armed timer and callback at most one is under
  way (`Exclusive`): with that, `MaskedWhileOwed` is inductive, and the depth
  never exceeds one. `EdgeNotForgotten`, the safety half of `ReportSettles`, is
  proved for any number of edges and either level at the probe. `EventsEndInKey`, that the events not yet read
  end in the state the input core has, gives the rest of that half.
- `PlainLed_proofs`. A copy that no write has overlapped agrees with its
  register on every pin that is not its thread's (`CopiesExact`); storing it
  then changes no other pin. Which thread may hold a copy of which register
  (`MayCopy`) gives the exceptions. Files, the sequence of configuration
  registers and the names of pins and threads are arbitrary (`PortAssumption`).
- `SharedReads_proofs`. One invariant, `Kept`, with the orders of putting and
  taking as parameters: what may still be put, is in a field already put, or
  has been taken, was seen by an overlapping call, or made up by one whose transfer
  failed. Each step of `SharedFields`
  keeps it, and the drivers' steps are such steps. The theorem needs of the
  orders only that each names every field. For every 16-bit word, and every
  count of ten or sixteen bits, decoding after encoding is the identity and an
  overflow gives 0; `Transfer` cites the former.
- `DriverLifecycle_proofs`. `Story` says, for any well-formed table of calls, what
  is held and what has been released in vain by how far the init, the error path
  or the exit has come. It is inductive whatever such table is loaded, because it
  needs of the table only that labels lead to entries of the error path or past
  its end, and that neither path releases an object twice. Beside it the invariant says that files are open only while
  the node exists, that the timer is armed only by the interrupt or an operation
  after it was set up, and why each fault is possible (`FaultKnown`). What the
  tables themselves have to answer for enters as a lemma for each, shared by
  drivers with the same table (`...Facts`): what the error path leaks, what the exit keeps, which releases
  come in vain, whether the node comes last. Type correctness and the four properties of the run
  follow for any number of files; that the tables are those of the sources is
  the map's business.

Only model-checked: the liveness properties, since fairness and ENABLED are
beyond the prover. The safety half of most is proved:

| property | what is proved of it |
| --- | --- |
| `DebounceSettles`, `LastReportAgrees` | `ReportedAtRest` of `KeyEvent_proofs` and `KeyIrq_proofs`: at rest, what was reported of a key that has moved is true |
| `ReportSettles` | `ReportedAtRest` of `KeyInput_proofs`: and the application has printed it, and the interrupt is on |
| `SleeperWakes` | `WakeupsNotLost`: nobody sleeps beside an event without a wake-up on its way |
| `ReadsReturn`, `CallsReturn` | `LockGivenBack`, `LockNotLeaked`: who spins, spins for somebody on the way to the unlock |
| `WaiterServed` | `TurnsNotLost`, `ServedInOrder`: a queue has somebody to wait for, and only shrinks in front of a waiter |
| `SigioArrives`, `StopsReturn` | nothing: that a step is taken in the end is all they say |

## Not modelled, and the plan

In order:

1. `leddevice` and `platform` together: matching, probe and removal of several
   devices, of which the driver keeps one set of mappings.
2. `icm20608_reginit`, which writes the sensor's configuration without looking
   at the results: the registers after some of the writes fail.
3. The refusals of `key_open` and `timer_open` as one abstract exclusive gpio
   that both implement.

Not modelled at all: build files, device-tree patches, the printing of the
applications, the register values that configure pins and sensors, and the
clock register that `chrdevbase` and `platform` update without a lock before
the port's (`chrdevbase.c:153-156`): its bits belong to ports, and `PlainLed`'s
neighbour is a pin of the same port.
