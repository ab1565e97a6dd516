------------------------------ MODULE PlainLed ------------------------------
(***************************************************************************)
(* The LED and beeper drivers without any exclusion, and the gpio port     *)
(* their pin shares with pins of other drivers.  They differ in how they   *)
(* reach the pin, which is what build names:                               *)
(*   gpio  gpioled, beep, dts_platform, miscbeep: the gpio library;        *)
(*   bsrr  chrdevbase, and platform without USE_ODR: mapped registers, the *)
(*         pin by the bit set/reset register;                              *)
(*   odr   platform as its Makefile builds it: the pin by reading,         *)
(*         changing and writing the output data register.                  *)
(* The neighbour is whoever uses another pin of the port by the gpio       *)
(* library and the pin controller: it sets its pin at once by BSRR, and    *)
(* changes configuration registers under a lock that only the gpio build   *)
(* takes.  A read-modify-write is two steps with a copy in between.        *)
(***************************************************************************)
EXTENDS LedCommand, Sequences

CONSTANTS
    ConfOrder,             \* the configuration registers, in the order of the init
    LedPin, OtherPin,      \* pin 0 of port I, and the neighbour's pin
    Setup, Neighbour       \* the driver's init and the neighbour, as threads

ConfReg == {ConfOrder[i] : i \in DOMAIN ConfOrder}
Register == ConfReg \cup {"odr"}

ASSUME PortAssumption ==
    /\ ConfOrder \in Seq(STRING) /\ ConfOrder # <<>>
    /\ ConfReg \cap {"odr", "bsrr", "done", "gone", "none"} = {}
    /\ LedPin # OtherPin
    /\ Setup # Neighbour
    /\ Setup \notin Files /\ Neighbour \notin Files

Pins == {LedPin, OtherPin}
Thread == Files \cup {Setup, Neighbour}

\* Whose pin a thread is about.
PinOf(t) == IF t = Neighbour THEN OtherPin ELSE LedPin

\* Configuration fields before and after their owner has set them.
Unset == 2
Configured == 3

Field == Level \cup {Unset, Configured}
Word == [Pins -> Field]

Build == {"gpio", "bsrr", "odr"}

VARIABLES
    build,                 \* how the driver reaches the pin
    port,                  \* the port's registers: a field for each pin
    stage,                 \* what the init has come to, or that the driver is gone
    copy,                  \* what each thread has read and not yet written back
    pc,                    \* control point of each file
    sta,                   \* the command each file's led_switch works on
    asked,                 \* ghost: each field as its owner last asked for it
    overlapped             \* ghost: registers written while a copy of them was out

vars == <<build, port, stage, copy, pc, sta, asked, overlapped>>

Copies == [reg : Register, word : Word]
None == [reg |-> "none"]

TypeOK ==
    /\ build \in Build
    /\ port \in [Register -> Word] /\ asked \in [Register -> Word]
    /\ \A p \in Pins : port["odr"][p] \in Level
    /\ stage \in ConfReg \cup {"bsrr", "odr", "done", "gone"}
    /\ copy \in [Thread -> Copies \cup {None}]
    /\ pc \in [Files -> {"closed", "open", "switch", "store"}]
    /\ sta \in [Files -> {LEDON, LEDOFF}]
    /\ overlapped \subseteq Register

Init ==
    /\ build \in Build
    /\ port = [r \in Register |-> [p \in Pins |-> IF r = "odr" THEN 0 ELSE Unset]]
    /\ stage = Head(ConfOrder)
    /\ copy = [t \in Thread |-> None]
    /\ pc = [f \in Files |-> "closed"]
    /\ sta = [f \in Files |-> LEDOFF]
    /\ asked = port
    /\ overlapped = {}

-----------------------------------------------------------------------------
(***************************************************************************)
(* Register accesses: readl, writel of a changed copy, writel to BSRR      *)
(***************************************************************************)
Load(t, r) ==
    /\ copy[t] = None
    /\ copy' = [copy EXCEPT ![t] = [reg |-> r, word |-> port[r]]]
    /\ UNCHANGED <<port, asked, overlapped>>

\* Ghosts of a write of t to its field of r: what was asked for, and whether
\* somebody who cares for another pin is holding a copy it makes stale.
Noted(t, r, field) ==
    /\ asked' = [asked EXCEPT ![r][PinOf(t)] = field]
    /\ overlapped' =
          IF \E u \in Thread : copy[u].reg = r /\ PinOf(u) # PinOf(t)
          THEN overlapped \cup {r} ELSE overlapped

\* mutant: the constant is written as it is, and the copy forgotten
OnlyField(word, p, field) == [q \in Pins |-> IF q = p THEN field ELSE Unset]

\* val &= ~mask; val |= bits
Changed(word, p, field) == [word EXCEPT ![p] = field]

Store(t, field) ==
    LET c == copy[t] IN
    /\ c # None
    /\ port' = [port EXCEPT ![c.reg] = Changed(c.word, PinOf(t), field)]
    /\ copy' = [copy EXCEPT ![t] = None]
    /\ Noted(t, c.reg, field)

\* mutant: the shift is one too many, and the bit is the next pin's
NextBit(t) == IF PinOf(t) = LedPin THEN OtherPin ELSE LedPin

\* The bit of BSRR that is written.  BSRR reads as zero, so that val holds no
\* other, and the hardware changes the pins whose bit is written.
BsrrBit(t) == PinOf(t)

WriteBsrr(t, level) ==
    /\ port' = [port EXCEPT !["odr"][BsrrBit(t)] = level]
    /\ Noted(t, "odr", level)
    /\ UNCHANGED copy

-----------------------------------------------------------------------------
(***************************************************************************)
(* led_probe and the init of chrdevbase: the registers one after another   *)
(***************************************************************************)
AfterConf(r) ==
    LET i == CHOOSE i \in DOMAIN ConfOrder : ConfOrder[i] = r IN
    IF i = Len(ConfOrder) THEN "bsrr" ELSE ConfOrder[i + 1]

SetupLoads ==
    /\ build # "gpio"
    /\ stage \in ConfReg \cup {"odr"}
    /\ Load(Setup, stage)
    /\ UNCHANGED <<build, stage, pc, sta>>

ConfStores ==
    /\ stage \in ConfReg
    /\ Store(Setup, Configured)
    /\ stage' = AfterConf(stage)
    /\ UNCHANGED <<build, pc, sta>>

\* "led set default is off": the set bit, and with USE_ODR one stage more.
DefaultOff ==
    /\ stage = "bsrr"
    /\ WriteBsrr(Setup, 1)
    /\ stage' = IF build = "odr" THEN "odr" ELSE "done"
    /\ UNCHANGED <<build, pc, sta>>

\* mutant: the mask of the two-bit fields is used for ODR as well
OdrDefaultField == Configured

OdrDefault == 0

OdrStores ==
    /\ stage = "odr"
    /\ Store(Setup, OdrDefault)
    /\ stage' = "done"
    /\ UNCHANGED <<build, pc, sta>>

\* gpio_direction_output: the level, and the mode (moder comes first) under the
\* port's lock.  It may fail, which these drivers ignore.
GpioDirectionOutput ==
    /\ build = "gpio" /\ stage # "done"
    /\ copy[Neighbour] = None
    /\ \/ /\ port' = [port EXCEPT !["odr"][LedPin] = 1,
                                  ![Head(ConfOrder)][LedPin] = Configured]
          /\ asked' = [asked EXCEPT !["odr"][LedPin] = 1,
                                    ![Head(ConfOrder)][LedPin] = Configured]
       \/ UNCHANGED <<port, asked>>
    /\ stage' = "done"
    /\ UNCHANGED <<build, copy, pc, sta, overlapped>>

driver_init == SetupLoads \/ ConfStores \/ DefaultOff \/ OdrStores \/ GpioDirectionOutput

\* led_remove of dts_platform and beep_remove set the gpio off first.  A file
\* that is open goes on writing to the gpio.
led_remove ==
    /\ build = "gpio" /\ stage = "done"
    /\ WriteBsrr(Setup, Off)
    /\ stage' = "gone"
    /\ UNCHANGED <<build, pc, sta>>

-----------------------------------------------------------------------------
(***************************************************************************)
(* The file operations                                                     *)
(***************************************************************************)
Move(f, from, to) ==
    /\ pc[f] = from
    /\ pc' = [pc EXCEPT ![f] = to]

led_open(f) ==
    /\ stage = "done"
    /\ Move(f, "closed", "open")
    /\ UNCHANGED <<build, port, stage, copy, sta, asked, overlapped>>

led_release(f) ==
    /\ Move(f, "open", "closed")
    /\ UNCHANGED <<build, port, stage, copy, sta, asked, overlapped>>

\* These drivers do not look at cnt.  The kernel's copy_from_user refuses a
\* length that is not databuf's, which leaves it as uninitialised as a write
\* of nothing does.
PlainDatabuf(cnt, byte) == Databuf(IF cnt = 1 THEN 1 ELSE 0, byte)

\* led_write goes on to switch the pin when the byte is a command.
WriteBegins(f) ==
    /\ Move(f, "open", "switch")
    /\ \E cnt \in Length, byte \in Byte :
          \E ledstat \in PlainDatabuf(cnt, byte) \ {OtherByte} :
              sta' = [sta EXCEPT ![f] = ledstat]
    /\ UNCHANGED <<build, port, stage, copy, asked, overlapped>>

\* The active-low LED by BSRR or by the gpio library.
LevelFor(ledstat) == IF ledstat = LEDON THEN On ELSE Off

SwitchAtOnce(f) ==
    /\ build # "odr"
    /\ Move(f, "switch", "open")
    /\ WriteBsrr(f, LevelFor(sta[f]))
    /\ UNCHANGED <<build, stage, sta>>

\* The USE_ODR led_switch: LEDON sets the bit, the other way round.
OdrLevelFor(ledstat) == IF ledstat = LEDON THEN 1 ELSE 0

SwitchLoads(f) ==
    /\ build = "odr"
    /\ Move(f, "switch", "store")
    /\ Load(f, "odr")
    /\ UNCHANGED <<build, stage, sta>>

SwitchStores(f) ==
    /\ Move(f, "store", "open")
    /\ Store(f, OdrLevelFor(sta[f]))
    /\ UNCHANGED <<build, stage, sta>>

LedWrite(f) == WriteBegins(f) \/ SwitchAtOnce(f) \/ SwitchLoads(f) \/ SwitchStores(f)

-----------------------------------------------------------------------------
(***************************************************************************)
(* The neighbour: gpio_set_value and the pin controller                    *)
(***************************************************************************)
NeighbourSets ==
    /\ \E level \in Level : WriteBsrr(Neighbour, level)
    /\ UNCHANGED <<build, stage, pc, sta>>

NeighbourLoads ==
    /\ \E r \in ConfReg : Load(Neighbour, r)
    /\ UNCHANGED <<build, stage, pc, sta>>

NeighbourStores ==
    /\ \E field \in {Unset, Configured} : Store(Neighbour, field)
    /\ UNCHANGED <<build, stage, pc, sta>>

Next ==
    \/ driver_init \/ led_remove
    \/ \E f \in Files : led_open(f) \/ LedWrite(f) \/ led_release(f)
    \/ NeighbourSets \/ NeighbourLoads \/ NeighbourStores

Spec == Init /\ [][Next]_vars

-----------------------------------------------------------------------------
\* The registers in which a build can undo a neighbour's write, or have its
\* own undone: those it reads, changes and writes without the port's lock.
Unlocked ==
    CASE build = "gpio" -> {}
      [] build = "bsrr" -> ConfReg
      [] build = "odr"  -> Register

(***************************************************************************)
(* Every field of the port is what its owner last asked for, LED pin and   *)
(* neighbour alike, however inits, writes and the neighbour interleave.    *)
(* The exceptions: a register the build changes without the lock, once a   *)
(* write has met another's copy of it.  So a led_write through BSRR or the *)
(* gpio library never disturbs another pin; one through ODR may.           *)
(***************************************************************************)
PortKept ==
    \A r \in Register : port[r] # asked[r] => r \in Unlocked \cap overlapped
=============================================================================
