--------------------------- MODULE PlainLed_proofs ---------------------------
(***************************************************************************)
(* What the drivers without exclusion do to the other pins of their port,  *)
(* for any number of files and any configuration registers.  A copy that   *)
(* no write has overlapped agrees with the register on every pin that is   *)
(* not its thread's, so that writing it back changes no other pin.         *)
(***************************************************************************)
EXTENDS PlainLed, TLAPS

\* Which thread may hold a copy of which register.
MayCopy(t, r) ==
    \/ t = Neighbour /\ r \in ConfReg
    \/ t = Setup /\ r \in ConfReg /\ build # "gpio"
    \/ t # Neighbour /\ r = "odr" /\ build = "odr"

PortTyped ==
    /\ port \in [Register -> Word] /\ asked \in [Register -> Word]
    /\ \A p \in Pins : port["odr"][p] \in Level

CopiesTyped ==
    /\ copy \in [Thread -> Copies \cup {None}]
    /\ \A t \in Thread : copy[t] # None => MayCopy(t, copy[t].reg)
    /\ \A t \in Thread : copy[t].reg = "odr" => \A p \in Pins : copy[t].word[p] \in Level

\* Writes overlap only in registers that are changed without the lock.
OverlapsUnlocked == overlapped \subseteq Unlocked

CopiesExact ==
    \A t \in Thread : copy[t] # None /\ copy[t].reg \notin overlapped =>
       \A p \in Pins \ {PinOf(t)} : copy[t].word[p] = port[copy[t].reg][p]

PortExact == \A r \in Register \ overlapped : port[r] = asked[r]

PortInv ==
    /\ build \in Build
    /\ PortTyped /\ CopiesTyped
    /\ OverlapsUnlocked /\ CopiesExact /\ PortExact

-----------------------------------------------------------------------------
LEMMA Names == /\ "odr" \notin ConfReg /\ "none" \notin Register
               /\ None \notin Copies
               /\ \A c \in Copies \cup {None} : c # None => c \in Copies
<1>1. "odr" \notin ConfReg /\ "none" \notin Register
  BY PortAssumption DEF Register
<1>2. None \notin Copies
  BY <1>1 DEF None, Copies
<1> QED BY <1>1, <1>2

LEMMA LoadKeeps ==
  ASSUME PortInv, NEW t \in Thread, NEW r \in Register, MayCopy(t, r), Load(t, r),
         UNCHANGED build
  PROVE  PortInv'
<1>1. copy' = [copy EXCEPT ![t] = [reg |-> r, word |-> port[r]]]
  BY DEF Load
<1>2. UNCHANGED <<build, port, asked, overlapped>>
  BY DEF Load
<1>3. [reg |-> r, word |-> port[r]] \in Copies
  BY DEF PortInv, PortTyped, Copies
<1>4. \A u \in Thread : copy'[u] = IF u = t THEN [reg |-> r, word |-> port[r]] ELSE copy[u]
  BY <1>1 DEF PortInv, CopiesTyped
<1>5. CopiesTyped'
  <2>1. copy' \in [Thread -> Copies \cup {None}]
    BY <1>1, <1>3 DEF PortInv, CopiesTyped
  <2>2. ASSUME NEW u \in Thread, copy'[u] # None PROVE MayCopy(u, copy[u].reg)'
    BY <2>2, <1>2, <1>4 DEF PortInv, CopiesTyped, MayCopy
  <2>3. ASSUME NEW u \in Thread, copy'[u].reg = "odr", NEW p \in Pins
        PROVE  copy'[u].word[p] \in Level
    BY <2>3, <1>4 DEF PortInv, CopiesTyped, PortTyped
  <2> QED BY <2>1, <2>2, <2>3 DEF CopiesTyped
<1>6. CopiesExact'
  BY <1>2, <1>4 DEF PortInv, CopiesExact
<1>7. PortTyped' /\ OverlapsUnlocked' /\ PortExact' /\ build' \in Build
  BY <1>2 DEF PortInv, PortTyped, OverlapsUnlocked, Unlocked, PortExact
<1> QED BY <1>5, <1>6, <1>7 DEF PortInv

\* Whoever's write is noted as overlapping, the register is an unlocked one.
LEMMA NotedKeeps ==
  ASSUME PortInv, NEW t \in Thread, NEW r \in Register, NEW field \in Field,
         Noted(t, r, field), UNCHANGED build,
         r \in ConfReg => MayCopy(t, r)
  PROVE  /\ OverlapsUnlocked'
         /\ overlapped \subseteq overlapped'
         /\ overlapped' \subseteq overlapped \cup {r}
         /\ asked' = [asked EXCEPT ![r][PinOf(t)] = field]
         /\ r \notin overlapped' =>
               \A u \in Thread : copy[u].reg = r => PinOf(u) = PinOf(t)
<1>1. /\ overlapped' = overlapped \/ overlapped' = overlapped \cup {r}
      /\ asked' = [asked EXCEPT ![r][PinOf(t)] = field]
      /\ r \notin overlapped' => \A u \in Thread : copy[u].reg = r => PinOf(u) = PinOf(t)
  BY DEF Noted
<1>2. ASSUME NEW u \in Thread, copy[u].reg = r, PinOf(u) # PinOf(t) PROVE r \in Unlocked
  <2>1. copy[u] # None
    BY <1>2, Names DEF None
  <2>2. MayCopy(u, r)
    BY <1>2, <2>1 DEF PortInv, CopiesTyped
  <2>3. u = Neighbour \/ t = Neighbour
    BY <1>2 DEF PinOf
  <2>4. u # t
    BY <1>2
  <2> QED BY <2>2, <2>3, <2>4, Names DEF MayCopy, PortInv, Build, Unlocked, Register
<1>3. OverlapsUnlocked'
  <2>1. overlapped' = overlapped \/ r \in Unlocked
    BY <1>2 DEF Noted
  <2>2. overlapped' \subseteq Unlocked
    BY <1>1, <2>1 DEF PortInv, OverlapsUnlocked
  <2> QED BY <2>2 DEF OverlapsUnlocked, Unlocked
<1> QED BY <1>1, <1>3

LEMMA StoreKeeps ==
  ASSUME PortInv, NEW t \in Thread, NEW field \in Field, Store(t, field), UNCHANGED build,
         copy[t].reg = "odr" => field \in Level
  PROVE  PortInv'
<1> DEFINE r == copy[t].reg
           word == copy[t].word
<1>1. copy[t] # None /\ copy[t] \in Copies /\ r \in Register /\ word \in Word
  <2>1. copy[t] # None
    BY DEF Store
  <2>2. copy[t] \in Copies
    BY <2>1, Names DEF PortInv, CopiesTyped
  <2> QED BY <2>1, <2>2 DEF Copies
<1>2. /\ port' = [port EXCEPT ![r] = [word EXCEPT ![PinOf(t)] = field]]
      /\ copy' = [copy EXCEPT ![t] = None]
      /\ Noted(t, r, field)
  BY DEF Store, Changed
<1>3. MayCopy(t, r)
  BY <1>1 DEF PortInv, CopiesTyped
<1>4. (r = "odr" => field \in Level)
      /\ (r = "odr" => \A p \in Pins : word[p] \in Level)
      /\ (r \notin overlapped => \A p \in Pins \ {PinOf(t)} : word[p] = port[r][p])
  BY <1>1 DEF PortInv, CopiesTyped, CopiesExact
<1>10. PinOf(t) \in Pins
  BY DEF PinOf, Pins
<1>11. \A u \in Thread : copy'[u] = IF u = t THEN None ELSE copy[u]
  BY <1>2 DEF PortInv, CopiesTyped
<1> HIDE DEF r, word
<1>5. \E s \in Register, w \in Word : s = r /\ w = word
  BY <1>1
<1>6. /\ OverlapsUnlocked'
      /\ overlapped \subseteq overlapped' /\ overlapped' \subseteq overlapped \cup {r}
      /\ asked' = [asked EXCEPT ![r][PinOf(t)] = field]
      /\ r \notin overlapped' => \A u \in Thread : copy[u].reg = r => PinOf(u) = PinOf(t)
  <2>1. PICK s \in Register : s = r
    BY <1>5
  <2>2. Noted(t, s, field) /\ MayCopy(t, s)
    BY <2>1, <1>2, <1>3
  <2> QED BY <2>1, <2>2, NotedKeeps
<1>7. PortTyped'
  <2>1. [word EXCEPT ![PinOf(t)] = field] \in Word
    BY <1>1 DEF Word
  <2>2. port' \in [Register -> Word]
    BY <2>1, <1>1, <1>2 DEF PortInv, PortTyped
  <2>3. asked' \in [Register -> Word]
    <3>1. asked[r] \in Word
      BY <1>1 DEF PortInv, PortTyped
    <3>2. [asked[r] EXCEPT ![PinOf(t)] = field] \in Word
      BY <3>1 DEF Word
    <3> QED BY <3>2, <1>1, <1>6 DEF PortInv, PortTyped
  <2>4. ASSUME NEW p \in Pins PROVE port'["odr"][p] \in Level
    <3>1. CASE r = "odr"
      BY <3>1, <1>1, <1>2, <1>4 DEF PortInv, PortTyped, Word
    <3>2. CASE r # "odr"
      BY <3>2, <1>1, <1>2 DEF PortInv, PortTyped
    <3> QED BY <3>1, <3>2
  <2> QED BY <2>2, <2>3, <2>4 DEF PortTyped
<1>8. CopiesTyped'
  <2>1. copy' \in [Thread -> Copies \cup {None}]
    BY <1>2 DEF PortInv, CopiesTyped
  <2>2. ASSUME NEW u \in Thread, copy'[u] # None PROVE MayCopy(u, copy[u].reg)'
    BY <2>2, <1>11 DEF PortInv, CopiesTyped, MayCopy
  <2>3. ASSUME NEW u \in Thread, copy'[u].reg = "odr", NEW p \in Pins
        PROVE  copy'[u].word[p] \in Level
    BY <2>3, <1>11, Names DEF PortInv, CopiesTyped, None
  <2> QED BY <2>1, <2>2, <2>3 DEF CopiesTyped
<1>12. port'[r] = [word EXCEPT ![PinOf(t)] = field]
       /\ \A s \in Register : s # r => port'[s] = port[s] /\ asked'[s] = asked[s]
  BY <1>1, <1>2, <1>6 DEF PortInv, PortTyped
<1>13. asked'[r] = [asked[r] EXCEPT ![PinOf(t)] = field]
  BY <1>1, <1>6 DEF PortInv, PortTyped
<1>14. \A p \in Pins : /\ port'[r][p] = IF p = PinOf(t) THEN field ELSE word[p]
                       /\ asked'[r][p] = IF p = PinOf(t) THEN field ELSE asked[r][p]
  BY <1>1, <1>12, <1>13 DEF PortInv, PortTyped, Word
<1>15. r \notin overlapped' => \A p \in Pins \ {PinOf(t)} : port'[r][p] = port[r][p]
  BY <1>4, <1>6, <1>14
<1>16. CopiesExact'
  <2> SUFFICES ASSUME NEW u \in Thread, copy'[u] # None, copy'[u].reg \notin overlapped',
                      NEW p \in Pins \ {PinOf(u)}
               PROVE  copy'[u].word[p] = port'[copy'[u].reg][p]
    BY DEF CopiesExact
  <2>1. u # t /\ copy'[u] = copy[u]
    BY <1>11
  <2>2. copy[u].word[p] = port[copy[u].reg][p]
    BY <2>1, <1>6 DEF PortInv, CopiesExact
  <2>3. copy[u].reg \in Register
    BY <2>1, Names DEF PortInv, CopiesTyped, Copies
  <2>4. CASE copy[u].reg = r
    <3>1. PinOf(u) = PinOf(t)
      BY <2>1, <2>4, <1>6
    <3> QED BY <3>1, <2>1, <2>2, <2>4, <1>15
  <2>5. CASE copy[u].reg # r
    BY <2>1, <2>2, <2>3, <2>5, <1>12
  <2> QED BY <2>4, <2>5
<1>17. PortExact'
  <2> SUFFICES ASSUME NEW s \in Register, s \notin overlapped' PROVE port'[s] = asked'[s]
    BY DEF PortExact
  <2>1. port[s] = asked[s]
    BY <1>6 DEF PortInv, PortExact
  <2>2. CASE s = r
    <3>1. \A p \in Pins : port'[r][p] = asked'[r][p]
      BY <2>1, <2>2, <1>14, <1>15
    <3>2. port'[r] \in Word /\ asked'[r] \in Word
      BY <1>1, <1>7 DEF PortTyped
    <3> QED BY <2>2, <3>1, <3>2 DEF Word
  <2>3. CASE s # r
    BY <2>1, <2>3, <1>12
  <2> QED BY <2>2, <2>3
<1> QED BY <1>6, <1>7, <1>8, <1>16, <1>17 DEF PortInv

LEMMA WriteBsrrKeeps ==
  ASSUME PortInv, NEW t \in Thread, NEW level \in Level, WriteBsrr(t, level), UNCHANGED build
  PROVE  PortInv'
<1>1. /\ port' = [port EXCEPT !["odr"][PinOf(t)] = level]
      /\ copy' = copy
      /\ Noted(t, "odr", level)
  BY DEF WriteBsrr, BsrrBit
<1>2. level \in Field /\ "odr" \in Register /\ PinOf(t) \in Pins
  BY DEF Field, Register, PinOf, Pins
<1>3. /\ OverlapsUnlocked'
      /\ overlapped \subseteq overlapped' /\ overlapped' \subseteq overlapped \cup {"odr"}
      /\ asked' = [asked EXCEPT !["odr"][PinOf(t)] = level]
      /\ "odr" \notin overlapped' =>
            \A u \in Thread : copy[u].reg = "odr" => PinOf(u) = PinOf(t)
  BY <1>1, <1>2, NotedKeeps, Names
<1>4. /\ \A s \in Register : s # "odr" => port'[s] = port[s] /\ asked'[s] = asked[s]
      /\ port'["odr"] = [port["odr"] EXCEPT ![PinOf(t)] = level]
      /\ asked'["odr"] = [asked["odr"] EXCEPT ![PinOf(t)] = level]
  BY <1>1, <1>2, <1>3 DEF PortInv, PortTyped
<1>5. \A p \in Pins : /\ port'["odr"][p] = IF p = PinOf(t) THEN level ELSE port["odr"][p]
                      /\ asked'["odr"][p] = IF p = PinOf(t) THEN level ELSE asked["odr"][p]
  BY <1>2, <1>4 DEF PortInv, PortTyped, Word
<1>6. PortTyped'
  <2>1. /\ [port["odr"] EXCEPT ![PinOf(t)] = level] \in Word
        /\ [asked["odr"] EXCEPT ![PinOf(t)] = level] \in Word
    BY <1>2 DEF PortInv, PortTyped, Word
  <2>2. port' \in [Register -> Word] /\ asked' \in [Register -> Word]
    BY <2>1, <1>1, <1>2, <1>3 DEF PortInv, PortTyped
  <2> QED BY <2>2, <1>5 DEF PortInv, PortTyped
<1>7. CopiesTyped'
  BY <1>1 DEF PortInv, CopiesTyped, MayCopy
<1>8. CopiesExact'
  <2> SUFFICES ASSUME NEW u \in Thread, copy[u] # None, copy[u].reg \notin overlapped',
                      NEW p \in Pins \ {PinOf(u)}
               PROVE  copy[u].word[p] = port'[copy[u].reg][p]
    BY <1>1 DEF CopiesExact
  <2>1. copy[u].word[p] = port[copy[u].reg][p]
    BY <1>3 DEF PortInv, CopiesExact
  <2>2. copy[u].reg \in Register
    BY Names DEF PortInv, CopiesTyped, Copies
  <2>3. CASE copy[u].reg = "odr"
    BY <2>1, <2>3, <1>3, <1>5
  <2>4. CASE copy[u].reg # "odr"
    BY <2>1, <2>2, <2>4, <1>4
  <2> QED BY <2>3, <2>4
<1>9. PortExact'
  BY <1>3, <1>4 DEF PortInv, PortExact
<1> QED BY <1>3, <1>6, <1>7, <1>8, <1>9 DEF PortInv

-----------------------------------------------------------------------------
\* Setup holds a copy of the register its stage is about, and of no other.
ControlInv ==
    /\ stage \in ConfReg \cup {"bsrr", "odr", "done", "gone"}
    /\ stage = "odr" => build = "odr"
    /\ copy[Setup] # None => copy[Setup].reg = stage
    /\ pc \in [Files -> {"closed", "open", "switch", "store"}]
    /\ sta \in [Files -> {LEDON, LEDOFF}]

Inv == PortInv /\ ControlInv

LEMMA Threads ==
  /\ Setup \in Thread /\ Neighbour \in Thread /\ Files \subseteq Thread
  /\ Setup # Neighbour
  /\ \A f \in Files : f # Setup /\ f # Neighbour
BY PortAssumption DEF Thread

LEMMA Levels == /\ 0 \in Level /\ 1 \in Level /\ Level \subseteq Field
                /\ Unset \in Field /\ Configured \in Field
BY DEF Level, On, Off, Field

LEMMA FirstRegister == Head(ConfOrder) \in ConfReg
BY PortAssumption DEF ConfReg

LEMMA NextRegister == ASSUME NEW r \in ConfReg PROVE AfterConf(r) \in ConfReg \cup {"bsrr"}
<1> DEFINE i == CHOOSE i \in DOMAIN ConfOrder : ConfOrder[i] = r
<1>1. i \in DOMAIN ConfOrder
  BY DEF ConfReg
<1> HIDE DEF i
<1>2. Len(ConfOrder) \in Nat /\ DOMAIN ConfOrder = 1..Len(ConfOrder)
  BY PortAssumption
<1>3. i = Len(ConfOrder) \/ i + 1 \in DOMAIN ConfOrder
  BY <1>1, <1>2
<1> QED BY <1>3 DEF AfterConf, ConfReg, i

LEMMA InitInv == Init => Inv
<1> SUFFICES ASSUME Init PROVE Inv
  OBVIOUS
<1>1. \A t \in Thread : copy[t] = None
  BY DEF Init
<1>2. port = asked /\ overlapped = {} /\ build \in Build
  BY DEF Init
<1>3. PortTyped
  <2>1. port \in [Register -> Word]
    BY Levels DEF Init, Word
  <2>2. \A p \in Pins : port["odr"][p] \in Level
    BY Levels DEF Init, Register
  <2> QED BY <2>1, <2>2, <1>2 DEF PortTyped
<1>4. CopiesTyped
  <2>1. copy \in [Thread -> Copies \cup {None}]
    BY DEF Init
  <2> QED BY <2>1, <1>1, Names DEF CopiesTyped, None
<1>5. PortInv
  BY <1>1, <1>2, <1>3, <1>4 DEF PortInv, OverlapsUnlocked, CopiesExact, PortExact
<1>6. ControlInv
  BY <1>1, Threads, FirstRegister, Names DEF Init, ControlInv, Register
<1> QED BY <1>5, <1>6 DEF Inv

\* The gpio library's init takes the lock, and the gpio build makes no copies.
LEMMA DirectionKeeps == ASSUME Inv, GpioDirectionOutput PROVE Inv'
<1> DEFINE moder == Head(ConfOrder)
<1>1. build = "gpio" /\ overlapped = {} /\ UNCHANGED <<build, copy, pc, sta, overlapped>>
      /\ stage' = "done"
  BY DEF Inv, PortInv, OverlapsUnlocked, Unlocked, GpioDirectionOutput
<1>2. ASSUME NEW t \in Thread PROVE copy[t] = None
  BY <1>1, Names DEF Inv, PortInv, CopiesTyped, MayCopy, GpioDirectionOutput
<1>3. port = asked
  BY <1>1 DEF Inv, PortInv, PortExact, PortTyped
<1>4. moder \in Register /\ moder # "odr" /\ "odr" \in Register /\ LedPin \in Pins
  BY FirstRegister, Names DEF Register, Pins
<1>5. port' = asked'
  BY <1>3 DEF GpioDirectionOutput
<1>6. PortTyped'
  <2>1. CASE UNCHANGED <<port, asked>>
    BY <2>1 DEF Inv, PortInv, PortTyped
  <2>2. CASE port' = [port EXCEPT !["odr"][LedPin] = 1, ![moder][LedPin] = Configured]
    <3> HIDE DEF moder
    <3>1. /\ [port["odr"] EXCEPT ![LedPin] = 1] \in Word
          /\ [port[moder] EXCEPT ![LedPin] = Configured] \in Word
      BY <1>4, Levels DEF Inv, PortInv, PortTyped, Word
    <3>2. port' = [port EXCEPT !["odr"] = [port["odr"] EXCEPT ![LedPin] = 1],
                               ![moder] = [port[moder] EXCEPT ![LedPin] = Configured]]
      BY <2>2, <1>4 DEF Inv, PortInv, PortTyped
    <3>3. port' \in [Register -> Word]
      BY <3>1, <3>2, <1>4 DEF Inv, PortInv, PortTyped
    <3>4. port'["odr"] = [port["odr"] EXCEPT ![LedPin] = 1]
      BY <3>2, <1>4 DEF Inv, PortInv, PortTyped
    <3>5. \A p \in Pins : port'["odr"][p] \in Level
      BY <3>4, <1>4, Levels DEF Inv, PortInv, PortTyped, Word
    <3> QED BY <3>3, <3>5, <1>5 DEF PortTyped
  <2> QED BY <2>1, <2>2 DEF GpioDirectionOutput
<1>7. PortInv'
  BY <1>1, <1>2, <1>5, <1>6 DEF Inv, PortInv, CopiesTyped, MayCopy, OverlapsUnlocked,
     Unlocked, CopiesExact, PortExact
<1>8. ControlInv'
  BY <1>1, <1>2, Threads DEF Inv, ControlInv
<1> QED BY <1>7, <1>8 DEF Inv

\* The copy of another thread leaves Setup's alone.
LEMMA SetupCopy ==
  ASSUME Inv, NEW t \in Thread, t # Setup,
         \E c : copy' = [copy EXCEPT ![t] = c]
  PROVE  copy'[Setup] = copy[Setup]
BY Threads DEF Inv, PortInv, CopiesTyped

LEMMA SetupKeeps ==
  ASSUME Inv, SetupLoads \/ ConfStores \/ DefaultOff \/ OdrStores \/ led_remove
  PROVE  Inv'
<1>1. CASE SetupLoads
  <2>1. PICK r \in Register : r = stage /\ Load(Setup, r)
    BY <1>1 DEF SetupLoads, Register
  <2>2. MayCopy(Setup, r) /\ UNCHANGED build
    BY <1>1, <2>1, Threads DEF SetupLoads, MayCopy, Inv, ControlInv
  <2>3. PortInv'
    BY <2>1, <2>2, Threads, LoadKeeps DEF Inv
  <2>4. copy'[Setup].reg = stage /\ UNCHANGED <<build, stage, pc, sta>>
    BY <1>1, <2>1, Threads DEF SetupLoads, Load, Inv, PortInv, CopiesTyped
  <2> QED BY <2>3, <2>4 DEF Inv, ControlInv
<1>2. CASE ConfStores
  <2>1. copy[Setup].reg = stage /\ stage # "odr"
    BY <1>2, Names DEF ConfStores, Store, Inv, ControlInv
  <2>2. PortInv'
    BY <1>2, <2>1, Threads, Levels, StoreKeeps DEF ConfStores, Inv
  <2>3. stage' \in ConfReg \cup {"bsrr"}
    <3>1. PICK r \in ConfReg : r = stage
      BY <1>2 DEF ConfStores
    <3> QED BY <1>2, <3>1, NextRegister DEF ConfStores
  <2>4. copy'[Setup] = None /\ UNCHANGED <<build, pc, sta>>
    BY <1>2, Threads DEF ConfStores, Store, Inv, PortInv, CopiesTyped
  <2> QED BY <2>2, <2>3, <2>4, Names DEF Inv, ControlInv
<1>3. CASE DefaultOff
  <2>1. PortInv'
    BY <1>3, Threads, Levels, WriteBsrrKeeps DEF DefaultOff, Inv
  <2>2. copy[Setup] = None
    <3>1. copy[Setup] # None => copy[Setup].reg \in Register
      BY Threads, Names DEF Inv, PortInv, CopiesTyped, Copies
    <3>2. "bsrr" \notin Register
      BY PortAssumption DEF Register
    <3> QED BY <1>3, <3>1, <3>2 DEF DefaultOff, Inv, ControlInv
  <2>3. copy' = copy /\ UNCHANGED <<build, pc, sta>>
    BY <1>3 DEF DefaultOff, WriteBsrr
  <2>4. stage' = IF build = "odr" THEN "odr" ELSE "done"
    BY <1>3 DEF DefaultOff
  <2> QED BY <2>1, <2>2, <2>3, <2>4 DEF Inv, ControlInv
<1>4. CASE OdrStores
  <2>1. PortInv'
    BY <1>4, Threads, Levels, StoreKeeps DEF OdrStores, OdrDefault, Inv
  <2>2. copy'[Setup] = None /\ stage' = "done" /\ UNCHANGED <<build, pc, sta>>
    BY <1>4, Threads DEF OdrStores, Store, Inv, PortInv, CopiesTyped
  <2> QED BY <2>1, <2>2 DEF Inv, ControlInv
<1>5. CASE led_remove
  <2>1. PortInv'
    BY <1>5, Threads, Levels, WriteBsrrKeeps DEF led_remove, Inv, Level
  <2>2. copy[Setup] = None
    BY <1>5, Threads, Names DEF led_remove, Inv, PortInv, CopiesTyped, MayCopy
  <2>3. copy' = copy /\ stage' = "gone" /\ UNCHANGED <<build, pc, sta>>
    BY <1>5 DEF led_remove, WriteBsrr
  <2> QED BY <2>1, <2>2, <2>3 DEF Inv, ControlInv
<1> QED BY <1>1, <1>2, <1>3, <1>4, <1>5

LEMMA FileKeeps ==
  ASSUME Inv, NEW f \in Files, led_open(f) \/ LedWrite(f) \/ led_release(f) PROVE Inv'
<1>0. f \in Thread /\ f # Setup /\ f # Neighbour
  BY Threads
<1>1. ASSUME UNCHANGED <<build, port, stage, copy, asked, overlapped>>,
             pc' \in [Files -> {"closed", "open", "switch", "store"}],
             sta' \in [Files -> {LEDON, LEDOFF}]
      PROVE  Inv'
  BY <1>1 DEF Inv, PortInv, ControlInv, PortTyped, CopiesTyped, MayCopy, OverlapsUnlocked,
     Unlocked, CopiesExact, PortExact
<1>2. CASE led_open(f) \/ led_release(f)
  BY <1>1, <1>2 DEF led_open, led_release, Move, Inv, ControlInv
<1>3. CASE WriteBegins(f)
  <2>1. sta' \in [Files -> {LEDON, LEDOFF}]
    <3>1. PICK ledstat \in Byte \ {OtherByte} : sta' = [sta EXCEPT ![f] = ledstat]
      BY <1>3 DEF WriteBegins, PlainDatabuf, Databuf, Byte
    <3> QED BY <3>1 DEF Inv, ControlInv, Byte
  <2> QED BY <1>1, <1>3, <2>1 DEF WriteBegins, Move, Inv, ControlInv
<1>4. CASE SwitchAtOnce(f)
  <2>1. PICK level \in Level : WriteBsrr(f, level)
    BY <1>4 DEF SwitchAtOnce, LevelFor, Level
  <2>2. PortInv'
    BY <1>0, <1>4, <2>1, WriteBsrrKeeps DEF SwitchAtOnce, Inv
  <2>3. copy' = copy
    BY <2>1 DEF WriteBsrr
  <2> QED BY <1>4, <2>2, <2>3 DEF SwitchAtOnce, Move, Inv, ControlInv
<1>5. CASE SwitchLoads(f)
  <2>1. MayCopy(f, "odr") /\ "odr" \in Register /\ Load(f, "odr")
    BY <1>0, <1>5 DEF SwitchLoads, MayCopy, Register
  <2>2. PortInv'
    BY <1>0, <1>5, <2>1, LoadKeeps DEF SwitchLoads, Inv
  <2>3. copy'[Setup] = copy[Setup]
    BY <1>0, <2>1, SetupCopy DEF Load
  <2> QED BY <1>5, <2>2, <2>3 DEF SwitchLoads, Move, Inv, ControlInv
<1>6. CASE SwitchStores(f)
  <2>1. PICK field \in Level : Store(f, field)
    BY <1>6, Levels DEF SwitchStores, OdrLevelFor
  <2>2. PortInv'
    BY <1>0, <1>6, <2>1, Levels, StoreKeeps DEF SwitchStores, Inv
  <2>3. copy'[Setup] = copy[Setup]
    BY <1>0, <2>1, SetupCopy DEF Store
  <2> QED BY <1>6, <2>2, <2>3 DEF SwitchStores, Move, Inv, ControlInv
<1> QED BY <1>2, <1>3, <1>4, <1>5, <1>6 DEF LedWrite

LEMMA NeighbourKeeps ==
  ASSUME Inv, NeighbourSets \/ NeighbourLoads \/ NeighbourStores PROVE Inv'
<1>1. CASE NeighbourSets
  <2>1. PICK level \in Level : WriteBsrr(Neighbour, level)
    BY <1>1 DEF NeighbourSets
  <2>2. PortInv'
    BY <1>1, <2>1, Threads, WriteBsrrKeeps DEF NeighbourSets, Inv
  <2>3. copy' = copy
    BY <2>1 DEF WriteBsrr
  <2> QED BY <1>1, <2>2, <2>3 DEF NeighbourSets, Inv, ControlInv
<1>2. CASE NeighbourLoads
  <2>1. PICK r \in ConfReg : Load(Neighbour, r)
    BY <1>2 DEF NeighbourLoads
  <2>2. MayCopy(Neighbour, r) /\ r \in Register
    BY DEF MayCopy, Register
  <2>3. PortInv'
    BY <1>2, <2>1, <2>2, Threads, LoadKeeps DEF NeighbourLoads, Inv
  <2>4. copy'[Setup] = copy[Setup]
    BY <2>1, Threads, SetupCopy DEF Load
  <2> QED BY <1>2, <2>3, <2>4 DEF NeighbourLoads, Inv, ControlInv
<1>3. CASE NeighbourStores
  <2>1. PICK field \in {Unset, Configured} : Store(Neighbour, field)
    BY <1>3 DEF NeighbourStores
  <2>2. copy[Neighbour].reg # "odr"
    BY <2>1, Threads, Names DEF Store, Inv, PortInv, CopiesTyped, MayCopy
  <2>3. PortInv'
    BY <1>3, <2>1, <2>2, Threads, Levels, StoreKeeps DEF NeighbourStores, Inv
  <2>4. copy'[Setup] = copy[Setup]
    BY <2>1, Threads, SetupCopy DEF Store
  <2> QED BY <1>3, <2>3, <2>4 DEF NeighbourStores, Inv, ControlInv
<1> QED BY <1>1, <1>2, <1>3

LEMMA StepInv == Inv /\ [Next]_vars => Inv'
<1> SUFFICES ASSUME Inv, [Next]_vars PROVE Inv'
  OBVIOUS
<1>1. CASE driver_init \/ led_remove
  BY <1>1, SetupKeeps, DirectionKeeps DEF driver_init
<1>2. ASSUME NEW f \in Files, led_open(f) \/ LedWrite(f) \/ led_release(f) PROVE Inv'
  BY <1>2, FileKeeps
<1>3. CASE NeighbourSets \/ NeighbourLoads \/ NeighbourStores
  BY <1>3, NeighbourKeeps
<1>4. CASE UNCHANGED vars
  BY <1>4 DEF vars, Inv, PortInv, ControlInv, PortTyped, CopiesTyped, MayCopy,
     OverlapsUnlocked, Unlocked, CopiesExact, PortExact
<1> QED BY <1>1, <1>2, <1>3, <1>4 DEF Next

LEMMA Invariance == Spec => []Inv
BY InitInv, StepInv, PTL DEF Spec

-----------------------------------------------------------------------------
(***************************************************************************)
(* The registers keep their fields: no configuration value ever reaches    *)
(* the output register, through whichever copy of whichever thread.        *)
(***************************************************************************)
THEOREM TypeCorrect == Spec => []TypeOK
<1>1. Inv => TypeOK
  <2> SUFFICES ASSUME Inv PROVE TypeOK
    OBVIOUS
  <2>1. overlapped \subseteq Register
    BY DEF Inv, PortInv, OverlapsUnlocked, Unlocked, Build, Register
  <2> QED BY <2>1 DEF Inv, PortInv, PortTyped, CopiesTyped, ControlInv, TypeOK
<1> QED BY <1>1, Invariance, PTL

(***************************************************************************)
(* A driver that goes through the gpio library disturbs no other pin's     *)
(* field, one that writes BSRR none of the outputs, and any other          *)
(* disturbance needs a write that met a copy.                              *)
(***************************************************************************)
THEOREM OtherPinsKept == Spec => []PortKept
<1>1. Inv => PortKept
  BY DEF Inv, PortInv, PortExact, OverlapsUnlocked, PortKept
<1> QED BY <1>1, Invariance, PTL
=============================================================================
