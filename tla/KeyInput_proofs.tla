--------------------------- MODULE KeyInput_proofs ---------------------------
(***************************************************************************)
(* What the input key keeps true whatever the contact does, for any number *)
(* of edges.  Debouncing by masking leaves one of handler, timer and       *)
(* callback on its way at a time; Exclusive says so, and is what makes the *)
(* mask's depth inductive.                                                 *)
(***************************************************************************)
EXTENDS KeyInput, SequenceTheorems, TLAPS

\* At most one of the three is on its way to enable the interrupt again.
Exclusive ==
    /\ isr = "arm" => ~timer /\ cb = "idle"
    /\ timer => cb = "idle"

Inv == TypeOK /\ Exclusive /\ MaskedWhileOwed /\ EdgeNotForgotten

-----------------------------------------------------------------------------
LEMMA InitInv == Init => Inv
<1> SUFFICES ASSUME Init PROVE Inv
  OBVIOUS
<1>1. TypeOK
  <2>1. events \in Seq(EventValue)
    BY DEF Init
  <2>2. edges \in 0..MaxEdges
    BY MaxEdgesAssumption, SMT DEF Init
  <2>3. irq \in BOOLEAN /\ timer \in BOOLEAN
    BY Zenon DEF Init
  <2> QED BY <2>1, <2>2, <2>3 DEF Init, TypeOK, Level
<1>2. Exclusive /\ MaskedWhileOwed /\ EdgeNotForgotten
  BY DEF Init, Exclusive, MaskedWhileOwed, EdgeNotForgotten, Untouched, Told
<1> QED BY <1>1, <1>2 DEF Inv

LEMMA StepInv == Inv /\ [Next]_vars => Inv'
<1> SUFFICES ASSUME Inv, [Next]_vars PROVE Inv'
  OBVIOUS
<1> USE DEF Inv, TypeOK, Exclusive, MaskedWhileOwed, EdgeNotForgotten, Untouched, Told, Down, Level, EventValue, Repeated
<1>1. CASE Edge
  BY <1>1, MaxEdgesAssumption DEF Edge, driverVars, inputVars
<1>2. CASE DisableSelf
  <2>1. depth' = 1
    BY <1>2 DEF DisableSelf
  <2>2. isr' = "arm" /\ ~timer' /\ cb' = "idle"
    BY <1>2 DEF DisableSelf
  <2>3. irq' \in BOOLEAN /\ ~irq' /\ timer' = timer
    BY <1>2, Zenon DEF DisableSelf
  <2> QED BY <1>2, <2>1, <2>2, <2>3 DEF DisableSelf, inputVars
<1>3. CASE ArmTimer
  BY <1>3 DEF ArmTimer, lineVars, inputVars
<1>4. CASE TimerExpires
  BY <1>4 DEF TimerExpires, lineVars, inputVars
<1>5. CASE Sample
  BY <1>5 DEF Sample, SampledLevel, lineVars, inputVars
<1>6. CASE Report
  BY <1>6 DEF Report, lineVars
<1>7. CASE Enable
  BY <1>7 DEF Enable, DepthAfterEnable, lineVars, inputVars
<1>8. CASE AutoRepeat
  BY <1>8 DEF AutoRepeat, lineVars, driverVars
<1>9. CASE ReadEvent
  BY <1>9 DEF ReadEvent, lineVars, driverVars
<1>10. CASE UNCHANGED vars
  BY <1>10 DEF vars, lineVars, driverVars, inputVars
<1> QED
  BY <1>1, <1>2, <1>3, <1>4, <1>5, <1>6, <1>7, <1>8, <1>9, <1>10
  DEF Next, key_interrupt, key_timer_function

LEMMA Invariance == Spec => []Inv
BY InitInv, StepInv, PTL DEF Spec

-----------------------------------------------------------------------------
\* The key driver's and the input core's state keep their types.
THEOREM TypeCorrect == Spec => []TypeOK
<1>1. Inv => TypeOK
  BY DEF Inv
<1> QED BY <1>1, Invariance, PTL

\* disable_irq_nosync and enable_irq pair up, whatever interleaves.
THEOREM MaskPaired == Spec => []MaskedWhileOwed
<1>1. Inv => MaskedWhileOwed
  BY DEF Inv
<1> QED BY <1>1, Invariance, PTL

\* No move of the key is lost behind the mask.
THEOREM EdgesNoticed == Spec => []EdgeNotForgotten
<1>1. Inv => EdgeNotForgotten
  BY DEF Inv
<1> QED BY <1>1, Invariance, PTL

-----------------------------------------------------------------------------
(***************************************************************************)
(* What the application will have printed once it has read the events that *)
(* wait: a repeat is shown as the press it repeats.                        *)
(***************************************************************************)
Shown(value) == IF value = 0 THEN 0 ELSE 1

EventsEndInKey ==
    key0 = IF events = <<>> THEN shown ELSE Shown(events[Len(events)])

\* An appended event is the last one.
LEMMA AppendedIsLast ==
    ASSUME NEW value \in EventValue, events \in Seq(EventValue)
    PROVE  LET longer == Append(events, value)
           IN  longer # <<>> /\ longer[Len(longer)] = value
BY DEF EventValue, Repeated

\* Reading leaves the last event in its place, unless it reads that one.
LEMMA ReadKeepsLast ==
    ASSUME events \in Seq(EventValue), events # <<>>
    PROVE  IF Tail(events) = <<>>
           THEN Head(events) = events[Len(events)]
           ELSE Tail(events)[Len(Tail(events))] = events[Len(events)]
<1> DEFINE rest == Tail(events)
<1>1. Len(events) \in Nat \ {0}
  BY EmptySeq
<1>2. /\ rest \in Seq(EventValue)
      /\ Len(rest) = Len(events) - 1
      /\ \A i \in 1..Len(rest) : rest[i] = events[i + 1]
  BY HeadTailProperties
<1> HIDE DEF rest
<1>3. CASE Len(events) = 1
  <2>1. rest = <<>>
    BY <1>2, <1>3, EmptySeq
  <2>2. Head(events) = events[Len(events)]
    BY <1>3
  <2> QED BY <2>1, <2>2 DEF rest
<1>4. CASE Len(events) # 1
  <2>1. rest # <<>>
    BY <1>1, <1>2, <1>4, EmptySeq
  <2>2. rest[Len(rest)] = events[Len(events)]
    BY <1>1, <1>2, <1>4
  <2> QED BY <2>1, <2>2 DEF rest
<1> QED BY <1>3, <1>4

LEMMA EventsKept == Inv /\ EventsEndInKey /\ [Next]_vars => EventsEndInKey'
<1> SUFFICES ASSUME Inv, EventsEndInKey, [Next]_vars PROVE EventsEndInKey'
  OBVIOUS
<1> USE DEF EventsEndInKey, Shown
<1>1. events \in Seq(EventValue) /\ key0 \in {0, 1} /\ val \in {0, 1}
  BY DEF Inv, TypeOK, Level
<1>2. CASE Report
  <2>1. key0' = Down /\ Down \in {0, 1} /\ Down \in EventValue /\ shown' = shown
    BY <1>2 DEF Report, Down, EventValue
  <2>2. CASE Down = key0
    BY <1>2, <2>1, <2>2 DEF Report
  <2>3. CASE Down # key0
    <3>1. events' = Append(events, Down)
      BY <1>2, <2>3 DEF Report
    <3>2. events' # <<>> /\ events'[Len(events')] = Down
      BY <1>1, <2>1, <3>1, AppendedIsLast
    <3> QED BY <2>1, <3>2
  <2> QED BY <2>2, <2>3
<1>3. CASE AutoRepeat
  <2>1. key0 = 1 /\ key0' = key0 /\ events' = Append(events, Repeated)
    BY <1>3 DEF AutoRepeat
  <2>2. events' # <<>> /\ events'[Len(events')] = Repeated
    BY <1>1, <2>1, AppendedIsLast DEF EventValue
  <2> QED BY <2>1, <2>2 DEF Repeated
<1>4. CASE ReadEvent
  <2>1. /\ events # <<>> /\ events' = Tail(events) /\ key0' = key0
        /\ shown' = Shown(Head(events))
    BY <1>4 DEF ReadEvent
  <2>2. IF events' = <<>>
        THEN Head(events) = events[Len(events)]
        ELSE events'[Len(events')] = events[Len(events)]
    BY <1>1, <2>1, ReadKeepsLast
  <2> QED BY <2>1, <2>2
<1>5. CASE UNCHANGED inputVars
  BY <1>5 DEF inputVars
<1> QED
  BY <1>2, <1>3, <1>4, <1>5
  DEF Next, key_interrupt, key_timer_function, Edge, DisableSelf, ArmTimer,
      TimerExpires, Sample, Enable, vars

(***************************************************************************)
(* The safety half of ReportSettles: in every state in which nobody has a  *)
(* step to take, the application has printed what the input core says, the *)
(* interrupt is on, and the core agrees with the pin, unless the key has   *)
(* not moved since the probe, which does not read it.                      *)
(***************************************************************************)
AtRest == ~irq /\ isr = "idle" /\ ~timer /\ cb = "idle" /\ events = <<>>

SettledAtRest ==
    AtRest => depth = 0 /\ shown = key0 /\ (Untouched \/ key0 = 1 - pin)

THEOREM ReportedAtRest == Spec => []SettledAtRest
<1>1. Init => EventsEndInKey
  BY DEF Init, EventsEndInKey
<1>2. Inv /\ EventsEndInKey => SettledAtRest
  BY DEF Inv, EventsEndInKey, SettledAtRest, AtRest, MaskedWhileOwed,
         EdgeNotForgotten, Untouched, Told
<1> QED BY <1>1, <1>2, EventsKept, Invariance, PTL DEF Spec
=============================================================================
