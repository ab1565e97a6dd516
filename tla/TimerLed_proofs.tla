--------------------------- MODULE TimerLed_proofs ---------------------------
(***************************************************************************)
(* What timer keeps true for any files and periods.  The gpio request      *)
(* excludes two files from the ioctls (OneFileHasGpio); an ioctl counts    *)
(* from the call to the release (LastWhileOpen); and a release that still  *)
(* has to stop the timer has marked every file that came after it          *)
(* (LateReleaseNoted).                                                     *)
(***************************************************************************)
EXTENDS TimerLed, TLAPS

LastWhileOpen == \A f \in Files : last[f] # "none" => pc[f] \in {"open", "stop"}

LateReleaseNoted ==
    \A f, g \in Files :
       pc[f] \in {"direction", "open", "stop"} /\ pc[g] = "del" => overlapped[f]

Quiet == timer = NotArmed /\ cb = "idle"

Inv ==
    /\ TypeOK
    /\ OneFileHasGpio
    /\ LastWhileOpen
    /\ LateReleaseNoted
    /\ NoTimerWithoutFile
    /\ ClosedStaysQuiet
    /\ StartedKeepsBlinking

-----------------------------------------------------------------------------
(***************************************************************************)
(* Types                                                                   *)
(***************************************************************************)
LEMMA InitType == Init => TypeOK
<1> SUFFICES ASSUME Init PROVE TypeOK
  OBVIOUS
<1>1. gpio \in BOOLEAN /\ overlapped \in [Files -> BOOLEAN]
  <2>1. gpio \in BOOLEAN
    BY Zenon DEF Init
  <2>2. overlapped \in [Files -> BOOLEAN]
    BY DEF Init
  <2> QED BY <2>1, <2>2
<1> QED BY <1>1 DEF Init, TypeOK, Point, Command, AnyPeriod, On, Off

LEMMA StepType == TypeOK /\ [Next]_vars => TypeOK'
<1> SUFFICES ASSUME TypeOK, [Next]_vars PROVE TypeOK'
  OBVIOUS
<1>1. CASE Expire
  BY <1>1 DEF Expire, TypeOK
<1>2. CASE Toggle
  <2>1. sta' \in {On, Off}
    BY <1>2 DEF Toggle, Switched, TypeOK, On, Off
  <2> QED BY <1>2, <2>1 DEF Toggle, TypeOK
<1>3. CASE Rearm
  BY <1>3 DEF Rearm, NextExpiry, TypeOK
<1>4. ASSUME NEW f \in Files, OpenRequests(f) PROVE TypeOK'
  <2>1. gpio' \in BOOLEAN
    BY <1>4, Zenon DEF OpenRequests
  <2>2. overlapped' \in [Files -> BOOLEAN]
    <3>1. (\E g \in Files : pc[g] = "del") \in BOOLEAN
      OBVIOUS
    <3> QED BY <1>4, <3>1, Zenon DEF OpenRequests, TypeOK
  <2> QED BY <1>4, <2>1, <2>2 DEF OpenRequests, Goto, TypeOK, Point, AnyPeriod
<1>5. ASSUME NEW f \in Files, OpenBusy(f) \/ OpenSucceeds(f) PROVE TypeOK'
  BY <1>5 DEF OpenBusy, OpenSucceeds, Goto, TypeOK, Point, AnyPeriod
<1>6. ASSUME NEW f \in Files, OpenFails(f) PROVE TypeOK'
  BY <1>6 DEF OpenFails, Goto, TypeOK, Point
<1>7. ASSUME NEW f \in Files, OpenCmd(f) \/ CloseCmd(f) \/ CloseCmdReturns(f) PROVE TypeOK'
  BY <1>7 DEF OpenCmd, CloseCmd, CloseCmdReturns, DelTimerSync, Goto, TypeOK, Point, Command
<1>8. ASSUME NEW f \in Files, NEW arg \in Periods, SetPeriodCmd(f, arg) PROVE TypeOK'
  BY <1>8 DEF SetPeriodCmd, TypeOK, Command, AnyPeriod
<1>9. ASSUME NEW f \in Files, ReleaseSets(f) PROVE TypeOK'
  BY <1>9 DEF ReleaseSets, Goto, TypeOK, Point, Command, AnyPeriod
<1>10. ASSUME NEW f \in Files, ReleaseFrees(f) PROVE TypeOK'
  <2>1. gpio' \in BOOLEAN
    BY <1>10, Zenon DEF ReleaseFrees
  <2> QED BY <1>10, <2>1 DEF ReleaseFrees, Goto, TypeOK, Point
<1>11. ASSUME NEW f \in Files, ReleaseStops(f) PROVE TypeOK'
  BY <1>11 DEF ReleaseStops, DelTimerSync, Goto, TypeOK, Point
<1>12. CASE UNCHANGED vars
  BY <1>12 DEF vars, TypeOK
<1> QED
  BY <1>1, <1>2, <1>3, <1>4, <1>5, <1>6, <1>7, <1>8, <1>9, <1>10, <1>11, <1>12
  DEF Next, timer_function, timer_open, timer_unlocked_ioctl, led_release

-----------------------------------------------------------------------------
LEMMA InitInv == Init => Inv
<1> SUFFICES ASSUME Init PROVE Inv
  OBVIOUS
<1>1. TypeOK
  BY InitType
<1>2. /\ \A f \in Files : pc[f] = "closed" /\ last[f] = "none"
      /\ Quiet
  BY DEF Init, Quiet
<1> QED
  BY <1>1, <1>2 DEF Inv, OneFileHasGpio, HasGpio, LastWhileOpen, LateReleaseNoted, Quiet,
     NoTimerWithoutFile, ClosedStaysQuiet, StartedKeepsBlinking

\* The properties of the timer, together.
TimerInv == NoTimerWithoutFile /\ ClosedStaysQuiet /\ StartedKeepsBlinking

\* What the properties of the timer rest on.
FilesInv == OneFileHasGpio /\ LastWhileOpen /\ LateReleaseNoted

LEMMA StepFiles == Inv /\ [Next]_vars => FilesInv'
<1> SUFFICES ASSUME Inv, [Next]_vars PROVE FilesInv'
  OBVIOUS
<1> USE DEF FilesInv, OneFileHasGpio, HasGpio, LastWhileOpen, LateReleaseNoted
<1>0. TypeOK /\ FilesInv
  BY DEF Inv
<1>1. CASE Expire \/ timer_function
  BY <1>0, <1>1 DEF Expire, timer_function, Toggle, Rearm
<1>2. ASSUME NEW f \in Files, OpenRequests(f) PROVE FilesInv'
  <2>1. \A g \in Files : pc'[g] = IF g = f THEN "direction" ELSE pc[g]
    BY <1>0, <1>2 DEF OpenRequests, Goto, TypeOK
  <2>2. \A g \in Files : ~ HasGpio(g)
    BY <1>0, <1>2 DEF OpenRequests, GpioFree
  <2>3. OneFileHasGpio'
    BY <2>1, <2>2, <1>2 DEF OpenRequests
  <2>4. LastWhileOpen'
    BY <2>1, <1>0, <1>2 DEF OpenRequests
  <2>5. LateReleaseNoted'
    <3> SUFFICES ASSUME NEW h \in Files, NEW g \in Files,
                        pc'[h] \in {"direction", "open", "stop"}, pc'[g] = "del"
                 PROVE  overlapped'[h]
      OBVIOUS
    <3>1. h = f /\ pc[g] = "del"
      BY <2>1, <2>2
    <3> QED BY <3>1, <1>0, <1>2 DEF OpenRequests, TypeOK
  <2> QED BY <2>3, <2>4, <2>5
<1>3. ASSUME NEW f \in Files, OpenBusy(f) PROVE FilesInv'
  BY <1>0, <1>3 DEF OpenBusy
<1>4. ASSUME NEW f \in Files, OpenSucceeds(f) PROVE FilesInv'
  BY <1>0, <1>4 DEF OpenSucceeds, Goto, TypeOK
<1>5. ASSUME NEW f \in Files, OpenFails(f) PROVE FilesInv'
  BY <1>0, <1>5 DEF OpenFails, Goto, TypeOK
<1>6. ASSUME NEW f \in Files, OpenCmd(f) \/ (\E arg \in Periods : SetPeriodCmd(f, arg))
      PROVE  FilesInv'
  BY <1>0, <1>6 DEF OpenCmd, SetPeriodCmd, TypeOK
<1>7. ASSUME NEW f \in Files, CloseCmd(f) PROVE FilesInv'
  BY <1>0, <1>7 DEF CloseCmd, Goto, TypeOK
<1>8. ASSUME NEW f \in Files, CloseCmdReturns(f) PROVE FilesInv'
  BY <1>0, <1>8 DEF CloseCmdReturns, Goto, TypeOK
<1>9. ASSUME NEW f \in Files, ReleaseSets(f) PROVE FilesInv'
  BY <1>0, <1>9 DEF ReleaseSets, Goto, TypeOK
<1>10. ASSUME NEW f \in Files, ReleaseFrees(f) PROVE FilesInv'
  BY <1>0, <1>10 DEF ReleaseFrees, Goto, TypeOK
<1>11. ASSUME NEW f \in Files, ReleaseStops(f) PROVE FilesInv'
  BY <1>0, <1>11 DEF ReleaseStops, Goto, TypeOK
<1>12. CASE UNCHANGED vars
  BY <1>0, <1>12 DEF vars
<1> QED
  BY <1>1, <1>2, <1>3, <1>4, <1>5, <1>6, <1>7, <1>8, <1>9, <1>10, <1>11, <1>12
  DEF Next, timer_open, timer_unlocked_ioctl, led_release

LEMMA StepTimer == Inv /\ [Next]_vars => TimerInv'
<1> SUFFICES ASSUME Inv, [Next]_vars PROVE TimerInv'
  OBVIOUS
<1> USE DEF TimerInv, NoTimerWithoutFile, ClosedStaysQuiet, StartedKeepsBlinking
<1>0. TypeOK /\ TimerInv /\ FilesInv
  BY DEF Inv, FilesInv
<1>p. NotArmed \notin AnyPeriod
  BY PeriodsAssumption DEF AnyPeriod
<1>1. CASE Expire \/ timer_function
  BY <1>0, <1>1, <1>p DEF Expire, timer_function, Toggle, Rearm, NextExpiry, TypeOK
<1>2. ASSUME NEW f \in Files, OpenRequests(f) PROVE TimerInv'
  <2>1. \A g \in Files : /\ pc'[g] = IF g = f THEN "direction" ELSE pc[g]
                         /\ g # f => overlapped'[g] = overlapped[g]
    BY <1>0, <1>2 DEF OpenRequests, Goto, TypeOK
  <2> QED BY <2>1, <1>0, <1>2 DEF OpenRequests
<1>3. ASSUME NEW f \in Files, OpenBusy(f) PROVE TimerInv'
  BY <1>0, <1>3 DEF OpenBusy
<1>4. ASSUME NEW f \in Files, OpenSucceeds(f) PROVE TimerInv'
  BY <1>0, <1>4 DEF OpenSucceeds, Goto, TypeOK, FilesInv, LastWhileOpen
<1>5. ASSUME NEW f \in Files, OpenFails(f) PROVE TimerInv'
  BY <1>0, <1>5 DEF OpenFails, Goto, TypeOK
<1>6. ASSUME NEW f \in Files, OpenCmd(f) \/ (\E arg \in Periods : SetPeriodCmd(f, arg))
      PROVE  TimerInv'
  <2>1. timer' # NotArmed /\ pc[f] = "open" /\ UNCHANGED <<pc, cb, overlapped>>
    BY <1>6, <1>0, <1>p DEF OpenCmd, SetPeriodCmd, TypeOK, AnyPeriod
  <2>2. \A g \in Files : g # f => pc[g] # "open" /\ last'[g] = last[g]
    BY <1>6, <1>0, <2>1 DEF OpenCmd, SetPeriodCmd, TypeOK, FilesInv, OneFileHasGpio, HasGpio
  <2>3. last'[f] # "CLOSE_CMD"
    BY <1>6, <1>0 DEF OpenCmd, SetPeriodCmd, TypeOK
  <2> QED BY <2>1, <2>2, <2>3
<1>7. ASSUME NEW f \in Files, CloseCmd(f) PROVE TimerInv'
  BY <1>0, <1>7 DEF CloseCmd, Goto, TypeOK
<1>8. ASSUME NEW f \in Files, CloseCmdReturns(f) PROVE TimerInv'
  <2>1. timer' = NotArmed /\ cb' = "idle" /\ pc[f] = "stop" /\ UNCHANGED overlapped
    BY <1>8 DEF CloseCmdReturns, DelTimerSync, CallbackDone
  <2>2. /\ pc' = [pc EXCEPT ![f] = "open"]
        /\ last' = [last EXCEPT ![f] = "CLOSE_CMD"]
    BY <1>8 DEF CloseCmdReturns, Goto
  <2>3. \A g \in Files : g # f => pc'[g] # "open"
    BY <2>1, <2>2, <1>0 DEF TypeOK, FilesInv, OneFileHasGpio, HasGpio
  <2>4. last'[f] = "CLOSE_CMD"
    BY <2>2, <1>0 DEF TypeOK
  <2> QED BY <2>1, <2>3, <2>4
<1>9. ASSUME NEW f \in Files, ReleaseSets(f) PROVE TimerInv'
  <2>1. \A g \in Files : /\ pc'[g] = IF g = f THEN "free" ELSE pc[g]
                         /\ g # f => last'[g] = last[g] /\ overlapped'[g] = overlapped[g]
    BY <1>0, <1>9 DEF ReleaseSets, Goto, TypeOK
  <2> QED BY <2>1, <1>0, <1>9 DEF ReleaseSets
<1>10. ASSUME NEW f \in Files, ReleaseFrees(f) PROVE TimerInv'
  <2>1. \A g \in Files : pc'[g] = IF g = f THEN "del" ELSE pc[g]
    BY <1>0, <1>10 DEF ReleaseFrees, Goto, TypeOK
  <2> QED BY <2>1, <1>0, <1>10 DEF ReleaseFrees
<1>11. ASSUME NEW f \in Files, ReleaseStops(f) PROVE TimerInv'
  <2>1. timer' = NotArmed /\ cb' = "idle" /\ pc[f] = "del" /\ UNCHANGED <<last, overlapped>>
    BY <1>11 DEF ReleaseStops, DelTimerSync, CallbackDone
  <2>2. \A g \in Files : pc'[g] = IF g = f THEN "closed" ELSE pc[g]
    BY <1>0, <1>11 DEF ReleaseStops, Goto, TypeOK
  <2>3. \A g \in Files : pc'[g] = "open" => overlapped[g]
    BY <2>1, <2>2, <1>0 DEF FilesInv, LateReleaseNoted
  <2> QED BY <2>1, <2>3
<1>12. CASE UNCHANGED vars
  BY <1>0, <1>12 DEF vars
<1> QED
  BY <1>1, <1>2, <1>3, <1>4, <1>5, <1>6, <1>7, <1>8, <1>9, <1>10, <1>11, <1>12
  DEF Next, timer_open, timer_unlocked_ioctl, led_release

LEMMA StepInv == Inv /\ [Next]_vars => Inv'
BY StepType, StepFiles, StepTimer DEF Inv, FilesInv, TimerInv

LEMMA Invariance == Spec => []Inv
BY InitInv, StepInv, PTL DEF Spec

-----------------------------------------------------------------------------
\* The timer driver's state keeps its type.
THEOREM TypeCorrect == Spec => []TypeOK
<1>1. Inv => TypeOK
  BY DEF Inv
<1> QED BY <1>1, Invariance, PTL

\* gpio_request makes the device exclusive, for any number of files.
THEOREM GpioExclusive == Spec => []OneFileHasGpio
<1>1. Inv => OneFileHasGpio
  BY DEF Inv
<1> QED BY <1>1, Invariance, PTL

\* When every release has returned, the self-arming timer is off.
THEOREM TimerEndsWithFiles == Spec => []NoTimerWithoutFile
<1>1. Inv => NoTimerWithoutFile
  BY DEF Inv
<1> QED BY <1>1, Invariance, PTL

\* After CLOSE_CMD nothing toggles the LED.
THEOREM CloseSticks == Spec => []ClosedStaysQuiet
<1>1. Inv => ClosedStaysQuiet
  BY DEF Inv
<1> QED BY <1>1, Invariance, PTL

\* A started LED blinks on, unless an earlier file's release was still to end.
THEOREM StartSticks == Spec => []StartedKeepsBlinking
<1>1. Inv => StartedKeepsBlinking
  BY DEF Inv
<1> QED BY <1>1, Invariance, PTL
=============================================================================
