---------------------------- MODULE SharedReads ----------------------------
(***************************************************************************)
(* The three drivers whose read goes through fields of the device that all *)
(* its readers share: key, icm20608 and ap3216c.  They are devices of      *)
(* their own; a behaviour is about one of them.                            *)
(***************************************************************************)
EXTENDS SharedFields, SensorWords

CONSTANTS Readings, Stack  \* of MotionSensor

ASSUME SensorAssumption ==
    /\ Readings \subseteq Signed16 /\ Readings # {}
    /\ Stack \subseteq Bytes \X Bytes

VARIABLES
    driver,                \* the driver the readers use
    pin, gpio,             \* of key
    reading,               \* of icm20608
    mode, sent             \* of ap3216c

Key == INSTANCE KeyPoll
Motion == INSTANCE MotionSensor
Light == INSTANCE LightSensor

keyVars == <<pin, gpio>>
lightVars == <<mode, sent>>
vars == <<driver, fieldVars, keyVars, reading, lightVars>>

Driver == {"key", "icm20608", "ap3216c"}

FieldsOf(name) ==
    CASE name = "key"      -> Key!Fields
      [] name = "icm20608" -> Motion!Fields
      [] name = "ap3216c"  -> Light!Fields

Init ==
    /\ driver \in Driver
    /\ FieldsInit(FieldsOf(driver))
    /\ Key!Init /\ Motion!Init /\ Light!Init

KeyRuns == driver = "key" /\ UNCHANGED <<driver, reading, lightVars>>
MotionRuns == driver = "icm20608" /\ UNCHANGED <<driver, keyVars, lightVars>>
LightRuns == driver = "ap3216c" /\ UNCHANGED <<driver, keyVars, reading>>

Next ==
    \/ KeyRuns /\ Key!Next
    \/ MotionRuns /\ Motion!Next
    \/ LightRuns /\ Light!Next

Spec == Init /\ [][Next]_vars

-----------------------------------------------------------------------------
Point == {"closed", "idle", "look", "spin", "transfer", "put", "take", "copy"}

TypeOK ==
    /\ driver \in Driver
    /\ dev \in [FieldsOf(driver) -> Signed16]
    /\ at \in [Readers -> Point]
    /\ done \in [Readers -> Nat]
    /\ word \in [Readers -> Signed16]
    /\ out \in [Readers -> [FieldsOf(driver) -> Signed16]]
    /\ saw \in [Readers -> Signed16 \cup {NoReading}]
    /\ seen \in [Readers -> SUBSET (Signed16 \cup {NoReading})]
    /\ pin \in {0, 1} /\ gpio \in BOOLEAN
    /\ reading \in Readings
    /\ mode \in Light!Mode /\ sent \in BOOLEAN

\* Each read delivers what was observed while it ran; see SharedFields.
DeliveredFromOverlap == DeliveredIsOverlapping

(***************************************************************************)
(* What the sources say and the code does not do: ap3216c.c:162, "ALS and  *)
(* PS + IR function active", which ap3216cAPP.c relies on when it reads.   *)
(***************************************************************************)
LightSensorActivated == driver = "ap3216c" => Light!Activated
=============================================================================
