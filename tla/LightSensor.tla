---------------------------- MODULE LightSensor ----------------------------
(***************************************************************************)
(* The light sensor (i2c/ap3216c.c) as far as a process gets with it: its  *)
(* open resets the sensor and is to activate it.  What its read would make *)
(* of the sensor's bytes is in SensorWords.                                *)
(***************************************************************************)
EXTENDS SharedFields

VARIABLES
    mode,                  \* the sensor's system register
    sent                   \* ghost: the last open's transfers all went through

Fields == {"ir", "als", "ps"}
Mode == {"down", "reset", "active"}

EIO == 5

Init == mode = "down" /\ sent = FALSE

\* ap3216c_write_reg returns -EIO whether the transfer goes through or not.
ap3216c_write_reg(through) == -EIO

ModeAfter(through, before, written) == IF through THEN written ELSE before

\* Reset, and when that succeeds, activate; each transfer may fail.
ap3216c_open(r) ==
    /\ at[r] = "closed"
    /\ \E first, second \in BOOLEAN :
          LET resets == ap3216c_write_reg(first)
              activates == ap3216c_write_reg(second)
              down == ModeAfter(first, mode, "reset")
          IN  IF resets < 0
              THEN mode' = down /\ sent' = first /\ UNCHANGED at
              ELSE /\ mode' = ModeAfter(second, down, "active")
                   /\ sent' = (first /\ second)
                   /\ at' = IF activates < 0 THEN at ELSE [at EXCEPT ![r] = "idle"]
    /\ UNCHANGED <<dev, done, word, out, saw, seen>>

Next == \E r \in Readers : ap3216c_open(r)

(***************************************************************************)
(* What the comments of ap3216c_open announce: after an open whose         *)
(* transfers all went through, "ALS and PS + IR function active".          *)
(***************************************************************************)
Activated == sent => mode = "active"
=============================================================================
