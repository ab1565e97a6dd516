---------------------------- MODULE SharedFields ----------------------------
(***************************************************************************)
(* What the read calls of key, icm20608 and ap3216c have in common: an     *)
(* observation is put into fields of the device structure, one after the   *)
(* other, and then taken from these fields into a buffer for the user,     *)
(* without a lock.  Several processes may be reading at once.              *)
(***************************************************************************)
EXTENDS Integers, Sequences

CONSTANT Readers           \* the processes that may open the device

\* Stands for an observation that failed: no word of sixteen bits.
NoReading == 65536

VARIABLES
    dev,                   \* the fields of the device structure
    at,                    \* control point of each reader
    done,                  \* the fields it has put, or taken, so far
    word,                  \* what it has observed in this call
    out,                   \* its buffer: the fields taken
    saw,                   \* ghost: what the hardware showed it in this call, or NoReading
    seen                   \* ghost: what it showed to the calls that overlap its own

fieldVars == <<dev, at, done, word, out, saw, seen>>

\* A read call is under way.
InCall(r) == at[r] \notin {"closed", "idle"}

\* Its observation is made and may yet reach a field.
Putting(r) == at[r] = "put"

\* The structures are zeroed memory.
FieldsInit(fields) ==
    /\ dev = [f \in fields |-> 0]
    /\ at = [r \in Readers |-> "closed"]
    /\ done = [r \in Readers |-> 0]
    /\ word = [r \in Readers |-> 0]
    /\ out = [r \in Readers |-> [f \in fields |-> 0]]
    /\ saw = [r \in Readers |-> 0]
    /\ seen = [r \in Readers |-> {}]

\* read(2) enters the driver, at the control point next.
Enter(r, next) ==
    /\ at[r] = "idle"
    /\ at' = [at EXCEPT ![r] = next]
    /\ seen' = [seen EXCEPT ![r] = {saw[s] : s \in {s \in Readers : Putting(s)}}]
    /\ UNCHANGED <<dev, done, word, out, saw>>

\* The call makes w of what the hardware shows, truth, or makes it of nothing.
Observe(r, from, w, truth) ==
    /\ at[r] = from
    /\ at' = [at EXCEPT ![r] = "put"]
    /\ done' = [done EXCEPT ![r] = 0]
    /\ word' = [word EXCEPT ![r] = w]
    /\ saw' = [saw EXCEPT ![r] = truth]
    /\ seen' = [s \in Readers |-> IF InCall(s) THEN seen[s] \cup {truth} ELSE seen[s]]
    /\ UNCHANGED <<dev, out>>

\* mutant: the observation stops one field short
LastButOne(i, order) == i + 1 >= Len(order)

LastPut(i, order) == i = Len(order)

Put(r, order) ==
    /\ at[r] = "put"
    /\ LET i == done[r] + 1 IN
          /\ dev' = [dev EXCEPT ![order[i]] = word[r]]
          /\ done' = [done EXCEPT ![r] = IF LastPut(i, order) THEN 0 ELSE i]
          /\ at' = [at EXCEPT ![r] = IF LastPut(i, order) THEN "take" ELSE "put"]
    /\ UNCHANGED <<word, out, saw, seen>>

Take(r, order) ==
    /\ at[r] = "take"
    /\ LET i == done[r] + 1 IN
          /\ out' = [out EXCEPT ![r][order[i]] = dev[order[i]]]
          /\ done' = [done EXCEPT ![r] = IF i = Len(order) THEN 0 ELSE i]
          /\ at' = [at EXCEPT ![r] = IF i = Len(order) THEN "copy" ELSE "take"]
    /\ UNCHANGED <<dev, word, saw, seen>>

\* copy_to_user ends the call, and its locals are gone.
CopyToUser(r) ==
    /\ at[r] = "copy"
    /\ at' = [at EXCEPT ![r] = "idle"]
    /\ word' = [word EXCEPT ![r] = 0]
    /\ out' = [out EXCEPT ![r] = [f \in DOMAIN @ |-> 0]]
    /\ saw' = [saw EXCEPT ![r] = 0]
    /\ seen' = [seen EXCEPT ![r] = {}]
    /\ UNCHANGED <<dev, done>>

\* Where an observation failed there may be any word, an old one too.
Explains(observed, w) == w \in observed \/ NoReading \in observed

(***************************************************************************)
(* What a read gives its caller was observed during the call, or by a call *)
(* that overlaps it: it is never left over from a call that had ended      *)
(* before, unless the observation of one of these calls failed.  So the    *)
(* word that a failed call makes up does not outlive the calls that        *)
(* overlap it.  With no other call at the same time and none failed, the   *)
(* fields are all of this call's one observation.                          *)
(***************************************************************************)
DeliveredIsOverlapping ==
    \A r \in Readers :
        at[r] = "copy" => \A f \in DOMAIN out[r] : Explains(seen[r], out[r][f])
=============================================================================
