-------------------------- MODULE SharedReads_proofs --------------------------
(***************************************************************************)
(* What the reads of key, icm20608 and ap3216c keep true for any set of    *)
(* readers and any readings, and that every word and count is decoded to   *)
(* what was measured.  Kept is the inductive invariant of a driver that    *)
(* puts and takes the fields in the orders put and take; the lemmas say    *)
(* that each step of SharedFields keeps it, and the theorems apply them to *)
(* the drivers.                                                            *)
(***************************************************************************)
EXTENDS SharedReads, TLAPS

-----------------------------------------------------------------------------
(***************************************************************************)
(* The byte conversions give back what the sensors sent.                   *)
(***************************************************************************)

\* The upper half of sixteen bits is where the high byte has its top bit.
LEMMA HighBit ==
  ASSUME NEW u \in Int, 32768 <= u, u <= 65535
  PROVE  u \div 256 >= 128 /\ u = 256 * (u \div 256) + (u % 256)
BY SMT

(***************************************************************************)
(* icm20608_readdata's (signed short)((data[0] << 8) | data[1]) is the     *)
(* word the sensor measured, for every word of sixteen bits: a negative    *)
(* one takes the branch of the cast.                                       *)
(***************************************************************************)
THEOREM WordsRoundTrip == WordsDecoded(Signed16)
<1> SUFFICES ASSUME NEW w \in Signed16 PROVE ToSigned16(HighByte(w), LowByte(w)) = w
  BY DEF WordsDecoded
<1>0. w \in Int /\ -32768 <= w /\ w <= 32767
  BY SMT DEF Signed16
<1>1. CASE w < 0
  <2> DEFINE u == w + 65536
  <2>1. u \in Int /\ 32768 <= u /\ u <= 65535
    BY <1>0, <1>1, SMT
  <2>2. HighByte(w) = u \div 256 /\ LowByte(w) = u % 256
    BY <1>1 DEF HighByte, LowByte
  <2>3. u = 256 * (u \div 256) + (u % 256) /\ u \div 256 >= 128
    <3> HIDE DEF u
    <3> QED BY <2>1, HighBit
  <2>4. ToSigned16(HighByte(w), LowByte(w)) = u - 65536
    <3> HIDE DEF u
    <3> QED BY <2>1, <2>2, <2>3, SMT DEF ToSigned16
  <2> QED BY <2>4, <1>0, SMT
<1>2. CASE w >= 0
  BY <1>2, SMT DEF ToSigned16, HighByte, LowByte, Signed16
<1> QED BY <1>0, <1>1, <1>2

(***************************************************************************)
(* ap3216c_readdata's ir, als and ps are the counts the sensor measured,   *)
(* and an overflowed infrared or proximity count is read as 0.             *)
(***************************************************************************)
THEOREM CountsRoundTrip ==
  ASSUME NEW counts \in SUBSET (0..1023), NEW lights \in SUBSET Nat
  PROVE  CountsDecoded(counts, lights)
<1>1. ASSUME NEW c \in counts, NEW overflow \in BOOLEAN
      PROVE /\ ir(IrLow(c, overflow), IrHigh(c)) = IF overflow THEN 0 ELSE c
            /\ ps(PsLow(c, overflow), PsHigh(c)) = IF overflow THEN 0 ELSE c
  <2>0. c \in 0..1023
    OBVIOUS
  <2>1. ir(IrLow(c, overflow), IrHigh(c)) = IF overflow THEN 0 ELSE c
    BY <2>0, SMT DEF ir, IrLow, IrHigh
  <2>2. ps(PsLow(c, overflow), PsHigh(c)) = IF overflow THEN 0 ELSE c
    BY <2>0, SMT DEF ps, PsLow, PsHigh
  <2> QED BY <2>1, <2>2
<1>2. ASSUME NEW c \in lights PROVE als(c % 256, c \div 256) = c
  <2>1. c \in Nat
    OBVIOUS
  <2> QED BY <2>1, SMT DEF als
<1> QED BY <1>1, <1>2, Zenon DEF CountsDecoded

-----------------------------------------------------------------------------
(***************************************************************************)
(* Reads through shared fields                                             *)
(***************************************************************************)

\* The orders name fields only, and put names all of them.
Orders(fields, put, take) ==
    /\ put \in Seq(fields) /\ take \in Seq(fields)
    /\ Len(put) > 0 /\ Len(take) > 0
    /\ \A f \in fields : \E j \in 1..Len(put) : put[j] = f
    /\ \A f \in fields : \E j \in 1..Len(take) : take[j] = f

Observation == Signed16 \cup {NoReading}

FieldsTyped(fields) ==
    /\ dev \in [fields -> Signed16]
    /\ at \in [Readers -> Point]
    /\ done \in [Readers -> Nat]
    /\ word \in [Readers -> Signed16]
    /\ out \in [Readers -> [fields -> Signed16]]
    /\ saw \in [Readers -> Observation]
    /\ seen \in [Readers -> SUBSET Observation]

\* How far a reader is with its order.
Progress(put, take) ==
    \A r \in Readers :
       /\ at[r] = "put" => done[r] + 1 \in 1..Len(put)
       /\ at[r] = "take" => done[r] + 1 \in 1..Len(take)

\* What may still be put is what was seen, or made of nothing, and what was
\* seen, or that nothing was, is in the seen of every call under way.
PuttersSeen ==
    \A s \in Readers : at[s] = "put" =>
       /\ saw[s] \in {word[s], NoReading}
       /\ \A r \in Readers : InCall(r) => saw[s] \in seen[r]

\* What a reader has put is still its own, or of an overlapping call, and
\* so is what it will take and what it has taken.
FieldsSeen(fields, put, take) ==
    \A r \in Readers :
       /\ at[r] = "put" => \A j \in 1..done[r] : Explains(seen[r], dev[put[j]])
       /\ at[r] = "take" =>
             /\ \A f \in fields : Explains(seen[r], dev[f])
             /\ \A j \in 1..done[r] : Explains(seen[r], out[r][take[j]])
       /\ at[r] = "copy" => \A f \in fields : Explains(seen[r], out[r][f])

Kept(fields, put, take) ==
    /\ FieldsTyped(fields)
    /\ Progress(put, take)
    /\ PuttersSeen
    /\ FieldsSeen(fields, put, take)

-----------------------------------------------------------------------------
LEMMA InitKept ==
  ASSUME NEW fields, NEW put, NEW take, FieldsInit(fields)
  PROVE  Kept(fields, put, take)
<1>1. 0 \in Signed16 /\ 0 \in Observation
  BY SMT DEF Signed16, Observation
<1>2. FieldsTyped(fields)
  BY <1>1 DEF FieldsInit, FieldsTyped, Point
<1>3. \A r \in Readers : at[r] = "closed"
  BY DEF FieldsInit
<1> QED BY <1>2, <1>3 DEF Kept, Progress, PuttersSeen, FieldsSeen

\* A step between two points where the reader neither puts nor takes.
LEMMA GotoKeeps ==
  ASSUME NEW fields, NEW put, NEW take, Kept(fields, put, take),
         NEW r \in Readers, NEW to \in {"closed", "idle", "look", "spin"},
         at' = [at EXCEPT ![r] = to],
         to \in {"look", "spin"} => InCall(r),
         UNCHANGED <<dev, done, word, out, saw, seen>>
  PROVE  Kept(fields, put, take)'
<1>1. FieldsTyped(fields)'
  BY DEF Kept, FieldsTyped, Point
<1>2. \A s \in Readers : at'[s] = IF s = r THEN to ELSE at[s]
  BY DEF Kept, FieldsTyped
<1>3. Progress(put, take)'
  BY <1>2 DEF Kept, Progress
<1>4. PuttersSeen'
  BY <1>2 DEF Kept, PuttersSeen, InCall
<1>5. FieldsSeen(fields, put, take)'
  BY <1>2 DEF Kept, FieldsSeen
<1> QED BY <1>1, <1>3, <1>4, <1>5 DEF Kept

LEMMA EnterKeeps ==
  ASSUME NEW fields, NEW put, NEW take, Kept(fields, put, take),
         NEW r \in Readers, NEW next \in {"look", "transfer"}, Enter(r, next)
  PROVE  Kept(fields, put, take)'
<1>1. \A s \in Readers : at'[s] = IF s = r THEN next ELSE at[s]
  BY DEF Kept, FieldsTyped, Enter
<1>2. \A s \in Readers : s # r => seen'[s] = seen[s]
  BY DEF Kept, FieldsTyped, Enter
<1>3. seen'[r] = {saw[s] : s \in {s \in Readers : at[s] = "put"}}
  BY DEF Kept, FieldsTyped, Enter, Putting
<1>4. FieldsTyped(fields)'
  <2>1. seen'[r] \in SUBSET Observation
    BY <1>3 DEF Kept, FieldsTyped
  <2> QED BY <2>1 DEF Kept, FieldsTyped, Enter, Point
<1>5. Progress(put, take)'
  BY <1>1 DEF Kept, Progress, Enter
<1>6. PuttersSeen'
  <2> SUFFICES ASSUME NEW s \in Readers, at'[s] = "put"
               PROVE  /\ saw'[s] \in {word'[s], NoReading}
                      /\ \A t \in Readers : InCall(t)' => saw'[s] \in seen'[t]
    BY DEF PuttersSeen
  <2>1. at[s] = "put" /\ s # r /\ word'[s] = word[s] /\ saw'[s] = saw[s]
    BY <1>1 DEF Enter
  <2>2. saw[s] \in seen'[r]
    BY <2>1, <1>3
  <2>3. ASSUME NEW t \in Readers, t # r, InCall(t)' PROVE saw[s] \in seen'[t]
    BY <2>1, <2>3, <1>1, <1>2 DEF Kept, PuttersSeen, InCall
  <2> QED BY <2>1, <2>2, <2>3 DEF Kept, PuttersSeen
<1>7. FieldsSeen(fields, put, take)'
  BY <1>1, <1>2 DEF Kept, FieldsSeen, Enter
<1> QED BY <1>4, <1>5, <1>6, <1>7 DEF Kept

LEMMA ObserveKeeps ==
  ASSUME NEW fields, NEW put, NEW take, Kept(fields, put, take),
         Orders(fields, put, take), NEW r \in Readers,
         NEW from \in {"look", "spin", "transfer"},
         NEW w \in Signed16, NEW truth \in {w, NoReading},
         Observe(r, from, w, truth)
  PROVE  Kept(fields, put, take)'
<1>1. \A s \in Readers : at'[s] = IF s = r THEN "put" ELSE at[s]
  BY DEF Kept, FieldsTyped, Observe
<1>2. \A s \in Readers : /\ done'[s] = IF s = r THEN 0 ELSE done[s]
                         /\ word'[s] = IF s = r THEN w ELSE word[s]
                         /\ saw'[s] = IF s = r THEN truth ELSE saw[s]
  BY DEF Kept, FieldsTyped, Observe
<1>3. \A s \in Readers : seen'[s] = IF InCall(s) THEN seen[s] \cup {truth} ELSE seen[s]
  BY DEF Observe
<1>4. FieldsTyped(fields)'
  <2>1. truth \in Observation
    BY DEF Observation
  <2>2. seen' \in [Readers -> SUBSET Observation]
    BY <2>1 DEF Kept, FieldsTyped, Observe
  <2> QED BY <2>1, <2>2 DEF Kept, FieldsTyped, Observe, Point
<1>5. Progress(put, take)'
  <2>1. Len(put) \in Nat /\ Len(put) > 0
    BY DEF Orders
  <2>2. ASSUME NEW s \in Readers
        PROVE  /\ at'[s] = "put" => done'[s] + 1 \in 1..Len(put)
               /\ at'[s] = "take" => done'[s] + 1 \in 1..Len(take)
    <3>1. CASE s = r
      BY <3>1, <2>1, <1>1, <1>2
    <3>2. CASE s # r
      BY <3>2, <1>1, <1>2 DEF Kept, Progress
    <3> QED BY <3>1, <3>2
  <2> QED BY <2>2, Zenon DEF Progress
<1>6. \A s \in Readers : InCall(s)' <=> InCall(s)
  BY <1>1 DEF InCall, Observe
<1>7. PuttersSeen'
  <2> SUFFICES ASSUME NEW s \in Readers, at'[s] = "put"
               PROVE  /\ saw'[s] \in {word'[s], NoReading}
                      /\ \A t \in Readers : InCall(t)' => saw'[s] \in seen'[t]
    BY DEF PuttersSeen
  <2>1. CASE s = r
    BY <2>1, <1>2, <1>3, <1>6
  <2>2. CASE s # r
    BY <2>2, <1>1, <1>2, <1>3, <1>6 DEF Kept, PuttersSeen
  <2> QED BY <2>1, <2>2
<1>8. FieldsSeen(fields, put, take)'
  <2> SUFFICES ASSUME NEW s \in Readers
               PROVE  /\ at'[s] = "put" => \A j \in 1..done'[s] : Explains(seen'[s], dev'[put[j]])
                      /\ at'[s] = "take" =>
                            /\ \A f \in fields : Explains(seen'[s], dev'[f])
                            /\ \A j \in 1..done'[s] : Explains(seen'[s], out'[s][take[j]])
                      /\ at'[s] = "copy" => \A f \in fields : Explains(seen'[s], out'[s][f])
    BY Zenon DEF FieldsSeen
  <2>1. CASE s = r
    BY <2>1, <1>1, <1>2
  <2>2. CASE s # r
    <3>1. \A v : Explains(seen[s], v) => Explains(seen'[s], v)
      BY <1>3 DEF Explains
    <3>2. at'[s] = at[s] /\ done'[s] = done[s] /\ dev' = dev /\ out' = out
      BY <2>2, <1>1, <1>2 DEF Observe
    <3> QED BY <3>1, <3>2 DEF Kept, FieldsSeen
  <2> QED BY <2>1, <2>2
<1> QED BY <1>4, <1>5, <1>7, <1>8 DEF Kept

LEMMA PutKeeps ==
  ASSUME NEW fields, NEW put, NEW take, Kept(fields, put, take),
         Orders(fields, put, take), NEW r \in Readers, Put(r, put)
  PROVE  Kept(fields, put, take)'
<1> DEFINE i == done[r] + 1
<1>0. /\ i \in 1..Len(put) /\ Len(put) \in Nat /\ Len(take) \in Nat /\ Len(take) > 0
      /\ done[r] \in Nat
      /\ put[i] \in fields
  <2>1. Len(put) \in Nat /\ Len(take) \in Nat /\ Len(take) > 0
    <3>1. Len(put) \in Nat
      BY DEF Orders
    <3>2. Len(take) \in Nat
      BY DEF Orders
    <3> QED BY <3>1, <3>2 DEF Orders
  <2>2. i \in 1..Len(put) /\ done[r] \in Nat
    BY DEF Kept, Progress, Put, FieldsTyped
  <2>3. put[i] \in fields
    <3> HIDE DEF i
    <3> QED BY <2>2 DEF Orders
  <2> QED BY <2>1, <2>2, <2>3
<1>1. /\ dev' = [dev EXCEPT ![put[i]] = word[r]]
      /\ done' = [done EXCEPT ![r] = IF i = Len(put) THEN 0 ELSE i]
      /\ at' = [at EXCEPT ![r] = IF i = Len(put) THEN "take" ELSE "put"]
      /\ UNCHANGED <<word, out, saw, seen>> /\ at[r] = "put"
  BY DEF Put, LastPut
<1> HIDE DEF i
<1>2. \A s \in Readers :
         /\ at'[s] = IF s = r THEN IF i = Len(put) THEN "take" ELSE "put" ELSE at[s]
         /\ done'[s] = IF s = r THEN IF i = Len(put) THEN 0 ELSE i ELSE done[s]
  BY <1>1 DEF Kept, FieldsTyped
<1>3. \A f \in fields : dev'[f] = IF f = put[i] THEN word[r] ELSE dev[f]
  BY <1>1 DEF Kept, FieldsTyped
<1>4. FieldsTyped(fields)'
  BY <1>0, <1>1 DEF Kept, FieldsTyped, Point
<1>5. Progress(put, take)'
  <2>1. ASSUME NEW s \in Readers
        PROVE  /\ at'[s] = "put" => done'[s] + 1 \in 1..Len(put)
               /\ at'[s] = "take" => done'[s] + 1 \in 1..Len(take)
    <3>1. CASE s = r
      BY <3>1, <1>0, <1>2
    <3>2. CASE s # r
      BY <3>2, <1>2 DEF Kept, Progress
    <3> QED BY <3>1, <3>2
  <2> QED BY <2>1, Zenon DEF Progress
<1>6. PuttersSeen'
  BY <1>1, <1>2 DEF Kept, PuttersSeen, InCall
<1>7. \A s \in Readers : InCall(s) => Explains(seen[s], word[r])
  BY <1>1 DEF Kept, PuttersSeen, Explains
<1>8. \A j \in 1..Len(put) : put[j] \in fields
  BY DEF Orders
<1>9. FieldsSeen(fields, put, take)'
  <2> SUFFICES ASSUME NEW s \in Readers
               PROVE  /\ at'[s] = "put" => \A j \in 1..done'[s] : Explains(seen'[s], dev'[put[j]])
                      /\ at'[s] = "take" =>
                            /\ \A f \in fields : Explains(seen'[s], dev'[f])
                            /\ \A j \in 1..done'[s] : Explains(seen'[s], out'[s][take[j]])
                      /\ at'[s] = "copy" => \A f \in fields : Explains(seen'[s], out'[s][f])
    BY Zenon DEF FieldsSeen
  <2>0. seen'[s] = seen[s] /\ out'[s] = out[s]
    BY <1>1
  <2>1. CASE s = r
    <3>1. ASSUME NEW j \in 1..i PROVE Explains(seen[r], dev'[put[j]])
      <4>1. j \in 1..Len(put) /\ put[j] \in fields
        BY <1>0, <1>8
      <4>2. CASE put[j] = put[i]
        BY <4>1, <4>2, <1>1, <1>3, <1>7 DEF InCall
      <4>3. CASE put[j] # put[i]
        <5>1. j \in 1..done[r]
          BY <4>3, <1>0 DEF i
        <5> QED BY <5>1, <4>1, <4>3, <1>1, <1>3 DEF Kept, FieldsSeen
      <4> QED BY <4>2, <4>3
    <3>2. CASE i = Len(put)
      <4>1. \A f \in fields : Explains(seen[r], dev'[f])
        BY <3>1, <3>2 DEF Orders
      <4>2. at'[s] = "take" /\ done'[s] = 0
        BY <2>1, <3>2, <1>2
      <4> QED BY <4>1, <4>2, <2>0, <2>1
    <3>3. CASE i # Len(put)
      BY <3>1, <3>3, <2>0, <2>1, <1>2
    <3> QED BY <3>2, <3>3
  <2>2. CASE s # r
    <3>1. at'[s] = at[s] /\ done'[s] = done[s]
      BY <2>2, <1>2
    <3>2. ASSUME at[s] = "put", NEW j \in 1..done[s] PROVE Explains(seen[s], dev'[put[j]])
      <4>1. put[j] \in fields
        <5>1. done[s] + 1 \in 1..Len(put) /\ done[s] \in Nat
          BY <3>2 DEF Kept, Progress, FieldsTyped
        <5>2. j \in 1..Len(put)
          BY <5>1, <1>0
        <5> QED BY <5>2, <1>8
      <4> QED BY <3>2, <4>1, <1>3, <1>7 DEF Kept, FieldsSeen, InCall
    <3>3. ASSUME at[s] = "take", NEW f \in fields PROVE Explains(seen[s], dev'[f])
      BY <3>3, <1>3, <1>7 DEF Kept, FieldsSeen, InCall
    <3> QED BY <3>1, <3>2, <3>3, <2>0 DEF Kept, FieldsSeen
  <2> QED BY <2>1, <2>2
<1> QED BY <1>4, <1>5, <1>6, <1>9 DEF Kept

LEMMA TakeKeeps ==
  ASSUME NEW fields, NEW put, NEW take, Kept(fields, put, take),
         Orders(fields, put, take), NEW r \in Readers, Take(r, take)
  PROVE  Kept(fields, put, take)'
<1> DEFINE i == done[r] + 1
<1>0. /\ i \in 1..Len(take) /\ Len(take) \in Nat /\ done[r] \in Nat
      /\ take[i] \in fields
  <2>1. Len(take) \in Nat
    BY DEF Orders
  <2>2. i \in 1..Len(take) /\ done[r] \in Nat
    BY DEF Kept, Progress, Take, FieldsTyped
  <2>3. take[i] \in fields
    <3> HIDE DEF i
    <3> QED BY <2>2 DEF Orders
  <2> QED BY <2>1, <2>2, <2>3
<1>1. /\ out' = [out EXCEPT ![r][take[i]] = dev[take[i]]]
      /\ done' = [done EXCEPT ![r] = IF i = Len(take) THEN 0 ELSE i]
      /\ at' = [at EXCEPT ![r] = IF i = Len(take) THEN "copy" ELSE "take"]
      /\ UNCHANGED <<dev, word, saw, seen>> /\ at[r] = "take"
  BY DEF Take
<1> HIDE DEF i
<1>2. \A s \in Readers :
         /\ at'[s] = IF s = r THEN IF i = Len(take) THEN "copy" ELSE "take" ELSE at[s]
         /\ done'[s] = IF s = r THEN IF i = Len(take) THEN 0 ELSE i ELSE done[s]
         /\ s # r => out'[s] = out[s]
  BY <1>1 DEF Kept, FieldsTyped
<1>3. \A f \in fields : out'[r][f] = IF f = take[i] THEN dev[f] ELSE out[r][f]
  BY <1>1 DEF Kept, FieldsTyped
<1>4. FieldsTyped(fields)'
  BY <1>0, <1>1 DEF Kept, FieldsTyped, Point
<1>5. Progress(put, take)'
  <2>1. ASSUME NEW s \in Readers
        PROVE  /\ at'[s] = "put" => done'[s] + 1 \in 1..Len(put)
               /\ at'[s] = "take" => done'[s] + 1 \in 1..Len(take)
    <3>1. CASE s = r
      BY <3>1, <1>0, <1>2
    <3>2. CASE s # r
      BY <3>2, <1>2 DEF Kept, Progress
    <3> QED BY <3>1, <3>2
  <2> QED BY <2>1, Zenon DEF Progress
<1>6. PuttersSeen'
  BY <1>1, <1>2 DEF Kept, PuttersSeen, InCall
<1>8. \A j \in 1..Len(take) : take[j] \in fields
  BY DEF Orders
<1>9. FieldsSeen(fields, put, take)'
  <2> SUFFICES ASSUME NEW s \in Readers
               PROVE  /\ at'[s] = "put" => \A j \in 1..done'[s] : Explains(seen'[s], dev'[put[j]])
                      /\ at'[s] = "take" =>
                            /\ \A f \in fields : Explains(seen'[s], dev'[f])
                            /\ \A j \in 1..done'[s] : Explains(seen'[s], out'[s][take[j]])
                      /\ at'[s] = "copy" => \A f \in fields : Explains(seen'[s], out'[s][f])
    BY Zenon DEF FieldsSeen
  <2>0. seen'[s] = seen[s] /\ dev' = dev
    BY <1>1
  <2>1. CASE s = r
    <3>1. ASSUME NEW j \in 1..i PROVE Explains(seen[r], out'[r][take[j]])
      <4>1. j \in 1..Len(take) /\ take[j] \in fields
        BY <1>0, <1>8
      <4>2. CASE take[j] = take[i]
        BY <4>1, <4>2, <1>1, <1>3 DEF Kept, FieldsSeen
      <4>3. CASE take[j] # take[i]
        <5>1. j \in 1..done[r]
          BY <4>3, <1>0 DEF i
        <5> QED BY <5>1, <4>1, <4>3, <1>1, <1>3 DEF Kept, FieldsSeen
      <4> QED BY <4>2, <4>3
    <3>2. CASE i = Len(take)
      <4>1. \A f \in fields : Explains(seen[r], out'[r][f])
        BY <3>1, <3>2 DEF Orders
      <4>2. at'[s] = "copy"
        BY <2>1, <3>2, <1>2
      <4> QED BY <4>1, <4>2, <2>0, <2>1
    <3>3. CASE i # Len(take)
      <4>1. at'[s] = "take" /\ done'[s] = i
        BY <2>1, <3>3, <1>2
      <4>2. \A f \in fields : Explains(seen[r], dev'[f])
        BY <1>1 DEF Kept, FieldsSeen
      <4> QED BY <3>1, <4>1, <4>2, <2>0, <2>1
    <3> QED BY <3>2, <3>3
  <2>2. CASE s # r
    BY <2>2, <2>0, <1>2 DEF Kept, FieldsSeen
  <2> QED BY <2>1, <2>2
<1> QED BY <1>4, <1>5, <1>6, <1>9 DEF Kept

LEMMA CopyKeeps ==
  ASSUME NEW fields, NEW put, NEW take, Kept(fields, put, take),
         NEW r \in Readers, CopyToUser(r)
  PROVE  Kept(fields, put, take)'
<1>0. 0 \in Signed16 /\ 0 \in Observation
  BY SMT DEF Signed16, Observation
<1>1. \A s \in Readers : at'[s] = IF s = r THEN "idle" ELSE at[s]
  BY DEF Kept, FieldsTyped, CopyToUser
<1>2. \A s \in Readers : s # r =>
         word'[s] = word[s] /\ saw'[s] = saw[s] /\ seen'[s] = seen[s] /\ out'[s] = out[s]
  BY DEF Kept, FieldsTyped, CopyToUser
<1>3. FieldsTyped(fields)'
  <2>1. out' \in [Readers -> [fields -> Signed16]]
    <3>1. DOMAIN out[r] = fields
      BY DEF Kept, FieldsTyped
    <3> QED BY <3>1, <1>0 DEF Kept, FieldsTyped, CopyToUser
  <2>2. /\ dev' \in [fields -> Signed16] /\ at' \in [Readers -> Point]
        /\ done' \in [Readers -> Nat] /\ word' \in [Readers -> Signed16]
        /\ saw' \in [Readers -> Observation] /\ seen' \in [Readers -> SUBSET Observation]
    BY <1>0 DEF Kept, FieldsTyped, CopyToUser, Point
  <2> QED BY <2>1, <2>2 DEF FieldsTyped
<1>4. Progress(put, take)'
  BY <1>1 DEF Kept, Progress, CopyToUser
<1>5. PuttersSeen'
  BY <1>1, <1>2 DEF Kept, PuttersSeen, InCall
<1>6. FieldsSeen(fields, put, take)'
  BY <1>1, <1>2 DEF Kept, FieldsSeen, CopyToUser
<1> QED BY <1>3, <1>4, <1>5, <1>6 DEF Kept

-----------------------------------------------------------------------------
\* Whatever two bytes are taken for a word, the word has sixteen bits.
LEMMA WordOfBytes ==
  ASSUME NEW high \in Bytes, NEW low \in Bytes PROVE ToSigned16(high, low) \in Signed16
<1>1. high \in Int /\ low \in Int /\ 0 <= high /\ high <= 255 /\ 0 <= low /\ low <= 255
  BY SMT DEF Bytes
<1> DEFINE w == ToSigned16(high, low)
<1>2. w \in Int /\ -32768 <= w /\ w <= 32767
  <2>1. CASE high >= 128
    <3>1. w = 256 * high + low - 65536
      BY <2>1, <1>1, SMT DEF ToSigned16
    <3> HIDE DEF w
    <3> QED BY <3>1, <1>1, <2>1, SMT
  <2>2. CASE ~ (high >= 128)
    <3>1. w = 256 * high + low
      BY <2>2, <1>1, SMT DEF ToSigned16
    <3> HIDE DEF w
    <3> QED BY <3>1, <1>1, <2>2, SMT
  <2> QED BY <2>1, <2>2
<1> HIDE DEF w
<1>3. w \in Signed16
  BY <1>2, SMT DEF Signed16
<1> QED BY <1>3 DEF w

KeyKept == Kept(Key!Fields, Key!Order, Key!Order)
MotionKept == Kept(Motion!Fields, Motion!PutOrder, Motion!TakeOrder)

LEMMA KeyOrders == Orders(Key!Fields, Key!Order, Key!Order)
BY DEF Orders, Key!Fields, Key!Order

LEMMA MotionOrders == Orders(Motion!Fields, Motion!PutOrder, Motion!TakeOrder)
BY DEF Orders, Motion!Fields, Motion!PutOrder, Motion!TakeOrder

LEMMA KeyKeeps == ASSUME KeyKept, Key!Next PROVE KeyKept'
<1>1. CASE Key!Move
  BY <1>1 DEF Key!Move, Key!fieldVars, KeyKept, Kept, FieldsTyped, Progress, PuttersSeen,
     FieldsSeen, InCall
<1>2. ASSUME NEW r \in Readers, NEW to \in {"closed", "idle", "look", "spin"},
             NEW from, Key!Goto(r, from, to), to \in {"look", "spin"} => from = "look"
      PROVE  KeyKept'
  <2>1. /\ at' = [at EXCEPT ![r] = to]
        /\ to \in {"look", "spin"} => InCall(r)
        /\ UNCHANGED <<dev, done, word, out, saw, seen>>
    BY <1>2 DEF Key!Goto, InCall
  <2> QED BY <2>1, GotoKeeps DEF KeyKept
<1>3. ASSUME NEW r \in Readers, Key!key_open(r) \/ Key!Close(r) \/ Key!LooksPressed(r)
      PROVE  KeyKept'
  BY <1>2, <1>3 DEF Key!key_open, Key!Close, Key!LooksPressed
<1>4. ASSUME NEW r \in Readers, NEW child \in Readers, Key!Fork(r, child) PROVE KeyKept'
  BY <1>2, <1>4 DEF Key!Fork
<1>5. ASSUME NEW r \in Readers, Key!ReadStart(r) PROVE KeyKept'
  <2>1. Enter(r, "look")
    BY <1>5 DEF Key!ReadStart, Key!Enter, Enter, Key!Putting, Putting
  <2> QED BY <2>1, EnterKeeps DEF KeyKept
<1>6. ASSUME NEW r \in Readers, Key!LooksReleased(r) PROVE KeyKept'
  <2>1. Observe(r, "look", 0, 0) /\ 0 \in Signed16
    BY <1>6 DEF Key!LooksReleased, Key!Observe, Observe, Key!InCall, InCall, Key!INVAKEY,
       Signed16
  <2> QED BY <2>1, ObserveKeeps, KeyOrders DEF KeyKept
<1>7. ASSUME NEW r \in Readers, Key!SpinEnds(r) PROVE KeyKept'
  <2>1. Observe(r, "spin", 240, 240) /\ 240 \in Signed16
    BY <1>7 DEF Key!SpinEnds, Key!Observe, Observe, Key!InCall, InCall, Key!KEY0VALUE,
       Signed16
  <2> QED BY <2>1, ObserveKeeps, KeyOrders DEF KeyKept
<1>8. ASSUME NEW r \in Readers, Key!SetGetCopy(r) PROVE KeyKept'
  <2>1. CASE Key!Put(r, Key!Order)
    <3>1. Put(r, Key!Order)
      BY <2>1 DEF Key!Put, Put, Key!LastPut, LastPut
    <3> QED BY <3>1, PutKeeps, KeyOrders DEF KeyKept
  <2>2. CASE Key!Take(r, Key!Order)
    <3>1. Take(r, Key!Order)
      BY <2>2 DEF Key!Take, Take
    <3> QED BY <3>1, TakeKeeps, KeyOrders DEF KeyKept
  <2>3. CASE Key!CopyToUser(r)
    <3>1. CopyToUser(r)
      BY <2>3 DEF Key!CopyToUser, CopyToUser
    <3> QED BY <3>1, CopyKeeps DEF KeyKept
  <2> QED BY <1>8, <2>1, <2>2, <2>3 DEF Key!SetGetCopy
<1> QED
  BY <1>1, <1>3, <1>4, <1>5, <1>6, <1>7, <1>8 DEF Key!Next, Key!key_read

LEMMA MotionKeeps ==
  ASSUME MotionKept, reading \in Readings, Motion!Next PROVE MotionKept'
<1>1. CASE Motion!Measure
  BY <1>1 DEF Motion!Measure, Motion!fieldVars, MotionKept, Kept, FieldsTyped, Progress,
     PuttersSeen, FieldsSeen, InCall
<1>2. ASSUME NEW r \in Readers, Motion!icm20608_open(r) \/ Motion!icm20608_release(r)
      PROVE  MotionKept'
  <2>1. PICK to \in {"closed", "idle"} : at' = [at EXCEPT ![r] = to]
    BY <1>2 DEF Motion!icm20608_open, Motion!icm20608_release, Motion!Goto
  <2>2. UNCHANGED <<dev, done, word, out, saw, seen>>
    BY <1>2 DEF Motion!icm20608_open, Motion!icm20608_release, Motion!Goto
  <2> QED BY <2>1, <2>2, GotoKeeps DEF MotionKept
<1>3. ASSUME NEW r \in Readers, Motion!ReadStart(r) PROVE MotionKept'
  <2>1. Enter(r, "transfer")
    BY <1>3 DEF Motion!ReadStart, Motion!Enter, Enter, Motion!Putting, Putting
  <2> QED BY <2>1, EnterKeeps DEF MotionKept
<1>4. ASSUME NEW r \in Readers, NEW w \in Signed16, NEW truth \in {w, NoReading},
             Motion!Observe(r, "transfer", w, truth)
      PROVE  MotionKept'
  <2>1. Observe(r, "transfer", w, truth)
    BY <1>4 DEF Motion!Observe, Observe, Motion!InCall, InCall
  <2> QED BY <2>1, ObserveKeeps, MotionOrders DEF MotionKept
<1>5. ASSUME NEW r \in Readers, Motion!Transfer(r) PROVE MotionKept'
  <2>1. reading \in Signed16
    BY SensorAssumption
  <2>2. Motion!ToSigned16(Motion!HighByte(reading), Motion!LowByte(reading)) = reading
    <3>1. ToSigned16(HighByte(reading), LowByte(reading)) = reading
      BY <2>1, WordsRoundTrip DEF WordsDecoded
    <3> QED BY <3>1 DEF Motion!ToSigned16, ToSigned16, Motion!HighByte, HighByte,
               Motion!LowByte, LowByte
  <2>3. \E w \in Signed16 : Motion!Observe(r, "transfer", w, w)
    BY <1>5, <2>1, <2>2 DEF Motion!Transfer
  <2> QED BY <2>3, <1>4
<1>6. ASSUME NEW r \in Readers, Motion!TransferFails(r) PROVE MotionKept'
  <2>1. PICK bytes \in Stack :
           Motion!Observe(r, "transfer", Motion!ToSigned16(bytes[1], bytes[2]), NoReading)
    BY <1>6 DEF Motion!TransferFails, Motion!NoReading, NoReading
  <2>2. Motion!ToSigned16(bytes[1], bytes[2]) \in Signed16
    <3>1. bytes[1] \in Bytes /\ bytes[2] \in Bytes
      BY SensorAssumption
    <3>2. ToSigned16(bytes[1], bytes[2]) \in Signed16
      BY <3>1, WordOfBytes
    <3> QED BY <3>2 DEF Motion!ToSigned16, ToSigned16
  <2> QED BY <2>1, <2>2, <1>4
<1>7. ASSUME NEW r \in Readers, Motion!StoreTakeCopy(r) PROVE MotionKept'
  <2>1. CASE Motion!Put(r, Motion!PutOrder)
    <3>1. Put(r, Motion!PutOrder)
      BY <2>1 DEF Motion!Put, Put, Motion!LastPut, LastPut
    <3> QED BY <3>1, PutKeeps, MotionOrders DEF MotionKept
  <2>2. CASE Motion!Take(r, Motion!TakeOrder)
    <3>1. Take(r, Motion!TakeOrder)
      BY <2>2 DEF Motion!Take, Take
    <3> QED BY <3>1, TakeKeeps, MotionOrders DEF MotionKept
  <2>3. CASE Motion!CopyToUser(r)
    <3>1. CopyToUser(r)
      BY <2>3 DEF Motion!CopyToUser, CopyToUser
    <3> QED BY <3>1, CopyKeeps DEF MotionKept
  <2> QED BY <1>7, <2>1, <2>2, <2>3 DEF Motion!StoreTakeCopy
<1> QED
  BY <1>1, <1>2, <1>3, <1>5, <1>6, <1>7 DEF Motion!Next, Motion!icm20608_read

-----------------------------------------------------------------------------
(***************************************************************************)
(* No process gets past ap3216c_open, and the sensor is not activated.     *)
(***************************************************************************)
NeverOpened == mode # "active" /\ \A r \in Readers : at[r] = "closed"

LightKept == FieldsTyped(Light!Fields) /\ NeverOpened

\* Every write of a register is taken for a failure, and open stops at the first.
LEMMA LightKeeps ==
  ASSUME LightKept, mode \in Light!Mode, Light!Next
  PROVE  LightKept' /\ mode' \in Light!Mode /\ sent' \in BOOLEAN
<1>1. PICK r \in Readers : Light!ap3216c_open(r)
  BY DEF Light!Next
<1>2. \A through \in BOOLEAN : Light!ap3216c_write_reg(through) < 0
  BY SMT DEF Light!ap3216c_write_reg, Light!EIO
<1>3. PICK first \in BOOLEAN :
         mode' = Light!ModeAfter(first, mode, "reset") /\ sent' = first /\ UNCHANGED at
  BY <1>1, <1>2, Zenon DEF Light!ap3216c_open
<1>4. UNCHANGED <<dev, at, done, word, out, saw, seen>>
  BY <1>1, <1>3 DEF Light!ap3216c_open
<1>5. LightKept' /\ mode' \in Light!Mode
  BY <1>3, <1>4 DEF LightKept, FieldsTyped, NeverOpened, Light!ModeAfter, Light!Mode
<1>6. sent' \in BOOLEAN
  BY <1>3, Zenon
<1> QED BY <1>5, <1>6

RestTyped ==
    /\ driver \in Driver
    /\ pin \in {0, 1} /\ gpio \in BOOLEAN
    /\ reading \in Readings
    /\ mode \in Light!Mode /\ sent \in BOOLEAN

Inv ==
    /\ RestTyped
    /\ driver = "key" => KeyKept
    /\ driver = "icm20608" => MotionKept
    /\ driver = "ap3216c" => LightKept

LEMMA InitInv == Init => Inv
<1> SUFFICES ASSUME Init PROVE Inv
  OBVIOUS
<1>1. RestTyped
  <2>1. gpio \in BOOLEAN
    BY Zenon DEF Init, Key!Init
  <2>2. sent \in BOOLEAN
    BY Zenon DEF Init, Light!Init
  <2> QED BY <2>1, <2>2 DEF Init, Key!Init, Motion!Init, Light!Init, RestTyped, Light!Mode
<1>2. ASSUME driver = "key" PROVE KeyKept
  <2>1. FieldsInit(Key!Fields)
    BY <1>2 DEF Init, FieldsOf
  <2> QED BY <2>1, InitKept DEF KeyKept
<1>3. ASSUME driver = "icm20608" PROVE MotionKept
  <2>1. FieldsInit(Motion!Fields)
    BY <1>3 DEF Init, FieldsOf
  <2> QED BY <2>1, InitKept DEF MotionKept
<1>4. ASSUME driver = "ap3216c" PROVE LightKept
  <2>1. FieldsInit(Light!Fields)
    BY <1>4 DEF Init, FieldsOf
  <2>2. FieldsTyped(Light!Fields)
    BY <2>1, InitKept DEF Kept
  <2>3. NeverOpened
    BY <2>1 DEF Init, Light!Init, FieldsInit, NeverOpened
  <2> QED BY <2>2, <2>3 DEF LightKept
<1> QED BY <1>1, <1>2, <1>3, <1>4 DEF Inv

LEMMA StepInv == Inv /\ [Next]_vars => Inv'
<1> SUFFICES ASSUME Inv, [Next]_vars PROVE Inv'
  OBVIOUS
<1>1. CASE KeyRuns /\ Key!Next
  <2>1. KeyKept'
    BY <1>1, KeyKeeps DEF Inv, KeyRuns
  <2>2. pin' \in {0, 1}
    BY <1>1 DEF Inv, RestTyped, Key!Next, Key!Move, Key!key_open, Key!Close, Key!Fork,
       Key!keyVars, Key!key_read, Key!ReadStart, Key!LooksReleased, Key!LooksPressed,
       Key!SpinEnds, Key!SetGetCopy
  <2>3. gpio' \in BOOLEAN
    BY <1>1, Zenon DEF Inv, RestTyped, Key!Next, Key!Move, Key!key_open, Key!Close, Key!Fork,
       Key!keyVars, Key!key_read, Key!ReadStart, Key!LooksReleased, Key!LooksPressed,
       Key!SpinEnds, Key!SetGetCopy, Key!GpioAfterClose
  <2> QED BY <1>1, <2>1, <2>2, <2>3 DEF Inv, RestTyped, KeyRuns, lightVars
<1>2. CASE MotionRuns /\ Motion!Next
  <2>1. MotionKept'
    BY <1>2, MotionKeeps DEF Inv, RestTyped, MotionRuns
  <2>2. reading' \in Readings
    BY <1>2 DEF Inv, RestTyped, Motion!Next, Motion!Measure, Motion!icm20608_open,
       Motion!icm20608_release, Motion!Goto, Motion!icm20608_read, Motion!ReadStart,
       Motion!Transfer, Motion!TransferFails, Motion!StoreTakeCopy
  <2> QED BY <1>2, <2>1, <2>2 DEF Inv, RestTyped, MotionRuns, keyVars, lightVars
<1>3. CASE LightRuns /\ Light!Next
  <2>1. LightKept' /\ mode' \in Light!Mode /\ sent' \in BOOLEAN
    BY <1>3, LightKeeps DEF Inv, RestTyped, LightRuns
  <2> QED BY <1>3, <2>1 DEF Inv, RestTyped, LightRuns, keyVars
<1>4. CASE UNCHANGED vars
  BY <1>4 DEF vars, fieldVars, keyVars, lightVars, Inv, RestTyped, KeyKept, MotionKept, LightKept, Kept,
     FieldsTyped, Progress, PuttersSeen, FieldsSeen, InCall, NeverOpened
<1> QED BY <1>1, <1>2, <1>3, <1>4 DEF Next

LEMMA Invariance == Spec => []Inv
BY InitInv, StepInv, PTL DEF Spec

-----------------------------------------------------------------------------
(***************************************************************************)
(* The words in the fields of key, icm20608 and ap3216c, and those on      *)
(* their way to a reader, have sixteen bits.                               *)
(***************************************************************************)
THEOREM TypeCorrect == Spec => []TypeOK
<1>1. Inv => TypeOK
  <2> SUFFICES ASSUME Inv PROVE TypeOK
    OBVIOUS
  <2>1. FieldsTyped(FieldsOf(driver))
    BY DEF Inv, RestTyped, Driver, FieldsOf, KeyKept, MotionKept, LightKept, Kept
  <2> QED BY <2>1 DEF Inv, RestTyped, TypeOK, FieldsTyped, Observation
<1> QED BY <1>1, Invariance, PTL

(***************************************************************************)
(* A read of key or icm20608 delivers, in every field, what was observed   *)
(* while it ran, by itself or by an overlapping read, unless a transfer of *)
(* one of these failed; what a failed icm20608_readdata makes of data's    *)
(* old bytes does not outlive the reads that overlap it.                   *)
(***************************************************************************)
THEOREM OverlapOnly == Spec => []DeliveredFromOverlap
<1>1. Inv => DeliveredFromOverlap
  <2> SUFFICES ASSUME Inv, NEW r \in Readers, at[r] = "copy", NEW f \in DOMAIN out[r]
               PROVE  Explains(seen[r], out[r][f])
    BY DEF DeliveredFromOverlap, DeliveredIsOverlapping
  <2>1. CASE driver = "key"
    <3>1. DOMAIN out[r] = Key!Fields
      BY <2>1 DEF Inv, KeyKept, Kept, FieldsTyped
    <3> QED BY <2>1, <3>1 DEF Inv, KeyKept, Kept, FieldsSeen
  <2>2. CASE driver = "icm20608"
    <3>1. DOMAIN out[r] = Motion!Fields
      BY <2>2 DEF Inv, MotionKept, Kept, FieldsTyped
    <3> QED BY <2>2, <3>1 DEF Inv, MotionKept, Kept, FieldsSeen
  <2>3. CASE driver = "ap3216c"
    BY <2>3 DEF Inv, LightKept, NeverOpened
  <2> QED BY <2>1, <2>2, <2>3 DEF Inv, RestTyped, Driver
<1> QED BY <1>1, Invariance, PTL
=============================================================================
