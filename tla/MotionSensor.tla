---------------------------- MODULE MotionSensor ----------------------------
(***************************************************************************)
(* The motion sensor (spi/icm20608.c): a read transfers one sample of all  *)
(* seven words in a burst, stores the words in the device structure and    *)
(* then takes them from there in another order.  In the model the seven    *)
(* words of a sample are the same word, which tells one sample from the    *)
(* next, so that a mixture of samples shows.                               *)
(***************************************************************************)
EXTENDS SharedFields, SensorWords

CONSTANTS
    Readings,              \* words the sensor measures
    Stack                  \* pairs of bytes an uninitialised data may hold, old data too

VARIABLE reading           \* the sample the sensor would send now

Fields == {"accel_x", "accel_y", "accel_z", "temp", "gyro_x", "gyro_y", "gyro_z"}

PutOrder == <<"accel_x", "accel_y", "accel_z", "temp", "gyro_x", "gyro_y", "gyro_z">>
TakeOrder == <<"gyro_x", "gyro_y", "gyro_z", "accel_x", "accel_y", "accel_z", "temp">>

Init == reading \in Readings

Measure ==
    /\ reading' \in Readings
    /\ UNCHANGED fieldVars

\* icm20608_open and icm20608_release do nothing.
Goto(r, from, to) ==
    /\ at[r] = from
    /\ at' = [at EXCEPT ![r] = to]
    /\ UNCHANGED <<dev, done, word, out, saw, seen, reading>>

icm20608_open(r) == Goto(r, "closed", "idle")
icm20608_release(r) == Goto(r, "idle", "closed")

ReadStart(r) == Enter(r, "transfer") /\ UNCHANGED reading

\* A transfer of one byte more than rxdata has: the allocator's bucket for
\* fourteen bytes holds it.
Transfer(r) ==
    /\ Observe(r, "transfer", ToSigned16(HighByte(reading), LowByte(reading)), reading)
    /\ UNCHANGED reading

\* kzalloc or spi_sync fails: the result is not looked at, and the words are
\* made of what data holds on the stack, perhaps what a call before left there.
TransferFails(r) ==
    /\ \E bytes \in Stack :
          Observe(r, "transfer", ToSigned16(bytes[1], bytes[2]), NoReading)
    /\ UNCHANGED reading

\* The second half of icm20608_readdata, and the rest of icm20608_read.
StoreTakeCopy(r) ==
    /\ Put(r, PutOrder) \/ Take(r, TakeOrder) \/ CopyToUser(r)
    /\ UNCHANGED reading

icm20608_read(r) ==
    ReadStart(r) \/ Transfer(r) \/ TransferFails(r) \/ StoreTakeCopy(r)

Next ==
    \/ Measure
    \/ \E r \in Readers : icm20608_open(r) \/ icm20608_read(r) \/ icm20608_release(r)
=============================================================================
