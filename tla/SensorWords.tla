---------------------------- MODULE SensorWords ----------------------------
(***************************************************************************)
(* The bytes the two sensors send and the words the drivers make of them,  *)
(* bit operations written as arithmetic on bytes.  The encodings on the    *)
(* wire are the sensors'; the decodings are ap3216c.c's and icm20608.c's.  *)
(***************************************************************************)
EXTENDS Integers

Bytes == 0..255
Signed16 == {w \in Int : -32768 <= w /\ w <= 32767}

\* The motion sensor sends a word in two's complement, high byte first.
HighByte(w) == (IF w < 0 THEN w + 65536 ELSE w) \div 256
LowByte(w) == (IF w < 0 THEN w + 65536 ELSE w) % 256

\* mutant: the cast to signed short is forgotten
Unsigned16(high, low) == 256 * high + low

\* (signed short)((data[0] << 8) | data[1])
ToSigned16(high, low) ==
    IF high >= 128 THEN 256 * high + low - 65536 ELSE 256 * high + low

\* The light sensor's counts on the wire: infrared and proximity have ten
\* bits and an overflow flag, ambient light sixteen bits, low byte first.
IrLow(count, overflow) == (count % 4) + (IF overflow THEN 128 ELSE 0)
IrHigh(count) == count \div 4
PsLow(count, overflow) == (count % 16) + (IF overflow THEN 64 ELSE 0)
PsHigh(count) == count \div 16

\* buf[0] & 0x80 ? 0 : (buf[1] << 2) | (buf[0] & 0x3)
ir(low, high) == IF low \div 128 = 1 THEN 0 ELSE 4 * high + (low % 4)

\* (buf[3] << 8) | buf[2]
als(low, high) == 256 * high + low

\* buf[4] & 0x40 ? 0 : ((buf[5] & 0x3F) << 4) | (buf[4] & 0x0F)
ps(low, high) == IF (low \div 64) % 2 = 1 THEN 0 ELSE 16 * (high % 64) + (low % 16)

(***************************************************************************)
(* The drivers give back the count or the word that was sent, and 0 for an *)
(* infrared or proximity count that overflowed.                            *)
(***************************************************************************)
WordsDecoded(words) ==
    \A w \in words : ToSigned16(HighByte(w), LowByte(w)) = w

CountsDecoded(counts, lights) ==
    /\ \A c \in counts, overflow \in BOOLEAN :
          /\ ir(IrLow(c, overflow), IrHigh(c)) = IF overflow THEN 0 ELSE c
          /\ ps(PsLow(c, overflow), PsHigh(c)) = IF overflow THEN 0 ELSE c
    /\ \A c \in lights : als(c % 256, c \div 256) = c
=============================================================================
