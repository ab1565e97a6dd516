----------------------------- MODULE LedCommand -----------------------------
(***************************************************************************)
(* led_write of the LED drivers, the same code in each: one byte from the  *)
(* user, and the level it gives the gpio.  The LED is active low.          *)
(***************************************************************************)
EXTENDS Naturals, FiniteSets

CONSTANT Files             \* open files, each with the process that uses it

ASSUME FilesAssumption == IsFiniteSet(Files)

LEDOFF == 0
LEDON == 1
OtherByte == 2             \* stands for every byte that is no command

Byte == {LEDOFF, LEDON, OtherByte}

Off == 1                   \* level of the gpio when the LED is dark
On == 0

Level == {On, Off}

\* Lengths of a write: none, the one byte of databuf, and more than it holds.
Length == 0..2

(***************************************************************************)
(* What databuf may hold after copy_from_user.  A fault leaves it zeroed,  *)
(* and as the count of bytes not copied is never negative the driver goes  *)
(* on; a write of no bytes leaves the stack's old contents.                *)
(***************************************************************************)
Databuf(cnt, byte) == IF cnt = 0 THEN Byte ELSE {byte, LEDOFF}

\* mutant: the command itself is written to the gpio
LevelIsCommand(ledstat, led) == ledstat

LevelAfter(ledstat, led) ==
    CASE ledstat = LEDON  -> On
      [] ledstat = LEDOFF -> Off
      [] OTHER            -> led

\* The levels the gpio may have after led_write; -EFAULT on a long write.
led_write(cnt, byte, led) ==
    IF cnt > 1 THEN {led} ELSE {LevelAfter(b, led) : b \in Databuf(cnt, byte)}
=============================================================================
