---------------------------- MODULE IoRegisters ----------------------------
(***************************************************************************)
(* The registers of the devices (gbaemu-core/src/io_registers.rs and the   *)
(* devices below it): what a byte of each of them reads as, and what       *)
(* storing a byte in it does.                                              *)
(*                                                                         *)
(* An address is the offset in the page of the devices.  The devices keep  *)
(* their registers in fields of one or two half words and give and take    *)
(* them by the byte; here `io' holds the bytes that have been stored, by   *)
(* their offsets.  Todo is what a read gives that panics, with a todo! or  *)
(* an unreachable!.                                                        *)
(***************************************************************************)
EXTENDS Integers, Sequences

Todo == -1

\* The registers of the data of a transmission begin with all bits set.
InitialByte(b) == IF b \in (\h120..\h127) \cup (\h12a..\h12b) THEN 255 ELSE 0

Kept(io, b) == IF b \in DOMAIN io THEN io[b] ELSE InitialByte(b)

Put(io, b, byte) ==
  [c \in DOMAIN io \cup {b} |-> IF c = b THEN byte ELSE io[c]]

-----------------------------------------------------------------------------
(* Which device an address belongs to, in the order they are asked. *)

Lcd(b)                 == b \in 0..\h5f
InterruptWaitstate(b)  == \h200 <= b /\ b <= \h700000
Sound(b)               == b \in \h60..\haf
Dma(b)                 == b \in \hb0..\hff
Timer(b)               == b \in \h100..\h11f
SerialCommunication(b) == b \in (\h120..\h12f) \cup (\h134..\h1ff)
KeypadInput(b)         == b \in \h130..\h133

claims_address(b) ==
  \/ Lcd(b) \/ InterruptWaitstate(b) \/ Sound(b) \/ Dma(b) \/ Timer(b)
  \/ SerialCommunication(b) \/ KeypadInput(b)

-----------------------------------------------------------------------------
(* The devices. *)

\* Registers of the display that are only written are kept, but read as 0.  VCOUNT
\* is 0: no cycle of the display runs here (see LcdClock).
Lcd_read_byte(io, b) ==
  IF b \in (\h10..\h47) \cup (\h4c..\h4f) \cup (\h54..\h5f) THEN 0 ELSE Kept(io, b)

\* VCOUNT cannot be written.
Lcd_write_byte(io, b, byte) ==
  IF b \in (\h06..\h07) \cup (\h4e..\h4f) \cup (\h56..\h5f) THEN io ELSE Put(io, b, byte)

\* The bank of the wave pattern that is not played; a bank's cursor is never moved.
inactive_channel_3_wave_pattern(io, b) ==
  IF (Kept(io, \h70) \div \h40) % 2 = 1 THEN b ELSE b + \h1000000

Unimplemented ==
  (\h66..\h67) \cup (\h6a..\h6b) \cup (\h6e..\h6f) \cup (\h76..\h77) \cup (\h7a..\h7b)
  \cup (\h7e..\h7f) \cup (\h86..\h87) \cup (\h8a..\h8f)

Sound_read_byte(io, b) ==
  CASE b \in Unimplemented -> Todo
    [] b \in \h90..\h9f    -> Kept(io, inactive_channel_3_wave_pattern(io, b))
    [] b \in \ha8..\haf    -> 0
    [] OTHER               -> Kept(io, b)

Sound_write_byte(io, b, byte) ==
  CASE b \in Unimplemented \cup (\ha8..\haf) -> io
    [] b \in \h90..\h9f -> Put(io, inactive_channel_3_wave_pattern(io, b), byte)
    [] OTHER -> Put(io, b, byte)

\* Of the four channels of twelve bytes only the control registers can be read.
DmaControl(b) == b < \he0 /\ (b - \hb0) % 12 >= 10
Dma_read_byte(io, b) == IF DmaControl(b) THEN Kept(io, b) ELSE 0

\* A store to a control register clears the bit that enables the channel.
Dma_write_byte(io, b, byte) ==
  CASE b >= \he0 -> io
    [] DmaControl(b) /\ b % 2 = 1 -> Put(io, b, byte % 128)
    [] OTHER -> Put(io, b, byte)

Timer_read_byte(io, b) == IF b >= \h110 THEN 0 ELSE Kept(io, b)
Timer_write_byte(io, b, byte) == IF b >= \h110 THEN io ELSE Put(io, b, byte)

SerialRegisters == (\h120..\h12b) \cup (\h134..\h135) \cup (\h140..\h141) \cup (\h150..\h157)

SerialCommunication_read_byte(io, b) ==
  CASE b \in \h136..\h137      -> Todo
    [] b \in SerialRegisters   -> Kept(io, b)
    [] OTHER                   -> 0

\* With the modes 2 of the control register goes a bit that says all are ready.
SetsReady(io) ==
  IF (Kept(io, \h129) \div 16) % 4 = 2 /\ (Kept(io, \h128) \div 8) % 2 = 0
  THEN Put(io, \h128, Kept(io, \h128) + 8) ELSE io

SerialCommunication_write_byte(io, b, byte) ==
  LET control == \h128..\h129
  IN  CASE b \in control                   -> SetsReady(Put(io, b, byte))
        [] b \in SerialRegisters \ control -> Put(io, b, byte)
        [] OTHER                           -> io

\* No key is ever pressed.
KeypadInput_read_byte(io, b) == IF b < \h132 THEN 0 ELSE Kept(io, b)
KeypadInput_write_byte(io, b, byte) == IF b < \h132 THEN io ELSE Put(io, b, byte)

InterruptRegisters == (\h200..\h205) \cup (\h208..\h209) \cup (\h300..\h301)

InterruptWaitstate_read_byte(io, b) ==
  CASE b \in InterruptRegisters -> Kept(io, b)
    [] b \in (\h206..\h207) \cup (\h20a..\h2ff) \cup {\h410} -> 0
    [] OTHER -> Todo

InterruptWaitstate_write_byte(io, b, byte) ==
  IF b \in InterruptRegisters THEN Put(io, b, byte) ELSE io

-----------------------------------------------------------------------------
(* GbaIo. *)

read_byte(io, b) ==
  CASE Lcd(b)                 -> Lcd_read_byte(io, b)
    [] InterruptWaitstate(b)  -> InterruptWaitstate_read_byte(io, b)
    [] Sound(b)               -> Sound_read_byte(io, b)
    [] Dma(b)                 -> Dma_read_byte(io, b)
    [] Timer(b)               -> Timer_read_byte(io, b)
    [] SerialCommunication(b) -> SerialCommunication_read_byte(io, b)
    [] KeypadInput(b)         -> KeypadInput_read_byte(io, b)
    [] OTHER                  -> Todo

write_byte(io, b, byte) ==
  CASE Lcd(b)                 -> Lcd_write_byte(io, b, byte)
    [] InterruptWaitstate(b)  -> InterruptWaitstate_write_byte(io, b, byte)
    [] Sound(b)               -> Sound_write_byte(io, b, byte)
    [] Dma(b)                 -> Dma_write_byte(io, b, byte)
    [] Timer(b)               -> Timer_write_byte(io, b, byte)
    [] SerialCommunication(b) -> SerialCommunication_write_byte(io, b, byte)
    [] KeypadInput(b)         -> KeypadInput_write_byte(io, b, byte)

\* Bytes are stored one by one, from the lowest address on.
write_bytes(io, b, bytes) ==
  LET after[n \in 0..Len(bytes)] ==
        IF n = 0 THEN io ELSE write_byte(after[n - 1], b + n - 1, bytes[n])
  IN  after[Len(bytes)]

\* GbaIo::reset: only the interrupt unit is reset.
reset(io) == [b \in DOMAIN io \ InterruptRegisters |-> io[b]]

=============================================================================
