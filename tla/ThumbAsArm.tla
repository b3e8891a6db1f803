----------------------------- MODULE ThumbAsArm ------------------------------
(***************************************************************************)
(* The reference the Thumb decoder is compared with: most Thumb half words *)
(* are short forms of an ARM word.  ArmOf is that word, put together from  *)
(* the fields of the half word; what decode_arm makes of it is what        *)
(* decode_thumb should have made of the half word.                         *)
(*                                                                         *)
(* Left out are the half words without an ARM form the two decoders know   *)
(* (CMN, MVN, the halves of a call, branches by an odd number of half      *)
(* words), the load relative to Ip, which clears bit 1 of Ip, and the ones *)
(* decode_thumb reads differently: arithmetic shifts and the byte and      *)
(* signed transfers with a register as offset.                             *)
(***************************************************************************)
EXTENDS Decode

NoWord == <<>>

Flag(b) == IF b THEN 1 ELSE 0

\* Unconditional words by their fields, from the condition down.
Word(high, low) == <<14 * 2^12 + high, low>>

DataWord(immediate, op, s, n, d, operand) ==
  Word(Flag(immediate) * 2^9 + op * 2^5 + Flag(s) * 2^4 + n, d * 2^12 + operand)

\* Up by an offset, before the access, no write-back.
TransferWord(load, byte, register, n, d, offset) ==
  Word(2^10 + Flag(register) * 2^9 + 2^8 + 2^7 + Flag(byte) * 2^6 + Flag(load) * 2^4 + n,
       d * 2^12 + offset)

HalfwordWord(load, immediate, n, d, offset) ==
  Word(2^8 + 2^7 + Flag(immediate) * 2^6 + Flag(load) * 2^4 + n,
       d * 2^12 + (offset \div 16) * 2^8 + 11 * 2^4 + (offset % 16))

BlockWord(load, before, up, n, list) ==
  Word(2^11 + Flag(before) * 2^8 + Flag(up) * 2^7 + 2^5 + Flag(load) * 2^4 + n, list)

BranchWord(condition, halfWords) ==
  LET field == (halfWords \div 2) % 2^24
  IN  <<condition * 2^12 + 5 * 2^9 + field \div 2^16, field % 2^16>>

SignedField(n, bits) == IF n >= 2^(bits - 1) THEN n - 2^bits ELSE n

\* A word of four times an eight-bit number: the number rotated by 30 bits.
TimesFour(n) == 15 * 2^8 + n

-----------------------------------------------------------------------------

AluWord(w) ==
  LET d  == Bits(w, 2, 0)
      m  == Bits(w, 5, 3)
      op == Bits(w, 9, 6)
  IN  CASE op \in {0, 1, 12, 14} -> DataWord(FALSE, op, TRUE, d, d, m)
        [] op \in {8, 10} -> DataWord(FALSE, op, TRUE, d, 0, m)
        [] op = 7  -> DataWord(FALSE, 13, TRUE, 0, d, m * 2^8 + 7 * 2^4 + d)
        [] op = 9  -> DataWord(TRUE, 3, TRUE, m, d, 0)
        [] op = 13 -> Word(2^4 + d, m * 2^8 + 9 * 2^4 + d)
        [] OTHER   -> NoWord

HighWord(w) ==
  LET d == Bits(w, 2, 0) + 8 * Bits(w, 7, 7)
      m == Bits(w, 6, 3)
      op == Bits(w, 9, 8)
  IN  CASE op = 1 -> DataWord(FALSE, 10, TRUE, d, 0, m)
        [] op = 2 -> DataWord(FALSE, 13, FALSE, 0, d, m)
        [] op = 3 /\ d = 0 -> Word(18 * 2^4 + 15, 15 * 2^12 + 15 * 2^8 + 2^4 + m)
        [] OTHER  -> NoWord

\* Moves, comparisons, additions and subtractions of an eight-bit number.
ImmediateWord(w) ==
  LET op == <<13, 10, 4, 2>>[Bits(w, 12, 11) + 1]
      r  == Bits(w, 10, 8)
  IN  DataWord(TRUE, op, TRUE, IF op = 13 THEN 0 ELSE r, IF op = 10 THEN 0 ELSE r,
               Bits(w, 7, 0))

LowWord(w) ==
  LET d == Bits(w, 2, 0)
      m == Bits(w, 5, 3)
      high == Bits(w, 8, 6)
      op == IF Bit(w, 9) THEN 2 ELSE 4
  IN  CASE Bits(w, 12, 11) \in {0, 1} ->
             DataWord(FALSE, 13, TRUE, 0, d,
                      Bits(w, 10, 6) * 2^7 + Bits(w, 12, 11) * 2^5 + m)
        [] Bits(w, 12, 11) = 3 -> DataWord(Bit(w, 10), op, TRUE, m, d, high)
        [] OTHER -> NoWord

\* PUSH and POP, and additions to Sp and Ip.
StackWord(w) ==
  LET op == Bits(w, 12, 8)
  IN  CASE op < 16 -> DataWord(TRUE, 4, FALSE, IF Bit(w, 11) THEN Sp ELSE Ip,
                               Bits(w, 10, 8), TimesFour(Bits(w, 7, 0)))
        [] op = 16 -> DataWord(TRUE, IF Bit(w, 7) THEN 2 ELSE 4, FALSE, Sp, Sp,
                               TimesFour(Bits(w, 6, 0)))
        [] op \in {20, 21} ->
             BlockWord(FALSE, TRUE, FALSE, Sp, Bits(w, 7, 0) + Flag(op = 21) * 2^14)
        [] op \in {28, 29} ->
             BlockWord(TRUE, FALSE, TRUE, Sp, Bits(w, 7, 0) + Flag(op = 29) * 2^15)
        [] OTHER -> NoWord

ArmOf(w) ==
  LET d == Bits(w, 2, 0)
      n == Bits(w, 5, 3)
      m == Bits(w, 8, 6)
      amount == Bits(w, 10, 6)
      load == Bit(w, 11)
  IN  CASE Bits(w, 15, 13) = 0 -> LowWord(w)
        [] Bits(w, 15, 13) = 1 -> ImmediateWord(w)
        [] Bits(w, 15, 10) = 16 -> AluWord(w)
        [] Bits(w, 15, 10) = 17 -> HighWord(w)
        [] Bits(w, 15, 12) = 5 /\ Bits(w, 10, 9) = 0 -> TransferWord(load, FALSE, TRUE, n, d, m)
        [] Bits(w, 15, 12) = 5 /\ Bits(w, 10, 9) = 1 -> HalfwordWord(load, FALSE, n, d, m)
        [] Bits(w, 15, 12) = 6 -> TransferWord(load, FALSE, FALSE, n, d, 4 * amount)
        [] Bits(w, 15, 12) = 7 -> TransferWord(load, TRUE, FALSE, n, d, amount)
        [] Bits(w, 15, 12) = 8 -> HalfwordWord(load, TRUE, n, d, 2 * amount)
        [] Bits(w, 15, 12) = 9 ->
             TransferWord(load, FALSE, FALSE, Sp, Bits(w, 10, 8), 4 * Bits(w, 7, 0))
        [] Bits(w, 15, 12) = 11 \/ Bits(w, 15, 12) = 10 -> StackWord(w)
        [] Bits(w, 15, 12) = 12 -> BlockWord(load, FALSE, TRUE, Bits(w, 10, 8), Bits(w, 7, 0))
        [] Bits(w, 15, 12) = 13 /\ w % 2 = 0 ->
             BranchWord(Bits(w, 11, 8), SignedField(Bits(w, 7, 0), 8))
        [] Bits(w, 15, 11) = 28 /\ w % 2 = 0 ->
             BranchWord(14, SignedField(Bits(w, 10, 0), 11))
        [] OTHER -> NoWord

-----------------------------------------------------------------------------
(* What two instructions must agree in. *)

\* An immediate as a number, and a register shifted by nothing as a register.
OperandMeaning(o) ==
  CASE o.kind = "Immediate" ->
         Immediate(IF o.rotation = 30 THEN 4 * o.value ELSE o.value, 0)
    [] o.kind = "RegisterImmediate" /\ o.shift = "LeftShift" /\ o.by = 0 ->
         Register(o.register)
    [] OTHER -> o

\* Moves have no base, comparisons no destination; how long a branch is and
\* whether the mode is Thumb is what the two differ in.
Meaning(op) ==
  CASE op.kind = "ShifterOperandInstruction" ->
         [op EXCEPT !.value = OperandMeaning(@),
                    !.base = IF op.op = "Move" THEN R0 ELSE @,
                    !.destination = IF op.op \in {"Compare", "Test"} THEN R0 ELSE @]
    [] op.kind = "StoreOrLoadRegister" ->
         [op EXCEPT !.address.offset = OperandMeaning(@)]
    [] op.kind = "Branch" ->
         [op EXCEPT !.instruction_size = 4, !.return_address_is_thumb = FALSE]
    [] OTHER -> op

=============================================================================
