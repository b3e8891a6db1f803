------------------------------- MODULE Decode --------------------------------
(***************************************************************************)
(* Instruction::decode_arm and Instruction::decode_thumb                   *)
(* (gbaemu-core/src/instructions/decode.rs): what a word or a half word    *)
(* means as an instruction.                                                *)
(*                                                                         *)
(* A half word is a number below 2^16, an ARM word the pair of its half    *)
(* words, the high one first.  A register is its number, a list of         *)
(* registers a set of numbers.  Masks and shifts are given by the bits     *)
(* they take.                                                              *)
(***************************************************************************)
EXTENDS Integers, Sequences

Bits(w, high, low) == (w \div 2^low) % 2^(high - low + 1)
Bit(w, n) == Bits(w, n, n) = 1

\* Bits of an ARM word, all of them in one of its half words.
ArmBits(w, high, low) ==
  IF low >= 16 THEN Bits(w[1], high - 16, low - 16) ELSE Bits(w[2], high, low)
ArmBit(w, n) == ArmBits(w, n, n) = 1

R0 == 0
Sp == 13
Lr == 14
Ip == 15

ListOf(w) == {r \in 0..15 : Bit(w, r)}

Conditions ==
  <<"Equal", "NotEqual", "CarrySet", "CarryClear", "Negative", "Positive",
    "OverflowSet", "OverflowClear", "UnsignedHigher", "UnsignedLowerOrSame",
    "GreaterThanEquals", "LessThan", "GreaterThan", "LessThanEquals", "Always">>

Instruction(size, condition, op) ==
  [size |-> size, condition |-> condition, op |-> op]

\* Every error of the decoder; the core thread panics over it.
Unknown == [kind |-> "Error"]
Error == Instruction(0, "Always", Unknown)

Always(size, op) == IF op = Unknown THEN Error ELSE Instruction(size, "Always", op)

\* Condition::try_from: a condition of 15 is an error.
Conditional(size, condition, op) ==
  IF condition = 15 \/ op = Unknown THEN Error
  ELSE Instruction(size, Conditions[condition + 1], op)

Offset(n) == [register |-> -1, offset |-> n]
RegisterWithOffset(r) == [register |-> r, offset |-> 0]

Branch(size, link, thumb, switch, target) ==
  [kind |-> "Branch", instruction_size |-> size, target |-> target,
   store_return_address_in_link_register |-> link,
   return_address_is_thumb |-> thumb, does_switch_mode |-> switch]

Address(base, offset, negate, write_back, post) ==
  [register_base |-> base, offset |-> offset, negate_offset |-> negate,
   write_back |-> write_back, is_post_indexing |-> post, ignore_bit_1_of_pc |-> FALSE]
PlainAddress(base, offset) == Address(base, offset, FALSE, FALSE, FALSE)

LoadStore(is_load, address, rd, read_size) ==
  [kind |-> "StoreOrLoadRegister", is_load |-> is_load, address |-> address,
   register_destination |-> rd, read_size |-> read_size]

LoadStoreMany(is_load, base, write_back, list, mode) ==
  [kind |-> "StoreOrLoadRegisters", is_load |-> is_load, register_base |-> base,
   register_base_write_back |-> write_back, register_list |-> list,
   addressing_mode |-> mode]

DataProcessing(op, update_flags, base, destination, value) ==
  [kind |-> "ShifterOperandInstruction", op |-> op, update_flags |-> update_flags,
   base |-> base, destination |-> destination, value |-> value]

\* An operand.  An immediate is the number rotated to the right by some bits.
Immediate(n, rotation) == [kind |-> "Immediate", value |-> n, rotation |-> rotation]
Register(r) == [kind |-> "Register", register |-> r]
RegisterImmediate(r, shift, n) ==
  [kind |-> "RegisterImmediate", register |-> r, shift |-> shift, by |-> n]
RegisterRegister(r, shift, by) ==
  [kind |-> "RegisterRegister", register |-> r, shift |-> shift, by |-> by]

\* ShiftOperator::decode
ShiftOperator(n) ==
  <<"LeftShift", "RightShift", "ArithmeticRightShift", "RotateRight">>[n + 1]

-----------------------------------------------------------------------------
(* ARM words. *)

rm(w) == ArmBits(w, 3, 0)
rs(w) == ArmBits(w, 11, 8)
rd(w) == ArmBits(w, 15, 12)
rn(w) == ArmBits(w, 19, 16)

\* The offset without its sign.
ArmBranch_Unsigned(w) ==
  Branch(4, ArmBit(w, 24), FALSE, FALSE,
         Offset(4 * (ArmBits(w, 23, 16) * 2^16 + w[2])))

\* Sign extended, then shifted by two bits: or-ing the high byte to a number with
\* bit 23 set takes 2^24 from it.
ArmBranch(w) ==
  LET field == ArmBits(w, 23, 16) * 2^16 + w[2]
  IN  Branch(4, ArmBit(w, 24), FALSE, FALSE,
             Offset(4 * IF ArmBit(w, 23) THEN field - 2^24 ELSE field))

\* ShiftOperator and amount of an ARM word.
ShiftedRegister(w) ==
  RegisterImmediate(rm(w), ShiftOperator(ArmBits(w, 6, 5)), ArmBits(w, 11, 7))

\* StoreLoadMemoryAddress::try_from
AddressOf(w) ==
  Address(rn(w),
          IF ArmBit(w, 25) THEN ShiftedRegister(w) ELSE Immediate(ArmBits(w, 11, 0), 0),
          ~ArmBit(w, 23), ArmBit(w, 21), ~ArmBit(w, 24))

ArmLoadStore(w) ==
  LoadStore(ArmBit(w, 20), AddressOf(w), rd(w), IF ArmBit(w, 22) THEN "Byte" ELSE "Word")

from_addressing_mode_3(w) ==
  Address(rn(w),
          IF ArmBit(w, 22) THEN Immediate(rs(w) * 16 + rm(w), 0) ELSE Register(rm(w)),
          ~ArmBit(w, 23), ArmBit(w, 21), ~ArmBit(w, 24))

\* ShifterOperand::try_from; a shift by a register has bit 7 clear here.
OperandOf(w) ==
  CASE ArmBit(w, 25) -> Immediate(ArmBits(w, 7, 0), 2 * rs(w))
    [] ~ArmBit(w, 25) /\ ~ArmBit(w, 4) -> ShiftedRegister(w)
    [] OTHER -> RegisterRegister(rm(w), ShiftOperator(ArmBits(w, 6, 5)), rs(w))

\* Bits 4 and 7 of an instruction without an immediate.
IsMode3(w) == ~ArmBit(w, 25) /\ ArmBit(w, 7) /\ ArmBit(w, 4)
IsMrs(w) == ArmBits(w, 27, 23) = 2 /\ ArmBits(w, 21, 20) = 0
IsBx(w)  == ArmBits(w, 27, 20) = 18 /\ ArmBits(w, 7, 4) = 1
IsMsr(w) == ArmBits(w, 27, 26) = 0 /\ ArmBits(w, 24, 23) = 2 /\ ArmBits(w, 21, 20) = 2

Mode3(w) ==
  CASE ArmBits(w, 7, 4) \in {11, 15} ->
         LoadStore(ArmBit(w, 20), from_addressing_mode_3(w), rd(w),
                   IF ArmBits(w, 7, 4) = 11 THEN "Halfword" ELSE "SignedHalfword")
    [] ArmBits(w, 7, 4) = 9 ->
         DataProcessing("Multiplicate", ArmBit(w, 20), rm(w), rn(w), Register(rs(w)))
    [] OTHER -> Unknown

Mrs(w) ==
  IF rn(w) = 15 /\ ArmBits(w, 11, 0) = 0
  THEN [kind |-> "Mrs", use_spsr |-> ArmBit(w, 22), register_base |-> rd(w)]
  ELSE Unknown

Bx(w) ==
  IF rn(w) = 15 /\ rd(w) = 15 /\ rs(w) = 15
  THEN Branch(4, FALSE, FALSE, TRUE, RegisterWithOffset(rm(w)))
  ELSE Unknown

Msr(w) ==
  IF rd(w) = 15 /\ (ArmBit(w, 25) \/ ArmBits(w, 11, 4) = 0)
  THEN [kind |-> "Msr", use_spsr |-> ArmBit(w, 22), field_mask |-> ListOf(rn(w)),
        operand |-> IF ArmBit(w, 25) THEN OperandOf(w) ELSE Register(rm(w))]
  ELSE Unknown

\* The operations of op_code_2; "" is unknown.
Operations ==
  <<"And", "ExclusiveOr", "Subtract", "ReverseSubtract", "Add", "AddWithCarry", "", "",
    "Test", "TestEquals", "Compare", "", "InclusiveOr", "Move", "BitClear", "">>

ArmData(w) ==
  LET op == Operations[ArmBits(w, 24, 21) + 1]
  IN  IF \/ op = ""
         \/ op \in {"TestEquals", "Compare"} /\ ~ArmBit(w, 20)
         \/ op = "Move" /\ rn(w) # R0
      THEN Unknown
      ELSE DataProcessing(op, ArmBit(w, 20), rn(w), rd(w), OperandOf(w))

\* The patterns overlap: the order of the tests decides.
ArmMiscellaneous(w) ==
  IF IsMode3(w) THEN Mode3(w)
  ELSE IF IsMrs(w) THEN Mrs(w)
  ELSE IF IsBx(w) THEN Bx(w)
  ELSE IF IsMsr(w) THEN Msr(w)
  ELSE ArmData(w)

\* StoreLoadManyAddressingMode::from_flags
from_flags(post, decreasing) ==
  CASE post /\ decreasing   -> "DecrementAfter"
    [] post /\ ~decreasing  -> "IncrementAfter"
    [] ~post /\ decreasing  -> "DecrementBefore"
    [] ~post /\ ~decreasing -> "IncrementBefore"

ArmLoadStoreMany(w) ==
  IF ArmBit(w, 22) THEN Unknown
  ELSE LoadStoreMany(ArmBit(w, 20), rn(w), ArmBit(w, 21), ListOf(w[2]),
                     from_flags(~ArmBit(w, 24), ~ArmBit(w, 23)))

ArmOp(w) ==
  LET op_code_1 == ArmBits(w, 27, 25)
  IN  CASE op_code_1 = 5        -> ArmBranch(w)
        [] op_code_1 \in {2, 3} -> ArmLoadStore(w)
        [] op_code_1 \in {0, 1} -> ArmMiscellaneous(w)
        [] op_code_1 = 4        -> ArmLoadStoreMany(w)
        [] OTHER                -> Unknown

decode_arm(w) == Conditional(4, ArmBits(w, 31, 28), ArmOp(w))

-----------------------------------------------------------------------------
(* Thumb half words, by their three highest bits. *)

\* MOV, CMP, ADD, SUB of registers and small immediates, and shifts by immediates.
\* The register an arithmetic shift takes is read from bits of its amount.
thumb_op_code_000(w) ==
  LET low  == Bits(w, 2, 0)
      mid  == Bits(w, 5, 3)
      high == Bits(w, 8, 6)
      amount == Bits(w, 10, 6)
      AddOrSubtract(value) ==
        DataProcessing(IF Bit(w, 9) THEN "Subtract" ELSE "Add", TRUE, mid, low, value)
  IN  CASE ~Bit(w, 12) ->
             DataProcessing("Move", TRUE, R0, low,
               RegisterImmediate(mid, IF Bit(w, 11) THEN "RightShift" ELSE "LeftShift",
                                 amount))
        [] Bits(w, 12, 10) = 7 -> AddOrSubtract(Immediate(high, 0))
        [] Bits(w, 12, 10) = 6 -> AddOrSubtract(Register(high))
        [] OTHER ->
             DataProcessing("Move", TRUE, mid, low,
                            RegisterImmediate(high, "ArithmeticRightShift", amount))

thumb_op_code_001(w) ==
  LET r == Bits(w, 10, 8)
  IN  DataProcessing(<<"Move", "Compare", "Add", "Subtract">>[Bits(w, 12, 11) + 1],
                     TRUE, r, r, Immediate(Bits(w, 7, 0), 0))

\* The operations on two low registers; "" is unknown.
AluOperations ==
  <<"And", "ExclusiveOr", "", "", "", "", "", "Move", "Test", "ReverseSubtract",
    "Compare", "CompareNegative", "InclusiveOr", "Multiplicate", "BitClear", "MoveNegate">>

\* A rotation is a Move, a negation subtracts from 0.
Alu(w) ==
  LET op == AluOperations[Bits(w, 9, 6) + 1]
      d  == Bits(w, 2, 0)
      m  == Bits(w, 5, 3)
  IN  CASE op = "" -> Unknown
        [] op = "Move" ->
             DataProcessing(op, TRUE, d, d, RegisterRegister(d, "RotateRight", m))
        [] op = "ReverseSubtract" -> DataProcessing(op, TRUE, m, d, Immediate(0, 0))
        [] OTHER -> DataProcessing(op, TRUE, d, d, Register(m))

\* Operations on any two registers and branches to registers.
HighRegisters(w) ==
  LET op_code_3 == Bits(w, 9, 7)
      m == Bits(w, 6, 3)
      d == Bits(w, 2, 0) + 8 * Bits(w, 7, 7)
  IN  CASE op_code_3 \in {2, 3} -> DataProcessing("Compare", TRUE, d, R0, Register(m))
        [] op_code_3 \in {4, 5} -> DataProcessing("Move", FALSE, R0, d, Register(m))
        [] op_code_3 \in {6, 7} /\ Bits(w, 2, 0) = 0 ->
             Branch(2, op_code_3 = 7, TRUE, op_code_3 = 6, RegisterWithOffset(m))
        [] OTHER -> Unknown

\* A load relative to the instruction pointer.
LoadLiteral(w) ==
  LoadStore(TRUE, [PlainAddress(Ip, Immediate(4 * Bits(w, 7, 0), 0))
                     EXCEPT !.ignore_bit_1_of_pc = TRUE],
            Bits(w, 10, 8), "Word")

\* The size is the one of the table in the code, by is_word and
\* is_halfword_instead_of_byte.
RegisterOffset(w) ==
  LoadStore(Bit(w, 11), PlainAddress(Bits(w, 5, 3), Register(Bits(w, 8, 6))),
            Bits(w, 2, 0),
            IF ~Bit(w, 9) THEN "Word" ELSE IF Bit(w, 10) THEN "Byte" ELSE "Halfword")

thumb_op_code_010(w) ==
  CASE Bits(w, 12, 10) = 0 -> Alu(w)
    [] Bits(w, 12, 10) = 1 -> HighRegisters(w)
    [] Bits(w, 12, 11) = 1 -> LoadLiteral(w)
    [] Bit(w, 12)          -> RegisterOffset(w)

thumb_op_code_011(w) ==
  LET n == Bits(w, 10, 6)
      size == IF Bit(w, 12) THEN "Byte" ELSE "Word"
  IN  LoadStore(Bit(w, 11),
                PlainAddress(Bits(w, 5, 3), Immediate(IF Bit(w, 12) THEN n ELSE 4 * n, 0)),
                Bits(w, 2, 0), size)

\* The offset of a half word counted in bytes.
thumb_op_code_100_InBytes(w) ==
  IF Bit(w, 12)
  THEN LoadStore(Bit(w, 11), PlainAddress(Sp, Immediate(4 * Bits(w, 7, 0), 0)),
                 Bits(w, 10, 8), "Word")
  ELSE LoadStore(Bit(w, 11),
                 PlainAddress(Bits(w, 5, 3), Immediate(Bits(w, 10, 6), 0)),
                 Bits(w, 2, 0), "Halfword")

\* Half words, or words relative to the stack pointer.
thumb_op_code_100(w) ==
  IF Bit(w, 12)
  THEN LoadStore(Bit(w, 11), PlainAddress(Sp, Immediate(4 * Bits(w, 7, 0), 0)),
                 Bits(w, 10, 8), "Word")
  ELSE LoadStore(Bit(w, 11),
                 PlainAddress(Bits(w, 5, 3), Immediate(2 * Bits(w, 10, 6), 0)),
                 Bits(w, 2, 0), "Halfword")

\* Additions to Ip or Sp, and PUSH and POP.
thumb_op_code_101(w) ==
  LET op_code == Bits(w, 12, 8)
      list    == ListOf(Bits(w, 7, 0))
      with(r) == IF Bit(w, 8) THEN {r} ELSE {}
  IN  CASE op_code < 16 ->
             DataProcessing("Add", FALSE, IF Bit(w, 11) THEN Sp ELSE Ip, Bits(w, 10, 8),
                            Immediate(4 * Bits(w, 7, 0), 0))
        [] op_code = 16 ->
             DataProcessing(IF Bit(w, 7) THEN "Subtract" ELSE "Add", FALSE, Sp, Sp,
                            Immediate(4 * Bits(w, 6, 0), 0))
        [] op_code \in {20, 21} ->
             LoadStoreMany(FALSE, Sp, TRUE, list \cup with(Lr), "DecrementBefore")
        [] op_code \in {28, 29} ->
             LoadStoreMany(TRUE, Sp, TRUE, list \cup with(Ip), "IncrementAfter")
        [] OTHER -> Unknown

\* The conditional branch reads its offset as a signed byte.
thumb_op_code_110(w) ==
  LET byte == Bits(w, 7, 0)
  IN  IF Bit(w, 12)
      THEN Conditional(2, Bits(w, 11, 8),
             Branch(2, FALSE, TRUE, FALSE,
                    Offset(2 * IF byte >= 2^7 THEN byte - 2^8 ELSE byte)))
      ELSE Always(2, LoadStoreMany(Bit(w, 11), Bits(w, 10, 8), TRUE, ListOf(byte),
                                   "IncrementAfter"))

\* A call is two half words; the second one is cleared of bit 1 if the call
\* switches the mode.
LongBranch(w, next) ==
  LET first  == 2^12 * IF Bit(w, 10) THEN Bits(w, 10, 0) - 2^11 ELSE Bits(w, 10, 0)
      second == 2 * Bits(next, 10, 0)
      switch == ~Bit(next, 12)
  IN  IF ~Bit(next, 11) THEN Unknown
      ELSE Branch(4, TRUE, TRUE, switch,
                  Offset(first + second - IF switch /\ Bit(second, 1) THEN 2 ELSE 0))

\* The second half of a call alone never switches the mode: the bit that would
\* say so is one of its prefix.
thumb_op_code_111(w, next) ==
  LET offset == 2 * Bits(w, 10, 0)
  IN  CASE Bits(w, 12, 11) = 2 -> Always(4, LongBranch(w, next))
        [] Bits(w, 12, 11) = 0 ->
             Always(2, Branch(2, FALSE, TRUE, FALSE,
                              Offset(IF Bit(offset, 11) THEN offset - 2^12 ELSE offset)))
        [] Bits(w, 12, 11) = 3 -> Always(2, Branch(2, TRUE, TRUE, FALSE, Offset(offset)))
        [] OTHER -> Error

decode_thumb(w, next) ==
  LET op_code_1 == Bits(w, 15, 13)
  IN  CASE op_code_1 = 0 -> Always(2, thumb_op_code_000(w))
        [] op_code_1 = 1 -> Always(2, thumb_op_code_001(w))
        [] op_code_1 = 2 -> Always(2, thumb_op_code_010(w))
        [] op_code_1 = 3 -> Always(2, thumb_op_code_011(w))
        [] op_code_1 = 4 -> Always(2, thumb_op_code_100(w))
        [] op_code_1 = 5 -> Always(2, thumb_op_code_101(w))
        [] op_code_1 = 6 -> thumb_op_code_110(w)
        [] op_code_1 = 7 -> thumb_op_code_111(w, next)

=============================================================================
