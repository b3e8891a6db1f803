--------------------------- MODULE ShifterOperand ----------------------------
(***************************************************************************)
(* The data-processing instructions: what they write to their register and *)
(* to the flags (gbaemu-core/src/instructions/shifter_operand.rs), and what *)
(* the conditions of later instructions then say                           *)
(* (gbaemu-core/src/instructions.rs).                                      *)
(*                                                                         *)
(* A word is the set of its bits that are 1, of Width bits (32 in the      *)
(* program).  Ip is neither base nor destination: written to Ip, most of   *)
(* these instructions are returns from an exception.                       *)
(***************************************************************************)
EXTENDS Integers

CONSTANTS
  Width,
  Registers,
  Instructions   \* the instructions that may be executed

ASSUME ShifterOperandAssumption == Width \in Nat \ {0, 1}

Bits == 0..(Width - 1)
Words == SUBSET Bits
Sign == Width - 1

TwoTo[n \in Nat] == IF n = 0 THEN 1 ELSE 2 * TwoTo[n - 1]

\* The sums of the first digits of a word.
SumsOf(w) ==
  LET sum[n \in Nat] ==
        IF n = 0 THEN 0 ELSE sum[n - 1] + IF n - 1 \in w THEN TwoTo[n - 1] ELSE 0
  IN  sum

Number == [w \in Words |-> SumsOf(w)[Width]]
Signed(w) == IF Sign \in w THEN Number[w] - TwoTo[Width] ELSE Number[w]

\* One bit too many.
WordOf_Wide(n) == {b \in 0..Width : (n \div TwoTo[b]) % 2 = 1}

WordOf(n) == {b \in Bits : (n \div TwoTo[b]) % 2 = 1}

\* A signed number does not fit into a word.
Overflows(n) == n < -(TwoTo[Sign]) \/ n >= TwoTo[Sign]

VARIABLES
  registers,
  flags,      \* those of "N", "Z", "C", "V" that are set
  source      \* what the flags are of: a sum, a difference or something else

operandVars == <<registers, flags, source>>

NoSource == [op |-> "none", lhs |-> {}, value |-> {}]
Subtracting == {"Subtract", "Compare"}
Source(op, a, b) ==
  CASE op = "Add"          -> [op |-> "sum", lhs |-> a, value |-> b]
    [] op \in Subtracting -> [op |-> "difference", lhs |-> a, value |-> b]
    [] OTHER               -> NoSource

OperandInit ==
  /\ registers \in [Registers -> Words]
  /\ flags = {}
  /\ source = NoSource

-----------------------------------------------------------------------------
(* The second operand. *)

Shifts == {"LeftShift", "RightShift", "ArithmeticRightShift", "RotateRight"}

Operands ==
  [kind : {"Immediate"}, value : Words, rotated : BOOLEAN]
    \cup [kind : {"Register"}, register : Registers]
    \cup [kind : {"RegisterImmediate"}, register : Registers, shift : Shifts, by : Nat]
    \cup [kind : {"RegisterRegister"}, register : Registers, shift : Shifts, by : Registers]

\* A rotation by 0 bits that leaves the word as it is.
Shifted_WithoutExtend(shift, x, n, carry) ==
  CASE shift = "LeftShift"  -> {b + n : b \in x} \cap Bits
    [] shift = "RightShift" -> IF n = 0 THEN WordOf(Width)
                               ELSE {b - n : b \in x} \cap Bits
    [] shift = "ArithmeticRightShift" ->
         LET fill == IF Sign \in x THEN Bits ELSE {}
         IN  IF n = 0 THEN fill
             ELSE ({b - n : b \in x} \cap Bits) \cup {b \in fill : b > Sign - n}
    [] shift = "RotateRight" -> {(b - n) % Width : b \in x}

\* ShiftOperator::execute: the word x shifted by n bits.  By 0 bits the three
\* shifts to the right do something else; RightShift gives the number 32.
Shifted(shift, x, n, carry) ==
  CASE shift = "LeftShift"  -> {b + n : b \in x} \cap Bits
    [] shift = "RightShift" -> IF n = 0 THEN WordOf(Width)
                               ELSE {b - n : b \in x} \cap Bits
    [] shift = "ArithmeticRightShift" ->
         LET fill == IF Sign \in x THEN Bits ELSE {}
         IN  IF n = 0 THEN fill
             ELSE ({b - n : b \in x} \cap Bits) \cup {b \in fill : b > Sign - n}
    [] shift = "RotateRight" ->
         IF n = 0 THEN ({b - 1 : b \in x} \cap Bits) \cup (IF carry THEN {Sign} ELSE {})
         ELSE {(b - n) % Width : b \in x}

ShiftCarry(shift, x, n, carry) ==
  CASE shift = "LeftShift"   -> IF n = 0 THEN carry ELSE (Width - n) \in x
    [] shift = "RotateRight" -> IF n = 0 THEN 0 \in x ELSE (n - 1) \in x
    [] OTHER                 -> IF n = 0 THEN Sign \in x ELSE (n - 1) \in x

\* The bits an operand is shifted by.
Amount(o) ==
  IF o.kind = "RegisterRegister" THEN Number[registers[o.by]] ELSE o.by

Carry == "C" \in flags

Value(o) ==
  CASE o.kind = "Immediate" -> o.value
    [] o.kind = "Register"  -> registers[o.register]
    [] OTHER -> Shifted(o.shift, registers[o.register], Amount(o), Carry)

OperandCarry(o) ==
  CASE o.kind = "Immediate" -> IF o.rotated THEN Sign \in o.value ELSE Carry
    [] o.kind = "Register"  -> Carry
    [] OTHER -> ShiftCarry(o.shift, registers[o.register], Amount(o), Carry)

-----------------------------------------------------------------------------
(* The operations. *)

Logical == {"Move", "MoveNegate", "And", "InclusiveOr", "ExclusiveOr", "BitClear",
            "TestEquals", "Test"}
Comparing == {"Compare", "CompareNegative", "TestEquals", "Test"}
Arithmetic == {"Add", "AddWithCarry", "CompareNegative", "Multiplicate", "ReverseSubtract"}
                \cup Subtracting

ASSUME OperandInstructionsAssumption ==
  Instructions \subseteq [op : Logical \cup Arithmetic, base : Registers,
                         destination : Registers, operand : Operands, updates : BOOLEAN]

LogicalResult(op, a, b) ==
  CASE op = "Move"       -> b
    [] op = "MoveNegate" -> Bits \ b
    [] op = "BitClear"   -> a \ b
    [] op = "InclusiveOr" -> a \cup b
    [] op \in {"And", "Test"} -> a \cap b
    [] op \in {"ExclusiveOr", "TestEquals"} -> (a \ b) \cup (b \ a)

\* The number an operation computes, before it is made to fit into a word.
Exact(op, a, b, carry) ==
  CASE op \in {"Add", "CompareNegative"}  -> a + b
    [] op = "AddWithCarry" -> a + (IF carry THEN 1 ELSE 0) + b
    [] op \in Subtracting -> a - b
    [] op = "ReverseSubtract" -> b - a
    [] op = "Multiplicate" -> a * b

Wrapped(n) == Signed(WordOf(n))

\* The carry of a sum that is its signed overflow.
CarryOut_Signed(op, a, b, carry) ==
  CASE op = "Add" -> Overflows(Signed(a) + Signed(b))
    [] op \in Subtracting -> Signed(a) >= Signed(b)
    [] op = "ReverseSubtract" -> Signed(b) >= Signed(a)
    [] op = "CompareNegative" -> Signed(a) < Signed(b)
    [] OTHER -> carry

\* The carry flag after an arithmetic operation; all but Add compare the
\* operands as signed numbers.
CarryOut(op, a, b, carry) ==
  CASE op = "Add" -> Number[a] + Number[b] >= TwoTo[Width]
    [] op \in Subtracting -> Signed(a) >= Signed(b)
    [] op = "ReverseSubtract" -> Signed(b) >= Signed(a)
    [] op = "CompareNegative" -> Signed(a) < Signed(b)
    [] OTHER -> carry

\* The overflow flag that is only the sign of the result.
OverflowOut_SignOnly(op, a, b, carry) ==
  Sign \in WordOf(Exact(op, Signed(a), Signed(b), carry))

\* AddWithCarry adds twice, each time with overflow.
OverflowOut(op, a, b, carry) ==
  IF op = "AddWithCarry" /\ carry
  THEN Overflows(Signed(a) + 1) \/ Overflows(Wrapped(Signed(a) + 1) + Signed(b))
  ELSE Overflows(Exact(op, Signed(a), Signed(b), carry))

FlagsOf(result, carry, overflow) ==
  (IF Sign \in result THEN {"N"} ELSE {}) \cup (IF result = {} THEN {"Z"} ELSE {})
    \cup (IF carry THEN {"C"} ELSE {}) \cup (IF overflow THEN {"V"} ELSE {})

\* An instruction i: the operand is resolved first, with its carry in the flags
\* if the instruction updates them.  A shift by more bits than a word has panics.
Execute(i) ==
  LET a     == registers[i.base]
      b     == Value(i.operand)
      carry == IF i.updates THEN OperandCarry(i.operand) ELSE Carry
      result == IF i.op \in Logical THEN LogicalResult(i.op, a, b)
                ELSE WordOf(Exact(i.op, Signed(a), Signed(b), carry))
  IN  /\ i.operand.kind \in {"RegisterImmediate", "RegisterRegister"}
           => Amount(i.operand) < Width
      /\ registers' = IF i.op \in Comparing THEN registers
                      ELSE [registers EXCEPT ![i.destination] = result]
      /\ IF i.updates
         THEN /\ flags' = IF i.op \in Logical
                          THEN FlagsOf(result, carry, "V" \in flags)
                          ELSE FlagsOf(result, CarryOut(i.op, a, b, carry),
                                               OverflowOut(i.op, a, b, carry))
              /\ source' = Source(i.op, a, b)
         ELSE UNCHANGED <<flags, source>>

OperandNext == \E i \in Instructions : Execute(i)

OperandSpec == OperandInit /\ [][OperandNext]_operandVars

-----------------------------------------------------------------------------

\* Condition::can_execute.
can_execute(condition) ==
  LET n == "N" \in flags
      z == "Z" \in flags
      c == "C" \in flags
      v == "V" \in flags
  IN  CASE condition = "Equal"              -> z
        [] condition = "NotEqual"           -> ~z
        [] condition = "CarrySet"           -> c
        [] condition = "CarryClear"         -> ~c
        [] condition = "Negative"           -> n
        [] condition = "Positive"           -> ~n
        [] condition = "OverflowSet"        -> v
        [] condition = "OverflowClear"      -> ~v
        [] condition = "UnsignedHigher"     -> c /\ ~z
        [] condition = "UnsignedLowerOrSame" -> ~c \/ z
        [] condition = "GreaterThanEquals"  -> n = v
        [] condition = "LessThan"           -> n # v
        [] condition = "GreaterThan"        -> ~z /\ n = v
        [] condition = "LessThanEquals"     -> z \/ n # v
        [] OTHER                            -> TRUE

\* The flags are of a comparison: a Compare, or a Subtract that updates them.
Compared == source.op = "difference"

OperandTypeOK ==
  /\ registers \in [Registers -> Words]
  /\ flags \subseteq {"N", "Z", "C", "V"}

\* After a comparison, and after any instructions that do not update the flags,
\* the signed conditions say how the compared words relate as signed numbers,
\* also when their difference overflows.
SignedConditionsTell ==
  Compared =>
    LET a == Signed(source.lhs)
        b == Signed(source.value)
    IN  /\ can_execute("Equal") <=> a = b
        /\ can_execute("GreaterThanEquals") <=> a >= b
        /\ can_execute("LessThan") <=> a < b
        /\ can_execute("GreaterThan") <=> a > b
        /\ can_execute("LessThanEquals") <=> a <= b

\* A sum of two words each: an Add that updates the flags on the low words, and
\* later, when only instructions that leave the flags came between, an
\* AddWithCarry on any high words give the sum of the two-word numbers.
SumsCarryOver ==
  source.op = "sum" =>
    \A a, b \in Words :
      LET low  == Number[source.lhs] + Number[source.value]
          high == Exact("AddWithCarry", Signed(a), Signed(b), Carry)
      IN  Number[WordOf(high)] = (Number[a] + Number[b] + low \div TwoTo[Width]) % TwoTo[Width]

\* Reference: what a register shifted by one bit and more is as a number, and the
\* bit that was shifted out last.
ShiftsByBits ==
  \A r \in Registers, n \in 1..(Width - 1) :
    LET x == registers[r]
        u == Number[x]
    IN  /\ Number[Shifted("LeftShift", x, n, Carry)] = (u * TwoTo[n]) % TwoTo[Width]
        /\ Number[Shifted("RightShift", x, n, Carry)] = u \div TwoTo[n]
        /\ Signed(Shifted("ArithmeticRightShift", x, n, Carry)) = Signed(x) \div TwoTo[n]
        /\ Number[Shifted("RotateRight", x, n, Carry)] =
             u \div TwoTo[n] + (u % TwoTo[n]) * TwoTo[Width - n]
        /\ ShiftCarry("LeftShift", x, n, Carry) <=> (u \div TwoTo[Width - n]) % 2 = 1
        /\ \A s \in {"RightShift", "ArithmeticRightShift", "RotateRight"} :
             ShiftCarry(s, x, n, Carry) <=> (u \div TwoTo[n - 1]) % 2 = 1

\* Reference: by 0 bits a shift to the left changes nothing, the shifts to the
\* right shift by the whole word, and the rotation is one by one bit of the word
\* with the carry in front of it.  Of the logical shift to the right only the
\* carry is the one of a whole word.
ShiftsByNothing ==
  \A r \in Registers :
    LET x == registers[r]
        u == Number[x]
    IN  /\ Shifted("LeftShift", x, 0, Carry) = x
        /\ Signed(Shifted("ArithmeticRightShift", x, 0, Carry)) = Signed(x) \div TwoTo[Width]
        /\ Number[Shifted("RotateRight", x, 0, Carry)] =
             (u + (IF Carry THEN TwoTo[Width] ELSE 0)) \div 2
        /\ ShiftCarry("LeftShift", x, 0, Carry) <=> Carry
        /\ \A s \in {"RightShift", "ArithmeticRightShift"} :
             ShiftCarry(s, x, 0, Carry) <=> (u \div TwoTo[Width - 1]) % 2 = 1
        /\ ShiftCarry("RotateRight", x, 0, Carry) <=> u % 2 = 1

\* The four shifts of a register, ShiftOperator::execute, and their carries are
\* arithmetic on its number, at both ends of the amounts that do not panic.
ShiftsAreArithmetic == ShiftsByBits /\ ShiftsByNothing

=============================================================================
