-------------------------- MODULE InstructionsProofs -------------------------
(***************************************************************************)
(* Proofs about Instructions: what the decoders make of every word, as far *)
(* as the core's cycle depends on it, what follows for the ticks and for   *)
(* Ip, and that the two decoders agree.                                    *)
(***************************************************************************)
EXTENDS Instructions, FiniteSetTheorems, TLAPS

-----------------------------------------------------------------------------
(* What the cycle depends on. *)

\* A list names registers, so that its length is at most 16.
ListFits(op) ==
  op.kind = "StoreOrLoadRegisters" => op.register_list \subseteq 0..15

\* A branch stays in the reach of its format and in step with half words or words.
InReach(n, step) == n \in (-2^25)..(2^25 - 1) /\ n % step = 0

TargetFits(op, step) ==
  op.kind = "Branch" /\ op.target.register = -1 => InReach(op.target.offset, step)

\* Thumb code writes Ip by branches, by POP, and by a Move to a high register
\* (an addition to one is not decoded): never as a base, never by another operation.
WritesIpSeldom(op) ==
  /\ op.kind # "Mrs"
  /\ op.kind = "StoreOrLoadRegister" =>
       /\ op.register_destination # Ip
       /\ op.address.write_back = FALSE
       /\ op.address.is_post_indexing = FALSE
  /\ op.kind = "StoreOrLoadRegisters" => op.register_base # Ip
  /\ op.kind = "ShifterOperandInstruction" /\ op.destination = Ip => op.op = "Move"

ThumbFits(op) == ListFits(op) /\ TargetFits(op, 2) /\ WritesIpSeldom(op)
ArmFits(op) == ListFits(op) /\ TargetFits(op, 4)

-----------------------------------------------------------------------------
(* Thumb half words, format by format. *)

LEMMA UnknownFits == ThumbFits(Unknown) /\ ArmFits(Unknown)
  BY SMT DEF ThumbFits, ArmFits, Unknown, ListFits, TargetFits, WritesIpSeldom

\* Half words have fields of three bits for the registers R0 to R7.
LEMMA LowRegisters ==
  ASSUME NEW w \in Nat
  PROVE  /\ Bits(w, 2, 0) # Ip
         /\ Bits(w, 5, 3) # Ip
         /\ Bits(w, 8, 6) # Ip
         /\ Bits(w, 10, 8) # Ip
  BY SMT DEF Bits, Ip

LEMMA NamedRegisters == R0 # Ip /\ Sp # Ip /\ Lr \in 0..15 /\ Ip \in 0..15
  BY DEF R0, Sp, Lr, Ip

\* Data processing into a low register, or a Move into any one.
LEMMA DataFits ==
  ASSUME NEW op, NEW update, NEW base, NEW d, NEW value,
         d # Ip \/ op = "Move"
  PROVE  ThumbFits(DataProcessing(op, update, base, d, value))
  BY SMT DEF ThumbFits, DataProcessing, ListFits, TargetFits, WritesIpSeldom

LEMMA TransferFits ==
  ASSUME NEW load, NEW base, NEW offset, NEW d, NEW size, d # Ip
  PROVE  ThumbFits(LoadStore(load, PlainAddress(base, offset), d, size))
  BY SMT DEF ThumbFits, LoadStore, PlainAddress, Address, ListFits, TargetFits, WritesIpSeldom

LEMMA BlockFits ==
  ASSUME NEW load, NEW base, NEW write_back, NEW list \in SUBSET (0..15), NEW mode, base # Ip
  PROVE  ThumbFits(LoadStoreMany(load, base, write_back, list, mode))
  BY SMT DEF ThumbFits, LoadStoreMany, ListFits, TargetFits, WritesIpSeldom

LEMMA BranchFits ==
  ASSUME NEW size, NEW link, NEW to_thumb, NEW switch, NEW n, InReach(n, 2)
  PROVE  ThumbFits(Branch(size, link, to_thumb, switch, Offset(n)))
  BY SMT DEF ThumbFits, Branch, Offset, ListFits, TargetFits, WritesIpSeldom

LEMMA ReturnFits ==
  ASSUME NEW size, NEW link, NEW to_thumb, NEW switch, NEW r \in 0..15
  PROVE  /\ ThumbFits(Branch(size, link, to_thumb, switch, RegisterWithOffset(r)))
         /\ ArmFits(Branch(size, link, to_thumb, switch, RegisterWithOffset(r)))
  BY SMT DEF ThumbFits, ArmFits, Branch, RegisterWithOffset, ListFits, TargetFits,
             WritesIpSeldom

LEMMA ListsAreRegisters == ASSUME NEW w PROVE ListOf(w) \in SUBSET (0..15)
  BY DEF ListOf

LEMMA Thumb000Fits == ASSUME NEW w \in Nat PROVE ThumbFits(thumb_op_code_000(w))
  BY LowRegisters, DataFits, Zenon DEF thumb_op_code_000

LEMMA Thumb001Fits == ASSUME NEW w \in Nat PROVE ThumbFits(thumb_op_code_001(w))
  BY LowRegisters, DataFits, Zenon DEF thumb_op_code_001

LEMMA AluFits == ASSUME NEW w \in Nat PROVE ThumbFits(Alu(w))
  BY LowRegisters, DataFits, UnknownFits, Zenon DEF Alu

LEMMA HighRegistersFits == ASSUME NEW w \in Nat PROVE ThumbFits(HighRegisters(w))
  <1>1. Bits(w, 6, 3) \in 0..15
    BY SMT DEF Bits
  <1> QED
    BY <1>1, NamedRegisters, DataFits, ReturnFits, UnknownFits, Zenon DEF HighRegisters

LEMMA LiteralFits == ASSUME NEW w \in Nat PROVE ThumbFits(LoadLiteral(w))
  <1>1. Bits(w, 10, 8) # Ip
    BY LowRegisters
  <1> QED
    BY <1>1, SMT DEF LoadLiteral, ThumbFits, LoadStore, PlainAddress, Address, ListFits,
                     TargetFits, WritesIpSeldom, Ip

LEMMA RegisterOffsetFits == ASSUME NEW w \in Nat PROVE ThumbFits(RegisterOffset(w))
  BY LowRegisters, TransferFits, Zenon DEF RegisterOffset

\* Bits 12 to 10 decide between the four; no pattern of them is left out.
LEMMA Thumb010Fits == ASSUME NEW w \in Nat PROVE ThumbFits(thumb_op_code_010(w))
  <1>1. \/ Bits(w, 12, 10) = 0
        \/ Bits(w, 12, 10) = 1
        \/ Bits(w, 12, 11) = 1
        \/ Bit(w, 12)
    BY SMT DEF Bits, Bit
  <1> QED
    BY <1>1, AluFits, HighRegistersFits, LiteralFits, RegisterOffsetFits, Zenon
    DEF thumb_op_code_010

LEMMA Thumb011Fits == ASSUME NEW w \in Nat PROVE ThumbFits(thumb_op_code_011(w))
  BY LowRegisters, TransferFits, Zenon DEF thumb_op_code_011

LEMMA Thumb100Fits == ASSUME NEW w \in Nat PROVE ThumbFits(thumb_op_code_100(w))
  BY LowRegisters, TransferFits, Zenon DEF thumb_op_code_100

LEMMA Thumb101Fits == ASSUME NEW w \in Nat PROVE ThumbFits(thumb_op_code_101(w))
  <1>1. /\ ListOf(Bits(w, 7, 0)) \cup (IF Bit(w, 8) THEN {Lr} ELSE {}) \in SUBSET (0..15)
        /\ ListOf(Bits(w, 7, 0)) \cup (IF Bit(w, 8) THEN {Ip} ELSE {}) \in SUBSET (0..15)
    BY ListsAreRegisters, NamedRegisters, Zenon
  <1> QED
    BY <1>1, LowRegisters, NamedRegisters, DataFits, BlockFits, UnknownFits, Zenon
    DEF thumb_op_code_101

-----------------------------------------------------------------------------
(* Instructions: an operation with its size and its condition. *)

\* In Thumb code only branches have a condition.
ThumbInstructionFits(i) ==
  /\ ThumbFits(i.op)
  /\ i.size \in {0, 2, 4}
  /\ i.condition # "Always" => i.op.kind = "Branch"

ArmInstructionFits(i) == ArmFits(i.op) /\ i.size \in {0, 2, 4}

LEMMA ErrorFits == ThumbInstructionFits(Error) /\ ArmInstructionFits(Error)
  BY UnknownFits, SMT DEF ThumbInstructionFits, ArmInstructionFits, Error, Instruction

LEMMA AlwaysFits ==
  ASSUME NEW size \in {2, 4}, NEW op, ThumbFits(op)
  PROVE  ThumbInstructionFits(Always(size, op))
  <1>1. CASE op = Unknown
    BY <1>1, ErrorFits DEF Always
  <1>2. CASE op # Unknown
    BY <1>2, SMT DEF Always, Instruction, ThumbInstructionFits
  <1> QED
    BY <1>1, <1>2

LEMMA ConditionalFits ==
  ASSUME NEW size \in {2, 4}, NEW condition, NEW op
  PROVE  /\ ThumbFits(op) /\ op.kind = "Branch" =>
              ThumbInstructionFits(Conditional(size, condition, op))
         /\ ArmFits(op) => ArmInstructionFits(Conditional(size, condition, op))
  <1>1. CASE condition = 15 \/ op = Unknown
    BY <1>1, ErrorFits DEF Conditional
  <1>2. CASE ~(condition = 15 \/ op = Unknown)
    <2> DEFINE i == Instruction(size, Conditions[condition + 1], op)
    <2>1. Conditional(size, condition, op) = i
      BY <1>2 DEF Conditional
    <2>2. i.op = op /\ i.size = size
      BY DEF Instruction
    <2> HIDE DEF i
    <2> QED
      BY <2>1, <2>2, SMT DEF ThumbInstructionFits, ArmInstructionFits
  <1> QED
    BY <1>1, <1>2

LEMMA Thumb110Fits ==
  ASSUME NEW w \in Nat
  PROVE  ThumbInstructionFits(thumb_op_code_110(w))
  <1> DEFINE byte == Bits(w, 7, 0)
             n == 2 * IF byte >= 2^7 THEN byte - 2^8 ELSE byte
             branch == Branch(2, FALSE, TRUE, FALSE, Offset(n))
             many == LoadStoreMany(Bit(w, 11), Bits(w, 10, 8), TRUE, ListOf(byte),
                                   "IncrementAfter")
  <1>1. ThumbFits(branch)
    <2>1. InReach(n, 2)
      BY SMT DEF Bits, InReach
    <2> QED
      BY <2>1, BranchFits
  <1>2. branch.kind = "Branch"
    BY DEF Branch
  <1>3. ThumbFits(many)
    BY LowRegisters, ListsAreRegisters, BlockFits
  <1>4. thumb_op_code_110(w) = IF Bit(w, 12) THEN Conditional(2, Bits(w, 11, 8), branch)
                               ELSE Always(2, many)
    BY DEF thumb_op_code_110
  <1> HIDE DEF branch, many
  <1> QED
    BY <1>1, <1>2, <1>3, <1>4, ConditionalFits, AlwaysFits

\* The prefix of a call gives the high part of its offset, with a sign, the suffix the
\* low part.
LEMMA LongBranchFits ==
  ASSUME NEW w \in Nat, NEW next \in Nat
  PROVE  ThumbFits(LongBranch(w, next))
  <1> DEFINE first  == 2^12 * IF Bit(w, 10) THEN Bits(w, 10, 0) - 2^11 ELSE Bits(w, 10, 0)
             second == 2 * Bits(next, 10, 0)
             switch == ~Bit(next, 12)
             n == first + second - IF switch /\ Bit(second, 1) THEN 2 ELSE 0
  <1>1. CASE ~Bit(next, 11)
    BY <1>1, UnknownFits DEF LongBranch
  <1>2. CASE Bit(next, 11)
    <2>1. LongBranch(w, next) = Branch(4, TRUE, TRUE, switch, Offset(n))
      BY <1>2 DEF LongBranch
    <2>2. Bits(w, 10, 0) \in 0..(2^11 - 1) /\ Bits(next, 10, 0) \in 0..(2^11 - 1)
      BY SMT DEF Bits
    <2>3. InReach(n, 2)
      BY <2>2, SMT DEF InReach
    <2> QED
      BY <2>1, <2>3, BranchFits
  <1> QED
    BY <1>1, <1>2

LEMMA Thumb111Fits ==
  ASSUME NEW w \in Nat, NEW next \in Nat
  PROVE  ThumbInstructionFits(thumb_op_code_111(w, next))
  <1> DEFINE offset == 2 * Bits(w, 10, 0)
             signed == IF Bit(offset, 11) THEN offset - 2^12 ELSE offset
  <1>1. Bits(w, 10, 0) \in 0..(2^11 - 1)
    BY SMT DEF Bits
  <1>2. ThumbFits(Branch(2, FALSE, TRUE, FALSE, Offset(signed)))
    <2>1. InReach(signed, 2)
      BY <1>1, SMT DEF InReach
    <2> QED
      BY <2>1, BranchFits
  <1>3. ThumbFits(Branch(2, TRUE, TRUE, FALSE, Offset(offset)))
    <2>1. InReach(offset, 2)
      BY <1>1, SMT DEF InReach
    <2> QED
      BY <2>1, BranchFits
  <1>4. /\ ThumbInstructionFits(Always(4, LongBranch(w, next)))
        /\ ThumbInstructionFits(Always(2, Branch(2, FALSE, TRUE, FALSE, Offset(signed))))
        /\ ThumbInstructionFits(Always(2, Branch(2, TRUE, TRUE, FALSE, Offset(offset))))
    BY <1>2, <1>3, LongBranchFits, AlwaysFits
  <1> QED
    BY <1>4, ErrorFits, Zenon DEF thumb_op_code_111

LEMMA ThumbDecodes ==
  ASSUME NEW w \in HalfWords, NEW next \in HalfWords
  PROVE  ThumbInstructionFits(decode_thumb(w, next))
  <1>1. w \in Nat /\ next \in Nat
    BY SMT DEF HalfWords
  <1>2. Bits(w, 15, 13) \in 0..7
    BY <1>1, SMT DEF Bits
  <1>3. /\ ThumbInstructionFits(Always(2, thumb_op_code_000(w)))
        /\ ThumbInstructionFits(Always(2, thumb_op_code_001(w)))
        /\ ThumbInstructionFits(Always(2, thumb_op_code_010(w)))
        /\ ThumbInstructionFits(Always(2, thumb_op_code_011(w)))
        /\ ThumbInstructionFits(Always(2, thumb_op_code_100(w)))
        /\ ThumbInstructionFits(Always(2, thumb_op_code_101(w)))
    BY <1>1, AlwaysFits, Thumb000Fits, Thumb001Fits, Thumb010Fits, Thumb011Fits,
       Thumb100Fits, Thumb101Fits
  <1>4. Bits(w, 15, 13) \in {0, 1, 2, 3, 4, 5, 6, 7}
    BY <1>2, SMT
  <1> QED
    BY <1>1, <1>3, <1>4, Thumb110Fits, Thumb111Fits, Zenon DEF decode_thumb

-----------------------------------------------------------------------------
(* ARM words. *)

LEMMA ArmOthersFit ==
  ASSUME NEW a, NEW b, NEW c, NEW d, NEW e
  PROVE  /\ ArmFits(DataProcessing(a, b, c, d, e))
         /\ ArmFits(LoadStore(a, b, c, d))
         /\ ArmFits([kind |-> "Mrs", use_spsr |-> a, register_base |-> b])
         /\ ArmFits([kind |-> "Msr", use_spsr |-> a, field_mask |-> b, operand |-> c])
  BY SMT DEF ArmFits, DataProcessing, LoadStore, ListFits, TargetFits

LEMMA Halves ==
  ASSUME NEW w \in HalfWords \X HalfWords
  PROVE  w[1] \in HalfWords /\ w[2] \in HalfWords
  BY SMT

\* 24 bits with a sign, times four.
LEMMA ArmBranchFits ==
  ASSUME NEW w \in HalfWords \X HalfWords
  PROVE  ArmFits(ArmBranch(w))
  <1> DEFINE high  == ArmBits(w, 23, 16)
             field == high * 2^16 + w[2]
             n == 4 * IF ArmBit(w, 23) THEN field - 2^24 ELSE field
  <1>1. PICK h \in 0..(2^16 - 1), l \in 0..(2^16 - 1) : h = w[1] /\ l = w[2]
    BY Halves, Zenon DEF HalfWords
  <1>2. high = Bits(h, 7, 0) /\ ArmBits(w, 23, 23) = Bits(h, 7, 7)
    BY <1>1, SMT DEF ArmBits
  <1>3. /\ high \in 0..255
        /\ ArmBit(w, 23) => high \in 128..255
        /\ ~ArmBit(w, 23) => high \in 0..127
    BY <1>1, <1>2, SMT DEF Bits, ArmBit
  <1>4. InReach(n, 4)
    <2> HIDE DEF high
    <2> QED
      BY <1>1, <1>3, SMT DEF InReach
  <1>5. ArmBranch(w) = Branch(4, ArmBit(w, 24), FALSE, FALSE, Offset(n))
    BY DEF ArmBranch
  <1> HIDE DEF n
  <1> QED
    BY <1>4, <1>5, SMT DEF ArmFits, Branch, Offset, ListFits, TargetFits

LEMMA ArmMiscellaneousFits ==
  ASSUME NEW w \in HalfWords \X HalfWords
  PROVE  ArmFits(ArmMiscellaneous(w))
  <1>1. ArmFits(Mode3(w))
    BY ArmOthersFit, UnknownFits, Zenon DEF Mode3
  <1>2. ArmFits(Mrs(w))
    BY ArmOthersFit, UnknownFits, Zenon DEF Mrs
  <1>3. ArmFits(Bx(w))
    <2>1. PICK l \in 0..(2^16 - 1) : l = w[2]
      BY Halves, Zenon DEF HalfWords
    <2>2. rm(w) \in 0..15
      BY <2>1, SMT DEF rm, ArmBits, Bits
    <2> QED
      BY <2>2, ReturnFits, UnknownFits, Zenon DEF Bx
  <1>4. ArmFits(Msr(w))
    BY ArmOthersFit, UnknownFits, Zenon DEF Msr
  <1>5. ArmFits(ArmData(w))
    BY ArmOthersFit, UnknownFits, Zenon DEF ArmData
  <1> QED
    BY <1>1, <1>2, <1>3, <1>4, <1>5, Zenon DEF ArmMiscellaneous

LEMMA ArmLoadStoreManyFits == ASSUME NEW w PROVE ArmFits(ArmLoadStoreMany(w))
  <1>1. ASSUME NEW a, NEW b, NEW c, NEW d \in SUBSET (0..15), NEW e
        PROVE  ArmFits(LoadStoreMany(a, b, c, d, e))
    BY SMT DEF ArmFits, LoadStoreMany, ListFits, TargetFits
  <1> QED
    BY <1>1, ListsAreRegisters, UnknownFits, Zenon DEF ArmLoadStoreMany

LEMMA ArmDecodes ==
  ASSUME NEW w \in HalfWords \X HalfWords
  PROVE  ArmInstructionFits(decode_arm(w))
  <1>1. ArmFits(ArmLoadStore(w))
    BY ArmOthersFit DEF ArmLoadStore
  <1>2. ArmFits(ArmOp(w))
    BY <1>1, ArmBranchFits, ArmMiscellaneousFits, ArmLoadStoreManyFits, UnknownFits, Zenon
    DEF ArmOp
  <1> QED
    BY <1>2, ConditionalFits DEF decode_arm

-----------------------------------------------------------------------------
(* The instruction of the state. *)

CodeOK ==
  /\ thumb \in BOOLEAN
  /\ thumb => code \in ThumbCodes
  /\ ~thumb => code \in ArmWords

LEMMA InstructionFits ==
  ASSUME CodeOK
  PROVE  /\ thumb => ThumbInstructionFits(instruction)
         /\ ~thumb => ArmInstructionFits(instruction)
  <1>1. CASE thumb
    <2>1. code[1] \in HalfWords /\ code[2] \in HalfWords
      BY <1>1, InstructionsAssumption, SMT DEF CodeOK
    <2> QED
      BY <1>1, <2>1, ThumbDecodes, Zenon DEF instruction
  <1>2. CASE ~thumb
    <2>1. code \in HalfWords \X HalfWords
      BY <1>2, InstructionsAssumption DEF CodeOK
    <2> QED
      BY <1>2, <2>1, ArmDecodes, Zenon DEF instruction
  <1> QED
    BY <1>1, <1>2

LEMMA ListLength ==
  ASSUME CodeOK, Op.kind = "StoreOrLoadRegisters"
  PROVE  Cardinality(Op.register_list) \in 0..16
  <1>1. Op.register_list \subseteq 0..15
    <2>1. ListFits(Op)
      BY InstructionFits, Zenon
      DEF ThumbInstructionFits, ArmInstructionFits, ThumbFits, ArmFits, Op, CodeOK
    <2> QED
      BY <2>1 DEF ListFits
  <1>2. IsFiniteSet(0..15) /\ Cardinality(0..15) = 16
    <2>1. PICK n \in Int : n = 15
      OBVIOUS
    <2>2. IsFiniteSet(0..n) /\ Cardinality(0..n) = IF 0 > n THEN 0 ELSE n - 0 + 1
      BY FS_Interval
    <2> QED
      BY <2>1, <2>2
  <1>3. /\ Cardinality(Op.register_list) \in Nat
        /\ Cardinality(Op.register_list) <= 16
    BY <1>1, <1>2, FS_Subset, FS_CardinalityType
  <1> QED
    BY <1>3, SMT

LEMMA DurationBounds == ASSUME CodeOK PROVE tick_duration \in 1..20
  <1>1. CASE Op.kind = "StoreOrLoadRegisters"
    <2> DEFINE length == Cardinality(Op.register_list)
    <2>1. length \in 0..16
      BY <1>1, ListLength
    <2>2. \/ tick_duration = length + IF Ip \in Op.register_list THEN 4 ELSE 2
          \/ tick_duration = length - 1 + 2
      BY <1>1, Zenon DEF tick_duration
    <2> HIDE DEF length
    <2> QED
      BY <2>1, <2>2, SMT
  <1>2. CASE Op.kind # "StoreOrLoadRegisters"
    <2>1. tick_duration \in {1, 2, 3, 4, 5}
      BY <1>2, Zenon DEF tick_duration
    <2> QED
      BY <2>1, SMT
  <1> QED
    BY <1>1, <1>2

-----------------------------------------------------------------------------
(* The two lists of the instructions that write Ip. *)

\* Who is on the core's list does write Ip, in both kinds of code.
LEMMA ListedWrite ==
  ASSUME NEW holding, increments_instruction_pointer(holding)
  PROVE  holding /\ WritesIp
  <1>1. CASE Op.kind = "Branch"
    BY <1>1, Zenon DEF increments_instruction_pointer, WritesIp
  <1>2. CASE Op.kind = "StoreOrLoadRegister"
    BY <1>2, Zenon DEF increments_instruction_pointer, WritesIp
  <1>3. CASE Op.kind = "StoreOrLoadRegisters"
    BY <1>3, Zenon DEF increments_instruction_pointer, WritesIp
  <1>4. CASE Op.kind = "ShifterOperandInstruction"
    <2>1. holding /\ Op.destination = Ip /\ Op.op \notin Comparing
      BY <1>4, Zenon DEF increments_instruction_pointer, Comparing
    <2> QED
      BY <1>4, <2>1, Zenon DEF WritesIp
  <1> QED
    BY <1>1, <1>2, <1>3, <1>4, Zenon DEF increments_instruction_pointer

\* In Thumb code nobody is missing, and nobody's condition can change.
LEMMA ThumbListed ==
  ASSUME CodeOK, thumb, NEW holding, holding, WritesIp
  PROVE  increments_instruction_pointer(holding)
  <1>1. WritesIpSeldom(Op)
    BY InstructionFits, Zenon DEF ThumbInstructionFits, ThumbFits, Op
  <1>2. CASE Op.kind = "Branch"
    BY <1>2, Zenon DEF increments_instruction_pointer
  <1>3. CASE Op.kind = "StoreOrLoadRegister"
    BY <1>1, <1>3, Zenon DEF WritesIpSeldom, WritesIp
  <1>4. CASE Op.kind = "StoreOrLoadRegisters"
    BY <1>1, <1>4, Zenon DEF increments_instruction_pointer, WritesIpSeldom, WritesIp
  <1>5. CASE Op.kind = "ShifterOperandInstruction"
    BY <1>1, <1>5, Zenon DEF increments_instruction_pointer, WritesIpSeldom, WritesIp
  <1>6. Op.kind # "Mrs"
    BY <1>1 DEF WritesIpSeldom
  <1> QED
    BY <1>2, <1>3, <1>4, <1>5, <1>6, Zenon DEF WritesIp

LEMMA ThumbKeepsCondition ==
  ASSUME CodeOK, thumb, instruction.condition # "Always"
  PROVE  ~WritesFlags
  <1>1. Op.kind = "Branch"
    BY InstructionFits, Zenon DEF ThumbInstructionFits, Op
  <1> QED
    BY <1>1, Zenon DEF WritesFlags

-----------------------------------------------------------------------------
(* The invariant. *)

CycleInv ==
  /\ CodeOK
  /\ phase \in {"fetch", "execute", "executed", "panicked"}
  /\ ip \in {"here", "behind", "written"}
  /\ holds \in BOOLEAN
  /\ wait_ticks \in Int
  /\ InstructionsTakeTicks
  /\ IpWritesStick

LEMMA CycleInvInit == Init => CycleInv
  BY 0 \in Int, Zenon DEF Init, CycleInv, CodeOK, InstructionsTakeTicks, IpWritesStick

\* The code of a cycle stays, and with it the instruction.
LEMMA SameInstruction ==
  ASSUME thumb' = thumb, code' = code
  PROVE  /\ CodeOK => CodeOK'
         /\ instruction' = instruction
         /\ WritesIp' <=> WritesIp
         /\ WritesFlags' <=> WritesFlags
  <1>1. instruction' = instruction
    BY DEF instruction
  <1>2. Op' = Op
    BY <1>1 DEF Op
  <1>3. CodeOK => CodeOK'
    BY DEF CodeOK
  <1>4. WritesIp' <=> WritesIp
    BY <1>2, Zenon DEF WritesIp
  <1>5. WritesFlags' <=> WritesFlags
    BY <1>2, Zenon DEF WritesFlags
  <1> QED
    BY <1>1, <1>3, <1>4, <1>5

LEMMA CycleInvStep == CycleInv /\ [Next]_vars => CycleInv'
  <1> SUFFICES ASSUME CycleInv, [Next]_vars
               PROVE  CycleInv'
    OBVIOUS
  <1> USE DEF CycleInv
  <1>0. thumb' = thumb /\ code' = code
    BY Zenon DEF Next, vars, Decodes, Panics, Executes, Continues, Stopped
  <1>1. CASE Decodes
    <2>1. tick_duration \in 1..20
      BY DurationBounds
    <2>2. holds' \in BOOLEAN
      BY <1>1, Zenon DEF Decodes
    <2>3. wait_ticks' \in 1..21
      <3> DEFINE ticks == tick_duration
      <3>1. ticks \in 1..20 /\ wait_ticks' = ticks + IF holds' THEN 0 ELSE 1
        BY <1>1, <2>1 DEF Decodes
      <3> HIDE DEF ticks
      <3> QED
        BY <2>2, <3>1, SMT
    <2>4. InstructionsTakeTicks' /\ wait_ticks' \in Int
      BY <2>3, InstructionsAssumption, SMT DEF InstructionsTakeTicks
    <2>5. IpWritesStick'
      BY <1>1, Zenon DEF Decodes, IpWritesStick
    <2> QED
      BY <1>0, <1>1, <2>2, <2>4, <2>5, SameInstruction DEF Decodes
  <1>2. CASE Panics
    BY <1>0, <1>2, SameInstruction, Zenon DEF Panics, InstructionsTakeTicks, IpWritesStick
  <1>3. CASE Executes
    <2> DEFINE listed == increments_instruction_pointer(holds)
               listed_after == increments_instruction_pointer(holds')
    <2>1. holds' \in BOOLEAN /\ (holds' => holds)
      BY <1>3, Zenon DEF Executes
    <2>2. listed => holds /\ WritesIp
      BY ListedWrite
    <2>3. listed_after => holds' /\ WritesIp
      BY ListedWrite
    <2>4. ip' = IF ~listed_after THEN IF listed THEN "here" ELSE "behind"
                ELSE IF holds /\ WritesIp THEN "written" ELSE "here"
      BY <1>3 DEF Executes
    <2>5. holds' # holds => WritesFlags /\ instruction.condition # "Always"
      BY <1>3, Zenon DEF Executes
    <2>6. listed /\ holds' = holds => listed_after
      OBVIOUS
    <2> HIDE DEF listed, listed_after
    <2>7. thumb => ip' = IF holds' /\ WritesIp THEN "written" ELSE "behind"
      <3> SUFFICES ASSUME thumb
                   PROVE  ip' = IF holds' /\ WritesIp THEN "written" ELSE "behind"
        OBVIOUS
      <3>1. holds' = holds
        BY <2>5, ThumbKeepsCondition
      <3>2. holds /\ WritesIp => listed
        BY ThumbListed DEF listed
      <3> QED
        BY <2>1, <2>2, <2>3, <2>4, <2>6, <3>1, <3>2, Zenon
    <2>8. ip' = "here" =>
            instruction.condition # "Always" /\ WritesFlags /\ WritesIp /\ ~holds'
      BY <2>1, <2>2, <2>3, <2>4, <2>5, <2>6, Zenon
    <2>9. IpWritesStick'
      BY <1>0, <2>7, <2>8, SameInstruction, Zenon DEF IpWritesStick
    <2> QED
      BY <1>0, <1>3, <2>1, <2>4, <2>9, SameInstruction, Zenon
      DEF Executes, InstructionsTakeTicks
  <1>4. CASE Continues
    BY <1>0, <1>4, SameInstruction, 0 \in Int, Zenon DEF Continues, InstructionsTakeTicks, IpWritesStick
  <1>5. CASE UNCHANGED vars
    <2>1. /\ phase' = phase /\ ip' = ip /\ holds' = holds /\ wait_ticks' = wait_ticks
          /\ instruction' = instruction
      BY <1>0, <1>5, SameInstruction DEF vars
    <2>2. InstructionsTakeTicks'
      BY <2>1 DEF InstructionsTakeTicks
    <2>3. IpWritesStick'
      BY <1>0, <2>1, SameInstruction DEF IpWritesStick
    <2> QED
      BY <1>0, <2>1, <2>2, <2>3, SameInstruction
  <1> QED
    BY <1>1, <1>2, <1>3, <1>4, <1>5 DEF Next, Stopped

LEMMA CycleInvHolds == Spec => []CycleInv
  BY CycleInvInit, CycleInvStep, PTL DEF Spec

-----------------------------------------------------------------------------

LEMMA DecodedFits ==
  ASSUME CodeOK
  PROVE  /\ instruction.size \in {0, 2, 4}
         /\ Op.kind = "Branch" => OffsetInReach(Op.target)
  <1>1. instruction.size \in {0, 2, 4}
    BY InstructionFits, Zenon DEF CodeOK, ThumbInstructionFits, ArmInstructionFits
  <1>2. TargetFits(Op, IF thumb THEN 2 ELSE 4)
    BY InstructionFits, Zenon
    DEF CodeOK, ThumbInstructionFits, ArmInstructionFits, ThumbFits, ArmFits, Op
  <1> QED
    BY <1>1, <1>2 DEF TargetFits, InReach, OffsetInReach

\* A branch of every word that is decoded stays in the reach of its format and in step
\* with the code it is in.
THEOREM TypeCorrect == Spec => []TypeOK
  <1>1. CycleInv => TypeOK
    BY DecodedFits, Zenon DEF CycleInv, TypeOK
  <1> QED
    BY <1>1, CycleInvHolds, PTL

\* For every half word, after its cycle Ip is what it wrote, or points behind it; for
\* every ARM word, Ip stays only if a conditional instruction that wrote it and the
\* flags has made its own condition fail.
THEOREM IpIsRight == Spec => []IpWritesStick
  <1>1. CycleInv => IpWritesStick
    BY DEF CycleInv
  <1> QED
    BY <1>1, CycleInvHolds, PTL

\* Every word that is decoded keeps the core waiting, from 1 tick to the longest.
THEOREM TicksAreBounded == Spec => []InstructionsTakeTicks
  <1>1. CycleInv => InstructionsTakeTicks
    BY DEF CycleInv
  <1> QED
    BY <1>1, CycleInvHolds, PTL


-----------------------------------------------------------------------------
(* The two decoders.  A Thumb half word that is short for an ARM word means *)
(* what decode_arm makes of that word: first the fields of the assembled    *)
(* words, then what decode_arm makes of each format, then the formats of    *)
(* Thumb code one by one.                                                   *)

\* The fields of a word of two halves.
LEMMA FieldsOfHalves ==
  ASSUME NEW h, NEW l
  PROVE  /\ ArmBits(<<h, l>>, 31, 28) = Bits(h, 15, 12)
         /\ ArmBits(<<h, l>>, 27, 25) = Bits(h, 11, 9)
         /\ ArmBits(<<h, l>>, 27, 23) = Bits(h, 11, 7)
         /\ ArmBits(<<h, l>>, 27, 20) = Bits(h, 11, 4)
         /\ ArmBits(<<h, l>>, 27, 26) = Bits(h, 11, 10)
         /\ ArmBits(<<h, l>>, 25, 25) = Bits(h, 9, 9)
         /\ ArmBits(<<h, l>>, 24, 24) = Bits(h, 8, 8)
         /\ ArmBits(<<h, l>>, 24, 23) = Bits(h, 8, 7)
         /\ ArmBits(<<h, l>>, 24, 21) = Bits(h, 8, 5)
         /\ ArmBits(<<h, l>>, 23, 23) = Bits(h, 7, 7)
         /\ ArmBits(<<h, l>>, 23, 16) = Bits(h, 7, 0)
         /\ ArmBits(<<h, l>>, 22, 22) = Bits(h, 6, 6)
         /\ ArmBits(<<h, l>>, 21, 21) = Bits(h, 5, 5)
         /\ ArmBits(<<h, l>>, 21, 20) = Bits(h, 5, 4)
         /\ ArmBits(<<h, l>>, 20, 20) = Bits(h, 4, 4)
         /\ ArmBits(<<h, l>>, 19, 16) = Bits(h, 3, 0)
         /\ \A high, low \in 0..15 : ArmBits(<<h, l>>, high, low) = Bits(l, high, low)
  BY SMT DEF ArmBits

\* The upper half of the ARM word of a data-processing instruction, field by field.
LEMMA DataHigh ==
  ASSUME NEW f \in {0, 1}, NEW op \in 0..15, NEW s \in {0, 1}, NEW n \in 0..15, NEW h,
         h = 14 * 2^12 + f * 2^9 + op * 2^5 + s * 2^4 + n
  PROVE  /\ Bits(h, 15, 12) = 14
         /\ Bits(h, 11, 9) = f
         /\ Bits(h, 9, 9) = f
         /\ Bits(h, 11, 10) = 0
         /\ Bits(h, 8, 5) = op
         /\ Bits(h, 4, 4) = s
         /\ Bits(h, 3, 0) = n
         /\ Bits(h, 5, 4) = 2 * (op % 2) + s
         /\ Bits(h, 11, 7) = 4 * f + op \div 4
         /\ Bits(h, 8, 7) = op \div 4
         /\ Bits(h, 11, 4) = 32 * f + 2 * op + s
  <1> USE DEF Bits
  <1>1. Bits(h, 15, 12) = 14
    BY SMTT(20)
  <1>2. Bits(h, 11, 9) = f /\ Bits(h, 9, 9) = f
    BY SMTT(20)
  <1>3. Bits(h, 11, 10) = 0
    BY SMTT(20)
  <1>4. Bits(h, 8, 5) = op
    BY SMTT(20)
  <1>5. Bits(h, 4, 4) = s
    BY SMTT(20)
  <1>6. Bits(h, 3, 0) = n
    BY SMTT(20)
  <1>7. Bits(h, 5, 4) = 2 * (op % 2) + s
    BY SMTT(20)
  <1>8. Bits(h, 11, 7) = 4 * f + op \div 4
    BY SMTT(20)
  <1>9. Bits(h, 8, 7) = op \div 4
    BY SMTT(20)
  <1>10. Bits(h, 11, 4) = 32 * f + 2 * op + s
    BY SMTT(20)
  <1> HIDE DEF Bits
  <1> QED
    BY <1>1, <1>2, <1>3, <1>4, <1>5, <1>6, <1>7, <1>8, <1>9, <1>10

\* What a data-processing word has for its operand: 12 bits.
OperandFields == 0..(2^12 - 1)

\* And its lower half: the destination and what the operand is encoded as.
LEMMA DataLow ==
  ASSUME NEW d \in 0..15, NEW operand \in OperandFields, NEW l, l = d * 2^12 + operand
  PROVE  /\ Bits(l, 15, 12) = d
         /\ Bits(l, 11, 8) = Bits(operand, 11, 8)
         /\ Bits(l, 11, 7) = Bits(operand, 11, 7)
         /\ Bits(l, 11, 4) = Bits(operand, 11, 4)
         /\ Bits(l, 11, 0) = operand
         /\ Bits(l, 7, 7) = Bits(operand, 7, 7)
         /\ Bits(l, 7, 4) = Bits(operand, 7, 4)
         /\ Bits(l, 7, 0) = Bits(operand, 7, 0)
         /\ Bits(l, 6, 5) = Bits(operand, 6, 5)
         /\ Bits(l, 4, 4) = Bits(operand, 4, 4)
         /\ Bits(l, 3, 0) = Bits(operand, 3, 0)
  BY SMTT(30) DEF Bits, OperandFields

\* An operation is the operation of its instruction, whatever the condition is.
LEMMA OperationOf ==
  ASSUME NEW size, NEW condition, NEW op
  PROVE  /\ Always(size, op).op = op
         /\ condition # 15 => Conditional(size, condition, op).op = op
         /\ condition = 15 => Conditional(size, condition, op).op = Unknown
  BY SMT DEF Always, Conditional, Instruction, Error

\* Meaning leaves alone what is not of the kinds it looks into.
LEMMA MeaningByKind ==
  ASSUME NEW op
  PROVE  /\ op.kind = "ShifterOperandInstruction" =>
              Meaning(op) = [op EXCEPT !.value = OperandMeaning(@),
                                       !.base = IF op.op = "Move" THEN R0 ELSE @,
                                       !.destination =
                                         IF op.op \in {"Compare", "Test"} THEN R0 ELSE @]
         /\ op.kind = "StoreOrLoadRegister" =>
              Meaning(op) = [op EXCEPT !.address.offset = OperandMeaning(@)]
         /\ op.kind = "Branch" =>
              Meaning(op) = [op EXCEPT !.instruction_size = 4,
                                       !.return_address_is_thumb = FALSE]
         /\ op.kind = "StoreOrLoadRegisters" => Meaning(op) = op
  BY Zenon DEF Meaning

\* What a data-processing instruction means: the operation on what the operand means.
LEMMA DataMeans ==
  ASSUME NEW op, NEW update, NEW base, NEW d, NEW value
  PROVE  Meaning(DataProcessing(op, update, base, d, value)) =
           DataProcessing(op, update, IF op = "Move" THEN R0 ELSE base,
                          IF op \in {"Compare", "Test"} THEN R0 ELSE d, OperandMeaning(value))
  <1> DEFINE x == DataProcessing(op, update, base, d, value)
  <1>1. x.kind = "ShifterOperandInstruction" /\ x.op = op
    BY DEF DataProcessing
  <1>2. Meaning(x) = [x EXCEPT !.value = OperandMeaning(@),
                               !.base = IF x.op = "Move" THEN R0 ELSE @,
                               !.destination = IF x.op \in {"Compare", "Test"} THEN R0 ELSE @]
    <2> HIDE DEF x
    <2> QED
      BY <1>1, MeaningByKind
  <1> QED
    BY <1>1, <1>2 DEF DataProcessing

\* What a transfer means: the transfer by what the offset means.
LEMMA TransferMeans ==
  ASSUME NEW load, NEW base, NEW offset, NEW d, NEW size
  PROVE  Meaning(LoadStore(load, PlainAddress(base, offset), d, size)) =
           LoadStore(load, PlainAddress(base, OperandMeaning(offset)), d, size)
  <1> DEFINE x == LoadStore(load, PlainAddress(base, offset), d, size)
  <1>1. x.kind = "StoreOrLoadRegister"
    BY DEF LoadStore
  <1>2. Meaning(x) = [x EXCEPT !.address.offset = OperandMeaning(@)]
    <2> HIDE DEF x
    <2> QED
      BY <1>1, MeaningByKind
  <1> QED
    BY <1>2 DEF LoadStore, PlainAddress, Address

\* The branches of Thumb half words and the ones of ARM words: by an offset, and to a
\* register with a change of the mode.
ThumbJump(target) == Branch(2, FALSE, TRUE, FALSE, target)
ArmJump(target) == Branch(4, FALSE, FALSE, FALSE, target)
ThumbReturn(target) == Branch(2, FALSE, TRUE, TRUE, target)
ArmReturn(target) == Branch(4, FALSE, FALSE, TRUE, target)

\* A branch of Thumb code means the branch of ARM code.
LEMMA BranchMeans ==
  ASSUME NEW target
  PROVE  /\ Meaning(ThumbJump(target)) = Meaning(ArmJump(target))
         /\ Meaning(ThumbReturn(target)) = Meaning(ArmReturn(target))
  <1>1. ASSUME NEW no, NEW yes, no = FALSE, yes = TRUE
        PROVE  /\ Meaning(ThumbJump(target)) = Meaning(ArmJump(target))
               /\ Meaning(ThumbReturn(target)) = Meaning(ArmReturn(target))
    <2>1. ASSUME NEW size, NEW link, NEW to_thumb, NEW switch
          PROVE  Meaning(Branch(size, link, to_thumb, switch, target)) =
                   Branch(4, link, no, switch, target)
      <3> DEFINE x == Branch(size, link, to_thumb, switch, target)
      <3>1. x.kind = "Branch"
        BY DEF Branch
      <3>2. Meaning(x) = [x EXCEPT !.instruction_size = 4, !.return_address_is_thumb = FALSE]
        <4> HIDE DEF x
        <4> QED
          BY <3>1, MeaningByKind
      <3>3. Meaning(x) = Branch(4, link, FALSE, switch, target)
        BY <3>2 DEF Branch
      <3> QED
        BY <1>1, <3>3
    <2>2. /\ ThumbJump(target) = Branch(2, no, yes, no, target)
          /\ ArmJump(target) = Branch(4, no, no, no, target)
          /\ ThumbReturn(target) = Branch(2, no, yes, yes, target)
          /\ ArmReturn(target) = Branch(4, no, no, yes, target)
      BY <1>1 DEF ThumbJump, ArmJump, ThumbReturn, ArmReturn
    <2> QED
      BY <2>1, <2>2
  <1> QED
    BY <1>1

\* What each form of an operand means.
LEMMA OperandMeans ==
  /\ \A n : OperandMeaning(Immediate(n, 0)) = Immediate(n, 0)
  /\ \A n : OperandMeaning(Immediate(n, 30)) = Immediate(4 * n, 0)
  /\ \A r : OperandMeaning(Register(r)) = Register(r)
  /\ \A r : OperandMeaning(RegisterImmediate(r, "LeftShift", 0)) = Register(r)
  /\ \A r, shift, by : OperandMeaning(RegisterRegister(r, shift, by))
                         = RegisterRegister(r, shift, by)
  <1>1. \A o : /\ o.kind = "Immediate" =>
                    OperandMeaning(o) = Immediate(IF o.rotation = 30 THEN 4 * o.value
                                                  ELSE o.value, 0)
               /\ o.kind = "RegisterImmediate" /\ o.shift = "LeftShift" /\ o.by = 0 =>
                    OperandMeaning(o) = Register(o.register)
               /\ o.kind \in {"Register", "RegisterRegister"} => OperandMeaning(o) = o
    BY Zenon DEF OperandMeaning
  <1>2. \A n, k : Immediate(n, k).kind = "Immediate" /\ Immediate(n, k).rotation = k
                  /\ Immediate(n, k).value = n
    BY DEF Immediate
  <1>3. \A r : Register(r).kind = "Register"
    BY DEF Register
  <1>4. \A r, shift, by : /\ RegisterImmediate(r, shift, by).kind = "RegisterImmediate"
                          /\ RegisterImmediate(r, shift, by).shift = shift
                          /\ RegisterImmediate(r, shift, by).by = by
                          /\ RegisterImmediate(r, shift, by).register = r
                          /\ RegisterRegister(r, shift, by).kind = "RegisterRegister"
    BY DEF RegisterImmediate, RegisterRegister
  <1>5. \A n : OperandMeaning(Immediate(n, 0)) = Immediate(n, 0)
    BY <1>1, <1>2
  <1>6. \A n : OperandMeaning(Immediate(n, 30)) = Immediate(4 * n, 0)
    BY <1>1, <1>2
  <1>7. \A r : OperandMeaning(Register(r)) = Register(r)
    BY <1>1, <1>3
  <1>8. \A r : OperandMeaning(RegisterImmediate(r, "LeftShift", 0)) = Register(r)
    BY <1>1, <1>4
  <1>9. \A r, shift, by : OperandMeaning(RegisterRegister(r, shift, by))
                            = RegisterRegister(r, shift, by)
    BY <1>1, <1>4
  <1> QED
    BY <1>5, <1>6, <1>7, <1>8, <1>9

\* The operations of the table of ARM words.
KnownOperations == {0, 1, 2, 3, 4, 8, 10, 12, 13, 14}

\* The operations by number.
LEMMA OperationNames ==
  /\ Operations[1] = "And" /\ Operations[2] = "ExclusiveOr" /\ Operations[3] = "Subtract"
  /\ Operations[4] = "ReverseSubtract" /\ Operations[5] = "Add" /\ Operations[9] = "Test"
  /\ Operations[11] = "Compare" /\ Operations[13] = "InclusiveOr"
  /\ Operations[14] = "Move" /\ Operations[15] = "BitClear"
  <1>1. \A a, b, c, d, e, f, g, h, i, j, k, l, m, n, o, p :
          LET t == <<a, b, c, d, e, f, g, h, i, j, k, l, m, n, o, p>>
          IN  /\ t[1] = a /\ t[2] = b /\ t[3] = c /\ t[4] = d /\ t[5] = e /\ t[9] = i
              /\ t[11] = k /\ t[13] = m /\ t[14] = n /\ t[15] = o
    BY SMT
  <1> QED
    BY <1>1, Zenon DEF Operations

\* A known number is not refused.
LEMMA OperationKnown ==
  ASSUME NEW op \in KnownOperations
  PROVE  /\ op \in 0..15
         /\ Operations[op + 1] # ""
         /\ Operations[op + 1] = "Move" <=> op = 13
         /\ Operations[op + 1] \notin {"TestEquals", "Compare"} \/ op = 10
  <1>1. op \in 0..15
    BY SMT DEF KnownOperations
  <1>2. /\ op = 0 => op + 1 = 1
        /\ op = 1 => op + 1 = 2
        /\ op = 2 => op + 1 = 3
        /\ op = 3 => op + 1 = 4
        /\ op = 4 => op + 1 = 5
        /\ op = 8 => op + 1 = 9
        /\ op = 10 => op + 1 = 11
        /\ op = 12 => op + 1 = 13
        /\ op = 13 => op + 1 = 14
        /\ op = 14 => op + 1 = 15
        /\ op \in {0, 1, 2, 3, 4, 8, 12, 14} => op # 13
        /\ op = 10 => op # 13
    BY SMT
  <1> QED
    BY <1>1, <1>2, OperationNames, Zenon DEF KnownOperations

\* Which format a word is of, by the fields of its upper half.
LEMMA ArmFormats ==
  ASSUME NEW w
  PROVE  /\ ArmBits(w, 27, 25) \in {0, 1} => ArmOp(w) = ArmMiscellaneous(w)
         /\ ArmBits(w, 27, 25) \in {2, 3} => ArmOp(w) = ArmLoadStore(w)
         /\ ArmBits(w, 27, 25) = 4 => ArmOp(w) = ArmLoadStoreMany(w)
         /\ ArmBits(w, 27, 25) = 5 => ArmOp(w) = ArmBranch(w)
  <1> DEFINE c == ArmBits(w, 27, 25)
  <1>1. /\ c \in {0, 1} => c \notin {2, 3} /\ c # 4 /\ c # 5
        /\ c \in {2, 3} => c \notin {0, 1} /\ c # 4 /\ c # 5
        /\ c = 4 => c \notin {0, 1} /\ c \notin {2, 3} /\ c # 5
        /\ c = 5 => c \notin {0, 1} /\ c \notin {2, 3} /\ c # 4
    BY SMT
  <1> QED
    BY <1>1, Zenon DEF ArmOp

\* The operand of a data-processing word by its field.
Encoded(immediate, operand) ==
  IF immediate THEN Immediate(Bits(operand, 7, 0), 2 * Bits(operand, 11, 8))
  ELSE IF Bits(operand, 4, 4) # 1
  THEN RegisterImmediate(Bits(operand, 3, 0), ShiftOperator(Bits(operand, 6, 5)),
                         Bits(operand, 11, 7))
  ELSE RegisterRegister(Bits(operand, 3, 0), ShiftOperator(Bits(operand, 6, 5)),
                        Bits(operand, 11, 8))

\* What decode_arm makes of a data-processing word: an operation the table knows, a
\* comparison only with its flags, a Move only without a base, a shift by a register
\* only with bit 7 clear.
LEMMA DataDecodes ==
  ASSUME NEW immediate \in BOOLEAN, NEW op \in KnownOperations, NEW s \in BOOLEAN,
         NEW n \in 0..15, NEW d \in 0..15, NEW operand \in OperandFields,
         s \/ op \notin 8..11, op = 13 => n = 0,
         immediate \/ Bits(operand, 4, 4) # 1 \/ Bits(operand, 7, 7) # 1
  PROVE  decode_arm(DataWord(immediate, op, s, n, d, operand)).op =
           DataProcessing(Operations[op + 1], s, n, d,
             Encoded(immediate, operand))
  <1> DEFINE f == Flag(immediate)
             g == Flag(s)
             h == 14 * 2^12 + (f * 2^9 + op * 2^5 + g * 2^4 + n)
             l == d * 2^12 + operand
             w == <<h, l>>
  <1>op. op \in 0..15
    BY OperationKnown
  <1>1. DataWord(immediate, op, s, n, d, operand) = w
    BY DEF DataWord, Word
  <1>2. f \in {0, 1} /\ g \in {0, 1} /\ (immediate <=> f = 1) /\ (s <=> g = 1)
    BY DEF Flag
  <1>3. h = 14 * 2^12 + f * 2^9 + op * 2^5 + g * 2^4 + n
    BY <1>op, <1>2, SMT
  <1>low. l = d * 2^12 + operand
    OBVIOUS
  <1> HIDE DEF f, g, h, l
  <1>4. /\ Bits(h, 15, 12) = 14 /\ Bits(h, 11, 9) = f /\ Bits(h, 9, 9) = f
        /\ Bits(h, 11, 10) = 0 /\ Bits(h, 8, 5) = op /\ Bits(h, 4, 4) = g
        /\ Bits(h, 3, 0) = n /\ Bits(h, 5, 4) = 2 * (op % 2) + g
        /\ Bits(h, 11, 7) = 4 * f + op \div 4 /\ Bits(h, 8, 7) = op \div 4
        /\ Bits(h, 11, 4) = 32 * f + 2 * op + g
    BY <1>op, <1>2, <1>3, DataHigh
  <1> HIDE DEF w
  <1>5. /\ Bits(l, 15, 12) = d
        /\ Bits(l, 11, 8) = Bits(operand, 11, 8) /\ Bits(l, 11, 7) = Bits(operand, 11, 7)
        /\ Bits(l, 7, 7) = Bits(operand, 7, 7) /\ Bits(l, 7, 0) = Bits(operand, 7, 0)
        /\ Bits(l, 6, 5) = Bits(operand, 6, 5) /\ Bits(l, 4, 4) = Bits(operand, 4, 4)
        /\ Bits(l, 3, 0) = Bits(operand, 3, 0)
    BY <1>low, DataLow
  <1>6. /\ rn(w) = n /\ rd(w) = d /\ rs(w) = Bits(operand, 11, 8) /\ rm(w) = Bits(operand, 3, 0)
        /\ ArmBit(w, 25) = immediate /\ ArmBit(w, 20) = s
        /\ ArmBit(w, 4) = (Bits(operand, 4, 4) = 1) /\ ArmBit(w, 7) = (Bits(operand, 7, 7) = 1)
    BY <1>2, <1>4, <1>5, FieldsOfHalves, SMT DEF w, rn, rd, rs, rm, ArmBit
  <1>7. /\ ArmBits(w, 31, 28) = 14 /\ ArmBits(w, 27, 25) = f /\ ArmBits(w, 24, 21) = op
        /\ ArmBits(w, 7, 0) = Bits(operand, 7, 0) /\ ArmBits(w, 6, 5) = Bits(operand, 6, 5)
        /\ ArmBits(w, 11, 7) = Bits(operand, 11, 7)
    BY <1>4, <1>5, FieldsOfHalves, SMT DEF w
  <1>8. ~IsMode3(w)
    BY <1>6 DEF IsMode3
  <1>9. ~IsMrs(w) /\ ~IsBx(w) /\ ~IsMsr(w)
    <2>1. /\ ArmBits(w, 27, 23) = 4 * f + op \div 4 /\ ArmBits(w, 21, 20) = 2 * (op % 2) + g
          /\ ArmBits(w, 27, 20) = 32 * f + 2 * op + g /\ ArmBits(w, 24, 23) = op \div 4
      BY <1>4, FieldsOfHalves, SMT DEF w
    <2>2. op \div 4 = 2 => g = 1
      BY <1>op, <1>2, SMT
    <2>3. /\ 4 * f + op \div 4 = 2 => 2 * (op % 2) + g # 0
          /\ op \div 4 = 2 => 2 * (op % 2) + g # 2
          /\ 32 * f + 2 * op + g # 18
      BY <1>op, <1>2, <2>2, SMT
    <2> QED
      BY <2>1, <2>3, Zenon DEF IsMrs, IsBx, IsMsr
  <1>10. ArmOp(w) = ArmData(w)
    <2>1. ArmMiscellaneous(w) = ArmData(w)
      BY <1>8, <1>9 DEF ArmMiscellaneous
    <2> QED
      BY <1>2, <1>7, <2>1, ArmFormats
  <1>11. ArmData(w) = DataProcessing(Operations[op + 1], s, n, d, OperandOf(w))
    <2>1. s \/ op # 10
      OBVIOUS
    <2>2. op = 13 => n = R0
      BY DEF R0
    <2> QED
      BY <1>6, <1>7, <2>1, <2>2, OperationKnown, Zenon DEF ArmData
  <1>12. OperandOf(w) =
           Encoded(immediate, operand)
    BY <1>6, <1>7, Zenon DEF OperandOf, ShiftedRegister, Encoded
  <1>13. decode_arm(w).op = ArmOp(w)
    BY <1>7, OperationOf, SMT DEF decode_arm
  <1> QED
    BY <1>1, <1>10, <1>11, <1>12, <1>13 DEF w

\* The offset of such a word by its field.
OffsetOf(register, offset) ==
  IF register
  THEN RegisterImmediate(Bits(offset, 3, 0), ShiftOperator(Bits(offset, 6, 5)),
                         Bits(offset, 11, 7))
  ELSE Immediate(offset, 0)

\* What decode_arm makes of a load or a store of a word or a byte.
LEMMA TransferDecodes ==
  ASSUME NEW load \in BOOLEAN, NEW byte \in BOOLEAN, NEW register \in BOOLEAN,
         NEW n \in 0..15, NEW d \in 0..15, NEW offset \in OperandFields
  PROVE  decode_arm(TransferWord(load, byte, register, n, d, offset)).op =
           LoadStore(load,
             PlainAddress(n, OffsetOf(register, offset)), d, IF byte THEN "Byte" ELSE "Word")
  <1> DEFINE f == Flag(register)
             b == Flag(byte)
             g == Flag(load)
             h == 14 * 2^12 + (2^10 + f * 2^9 + 2^8 + 2^7 + b * 2^6 + g * 2^4 + n)
             l == d * 2^12 + offset
             w == <<h, l>>
  <1>1. TransferWord(load, byte, register, n, d, offset) = w
    BY DEF TransferWord, Word
  <1>2. /\ f \in {0, 1} /\ b \in {0, 1} /\ g \in {0, 1}
        /\ (register <=> f = 1) /\ (byte <=> b = 1) /\ (load <=> g = 1)
    BY DEF Flag
  <1>3. l = d * 2^12 + offset
    OBVIOUS
  <1> HIDE DEF f, b, g, l
  <1>4. /\ Bits(h, 15, 12) = 14 /\ Bits(h, 11, 9) = 2 + f /\ Bits(h, 9, 9) = f
        /\ Bits(h, 8, 8) = 1 /\ Bits(h, 7, 7) = 1 /\ Bits(h, 6, 6) = b
        /\ Bits(h, 5, 5) = 0 /\ Bits(h, 4, 4) = g /\ Bits(h, 3, 0) = n
    BY <1>2, SMT DEF Bits
  <1> HIDE DEF h, w
  <1>5. /\ Bits(l, 15, 12) = d /\ Bits(l, 11, 7) = Bits(offset, 11, 7)
        /\ Bits(l, 11, 0) = offset /\ Bits(l, 6, 5) = Bits(offset, 6, 5)
        /\ Bits(l, 3, 0) = Bits(offset, 3, 0)
    BY <1>3, DataLow
  <1>6. /\ rn(w) = n /\ rd(w) = d /\ rm(w) = Bits(offset, 3, 0)
        /\ ArmBit(w, 25) = register /\ ArmBit(w, 24) = TRUE /\ ArmBit(w, 23) = TRUE
        /\ ArmBit(w, 22) = byte /\ ArmBit(w, 21) = FALSE /\ ArmBit(w, 20) = load
    BY <1>2, <1>4, <1>5, FieldsOfHalves, SMT DEF w, rn, rd, rm, ArmBit
  <1>7. /\ ArmBits(w, 31, 28) = 14 /\ ArmBits(w, 27, 25) \in {2, 3}
        /\ ArmBits(w, 11, 0) = offset /\ ArmBits(w, 6, 5) = Bits(offset, 6, 5)
        /\ ArmBits(w, 11, 7) = Bits(offset, 11, 7)
    BY <1>2, <1>4, <1>5, FieldsOfHalves, SMT DEF w
  <1>8. ArmOp(w) = ArmLoadStore(w)
    BY <1>7, ArmFormats
  <1>9. AddressOf(w) = PlainAddress(n, OffsetOf(register, offset))
    BY <1>6, <1>7 DEF PlainAddress, AddressOf, ShiftedRegister, OffsetOf
  <1>10. decode_arm(w).op = ArmOp(w)
    BY <1>7, OperationOf, SMT DEF decode_arm
  <1> QED
    BY <1>1, <1>6, <1>8, <1>9, <1>10 DEF ArmLoadStore

\* What decode_arm makes of a load or a store of a half word.
LEMMA HalfwordDecodes ==
  ASSUME NEW load \in BOOLEAN, NEW immediate \in BOOLEAN, NEW n \in 0..15, NEW d \in 0..15,
         NEW offset \in 0..127
  PROVE  decode_arm(HalfwordWord(load, immediate, n, d, offset)).op =
           LoadStore(load,
             PlainAddress(n, IF immediate THEN Immediate(offset, 0)
                             ELSE Register(offset % 16)),
             d, "Halfword")
  <1> DEFINE f == Flag(immediate)
             g == Flag(load)
             h == 14 * 2^12 + (2^8 + 2^7 + f * 2^6 + g * 2^4 + n)
             l == d * 2^12 + (offset \div 16) * 2^8 + 11 * 2^4 + (offset % 16)
             w == <<h, l>>
  <1>1. HalfwordWord(load, immediate, n, d, offset) = w
    BY DEF HalfwordWord, Word
  <1>2. f \in {0, 1} /\ g \in {0, 1} /\ (immediate <=> f = 1) /\ (load <=> g = 1)
    BY DEF Flag
  <1> HIDE DEF f, g
  <1>3. /\ Bits(h, 15, 12) = 14 /\ Bits(h, 11, 9) = 0 /\ Bits(h, 9, 9) = 0
        /\ Bits(h, 8, 8) = 1 /\ Bits(h, 7, 7) = 1 /\ Bits(h, 6, 6) = f
        /\ Bits(h, 5, 5) = 0 /\ Bits(h, 4, 4) = g /\ Bits(h, 3, 0) = n
    BY <1>2, SMT DEF Bits
  <1>4. /\ Bits(l, 15, 12) = d /\ Bits(l, 11, 8) = offset \div 16 /\ Bits(l, 7, 4) = 11
        /\ Bits(l, 7, 7) = 1 /\ Bits(l, 4, 4) = 1 /\ Bits(l, 3, 0) = offset % 16
    BY SMT DEF Bits
  <1> HIDE DEF h, l, w
  <1>5. /\ rn(w) = n /\ rd(w) = d /\ rs(w) = offset \div 16 /\ rm(w) = offset % 16
        /\ ArmBit(w, 25) = FALSE /\ ArmBit(w, 24) = TRUE /\ ArmBit(w, 23) = TRUE
        /\ ArmBit(w, 22) = immediate /\ ArmBit(w, 21) = FALSE /\ ArmBit(w, 20) = load
        /\ ArmBit(w, 7) = TRUE /\ ArmBit(w, 4) = TRUE
    BY <1>2, <1>3, <1>4, FieldsOfHalves, SMT DEF w, rn, rd, rs, rm, ArmBit
  <1>6. ArmBits(w, 31, 28) = 14 /\ ArmBits(w, 27, 25) = 0 /\ ArmBits(w, 7, 4) = 11
    BY <1>3, <1>4, FieldsOfHalves, SMT DEF w
  <1>7. ArmOp(w) = Mode3(w)
    <2>1. IsMode3(w)
      BY <1>5 DEF IsMode3
    <2> QED
      BY <1>6, <2>1, ArmFormats DEF ArmMiscellaneous
  <1>8. Mode3(w) = LoadStore(load, from_addressing_mode_3(w), d, "Halfword")
    <2>1. 11 # 9 /\ 11 \in {11, 15}
      BY SMT
    <2> QED
      BY <1>5, <1>6, <2>1, Zenon DEF Mode3
  <1>9. from_addressing_mode_3(w) =
          PlainAddress(n, IF immediate THEN Immediate(offset, 0) ELSE Register(offset % 16))
    <2>1. (offset \div 16) * 16 + (offset % 16) = offset
      BY SMT
    <2> QED
      BY <1>5, <2>1 DEF from_addressing_mode_3, PlainAddress
  <1>10. decode_arm(w).op = ArmOp(w)
    BY <1>6, OperationOf, SMT DEF decode_arm
  <1> QED
    BY <1>1, <1>7, <1>8, <1>9, <1>10

ModeOf(before, up) == from_flags(~before, ~up)

\* What decode_arm makes of a load or a store of several registers.
BlockFields(load, before, up, n) ==
  load \in BOOLEAN /\ before \in BOOLEAN /\ up \in BOOLEAN /\ n \in 0..15

\* A block transfer: the mode, the base and the list of its word.
LEMMA BlockDecodes ==
  ASSUME NEW load, NEW before, NEW up, NEW n, NEW list, BlockFields(load, before, up, n)
  PROVE  decode_arm(BlockWord(load, before, up, n, list)).op =
           LoadStoreMany(load, n, TRUE, ListOf(list), ModeOf(before, up))
  <1>0. load \in BOOLEAN /\ before \in BOOLEAN /\ up \in BOOLEAN /\ n \in 0..15
    BY DEF BlockFields
  <1> DEFINE f == Flag(before)
             b == Flag(up)
             g == Flag(load)
             h == 14 * 2^12 + (2^11 + f * 2^8 + b * 2^7 + 2^5 + g * 2^4 + n)
             w == <<h, list>>
  <1>1. BlockWord(load, before, up, n, list) = w
    BY DEF BlockWord, Word
  <1>2. /\ f \in {0, 1} /\ b \in {0, 1} /\ g \in {0, 1}
        /\ (before <=> f = 1) /\ (up <=> b = 1) /\ (load <=> g = 1)
    BY <1>0 DEF Flag
  <1> HIDE DEF f, b, g
  <1>3. /\ Bits(h, 15, 12) = 14 /\ Bits(h, 11, 9) = 4
        /\ Bits(h, 8, 8) = f /\ Bits(h, 7, 7) = b /\ Bits(h, 6, 6) = 0
        /\ Bits(h, 5, 5) = 1 /\ Bits(h, 4, 4) = g /\ Bits(h, 3, 0) = n
    BY <1>0, <1>2, SMT DEF Bits
  <1> HIDE DEF h, w
  <1>4. /\ rn(w) = n /\ ArmBit(w, 24) = before /\ ArmBit(w, 23) = up
        /\ ArmBit(w, 22) = FALSE /\ ArmBit(w, 21) = TRUE /\ ArmBit(w, 20) = load
        /\ w[2] = list
    BY <1>0, <1>2, <1>3, FieldsOfHalves, SMT DEF w, rn, ArmBit
  <1>5. ArmBits(w, 31, 28) = 14 /\ ArmBits(w, 27, 25) = 4
    BY <1>3, FieldsOfHalves, SMT DEF w
  <1>6. ArmOp(w) = ArmLoadStoreMany(w)
    BY <1>5, ArmFormats
  <1>7. decode_arm(w).op = ArmOp(w)
    BY <1>5, OperationOf, SMT DEF decode_arm
  <1> QED
    BY <1>1, <1>4, <1>6, <1>7, Zenon DEF ArmLoadStoreMany, ModeOf

\* What decode_arm makes of a branch.
LEMMA BranchDecodes ==
  ASSUME NEW condition \in 0..15, NEW n \in (-2^11)..(2^11 - 1), n % 2 = 0
  PROVE  decode_arm(BranchWord(condition, n)).op =
           IF condition = 15 THEN Unknown ELSE ArmJump(Offset(2 * n))
  <1> DEFINE field == (n \div 2) % 2^24
             h == condition * 2^12 + 5 * 2^9 + field \div 2^16
             l == field % 2^16
             w == <<h, l>>
  <1>1. BranchWord(condition, n) = w
    BY DEF BranchWord
  <1>2. field \in 0..(2^24 - 1) /\ field = IF n < 0 THEN n \div 2 + 2^24 ELSE n \div 2
    BY SMT
  <1> HIDE DEF field
  <1>3. /\ Bits(h, 15, 12) = condition /\ Bits(h, 11, 9) = 5 /\ Bits(h, 8, 8) = 0
        /\ Bits(h, 7, 7) = (IF n < 0 THEN 1 ELSE 0) /\ Bits(h, 7, 0) = field \div 2^16
    BY <1>2, SMT DEF Bits
  <1>4. (field \div 2^16) * 2^16 + l = field
    BY <1>2, SMT
  <1> HIDE DEF h, l, w
  <1>5. /\ ArmBit(w, 24) = FALSE /\ ArmBit(w, 23) = (n < 0)
        /\ ArmBits(w, 23, 16) = field \div 2^16 /\ w[2] = l
        /\ ArmBits(w, 31, 28) = condition /\ ArmBits(w, 27, 25) = 5
    BY <1>3, FieldsOfHalves, SMT DEF w, ArmBit
  <1>6. ArmOp(w) = ArmBranch(w)
    BY <1>5, ArmFormats
  <1>7. ArmBranch(w) = ArmJump(Offset(2 * n))
    <2>1. 4 * (IF n < 0 THEN field - 2^24 ELSE field) = 2 * n
      BY <1>2, SMT
    <2> QED
      BY <1>4, <1>5, <2>1 DEF ArmBranch, ArmJump
  <1>8. decode_arm(w) = Conditional(4, condition, ArmOp(w))
    BY <1>5 DEF decode_arm
  <1>9. /\ condition # 15 => decode_arm(w).op = ArmOp(w)
        /\ condition = 15 => decode_arm(w).op = Unknown
    BY <1>8, OperationOf, SMT
  <1> QED
    BY <1>1, <1>6, <1>7, <1>9

\* What decode_arm makes of a product and of a branch to a register.
LEMMA ProductDecodes ==
  ASSUME NEW d \in 0..15, NEW m \in 0..15
  PROVE  decode_arm(Word(2^4 + d, m * 2^8 + 9 * 2^4 + d)).op =
           DataProcessing("Multiplicate", TRUE, d, d, Register(m))
  <1> DEFINE h == 14 * 2^12 + (2^4 + d)
             l == m * 2^8 + 9 * 2^4 + d
             w == <<h, l>>
  <1>1. Word(2^4 + d, m * 2^8 + 9 * 2^4 + d) = w
    BY DEF Word
  <1>2. /\ Bits(h, 15, 12) = 14 /\ Bits(h, 11, 9) = 0 /\ Bits(h, 9, 9) = 0
        /\ Bits(h, 4, 4) = 1 /\ Bits(h, 3, 0) = d
    BY SMT DEF Bits
  <1>3. /\ Bits(l, 11, 8) = m /\ Bits(l, 7, 7) = 1 /\ Bits(l, 7, 4) = 9 /\ Bits(l, 4, 4) = 1
        /\ Bits(l, 3, 0) = d
    BY SMT DEF Bits
  <1> HIDE DEF h, l, w
  <1>4. /\ rn(w) = d /\ rs(w) = m /\ rm(w) = d /\ ArmBit(w, 25) = FALSE
        /\ ArmBit(w, 20) = TRUE /\ ArmBit(w, 7) = TRUE /\ ArmBit(w, 4) = TRUE
        /\ ArmBits(w, 31, 28) = 14 /\ ArmBits(w, 27, 25) = 0 /\ ArmBits(w, 7, 4) = 9
    BY <1>2, <1>3, FieldsOfHalves, SMT DEF w, rn, rs, rm, ArmBit
  <1>5. ArmOp(w) = Mode3(w)
    <2>1. IsMode3(w)
      BY <1>4 DEF IsMode3
    <2> QED
      BY <1>4, <2>1, ArmFormats DEF ArmMiscellaneous
  <1>6. Mode3(w) = DataProcessing("Multiplicate", TRUE, d, d, Register(m))
    <2>1. 9 # 11 /\ 9 # 15
      BY SMT
    <2> QED
      BY <1>4, <2>1, Zenon DEF Mode3
  <1>7. decode_arm(w).op = ArmOp(w)
    BY <1>4, OperationOf, SMT DEF decode_arm
  <1> QED
    BY <1>1, <1>5, <1>6, <1>7

\* BX: an exchange of the instruction set, to the register of its word.
LEMMA ReturnDecodes ==
  ASSUME NEW m \in 0..15
  PROVE  decode_arm(Word(18 * 2^4 + 15, 15 * 2^12 + 15 * 2^8 + 2^4 + m)).op =
           ArmReturn(RegisterWithOffset(m))
  <1> DEFINE h == 14 * 2^12 + (18 * 2^4 + 15)
             l == 15 * 2^12 + 15 * 2^8 + 2^4 + m
             w == <<h, l>>
  <1>1. Word(18 * 2^4 + 15, 15 * 2^12 + 15 * 2^8 + 2^4 + m) = w
    BY DEF Word
  <1>2. /\ Bits(h, 15, 12) = 14 /\ Bits(h, 11, 9) = 0 /\ Bits(h, 11, 4) = 18
        /\ Bits(h, 5, 4) = 2 /\ Bits(h, 3, 0) = 15
    BY SMT DEF Bits
  <1>3. /\ Bits(l, 15, 12) = 15 /\ Bits(l, 11, 8) = 15 /\ Bits(l, 7, 7) = 0
        /\ Bits(l, 7, 4) = 1 /\ Bits(l, 3, 0) = m
    BY SMT DEF Bits
  <1> HIDE DEF h, l, w
  <1>4. /\ rn(w) = 15 /\ rd(w) = 15 /\ rs(w) = 15 /\ rm(w) = m
        /\ ArmBit(w, 7) = FALSE /\ ArmBits(w, 31, 28) = 14 /\ ArmBits(w, 27, 25) = 0
        /\ ArmBits(w, 27, 20) = 18 /\ ArmBits(w, 21, 20) = 2 /\ ArmBits(w, 7, 4) = 1
    BY <1>2, <1>3, FieldsOfHalves, SMT DEF w, rn, rd, rs, rm, ArmBit
  <1>5. ArmOp(w) = Bx(w)
    <2>1. ~IsMode3(w) /\ ~IsMrs(w) /\ IsBx(w)
      BY <1>4, SMT DEF IsMode3, IsMrs, IsBx
    <2> QED
      BY <1>4, <2>1, ArmFormats DEF ArmMiscellaneous
  <1>6. Bx(w) = ArmReturn(RegisterWithOffset(m))
    BY <1>4 DEF Bx, ArmReturn
  <1>7. decode_arm(w).op = ArmOp(w)
    BY <1>4, OperationOf, SMT DEF decode_arm
  <1> QED
    BY <1>1, <1>5, <1>6, <1>7

\* The modes of the block transfers of Thumb code, and its shifts.
LEMMA Modes ==
  /\ ModeOf(TRUE, FALSE) = "DecrementBefore"
  /\ ModeOf(FALSE, TRUE) = "IncrementAfter"
  /\ ShiftOperator(0) = "LeftShift"
  /\ ShiftOperator(1) = "RightShift"
  /\ ShiftOperator(3) = "RotateRight"
  <1>1. ModeOf(TRUE, FALSE) = "DecrementBefore" /\ ModeOf(FALSE, TRUE) = "IncrementAfter"
    BY Zenon DEF ModeOf, from_flags
  <1>2. /\ ShiftOperator(0) = "LeftShift" /\ ShiftOperator(1) = "RightShift"
        /\ ShiftOperator(3) = "RotateRight"
    BY SMT DEF ShiftOperator
  <1> QED
    BY <1>1, <1>2

-----------------------------------------------------------------------------
(* Half words that are short for ARM words. *)

MeansSame(op, w) == Meaning(op) = Meaning(decode_arm(w).op)

\* Base and destination may differ where the operation does not use them.
SameRegisters(name, base, d, n, e) ==
  /\ name = "Move" \/ base = n
  /\ name \in {"Compare", "Test"} \/ d = e

\* A data-processing instruction and the one its word is decoded to.
LEMMA DataAgrees ==
  ASSUME NEW op \in KnownOperations, NEW s \in BOOLEAN, NEW base, NEW d, NEW value,
         NEW immediate \in BOOLEAN, NEW n \in 0..15, NEW e \in 0..15,
         NEW operand \in OperandFields,
         s \/ op \notin 8..11, op = 13 => n = 0,
         immediate \/ Bits(operand, 4, 4) # 1 \/ Bits(operand, 7, 7) # 1,
         SameRegisters(Operations[op + 1], base, d, n, e),
         OperandMeaning(value) = OperandMeaning(Encoded(immediate, operand))
  PROVE  MeansSame(DataProcessing(Operations[op + 1], s, base, d, value),
                   DataWord(immediate, op, s, n, e, operand))
  <1>1. decode_arm(DataWord(immediate, op, s, n, e, operand)).op =
          DataProcessing(Operations[op + 1], s, n, e, Encoded(immediate, operand))
    BY DataDecodes, Z3
  <1> DEFINE name == Operations[op + 1]
  <1>2. (IF name = "Move" THEN R0 ELSE base) = (IF name = "Move" THEN R0 ELSE n)
    BY DEF SameRegisters
  <1>3. (IF name \in {"Compare", "Test"} THEN R0 ELSE d)
          = (IF name \in {"Compare", "Test"} THEN R0 ELSE e)
    BY DEF SameRegisters
  <1> QED
    BY <1>1, <1>2, <1>3, DataMeans DEF MeansSame

\* A register shifted by nothing.
LEMMA RegisterAgrees ==
  ASSUME NEW op \in KnownOperations, NEW s \in BOOLEAN, NEW base, NEW d,
         NEW n \in 0..15, NEW e \in 0..15, NEW m \in 0..15,
         s \/ op \notin 8..11, op = 13 => n = 0,
         SameRegisters(Operations[op + 1], base, d, n, e)
  PROVE  MeansSame(DataProcessing(Operations[op + 1], s, base, d, Register(m)),
                   DataWord(FALSE, op, s, n, e, m))
  <1>1. /\ m \in OperandFields /\ Bits(m, 4, 4) = 0 /\ Bits(m, 3, 0) = m
        /\ Bits(m, 6, 5) = 0 /\ Bits(m, 11, 7) = 0
    BY SMT DEF Bits, OperandFields
  <1>2. Encoded(FALSE, m) = RegisterImmediate(m, "LeftShift", 0)
    BY <1>1, Modes DEF Encoded
  <1>3. OperandMeaning(Register(m)) = OperandMeaning(Encoded(FALSE, m))
    BY <1>2, OperandMeans
  <1>4. FALSE \in BOOLEAN /\ (FALSE \/ Bits(m, 4, 4) # 1 \/ Bits(m, 7, 7) # 1)
    BY <1>1, SMT
  <1> QED
    BY <1>1, <1>3, <1>4, DataAgrees

\* A number of eight bits, or four times one.
LEMMA ImmediateAgrees ==
  ASSUME NEW op \in KnownOperations, NEW s \in BOOLEAN, NEW base, NEW d,
         NEW n \in 0..15, NEW e \in 0..15, NEW k \in 0..255,
         s \/ op \notin 8..11, op = 13 => n = 0,
         SameRegisters(Operations[op + 1], base, d, n, e)
  PROVE  /\ MeansSame(DataProcessing(Operations[op + 1], s, base, d, Immediate(k, 0)),
                      DataWord(TRUE, op, s, n, e, k))
         /\ MeansSame(DataProcessing(Operations[op + 1], s, base, d, Immediate(4 * k, 0)),
                      DataWord(TRUE, op, s, n, e, TimesFour(k)))
  <1>1. k \in OperandFields /\ Bits(k, 7, 0) = k /\ 2 * Bits(k, 11, 8) = 0
    BY SMT DEF Bits, OperandFields
  <1>2. /\ TimesFour(k) \in OperandFields /\ Bits(TimesFour(k), 7, 0) = k
        /\ 2 * Bits(TimesFour(k), 11, 8) = 30
    BY SMT DEF Bits, OperandFields, TimesFour
  <1>3. Encoded(TRUE, k) = Immediate(k, 0) /\ Encoded(TRUE, TimesFour(k)) = Immediate(k, 30)
    BY <1>1, <1>2 DEF Encoded
  <1>4. OperandMeaning(Immediate(4 * k, 0)) = OperandMeaning(Encoded(TRUE, TimesFour(k)))
    BY <1>3, OperandMeans
  <1>5. OperandMeaning(Immediate(k, 0)) = OperandMeaning(Encoded(TRUE, k))
    BY <1>3
  <1>6. MeansSame(DataProcessing(Operations[op + 1], s, base, d, Immediate(k, 0)),
                  DataWord(TRUE, op, s, n, e, k))
    BY <1>1, <1>5, DataAgrees
  <1>7. MeansSame(DataProcessing(Operations[op + 1], s, base, d, Immediate(4 * k, 0)),
                  DataWord(TRUE, op, s, n, e, TimesFour(k)))
    BY <1>2, <1>4, DataAgrees
  <1> QED
    BY <1>6, <1>7

\* The fields of a half word are numbers of so many bits.
LEMMA HalfWordFields ==
  ASSUME NEW w \in Nat
  PROVE  /\ Bits(w, 2, 0) \in 0..7 /\ Bits(w, 5, 3) \in 0..7 /\ Bits(w, 8, 6) \in 0..7
         /\ Bits(w, 10, 8) \in 0..7 /\ Bits(w, 10, 6) \in 0..31 /\ Bits(w, 6, 3) \in 0..15
         /\ Bits(w, 7, 7) \in {0, 1} /\ Bits(w, 7, 0) \in 0..255 /\ Bits(w, 6, 0) \in 0..127
         /\ Bits(w, 12, 11) \in {0, 1, 2, 3} /\ Bits(w, 11, 8) \in 0..15
  BY SMT DEF Bits

\* SameRegisters, by what it compares.
LEMMA SameRegistersCases ==
  /\ \A name, n, d : SameRegisters(name, n, d, n, d)
  /\ \A b, n, d : SameRegisters("Move", b, d, n, d)
  /\ \A n, d, e : SameRegisters("Compare", n, d, n, e) /\ SameRegisters("Test", n, d, n, e)
  BY DEF SameRegisters

\* Shifts, additions and subtractions of low registers.
LEMMA LowAgrees ==
  ASSUME NEW w \in Nat, LowWord(w) # NoWord
  PROVE  MeansSame(thumb_op_code_000(w), LowWord(w))
  <1> DEFINE d == Bits(w, 2, 0)
             m == Bits(w, 5, 3)
             high == Bits(w, 8, 6)
             amount == Bits(w, 10, 6)
             c == Bits(w, 12, 11)
             op == IF Bit(w, 9) THEN 2 ELSE 4
             name == IF Bit(w, 9) THEN "Subtract" ELSE "Add"
             operand == amount * 2^7 + c * 2^5 + m
  <1>1. d \in 0..15 /\ m \in 0..15 /\ high \in 0..15 /\ high \in 0..255 /\ amount \in 0..31
        /\ m \in 0..7 /\ c \in {0, 1, 2, 3}
    BY HalfWordFields, SMT
  <1>2. /\ ~Bit(w, 12) <=> c \in {0, 1}
        /\ Bit(w, 11) <=> c \in {1, 3}
        /\ c = 3 => Bits(w, 12, 10) = IF Bit(w, 10) THEN 7 ELSE 6
    BY SMT DEF Bit, Bits
  <1>3. c \in {0, 1, 3}
    BY <1>1, Zenon DEF LowWord
  <1>4. CASE c \in {0, 1}
    <2>1. LowWord(w) = DataWord(FALSE, 13, TRUE, 0, d, operand)
      <3>1. c # 3
        BY <1>4
      <3> QED
        BY <1>4, <3>1, Zenon DEF LowWord
    <2>2. thumb_op_code_000(w) =
            DataProcessing("Move", TRUE, R0, d, RegisterImmediate(m, ShiftOperator(c), amount))
      <3>1. ShiftOperator(c) = IF Bit(w, 11) THEN "RightShift" ELSE "LeftShift"
        BY <1>2, <1>4, Modes
      <3>2. ~Bit(w, 12)
        BY <1>2, <1>4
      <3>3. Bits(w, 12, 10) # 7 /\ Bits(w, 12, 10) # 6
        BY <1>4, SMT DEF Bits
      <3> QED
        BY <3>1, <3>2, <3>3, Zenon DEF thumb_op_code_000
    <2>3. /\ operand \in OperandFields /\ Bits(operand, 4, 4) = 0 /\ Bits(operand, 3, 0) = m
          /\ Bits(operand, 6, 5) = c /\ Bits(operand, 11, 7) = amount
      <3> HIDE DEF c, m, amount
      <3> QED
        BY <1>1, <1>4, SMT DEF Bits, OperandFields
    <2> HIDE DEF c, d, m, amount, operand
    <2>4. Encoded(FALSE, operand) = RegisterImmediate(m, ShiftOperator(c), amount)
      BY <2>3 DEF Encoded
    <2>5. 13 \in KnownOperations /\ Operations[13 + 1] = "Move"
      BY OperationNames, SMT DEF KnownOperations
    <2>6. MeansSame(DataProcessing(Operations[13 + 1], TRUE, R0, d,
                                   RegisterImmediate(m, ShiftOperator(c), amount)),
                    DataWord(FALSE, 13, TRUE, 0, d, operand))
      <3>1. SameRegisters(Operations[13 + 1], R0, d, 0, d)
        BY <2>5, SameRegistersCases
      <3>2. Bits(operand, 4, 4) # 1 /\ 0 \in 0..15
        BY <2>3
      <3> QED
        BY <1>1, <2>3, <2>4, <2>5, <3>1, <3>2, DataAgrees
    <2> QED
      BY <2>1, <2>2, <2>5, <2>6
  <1>5. CASE c = 3
    <2>1. LowWord(w) = DataWord(Bit(w, 10), op, TRUE, m, d, high)
      <3>1. c \notin {0, 1}
        BY <1>5
      <3> QED
        BY <1>5, <3>1, Zenon DEF LowWord
    <2>2. thumb_op_code_000(w) =
            DataProcessing(name, TRUE, m, d,
                           IF Bit(w, 10) THEN Immediate(high, 0) ELSE Register(high))
      <3>1. Bit(w, 12) /\ Bits(w, 12, 10) = IF Bit(w, 10) THEN 7 ELSE 6
        BY <1>2, <1>5
      <3>2. 7 # 6
        OBVIOUS
      <3> QED
        BY <3>1, <3>2, Zenon DEF thumb_op_code_000
    <2>3. op \in KnownOperations /\ Operations[op + 1] = name /\ op # 13 /\ op \notin 8..11
      <3>1. op \in {2, 4} /\ 2 + 1 = 3 /\ 4 + 1 = 5
        BY SMT
      <3>2. Operations[op + 1] = name
        BY OperationNames, SMT
      <3> QED
        BY <3>1, <3>2, SMT DEF KnownOperations
    <2>4. SameRegisters(Operations[op + 1], m, d, m, d)
      BY SameRegistersCases
    <2> HIDE DEF c, d, m, high, op, name
    <2> DEFINE immediate == Bit(w, 10)
    <2>5. immediate \in BOOLEAN
      BY DEF Bit
    <2> HIDE DEF immediate
    <2>6. LowWord(w) = DataWord(immediate, op, TRUE, m, d, high)
      BY <2>1 DEF immediate
    <2>7. /\ MeansSame(DataProcessing(Operations[op + 1], TRUE, m, d, Immediate(high, 0)),
                       DataWord(TRUE, op, TRUE, m, d, high))
          /\ MeansSame(DataProcessing(Operations[op + 1], TRUE, m, d, Register(high)),
                       DataWord(FALSE, op, TRUE, m, d, high))
      <3>1. (op = 13 => m = 0) /\ TRUE \in BOOLEAN /\ (TRUE \/ op \notin 8..11)
        BY <2>3
      <3>2. MeansSame(DataProcessing(Operations[op + 1], TRUE, m, d, Immediate(high, 0)),
                      DataWord(TRUE, op, TRUE, m, d, high))
        BY <1>1, <2>3, <2>4, <3>1, ImmediateAgrees
      <3>3. MeansSame(DataProcessing(Operations[op + 1], TRUE, m, d, Register(high)),
                      DataWord(FALSE, op, TRUE, m, d, high))
        BY <1>1, <2>3, <2>4, <3>1, RegisterAgrees
      <3> QED
        BY <3>2, <3>3
    <2>8. thumb_op_code_000(w) =
            DataProcessing(Operations[op + 1], TRUE, m, d,
                           IF immediate THEN Immediate(high, 0) ELSE Register(high))
      BY <2>2, <2>3 DEF immediate
    <2>9. CASE immediate = TRUE
      BY <2>6, <2>7, <2>8, <2>9
    <2>10. CASE immediate = FALSE
      BY <2>6, <2>7, <2>8, <2>10
    <2> QED
      BY <2>5, <2>9, <2>10
  <1> QED
    BY <1>3, <1>4, <1>5

\* Moves, comparisons, additions and subtractions of eight bits.
LEMMA NumbersAgree ==
  ASSUME NEW w \in Nat
  PROVE  MeansSame(thumb_op_code_001(w), ImmediateWord(w))
  <1> DEFINE c == Bits(w, 12, 11)
             r == Bits(w, 10, 8)
             k == Bits(w, 7, 0)
             op == <<13, 10, 4, 2>>[c + 1]
             name == <<"Move", "Compare", "Add", "Subtract">>[c + 1]
             n == IF op = 13 THEN 0 ELSE r
             e == IF op = 10 THEN 0 ELSE r
  <1>1. c \in {0, 1, 2, 3} /\ r \in 0..15 /\ k \in 0..255
    BY HalfWordFields, SMT
  <1>2. thumb_op_code_001(w) = DataProcessing(name, TRUE, r, r, Immediate(k, 0))
    BY DEF thumb_op_code_001
  <1>3. ImmediateWord(w) = DataWord(TRUE, op, TRUE, n, e, k)
    BY DEF ImmediateWord
  <1> HIDE DEF c, r, k
  <1>4. /\ op \in {13, 10, 4, 2}
        /\ op = 13 => name = "Move"
        /\ op = 10 => name = "Compare"
        /\ op = 4 => name = "Add"
        /\ op = 2 => name = "Subtract"
    <2>1. CASE c = 0
      BY <2>1
    <2>2. CASE c = 1
      BY <2>2
    <2>3. CASE c = 2
      BY <2>3
    <2>4. CASE c = 3
      BY <2>4
    <2> QED
      BY <1>1, <2>1, <2>2, <2>3, <2>4
  <1> HIDE DEF op, name
  <1>5. op \in KnownOperations /\ Operations[op + 1] = name
    <2>1. op \in KnownOperations
      BY <1>4, SMT DEF KnownOperations
    <2>2. 13 + 1 = 14 /\ 10 + 1 = 11 /\ 4 + 1 = 5 /\ 2 + 1 = 3
      OBVIOUS
    <2> QED
      BY <1>4, <2>1, <2>2, OperationNames
  <1>6. n \in 0..15 /\ e \in 0..15 /\ (op = 13 => n = 0)
    BY <1>1
  <1>7. SameRegisters(Operations[op + 1], r, r, n, e)
    BY <1>4, <1>5 DEF SameRegisters
  <1> HIDE DEF n, e
  <1>8. MeansSame(DataProcessing(Operations[op + 1], TRUE, r, r, Immediate(k, 0)),
                  DataWord(TRUE, op, TRUE, n, e, k))
    <2>1. TRUE \in BOOLEAN /\ (TRUE \/ op \notin 8..11)
      OBVIOUS
    <2> QED
      BY <1>1, <1>5, <1>6, <1>7, <2>1, ImmediateAgrees
  <1> QED
    BY <1>2, <1>3, <1>5, <1>8

\* The operations of the format of 16 operations.
LEMMA AluNames ==
  /\ AluOperations[1] = "And" /\ AluOperations[2] = "ExclusiveOr"
  /\ AluOperations[8] = "Move" /\ AluOperations[9] = "Test"
  /\ AluOperations[10] = "ReverseSubtract" /\ AluOperations[11] = "Compare"
  /\ AluOperations[13] = "InclusiveOr" /\ AluOperations[14] = "Multiplicate"
  /\ AluOperations[15] = "BitClear"
  <1>1. \A a, b, c, d, e, f, g, h, i, j, k, l, m, n, o, p :
          LET t == <<a, b, c, d, e, f, g, h, i, j, k, l, m, n, o, p>>
          IN  /\ t[1] = a /\ t[2] = b /\ t[8] = h /\ t[9] = i /\ t[10] = j
              /\ t[11] = k /\ t[13] = m /\ t[14] = n /\ t[15] = o
    BY SMT
  <1> QED
    BY <1>1, Zenon DEF AluOperations

\* Operations on two low registers.
LEMMA AluAgrees ==
  ASSUME NEW w \in Nat, AluWord(w) # NoWord
  PROVE  MeansSame(Alu(w), AluWord(w))
  <1> DEFINE d == Bits(w, 2, 0)
             m == Bits(w, 5, 3)
             op == Bits(w, 9, 6)
             name == AluOperations[op + 1]
  <1>1. /\ d \in 0..15 /\ m \in 0..15 /\ d \in 0..7 /\ m \in 0..7
        /\ 0 \in 0..15 /\ 0 \in 0..255 /\ TRUE \in BOOLEAN
    BY HalfWordFields, SMT
  <1>2. AluWord(w) =
          CASE op \in {0, 1, 12, 14} -> DataWord(FALSE, op, TRUE, d, d, m)
            [] op \in {8, 10} -> DataWord(FALSE, op, TRUE, d, 0, m)
            [] op = 7  -> DataWord(FALSE, 13, TRUE, 0, d, m * 2^8 + 7 * 2^4 + d)
            [] op = 9  -> DataWord(TRUE, 3, TRUE, m, d, 0)
            [] op = 13 -> Word(2^4 + d, m * 2^8 + 9 * 2^4 + d)
            [] OTHER   -> NoWord
    BY Zenon DEF AluWord
  <1>3. Alu(w) =
          CASE name = "" -> Unknown
            [] name = "Move" ->
                 DataProcessing(name, TRUE, d, d, RegisterRegister(d, "RotateRight", m))
            [] name = "ReverseSubtract" -> DataProcessing(name, TRUE, m, d, Immediate(0, 0))
            [] OTHER -> DataProcessing(name, TRUE, d, d, Register(m))
    BY Zenon DEF Alu
  <1> HIDE DEF d, m, op, name
  <1>4. op \in {0, 1, 12, 14, 8, 10, 7, 9, 13}
    BY <1>2, Zenon
  <1>5. CASE op \in {0, 1, 12, 14, 8, 10}
    <2>1. name = Operations[op + 1] /\ name \notin {"", "Move", "ReverseSubtract"}
          /\ (op \in {8, 10} => name \in {"Compare", "Test"})
      <3>1. 0 + 1 = 1 /\ 1 + 1 = 2 /\ 12 + 1 = 13 /\ 14 + 1 = 15 /\ 8 + 1 = 9 /\ 10 + 1 = 11
            /\ 0 \notin {8, 10} /\ 1 \notin {8, 10} /\ 12 \notin {8, 10} /\ 14 \notin {8, 10}
        BY SMT
      <3> QED
        BY <1>5, <3>1, OperationNames, AluNames, Zenon DEF name
    <2>2. Alu(w) = DataProcessing(name, TRUE, d, d, Register(m))
      BY <1>3, <2>1, Zenon
    <2> DEFINE e == IF op \in {8, 10} THEN 0 ELSE d
    <2>3. AluWord(w) = DataWord(FALSE, op, TRUE, d, e, m)
      <3>1. op # 7 /\ op # 9 /\ op # 13 /\ (op \in {0, 1, 12, 14} => op \notin {8, 10})
        BY <1>5, SMT
      <3> QED
        BY <1>2, <1>5, <3>1, Zenon
    <2>4. SameRegisters(Operations[op + 1], d, d, d, e)
      BY <2>1, Zenon DEF SameRegisters
    <2>5. op \in KnownOperations /\ (op = 13 => d = 0) /\ (TRUE \/ op \notin 8..11)
          /\ e \in 0..15
      BY <1>1, <1>5, SMT DEF KnownOperations
    <2> HIDE DEF e
    <2>6. MeansSame(DataProcessing(Operations[op + 1], TRUE, d, d, Register(m)),
                    DataWord(FALSE, op, TRUE, d, e, m))
      BY <1>1, <2>4, <2>5, RegisterAgrees
    <2> QED
      BY <2>1, <2>2, <2>3, <2>6, Zenon
  <1>6. CASE op = 7
    <2> DEFINE operand == m * 2^8 + 7 * 2^4 + d
    <2>1. name = "Move" /\ name # "" /\ name # "ReverseSubtract"
      <3>1. 7 + 1 = 8
        OBVIOUS
      <3> QED
        BY <1>6, <3>1, AluNames, Zenon DEF name
    <2>2. Alu(w) = DataProcessing("Move", TRUE, d, d, RegisterRegister(d, "RotateRight", m))
      BY <1>3, <2>1, Zenon
    <2>3. AluWord(w) = DataWord(FALSE, 13, TRUE, 0, d, operand)
      <3>1. op \notin {0, 1, 12, 14} /\ op \notin {8, 10} /\ op # 9 /\ op # 13
        BY <1>6, SMT
      <3> QED
        BY <1>2, <1>6, <3>1, Zenon
    <2>4. /\ operand \in OperandFields /\ Bits(operand, 4, 4) = 1 /\ Bits(operand, 3, 0) = d
          /\ Bits(operand, 6, 5) = 3 /\ Bits(operand, 11, 8) = m /\ Bits(operand, 7, 7) = 0
      BY <1>1, SMT DEF Bits, OperandFields
    <2> HIDE DEF operand
    <2>5. Encoded(FALSE, operand) = RegisterRegister(d, "RotateRight", m)
      BY <2>4, Modes DEF Encoded
    <2>6. 13 \in KnownOperations /\ Operations[13 + 1] = "Move" /\ FALSE \in BOOLEAN
          /\ Bits(operand, 7, 7) # 1
      BY <2>4, OperationNames, SMT DEF KnownOperations
    <2>7. SameRegisters(Operations[13 + 1], d, d, 0, d)
      BY <2>6, SameRegistersCases
    <2>8. MeansSame(DataProcessing(Operations[13 + 1], TRUE, d, d,
                                   RegisterRegister(d, "RotateRight", m)),
                    DataWord(FALSE, 13, TRUE, 0, d, operand))
      BY <1>1, <2>4, <2>5, <2>6, <2>7, DataAgrees
    <2> QED
      BY <2>2, <2>3, <2>6, <2>8
  <1>7. CASE op = 9
    <2>1. name = "ReverseSubtract" /\ name # "" /\ name # "Move"
      <3>1. 9 + 1 = 10
        OBVIOUS
      <3> QED
        BY <1>7, <3>1, AluNames, Zenon DEF name
    <2>2. Alu(w) = DataProcessing("ReverseSubtract", TRUE, m, d, Immediate(0, 0))
      BY <1>3, <2>1, Zenon
    <2>3. AluWord(w) = DataWord(TRUE, 3, TRUE, m, d, 0)
      <3>1. op \notin {0, 1, 12, 14} /\ op \notin {8, 10} /\ op # 7 /\ op # 13
        BY <1>7, SMT
      <3> QED
        BY <1>2, <1>7, <3>1, Zenon
    <2>4. 3 \in KnownOperations /\ Operations[3 + 1] = "ReverseSubtract" /\ 3 # 13
      BY OperationNames, SMT DEF KnownOperations
    <2>5. SameRegisters(Operations[3 + 1], m, d, m, d)
      BY SameRegistersCases
    <2>6. MeansSame(DataProcessing(Operations[3 + 1], TRUE, m, d, Immediate(0, 0)),
                    DataWord(TRUE, 3, TRUE, m, d, 0))
      BY <1>1, <2>4, <2>5, ImmediateAgrees
    <2> QED
      BY <2>2, <2>3, <2>4, <2>6
  <1>8. CASE op = 13
    <2>1. name = "Multiplicate" /\ name \notin {"", "Move", "ReverseSubtract"}
      <3>1. 13 + 1 = 14
        OBVIOUS
      <3> QED
        BY <1>8, <3>1, AluNames, Zenon DEF name
    <2>2. Alu(w) = DataProcessing("Multiplicate", TRUE, d, d, Register(m))
      BY <1>3, <2>1, Zenon
    <2>3. AluWord(w) = Word(2^4 + d, m * 2^8 + 9 * 2^4 + d)
      <3>1. op \notin {0, 1, 12, 14} /\ op \notin {8, 10} /\ op # 7 /\ op # 9
        BY <1>8, SMT
      <3> QED
        BY <1>2, <1>8, <3>1, Zenon
    <2> QED
      BY <1>1, <2>2, <2>3, ProductDecodes DEF MeansSame
  <1> QED
    BY <1>4, <1>5, <1>6, <1>7, <1>8, Zenon

\* Operations on any two registers and branches to registers.
LEMMA HighAgrees ==
  ASSUME NEW w \in Nat, HighWord(w) # NoWord
  PROVE  MeansSame(HighRegisters(w), HighWord(w))
  <1> DEFINE d == Bits(w, 2, 0) + 8 * Bits(w, 7, 7)
             m == Bits(w, 6, 3)
             op == Bits(w, 9, 8)
             op_code_3 == Bits(w, 9, 7)
  <1>1. d \in 0..15 /\ m \in 0..15 /\ 0 \in 0..15 /\ op \in {0, 1, 2, 3}
    BY HalfWordFields, SMT DEF Bits
  <1>2. /\ op = 1 => op_code_3 \in {2, 3}
        /\ op = 2 => op_code_3 \in {4, 5}
        /\ op = 3 /\ d = 0 => op_code_3 = 6 /\ Bits(w, 2, 0) = 0
    BY SMT DEF Bits
  <1>3. HighWord(w) =
          CASE op = 1 -> DataWord(FALSE, 10, TRUE, d, 0, m)
            [] op = 2 -> DataWord(FALSE, 13, FALSE, 0, d, m)
            [] op = 3 /\ d = 0 -> Word(18 * 2^4 + 15, 15 * 2^12 + 15 * 2^8 + 2^4 + m)
            [] OTHER  -> NoWord
    BY Zenon DEF HighWord
  <1>4. HighRegisters(w) =
          CASE op_code_3 \in {2, 3} -> DataProcessing("Compare", TRUE, d, R0, Register(m))
            [] op_code_3 \in {4, 5} -> DataProcessing("Move", FALSE, R0, d, Register(m))
            [] op_code_3 \in {6, 7} /\ Bits(w, 2, 0) = 0 ->
                 Branch(2, op_code_3 = 7, TRUE, op_code_3 = 6, RegisterWithOffset(m))
            [] OTHER -> Unknown
    BY Zenon DEF HighRegisters
  <1> HIDE DEF d, m, op, op_code_3
  <1>5. 10 \in KnownOperations /\ 13 \in KnownOperations /\ 10 # 13
        /\ Operations[10 + 1] = "Compare" /\ Operations[13 + 1] = "Move"
        /\ (TRUE \/ 10 \notin 8..11) /\ (FALSE \/ 13 \notin 8..11)
        /\ TRUE \in BOOLEAN /\ FALSE \in BOOLEAN
    BY OperationNames, SMT DEF KnownOperations
  <1>6. CASE op = 1
    <2>1. HighWord(w) = DataWord(FALSE, 10, TRUE, d, 0, m)
      <3>1. op # 2 /\ op # 3
        BY <1>6
      <3> QED
        BY <1>3, <1>6, <3>1, Zenon
    <2>2. HighRegisters(w) = DataProcessing("Compare", TRUE, d, R0, Register(m))
      <3>1. op_code_3 \in {2, 3} /\ op_code_3 \notin {4, 5} /\ op_code_3 \notin {6, 7}
        BY <1>2, <1>6, SMT
      <3> QED
        BY <1>4, <3>1, Zenon
    <2>3. SameRegisters(Operations[10 + 1], d, R0, d, 0)
      BY <1>5, SameRegistersCases
    <2>4. MeansSame(DataProcessing(Operations[10 + 1], TRUE, d, R0, Register(m)),
                    DataWord(FALSE, 10, TRUE, d, 0, m))
      BY <1>1, <1>5, <2>3, RegisterAgrees
    <2> QED
      BY <1>5, <2>1, <2>2, <2>4
  <1>7. CASE op = 2
    <2>1. HighWord(w) = DataWord(FALSE, 13, FALSE, 0, d, m)
      <3>1. op # 1 /\ op # 3
        BY <1>7
      <3> QED
        BY <1>3, <1>7, <3>1, Zenon
    <2>2. HighRegisters(w) = DataProcessing("Move", FALSE, R0, d, Register(m))
      <3>1. op_code_3 \in {4, 5} /\ op_code_3 \notin {2, 3} /\ op_code_3 \notin {6, 7}
        BY <1>2, <1>7, SMT
      <3> QED
        BY <1>4, <3>1, Zenon
    <2>3. SameRegisters(Operations[13 + 1], R0, d, 0, d)
      BY <1>5, SameRegistersCases
    <2>4. MeansSame(DataProcessing(Operations[13 + 1], FALSE, R0, d, Register(m)),
                    DataWord(FALSE, 13, FALSE, 0, d, m))
      BY <1>1, <1>5, <2>3, RegisterAgrees
    <2> QED
      BY <1>5, <2>1, <2>2, <2>4
  <1>8. CASE op = 3
    <2>1. d = 0 /\ op # 1 /\ op # 2
      <3>1. op # 1 /\ op # 2
        BY <1>8
      <3> QED
        BY <1>3, <1>8, <3>1, Zenon
    <2>2. HighWord(w) = Word(18 * 2^4 + 15, 15 * 2^12 + 15 * 2^8 + 2^4 + m)
      BY <1>3, <1>8, <2>1, Zenon
    <2>3. HighRegisters(w) = ThumbReturn(RegisterWithOffset(m))
      <3>1. /\ op_code_3 \in {6, 7} /\ op_code_3 \notin {2, 3} /\ op_code_3 \notin {4, 5}
            /\ Bits(w, 2, 0) = 0
        BY <1>2, <1>8, <2>1, SMT
      <3>2. HighRegisters(w) =
              Branch(2, op_code_3 = 7, TRUE, op_code_3 = 6, RegisterWithOffset(m))
        BY <1>4, <3>1, Zenon
      <3>3. (op_code_3 = 7) = FALSE /\ (op_code_3 = 6) = TRUE
        BY <1>2, <1>8, <2>1
      <3> QED
        BY <3>2, <3>3, Zenon DEF ThumbReturn
    <2>4. decode_arm(HighWord(w)).op = ArmReturn(RegisterWithOffset(m))
      BY <1>1, <2>2, ReturnDecodes
    <2> QED
      BY <2>3, <2>4, BranchMeans DEF MeansSame
  <1>9. CASE op = 0
    <2>1. op # 1 /\ op # 2 /\ op # 3
      BY <1>9
    <2> QED
      BY <1>3, <2>1, Zenon
  <1> QED
    BY <1>1, <1>6, <1>7, <1>8, <1>9

\* Loads and stores with an offset, of words and bytes and of half words.
LEMMA TransferAgrees ==
  ASSUME NEW load \in BOOLEAN, NEW byte \in BOOLEAN, NEW register \in BOOLEAN,
         NEW n \in 0..15, NEW d \in 0..15, NEW offset \in OperandFields, NEW value,
         OperandMeaning(value) = OperandMeaning(OffsetOf(register, offset))
  PROVE  MeansSame(LoadStore(load, PlainAddress(n, value), d, IF byte THEN "Byte" ELSE "Word"),
                   TransferWord(load, byte, register, n, d, offset))
  <1> DEFINE size == IF byte THEN "Byte" ELSE "Word"
  <1>1. decode_arm(TransferWord(load, byte, register, n, d, offset)).op =
          LoadStore(load, PlainAddress(n, OffsetOf(register, offset)), d, size)
    BY TransferDecodes, Z3
  <1> HIDE DEF size
  <1>2. /\ Meaning(LoadStore(load, PlainAddress(n, value), d, size)) =
             LoadStore(load, PlainAddress(n, OperandMeaning(value)), d, size)
        /\ Meaning(LoadStore(load, PlainAddress(n, OffsetOf(register, offset)), d, size)) =
             LoadStore(load, PlainAddress(n, OperandMeaning(OffsetOf(register, offset))), d, size)
    BY TransferMeans
  <1>3. MeansSame(LoadStore(load, PlainAddress(n, value), d, size),
                  TransferWord(load, byte, register, n, d, offset))
    BY <1>1, <1>2 DEF MeansSame
  <1> QED
    BY <1>3 DEF size

\* A transfer of a half word, or of a signed one.
LEMMA HalfwordAgrees ==
  ASSUME NEW load \in BOOLEAN, NEW immediate \in BOOLEAN, NEW n \in 0..15, NEW d \in 0..15,
         NEW offset \in 0..127, NEW value,
         value = IF immediate THEN Immediate(offset, 0) ELSE Register(offset % 16)
  PROVE  MeansSame(LoadStore(load, PlainAddress(n, value), d, "Halfword"),
                   HalfwordWord(load, immediate, n, d, offset))
  BY HalfwordDecodes DEF MeansSame

\* The two forms of an offset: a number, and a register that is not shifted.
LEMMA Offsets ==
  /\ \A k : OffsetOf(FALSE, k) = Immediate(k, 0)
  /\ \A m \in 0..15 : /\ OffsetOf(TRUE, m) = RegisterImmediate(m, "LeftShift", 0)
                      /\ OperandMeaning(Register(m)) = OperandMeaning(OffsetOf(TRUE, m))
  <1>1. \A k : OffsetOf(FALSE, k) = Immediate(k, 0)
    BY DEF OffsetOf
  <1>2. ASSUME NEW m \in 0..15
        PROVE  OffsetOf(TRUE, m) = RegisterImmediate(m, "LeftShift", 0)
    <2>1. Bits(m, 3, 0) = m /\ Bits(m, 6, 5) = 0 /\ Bits(m, 11, 7) = 0
      BY SMT DEF Bits
    <2> QED
      BY <2>1, Modes DEF OffsetOf
  <1>3. \A m \in 0..15 : OperandMeaning(Register(m)) = OperandMeaning(OffsetOf(TRUE, m))
    BY <1>2, OperandMeans
  <1> QED
    BY <1>1, <1>2, <1>3

\* A transfer by a number or by a register.
LEMMA TransfersAgree ==
  ASSUME NEW load \in BOOLEAN, NEW n \in 0..15, NEW d \in 0..15
  PROVE  /\ \A k \in OperandFields :
              /\ MeansSame(LoadStore(load, PlainAddress(n, Immediate(k, 0)), d, "Word"),
                           TransferWord(load, FALSE, FALSE, n, d, k))
              /\ MeansSame(LoadStore(load, PlainAddress(n, Immediate(k, 0)), d, "Byte"),
                           TransferWord(load, TRUE, FALSE, n, d, k))
         /\ \A m \in 0..15 :
              /\ MeansSame(LoadStore(load, PlainAddress(n, Register(m)), d, "Word"),
                           TransferWord(load, FALSE, TRUE, n, d, m))
              /\ MeansSame(LoadStore(load, PlainAddress(n, Register(m)), d, "Halfword"),
                           HalfwordWord(load, FALSE, n, d, m))
         /\ \A k \in 0..127 :
              MeansSame(LoadStore(load, PlainAddress(n, Immediate(k, 0)), d, "Halfword"),
                        HalfwordWord(load, TRUE, n, d, k))
  <1>1. ASSUME NEW no \in BOOLEAN, NEW yes \in BOOLEAN, no = FALSE, yes = TRUE
        PROVE  /\ \A k \in OperandFields :
                    /\ MeansSame(LoadStore(load, PlainAddress(n, Immediate(k, 0)), d, "Word"),
                                 TransferWord(load, no, no, n, d, k))
                    /\ MeansSame(LoadStore(load, PlainAddress(n, Immediate(k, 0)), d, "Byte"),
                                 TransferWord(load, yes, no, n, d, k))
               /\ \A m \in 0..15 :
                    /\ MeansSame(LoadStore(load, PlainAddress(n, Register(m)), d, "Word"),
                                 TransferWord(load, no, yes, n, d, m))
                    /\ MeansSame(LoadStore(load, PlainAddress(n, Register(m)), d, "Halfword"),
                                 HalfwordWord(load, no, n, d, m))
               /\ \A k \in 0..127 :
                    MeansSame(LoadStore(load, PlainAddress(n, Immediate(k, 0)), d, "Halfword"),
                              HalfwordWord(load, yes, n, d, k))
    <2>1. ASSUME NEW k \in OperandFields
          PROVE  /\ MeansSame(LoadStore(load, PlainAddress(n, Immediate(k, 0)), d, "Word"),
                              TransferWord(load, no, no, n, d, k))
                 /\ MeansSame(LoadStore(load, PlainAddress(n, Immediate(k, 0)), d, "Byte"),
                              TransferWord(load, yes, no, n, d, k))
      <3>1. OperandMeaning(Immediate(k, 0)) = OperandMeaning(OffsetOf(no, k))
        BY <1>1, Offsets
      <3>2. /\ (IF no THEN "Byte" ELSE "Word") = "Word"
            /\ (IF yes THEN "Byte" ELSE "Word") = "Byte"
        BY <1>1
      <3>3. MeansSame(LoadStore(load, PlainAddress(n, Immediate(k, 0)), d,
                                IF no THEN "Byte" ELSE "Word"),
                      TransferWord(load, no, no, n, d, k))
        BY <3>1, TransferAgrees
      <3>4. MeansSame(LoadStore(load, PlainAddress(n, Immediate(k, 0)), d,
                                IF yes THEN "Byte" ELSE "Word"),
                      TransferWord(load, yes, no, n, d, k))
        BY <3>1, TransferAgrees
      <3> QED
        BY <3>2, <3>3, <3>4
    <2>2. ASSUME NEW m \in 0..15
          PROVE  /\ MeansSame(LoadStore(load, PlainAddress(n, Register(m)), d, "Word"),
                              TransferWord(load, no, yes, n, d, m))
                 /\ MeansSame(LoadStore(load, PlainAddress(n, Register(m)), d, "Halfword"),
                              HalfwordWord(load, no, n, d, m))
      <3>1. m \in OperandFields /\ m \in 0..127 /\ m % 16 = m
        BY SMT DEF OperandFields
      <3>2. (IF no THEN "Byte" ELSE "Word") = "Word"
        BY <1>1
      <3>3. MeansSame(LoadStore(load, PlainAddress(n, Register(m)), d,
                                IF no THEN "Byte" ELSE "Word"),
                      TransferWord(load, no, yes, n, d, m))
        <4>1. OperandMeaning(Register(m)) = OperandMeaning(OffsetOf(yes, m))
          BY <1>1, Offsets
        <4> QED
          BY <3>1, <4>1, TransferAgrees
      <3>4. Register(m) = IF no THEN Immediate(m, 0) ELSE Register(m % 16)
        BY <1>1, <3>1
      <3>5. MeansSame(LoadStore(load, PlainAddress(n, Register(m)), d, "Halfword"),
                      HalfwordWord(load, no, n, d, m))
        BY <3>1, <3>4, HalfwordAgrees
      <3> QED
        BY <3>2, <3>3, <3>5
    <2>3. ASSUME NEW k \in 0..127
          PROVE  MeansSame(LoadStore(load, PlainAddress(n, Immediate(k, 0)), d, "Halfword"),
                           HalfwordWord(load, yes, n, d, k))
      <3>1. Immediate(k, 0) = IF yes THEN Immediate(k, 0) ELSE Register(k % 16)
        BY <1>1
      <3> QED
        BY <3>1, HalfwordAgrees
    <2> QED
      BY <2>1, <2>2, <2>3
  <1> QED
    BY <1>1

\* A bit is a Boolean.
LEMMA BitIsBoolean ==
  ASSUME NEW w, NEW n
  PROVE  Bit(w, n) \in BOOLEAN
  BY DEF Bit

\* Loads and stores by their half words.
LEMMA OffsetsAgree ==
  ASSUME NEW w \in Nat, NEW load, load = Bit(w, 11)
  PROVE  LET d == Bits(w, 2, 0)
             n == Bits(w, 5, 3)
             m == Bits(w, 8, 6)
             amount == Bits(w, 10, 6)
         IN  /\ Bits(w, 10, 9) = 0 =>
                  MeansSame(RegisterOffset(w), TransferWord(load, FALSE, TRUE, n, d, m))
             /\ Bits(w, 10, 9) = 1 =>
                  MeansSame(RegisterOffset(w), HalfwordWord(load, FALSE, n, d, m))
             /\ ~Bit(w, 12) =>
                  /\ MeansSame(thumb_op_code_011(w),
                               TransferWord(load, FALSE, FALSE, n, d, 4 * amount))
                  /\ MeansSame(thumb_op_code_100(w),
                               HalfwordWord(load, TRUE, n, d, 2 * amount))
             /\ Bit(w, 12) =>
                  /\ MeansSame(thumb_op_code_011(w),
                               TransferWord(load, TRUE, FALSE, n, d, amount))
                  /\ MeansSame(thumb_op_code_100(w),
                               TransferWord(load, FALSE, FALSE, Sp, Bits(w, 10, 8),
                                            4 * Bits(w, 7, 0)))
  <1> DEFINE d == Bits(w, 2, 0)
             n == Bits(w, 5, 3)
             m == Bits(w, 8, 6)
             amount == Bits(w, 10, 6)
             r == Bits(w, 10, 8)
             k == Bits(w, 7, 0)
  <1>1. /\ d \in 0..15 /\ n \in 0..15 /\ m \in 0..15 /\ r \in 0..15 /\ Sp \in 0..15
        /\ amount \in 0..127 /\ 2 * amount \in 0..127
        /\ amount \in OperandFields /\ 4 * amount \in OperandFields
        /\ 4 * k \in OperandFields
    BY HalfWordFields, SMT DEF Sp, OperandFields
  <1>2. load \in BOOLEAN
    BY BitIsBoolean
  <1>3. /\ ~Bit(w, 9) => RegisterOffset(w) = LoadStore(load, PlainAddress(n, Register(m)), d,
                                                        "Word")
        /\ Bit(w, 9) /\ ~Bit(w, 10) =>
             RegisterOffset(w) = LoadStore(load, PlainAddress(n, Register(m)), d, "Halfword")
    BY DEF RegisterOffset
  <1>4. /\ ~Bit(w, 12) =>
             /\ thumb_op_code_011(w) =
                  LoadStore(load, PlainAddress(n, Immediate(4 * amount, 0)), d, "Word")
             /\ thumb_op_code_100(w) =
                  LoadStore(load, PlainAddress(n, Immediate(2 * amount, 0)), d, "Halfword")
        /\ Bit(w, 12) =>
             /\ thumb_op_code_011(w) =
                  LoadStore(load, PlainAddress(n, Immediate(amount, 0)), d, "Byte")
             /\ thumb_op_code_100(w) =
                  LoadStore(load, PlainAddress(Sp, Immediate(4 * k, 0)), r, "Word")
    BY DEF thumb_op_code_011, thumb_op_code_100
  <1>5. /\ Bits(w, 10, 9) = 0 => ~Bit(w, 9)
        /\ Bits(w, 10, 9) = 1 => Bit(w, 9) /\ ~Bit(w, 10)
    BY SMT DEF Bit, Bits
  <1> HIDE DEF d, n, m, amount, r, k
  <1>6. /\ MeansSame(LoadStore(load, PlainAddress(n, Register(m)), d, "Word"),
                    TransferWord(load, FALSE, TRUE, n, d, m))
        /\ MeansSame(LoadStore(load, PlainAddress(n, Register(m)), d, "Halfword"),
                    HalfwordWord(load, FALSE, n, d, m))
    BY <1>1, <1>2, TransfersAgree
  <1>7. /\ MeansSame(LoadStore(load, PlainAddress(n, Immediate(4 * amount, 0)), d, "Word"),
                    TransferWord(load, FALSE, FALSE, n, d, 4 * amount))
        /\ MeansSame(LoadStore(load, PlainAddress(n, Immediate(amount, 0)), d, "Byte"),
                    TransferWord(load, TRUE, FALSE, n, d, amount))
        /\ MeansSame(LoadStore(load, PlainAddress(n, Immediate(2 * amount, 0)), d, "Halfword"),
                    HalfwordWord(load, TRUE, n, d, 2 * amount))
    BY <1>1, <1>2, TransfersAgree
  <1>8. MeansSame(LoadStore(load, PlainAddress(Sp, Immediate(4 * k, 0)), r, "Word"),
                  TransferWord(load, FALSE, FALSE, Sp, r, 4 * k))
    BY <1>1, <1>2, TransfersAgree
  <1>9. /\ Bits(w, 10, 9) = 0 =>
             MeansSame(RegisterOffset(w), TransferWord(load, FALSE, TRUE, n, d, m))
        /\ Bits(w, 10, 9) = 1 =>
             MeansSame(RegisterOffset(w), HalfwordWord(load, FALSE, n, d, m))
    BY <1>3, <1>5, <1>6, Zenon
  <1>10. ~Bit(w, 12) =>
           /\ MeansSame(thumb_op_code_011(w),
                        TransferWord(load, FALSE, FALSE, n, d, 4 * amount))
           /\ MeansSame(thumb_op_code_100(w), HalfwordWord(load, TRUE, n, d, 2 * amount))
    BY <1>4, <1>7, Zenon
  <1>11. Bit(w, 12) =>
           /\ MeansSame(thumb_op_code_011(w), TransferWord(load, TRUE, FALSE, n, d, amount))
           /\ MeansSame(thumb_op_code_100(w), TransferWord(load, FALSE, FALSE, Sp, r, 4 * k))
    BY <1>4, <1>7, <1>8, Zenon
  <1> QED
    BY <1>9, <1>10, <1>11 DEF d, n, m, amount, r, k

\* The list of eight low registers and one more.
LEMMA ListsAgree ==
  ASSUME NEW k \in 0..255, NEW f \in {0, 1}
  PROVE  /\ ListOf(k + f * 2^14) = ListOf(k) \cup IF f = 1 THEN {Lr} ELSE {}
         /\ ListOf(k + f * 2^15) = ListOf(k) \cup IF f = 1 THEN {Ip} ELSE {}
  <1> DEFINE a == k + f * 2^14
             b == k + f * 2^15
             Same(r) == /\ Bit(a, r) <=> Bit(k, r) \/ (f = 1 /\ r = 14)
                        /\ Bit(b, r) <=> Bit(k, r) \/ (f = 1 /\ r = 15)
  <1>1. Same(0) /\ Same(1) /\ Same(2) /\ Same(3)
    BY SMT DEF Bit, Bits
  <1>2. Same(4) /\ Same(5) /\ Same(6) /\ Same(7)
    BY SMT DEF Bit, Bits
  <1>3. Same(8) /\ Same(9) /\ Same(10) /\ Same(11)
    BY SMT DEF Bit, Bits
  <1>4. Same(12) /\ Same(13) /\ Same(14) /\ Same(15)
    BY SMT DEF Bit, Bits
  <1> HIDE DEF Same
  <1>5. \A r \in 0..15 : Same(r)
    <2> SUFFICES ASSUME NEW r \in 0..15
                 PROVE  Same(r)
      OBVIOUS
    <2>1. \/ r = 0 \/ r = 1 \/ r = 2 \/ r = 3 \/ r = 4 \/ r = 5 \/ r = 6 \/ r = 7
          \/ r = 8 \/ r = 9 \/ r = 10 \/ r = 11 \/ r = 12 \/ r = 13 \/ r = 14 \/ r = 15
      BY SMT
    <2> QED
      BY <1>1, <1>2, <1>3, <1>4, <2>1
  <1>6. Lr = 14 /\ Ip = 15 /\ Lr \in 0..15 /\ Ip \in 0..15
    BY SMT DEF Lr, Ip
  <1> HIDE DEF a, b
  <1>7. /\ ListOf(a) = ListOf(k) \cup IF f = 1 THEN {Lr} ELSE {}
        /\ ListOf(b) = ListOf(k) \cup IF f = 1 THEN {Ip} ELSE {}
    BY <1>5, <1>6, Zenon DEF ListOf, Same
  <1> QED
    BY <1>7 DEF a, b

\* A block transfer.
LEMMA BlocksAgree ==
  ASSUME NEW load, NEW n, NEW list, BlockFields(load, FALSE, TRUE, n)
  PROVE  /\ MeansSame(LoadStoreMany(load, n, TRUE, ListOf(list), "IncrementAfter"),
                      BlockWord(load, FALSE, TRUE, n, list))
         /\ MeansSame(LoadStoreMany(load, n, TRUE, ListOf(list), "DecrementBefore"),
                      BlockWord(load, TRUE, FALSE, n, list))
  <1>1. BlockFields(load, FALSE, TRUE, n) /\ BlockFields(load, TRUE, FALSE, n)
    BY DEF BlockFields
  <1>2. decode_arm(BlockWord(load, FALSE, TRUE, n, list)).op =
          LoadStoreMany(load, n, TRUE, ListOf(list), ModeOf(FALSE, TRUE))
    BY <1>1, BlockDecodes
  <1>3. decode_arm(BlockWord(load, TRUE, FALSE, n, list)).op =
          LoadStoreMany(load, n, TRUE, ListOf(list), ModeOf(TRUE, FALSE))
    BY <1>1, BlockDecodes
  <1> QED
    BY <1>2, <1>3, Modes DEF MeansSame

\* PUSH and POP, and additions to Sp and Ip.
LEMMA StackAgrees ==
  ASSUME NEW w \in Nat, StackWord(w) # NoWord
  PROVE  MeansSame(thumb_op_code_101(w), StackWord(w))
  <1> DEFINE op == Bits(w, 12, 8)
             r == Bits(w, 10, 8)
             k == Bits(w, 7, 0)
             j == Bits(w, 6, 0)
             list == ListOf(k)
             base == IF Bit(w, 11) THEN Sp ELSE Ip
             num == IF Bit(w, 7) THEN 2 ELSE 4
             name == IF Bit(w, 7) THEN "Subtract" ELSE "Add"
  <1>1. /\ op \in 0..31 /\ r \in 0..15 /\ k \in 0..255 /\ j \in 0..255
        /\ base \in 0..15 /\ Sp \in 0..15
        /\ TRUE \in BOOLEAN /\ FALSE \in BOOLEAN
    BY HalfWordFields, SMT DEF Bits, Sp, Ip
  <1>2. StackWord(w) =
          CASE op < 16 -> DataWord(TRUE, 4, FALSE, base, r, TimesFour(k))
            [] op = 16 -> DataWord(TRUE, num, FALSE, Sp, Sp, TimesFour(j))
            [] op \in {20, 21} -> BlockWord(FALSE, TRUE, FALSE, Sp, k + Flag(op = 21) * 2^14)
            [] op \in {28, 29} -> BlockWord(TRUE, FALSE, TRUE, Sp, k + Flag(op = 29) * 2^15)
            [] OTHER -> NoWord
    BY Zenon DEF StackWord
  <1>3. thumb_op_code_101(w) =
          CASE op < 16 -> DataProcessing("Add", FALSE, base, r, Immediate(4 * k, 0))
            [] op = 16 -> DataProcessing(name, FALSE, Sp, Sp, Immediate(4 * j, 0))
            [] op \in {20, 21} ->
                 LoadStoreMany(FALSE, Sp, TRUE, list \cup (IF Bit(w, 8) THEN {Lr} ELSE {}),
                               "DecrementBefore")
            [] op \in {28, 29} ->
                 LoadStoreMany(TRUE, Sp, TRUE, list \cup (IF Bit(w, 8) THEN {Ip} ELSE {}),
                               "IncrementAfter")
            [] OTHER -> Unknown
    BY Zenon DEF thumb_op_code_101
  <1>4. op \in {21, 29} => Bit(w, 8)
    BY SMT DEF Bit, Bits
  <1>5. op \in {20, 28} => ~Bit(w, 8)
    BY SMT DEF Bit, Bits
  <1>6. /\ num \in {2, 4}
        /\ num = 2 => name = "Subtract"
        /\ num = 4 => name = "Add"
    BY SMT
  <1> HIDE DEF op, r, k, j, list, base, num, name
  <1>7. /\ 2 \in KnownOperations /\ 4 \in KnownOperations
        /\ 2 # 13 /\ 4 # 13 /\ (FALSE \/ 2 \notin 8..11) /\ (FALSE \/ 4 \notin 8..11)
        /\ Operations[4 + 1] = "Add" /\ Operations[2 + 1] = "Subtract"
    BY OperationNames, SMT DEF KnownOperations
  <1>8. op < 16 \/ op = 16 \/ op \in {20, 21} \/ op \in {28, 29}
    BY <1>2, Zenon
  <1>9. CASE op < 16
    <2>1. op # 16 /\ op \notin {20, 21} /\ op \notin {28, 29}
      BY <1>1, <1>9, SMT
    <2>2. StackWord(w) = DataWord(TRUE, 4, FALSE, base, r, TimesFour(k))
      BY <1>2, <1>9, <2>1, Zenon
    <2>3. thumb_op_code_101(w) = DataProcessing("Add", FALSE, base, r, Immediate(4 * k, 0))
      BY <1>3, <1>9, <2>1, Zenon
    <2>4. SameRegisters(Operations[4 + 1], base, r, base, r)
      BY SameRegistersCases
    <2>5. MeansSame(DataProcessing(Operations[4 + 1], FALSE, base, r, Immediate(4 * k, 0)),
                    DataWord(TRUE, 4, FALSE, base, r, TimesFour(k)))
      BY <1>1, <1>7, <2>4, ImmediateAgrees
    <2> QED
      BY <1>7, <2>2, <2>3, <2>5
  <1>10. CASE op = 16
    <2>1. ~(op < 16) /\ op \notin {20, 21} /\ op \notin {28, 29}
      BY <1>10, SMT
    <2>2. StackWord(w) = DataWord(TRUE, num, FALSE, Sp, Sp, TimesFour(j))
      BY <1>2, <1>10, <2>1, Zenon
    <2>3. thumb_op_code_101(w) = DataProcessing(name, FALSE, Sp, Sp, Immediate(4 * j, 0))
      BY <1>3, <1>10, <2>1, Zenon
    <2>4. /\ num \in KnownOperations /\ num # 13 /\ (FALSE \/ num \notin 8..11)
          /\ Operations[num + 1] = name
      BY <1>6, <1>7
    <2>5. SameRegisters(Operations[num + 1], Sp, Sp, Sp, Sp)
      BY SameRegistersCases
    <2>6. MeansSame(DataProcessing(Operations[num + 1], FALSE, Sp, Sp, Immediate(4 * j, 0)),
                    DataWord(TRUE, num, FALSE, Sp, Sp, TimesFour(j)))
      BY <1>1, <2>4, <2>5, ImmediateAgrees
    <2> QED
      BY <2>2, <2>3, <2>4, <2>6
  <1>11. CASE op \in {20, 21}
    <2> DEFINE f == Flag(op = 21)
    <2>1. ~(op < 16) /\ op # 16 /\ op \notin {28, 29}
      BY <1>11, SMT
    <2>2. StackWord(w) = BlockWord(FALSE, TRUE, FALSE, Sp, k + f * 2^14)
      BY <1>2, <1>11, <2>1, Zenon
    <2>3. thumb_op_code_101(w) =
            LoadStoreMany(FALSE, Sp, TRUE, list \cup (IF Bit(w, 8) THEN {Lr} ELSE {}),
                          "DecrementBefore")
      BY <1>3, <1>11, <2>1, Zenon
    <2>4. f \in {0, 1} /\ (f = 1 <=> Bit(w, 8))
      BY <1>4, <1>5, <1>11 DEF Flag
    <2> HIDE DEF f
    <2>5. list \cup (IF Bit(w, 8) THEN {Lr} ELSE {}) = ListOf(k + f * 2^14)
      BY <1>1, <2>4, ListsAgree DEF list
    <2>6. BlockFields(FALSE, FALSE, TRUE, Sp) /\ BlockFields(TRUE, FALSE, TRUE, Sp)
      BY <1>1 DEF BlockFields
    <2> QED
      BY <2>2, <2>3, <2>5, <2>6, BlocksAgree
  <1>12. CASE op \in {28, 29}
    <2> DEFINE f == Flag(op = 29)
    <2>1. ~(op < 16) /\ op # 16 /\ op \notin {20, 21}
      BY <1>12, SMT
    <2>2. StackWord(w) = BlockWord(TRUE, FALSE, TRUE, Sp, k + f * 2^15)
      BY <1>2, <1>12, <2>1, Zenon
    <2>3. thumb_op_code_101(w) =
            LoadStoreMany(TRUE, Sp, TRUE, list \cup (IF Bit(w, 8) THEN {Ip} ELSE {}),
                          "IncrementAfter")
      BY <1>3, <1>12, <2>1, Zenon
    <2>4. f \in {0, 1} /\ (f = 1 <=> Bit(w, 8))
      BY <1>4, <1>5, <1>12 DEF Flag
    <2> HIDE DEF f
    <2>5. list \cup (IF Bit(w, 8) THEN {Ip} ELSE {}) = ListOf(k + f * 2^15)
      BY <1>1, <2>4, ListsAgree DEF list
    <2>6. BlockFields(FALSE, FALSE, TRUE, Sp) /\ BlockFields(TRUE, FALSE, TRUE, Sp)
      BY <1>1 DEF BlockFields
    <2> QED
      BY <2>2, <2>3, <2>5, <2>6, BlocksAgree
  <1> QED
    BY <1>8, <1>9, <1>10, <1>11, <1>12

\* Branches by a whole number of ARM words, conditional and not.
LEMMA BranchesAgree ==
  ASSUME NEW w \in Nat, NEW next, w % 2 = 0
  PROVE  /\ Bits(w, 15, 12) = 13 =>
              MeansSame(decode_thumb(w, next).op,
                        BranchWord(Bits(w, 11, 8), SignedField(Bits(w, 7, 0), 8)))
         /\ Bits(w, 15, 11) = 28 =>
              MeansSame(decode_thumb(w, next).op,
                        BranchWord(14, SignedField(Bits(w, 10, 0), 11)))
  <1> DEFINE condition == Bits(w, 11, 8)
             k == Bits(w, 7, 0)
             j == Bits(w, 10, 0)
             short == SignedField(k, 8)
             long == SignedField(j, 11)
  <1>1. /\ condition \in 0..15 /\ k \in 0..255 /\ k % 2 = 0
        /\ j \in 0..(2^11 - 1) /\ j % 2 = 0
    BY SMT DEF Bits
  <1> HIDE DEF condition, k, j
  <1>2. /\ short = (IF k >= 2^7 THEN k - 2^8 ELSE k)
        /\ long = (IF j >= 2^10 THEN j - 2^11 ELSE j)
    BY <1>1, SMT DEF SignedField
  <1> HIDE DEF short, long
  <1>3. /\ short \in (-2^11)..(2^11 - 1) /\ short % 2 = 0
        /\ long \in (-2^11)..(2^11 - 1) /\ long % 2 = 0
    BY <1>1, <1>2, SMT
  <1>4. ASSUME Bits(w, 15, 12) = 13
        PROVE  MeansSame(decode_thumb(w, next).op, BranchWord(condition, short))
    <2>1. Bits(w, 15, 13) = 6 /\ Bit(w, 12)
      BY <1>4, SMT DEF Bits, Bit
    <2>2. decode_thumb(w, next) = thumb_op_code_110(w)
      <3>1. 6 # 0 /\ 6 # 1 /\ 6 # 2 /\ 6 # 3 /\ 6 # 4 /\ 6 # 5 /\ 6 # 7
        OBVIOUS
      <3> QED
        BY <2>1, <3>1, Zenon DEF decode_thumb
    <2>3. thumb_op_code_110(w) = Conditional(2, condition, ThumbJump(Offset(2 * short)))
      BY <1>2, <2>1 DEF thumb_op_code_110, ThumbJump, condition, k
    <2>4. /\ condition # 15 => decode_thumb(w, next).op = ThumbJump(Offset(2 * short))
          /\ condition = 15 => decode_thumb(w, next).op = Unknown
      BY <2>2, <2>3, OperationOf
    <2>5. decode_arm(BranchWord(condition, short)).op =
            IF condition = 15 THEN Unknown ELSE ArmJump(Offset(2 * short))
      BY <1>1, <1>3, BranchDecodes
    <2> QED
      BY <2>4, <2>5, BranchMeans DEF MeansSame
  <1>5. ASSUME Bits(w, 15, 11) = 28
        PROVE  MeansSame(decode_thumb(w, next).op, BranchWord(14, long))
    <2>1. Bits(w, 15, 13) = 7 /\ Bits(w, 12, 11) = 0
      BY <1>5, SMT DEF Bits
    <2>2. decode_thumb(w, next) = thumb_op_code_111(w, next)
      <3>1. 7 # 0 /\ 7 # 1 /\ 7 # 2 /\ 7 # 3 /\ 7 # 4 /\ 7 # 5 /\ 7 # 6
        OBVIOUS
      <3> QED
        BY <2>1, <3>1, Zenon DEF decode_thumb
    <2>3. thumb_op_code_111(w, next) = Always(2, ThumbJump(Offset(2 * long)))
      <3>1. 0 # 2 /\ 0 # 3
        OBVIOUS
      <3>2. thumb_op_code_111(w, next) =
              Always(2, Branch(2, FALSE, TRUE, FALSE,
                               Offset(IF Bit(2 * j, 11) THEN 2 * j - 2^12 ELSE 2 * j)))
        BY <2>1, <3>1, Zenon DEF thumb_op_code_111, j
      <3>3. (IF Bit(2 * j, 11) THEN 2 * j - 2^12 ELSE 2 * j) = 2 * long
        BY <1>1, <1>2, SMT DEF Bit, Bits
      <3> QED
        BY <3>2, <3>3 DEF ThumbJump
    <2>4. decode_thumb(w, next).op = ThumbJump(Offset(2 * long))
      BY <2>2, <2>3, OperationOf
    <2>5. decode_arm(BranchWord(14, long)).op = ArmJump(Offset(2 * long))
      <3>1. 14 \in 0..15 /\ 14 # 15
        OBVIOUS
      <3> QED
        BY <1>3, <3>1, BranchDecodes
    <2> QED
      BY <2>4, <2>5, BranchMeans DEF MeansSame
  <1> QED
    BY <1>4, <1>5 DEF condition, k, j, short, long

\* What decode_thumb makes of a half word, by its three highest bits.
LEMMA ThumbFormats ==
  ASSUME NEW w, NEW next
  PROVE  LET op == decode_thumb(w, next).op
             c == Bits(w, 15, 13)
         IN  /\ c = 0 => op = thumb_op_code_000(w)
             /\ c = 1 => op = thumb_op_code_001(w)
             /\ c = 2 => op = thumb_op_code_010(w)
             /\ c = 3 => op = thumb_op_code_011(w)
             /\ c = 4 => op = thumb_op_code_100(w)
             /\ c = 5 => op = thumb_op_code_101(w)
             /\ c = 6 /\ ~Bit(w, 12) =>
                  op = LoadStoreMany(Bit(w, 11), Bits(w, 10, 8), TRUE, ListOf(Bits(w, 7, 0)),
                                     "IncrementAfter")
  <1> DEFINE c == Bits(w, 15, 13)
             i == decode_thumb(w, next)
  <1>1. i = CASE c = 0 -> Always(2, thumb_op_code_000(w))
              [] c = 1 -> Always(2, thumb_op_code_001(w))
              [] c = 2 -> Always(2, thumb_op_code_010(w))
              [] c = 3 -> Always(2, thumb_op_code_011(w))
              [] c = 4 -> Always(2, thumb_op_code_100(w))
              [] c = 5 -> Always(2, thumb_op_code_101(w))
              [] c = 6 -> thumb_op_code_110(w)
              [] c = 7 -> thumb_op_code_111(w, next)
    BY Zenon DEF decode_thumb
  <1> HIDE DEF c, i
  <1>2. /\ 0 # 1 /\ 0 # 2 /\ 0 # 3 /\ 0 # 4 /\ 0 # 5 /\ 0 # 6 /\ 0 # 7
        /\ 1 # 2 /\ 1 # 3 /\ 1 # 4 /\ 1 # 5 /\ 1 # 6 /\ 1 # 7
        /\ 2 # 3 /\ 2 # 4 /\ 2 # 5 /\ 2 # 6 /\ 2 # 7
        /\ 3 # 4 /\ 3 # 5 /\ 3 # 6 /\ 3 # 7
        /\ 4 # 5 /\ 4 # 6 /\ 4 # 7 /\ 5 # 6 /\ 5 # 7 /\ 6 # 7
    OBVIOUS
  <1>3. /\ c = 0 => i = Always(2, thumb_op_code_000(w))
        /\ c = 1 => i = Always(2, thumb_op_code_001(w))
        /\ c = 2 => i = Always(2, thumb_op_code_010(w))
    BY <1>1, <1>2, Zenon
  <1>4. /\ c = 3 => i = Always(2, thumb_op_code_011(w))
        /\ c = 4 => i = Always(2, thumb_op_code_100(w))
        /\ c = 5 => i = Always(2, thumb_op_code_101(w))
        /\ c = 6 => i = thumb_op_code_110(w)
    BY <1>1, <1>2, Zenon
  <1>5. ~Bit(w, 12) =>
          thumb_op_code_110(w) =
            Always(2, LoadStoreMany(Bit(w, 11), Bits(w, 10, 8), TRUE, ListOf(Bits(w, 7, 0)),
                                    "IncrementAfter"))
    BY Zenon DEF thumb_op_code_110
  <1>6. \A op : Always(2, op).op = op
    BY OperationOf
  <1> QED
    BY <1>3, <1>4, <1>5, <1>6, Zenon DEF c, i

\* The half words of thumb_op_code_010 that are short for an ARM word.
LEMMA Thumb010 ==
  ASSUME NEW w \in Nat
  PROVE  /\ Bits(w, 15, 10) = 16 => thumb_op_code_010(w) = Alu(w)
         /\ Bits(w, 15, 10) = 17 => thumb_op_code_010(w) = HighRegisters(w)
         /\ Bits(w, 15, 12) = 5 => thumb_op_code_010(w) = RegisterOffset(w)
  <1> DEFINE a == Bits(w, 12, 10)
             b == Bits(w, 12, 11)
             form == thumb_op_code_010(w)
  <1>1. form = CASE a = 0 -> Alu(w)
                 [] a = 1 -> HighRegisters(w)
                 [] b = 1 -> LoadLiteral(w)
                 [] Bit(w, 12) -> RegisterOffset(w)
    BY Zenon DEF thumb_op_code_010
  <1>2. /\ Bits(w, 15, 10) = 16 => a = 0 /\ a # 1 /\ b # 1 /\ ~Bit(w, 12)
        /\ Bits(w, 15, 10) = 17 => a = 1 /\ a # 0 /\ b # 1 /\ ~Bit(w, 12)
        /\ Bits(w, 15, 12) = 5 => Bit(w, 12) /\ a # 0 /\ a # 1 /\ b # 1
    BY SMT DEF Bits, Bit
  <1> HIDE DEF a, b, form
  <1>3. /\ Bits(w, 15, 10) = 16 => form = Alu(w)
        /\ Bits(w, 15, 10) = 17 => form = HighRegisters(w)
        /\ Bits(w, 15, 12) = 5 => form = RegisterOffset(w)
    BY <1>1, <1>2, Zenon
  <1> QED
    BY <1>3 DEF form

\* A half word that is short for an ARM word means what decode_arm makes of that word.
LEMMA HalfWordsAgree ==
  ASSUME NEW w \in Nat, NEW next, ArmOf(w) # NoWord
  PROVE  MeansSame(decode_thumb(w, next).op, ArmOf(w))
  <1> DEFINE d == Bits(w, 2, 0)
             n == Bits(w, 5, 3)
             m == Bits(w, 8, 6)
             amount == Bits(w, 10, 6)
             load == Bit(w, 11)
             c == Bits(w, 15, 13)
             p == Bits(w, 15, 12)
             q == Bits(w, 15, 10)
             u == Bits(w, 15, 11)
             v == Bits(w, 10, 9)
             op == decode_thumb(w, next).op
             arm == ArmOf(w)
  <1> SUFFICES MeansSame(op, arm)
    OBVIOUS
  <1>1. arm =
          CASE c = 0 -> LowWord(w)
            [] c = 1 -> ImmediateWord(w)
            [] q = 16 -> AluWord(w)
            [] q = 17 -> HighWord(w)
            [] p = 5 /\ v = 0 -> TransferWord(load, FALSE, TRUE, n, d, m)
            [] p = 5 /\ v = 1 -> HalfwordWord(load, FALSE, n, d, m)
            [] p = 6 -> TransferWord(load, FALSE, FALSE, n, d, 4 * amount)
            [] p = 7 -> TransferWord(load, TRUE, FALSE, n, d, amount)
            [] p = 8 -> HalfwordWord(load, TRUE, n, d, 2 * amount)
            [] p = 9 -> TransferWord(load, FALSE, FALSE, Sp, Bits(w, 10, 8), 4 * Bits(w, 7, 0))
            [] p = 11 \/ p = 10 -> StackWord(w)
            [] p = 12 -> BlockWord(load, FALSE, TRUE, Bits(w, 10, 8), Bits(w, 7, 0))
            [] p = 13 /\ w % 2 = 0 ->
                 BranchWord(Bits(w, 11, 8), SignedField(Bits(w, 7, 0), 8))
            [] u = 28 /\ w % 2 = 0 -> BranchWord(14, SignedField(Bits(w, 10, 0), 11))
            [] OTHER -> NoWord
    BY Zenon DEF ArmOf
  <1>2. /\ c \in 0..7 /\ p \in 0..15 /\ q \in 0..63 /\ u \in 0..31
        /\ c = p \div 2 /\ p = q \div 4 /\ p = u \div 2
    BY SMT DEF Bits
  <1>3. /\ p \in {6, 8} => ~Bit(w, 12)
        /\ p \in {7, 9} => Bit(w, 12)
        /\ p = 12 => ~Bit(w, 12)
    BY SMT DEF Bits, Bit
  <1>f. /\ c = 0 => op = thumb_op_code_000(w)
        /\ c = 1 => op = thumb_op_code_001(w)
        /\ c = 2 => op = thumb_op_code_010(w)
        /\ c = 3 => op = thumb_op_code_011(w)
        /\ c = 4 => op = thumb_op_code_100(w)
        /\ c = 5 => op = thumb_op_code_101(w)
        /\ c = 6 /\ ~Bit(w, 12) =>
             op = LoadStoreMany(load, Bits(w, 10, 8), TRUE, ListOf(Bits(w, 7, 0)),
                                "IncrementAfter")
    BY ThumbFormats, Zenon
  <1>g. /\ q = 16 => thumb_op_code_010(w) = Alu(w)
        /\ q = 17 => thumb_op_code_010(w) = HighRegisters(w)
        /\ p = 5 => thumb_op_code_010(w) = RegisterOffset(w)
    BY Thumb010
  <1>t. /\ v = 0 => MeansSame(RegisterOffset(w), TransferWord(load, FALSE, TRUE, n, d, m))
        /\ v = 1 => MeansSame(RegisterOffset(w), HalfwordWord(load, FALSE, n, d, m))
        /\ ~Bit(w, 12) =>
             /\ MeansSame(thumb_op_code_011(w),
                          TransferWord(load, FALSE, FALSE, n, d, 4 * amount))
             /\ MeansSame(thumb_op_code_100(w), HalfwordWord(load, TRUE, n, d, 2 * amount))
        /\ Bit(w, 12) =>
             /\ MeansSame(thumb_op_code_011(w), TransferWord(load, TRUE, FALSE, n, d, amount))
             /\ MeansSame(thumb_op_code_100(w),
                          TransferWord(load, FALSE, FALSE, Sp, Bits(w, 10, 8),
                                       4 * Bits(w, 7, 0)))
    BY OffsetsAgree, Zenon
  <1>b. /\ p = 13 /\ w % 2 = 0 =>
             MeansSame(op, BranchWord(Bits(w, 11, 8), SignedField(Bits(w, 7, 0), 8)))
        /\ u = 28 /\ w % 2 = 0 =>
             MeansSame(op, BranchWord(14, SignedField(Bits(w, 10, 0), 11)))
    BY BranchesAgree
  <1>m. MeansSame(LoadStoreMany(load, Bits(w, 10, 8), TRUE, ListOf(Bits(w, 7, 0)),
                                "IncrementAfter"),
                  BlockWord(load, FALSE, TRUE, Bits(w, 10, 8), Bits(w, 7, 0)))
    <2>1. Bits(w, 10, 8) \in 0..15 /\ load \in BOOLEAN
      BY HalfWordFields, BitIsBoolean, SMT
    <2>2. BlockFields(load, FALSE, TRUE, Bits(w, 10, 8))
      BY <2>1, Zenon DEF BlockFields
    <2> HIDE DEF load
    <2> QED
      BY <2>2, BlocksAgree
  <1> HIDE DEF d, n, m, amount, load
  <1> HIDE DEF c, p, q, u, v, op, arm
  <1>4. \/ c = 0
        \/ c = 1
        \/ q = 16
        \/ q = 17
        \/ p = 5 /\ v = 0
        \/ p = 5 /\ v = 1
        \/ p \in {6, 7, 8, 9}
        \/ p \in {10, 11}
        \/ p = 12
        \/ p = 13 /\ w % 2 = 0
        \/ u = 28 /\ w % 2 = 0
    <2>1. p = 6 \/ p = 7 \/ p = 8 \/ p = 9 => p \in {6, 7, 8, 9}
      OBVIOUS
    <2>2. p = 10 \/ p = 11 => p \in {10, 11}
      OBVIOUS
    <2>3. arm # NoWord
      BY DEF arm
    <2> QED
      BY <1>1, <2>1, <2>2, <2>3, Zenon
  <1>5. CASE c = 0
    <2>1. /\ c # 1
          /\ q # 16 /\ q # 17
          /\ p # 5 /\ p # 6 /\ p # 7 /\ p # 8 /\ p # 9 /\ p # 10 /\ p # 11 /\ p # 12 /\ p # 13
          /\ u # 28
      BY <1>2, <1>5, SMT
    <2>2. arm = LowWord(w)
      BY <1>1, <1>5, <2>1, Zenon
    <2>3. op = thumb_op_code_000(w)
      BY <1>3, <1>f, <1>g, <1>5, <2>1, Zenon
    <2>4. LowWord(w) # NoWord
      BY <2>2 DEF arm
    <2> QED
      BY <2>2, <2>3, <2>4, LowAgrees
  <1>6. CASE c = 1
    <2>1. /\ c # 0
          /\ q # 16 /\ q # 17
          /\ p # 5 /\ p # 6 /\ p # 7 /\ p # 8 /\ p # 9 /\ p # 10 /\ p # 11 /\ p # 12 /\ p # 13
          /\ u # 28
      BY <1>2, <1>6, SMT
    <2>2. arm = ImmediateWord(w)
      BY <1>1, <1>6, <2>1, Zenon
    <2>3. op = thumb_op_code_001(w)
      BY <1>3, <1>f, <1>g, <1>6, <2>1, Zenon
    <2> QED
      BY NumbersAgree, <1>6, <2>1, <2>2, <2>3, Zenon
  <1>7. CASE q = 16
    <2>1. /\ c = 2 /\ c # 0 /\ c # 1
          /\ q # 17
          /\ p # 5 /\ p # 6 /\ p # 7 /\ p # 8 /\ p # 9 /\ p # 10 /\ p # 11 /\ p # 12 /\ p # 13
          /\ u # 28
      BY <1>2, <1>7, SMT
    <2>2. arm = AluWord(w)
      BY <1>1, <1>7, <2>1, Zenon
    <2>3. op = Alu(w)
      BY <1>3, <1>f, <1>g, <1>7, <2>1, Zenon
    <2>4. AluWord(w) # NoWord
      BY <2>2 DEF arm
    <2> QED
      BY <2>2, <2>3, <2>4, AluAgrees
  <1>8. CASE q = 17
    <2>1. /\ c = 2 /\ c # 0 /\ c # 1
          /\ q # 16
          /\ p # 5 /\ p # 6 /\ p # 7 /\ p # 8 /\ p # 9 /\ p # 10 /\ p # 11 /\ p # 12 /\ p # 13
          /\ u # 28
      BY <1>2, <1>8, SMT
    <2>2. arm = HighWord(w)
      BY <1>1, <1>8, <2>1, Zenon
    <2>3. op = HighRegisters(w)
      BY <1>3, <1>f, <1>g, <1>8, <2>1, Zenon
    <2>4. HighWord(w) # NoWord
      BY <2>2 DEF arm
    <2> QED
      BY <2>2, <2>3, <2>4, HighAgrees
  <1>9. CASE p = 5 /\ v = 0
    <2>1. /\ c = 2 /\ c # 0 /\ c # 1 /\ v # 1
          /\ q # 16 /\ q # 17
          /\ p # 6 /\ p # 7 /\ p # 8 /\ p # 9 /\ p # 10 /\ p # 11 /\ p # 12 /\ p # 13
          /\ u # 28
      BY <1>2, <1>9, SMT
    <2>2. arm = TransferWord(load, FALSE, TRUE, n, d, m)
      BY <1>1, <1>9, <2>1, Zenon
    <2>3. op = RegisterOffset(w)
      BY <1>3, <1>f, <1>g, <1>9, <2>1, Zenon
    <2> QED
      BY <1>t, <1>9, <2>1, <2>2, <2>3, Zenon
  <1>10. CASE p = 5 /\ v = 1
    <2>1. /\ c = 2 /\ c # 0 /\ c # 1 /\ v # 0
          /\ q # 16 /\ q # 17
          /\ p # 6 /\ p # 7 /\ p # 8 /\ p # 9 /\ p # 10 /\ p # 11 /\ p # 12 /\ p # 13
          /\ u # 28
      BY <1>2, <1>10, SMT
    <2>2. arm = HalfwordWord(load, FALSE, n, d, m)
      BY <1>1, <1>10, <2>1, Zenon
    <2>3. op = RegisterOffset(w)
      BY <1>3, <1>f, <1>g, <1>10, <2>1, Zenon
    <2> QED
      BY <1>t, <1>10, <2>1, <2>2, <2>3, Zenon
  <1>11. CASE p = 6
    <2>1. /\ c = 3 /\ c # 0 /\ c # 1
          /\ q # 16 /\ q # 17
          /\ p # 5 /\ p # 7 /\ p # 8 /\ p # 9 /\ p # 10 /\ p # 11 /\ p # 12 /\ p # 13
          /\ u # 28
      BY <1>2, <1>11, SMT
    <2>2. arm = TransferWord(load, FALSE, FALSE, n, d, 4 * amount)
      BY <1>1, <1>11, <2>1, Zenon
    <2>3. op = thumb_op_code_011(w)
      BY <1>3, <1>f, <1>g, <1>11, <2>1, Zenon
    <2>4. ~Bit(w, 12)
      BY <1>3, <1>11, SMT
    <2> QED
      BY <1>t, <1>11, <2>1, <2>2, <2>3, <2>4, Zenon
  <1>12. CASE p = 7
    <2>1. /\ c = 3 /\ c # 0 /\ c # 1
          /\ q # 16 /\ q # 17
          /\ p # 5 /\ p # 6 /\ p # 8 /\ p # 9 /\ p # 10 /\ p # 11 /\ p # 12 /\ p # 13
          /\ u # 28
      BY <1>2, <1>12, SMT
    <2>2. arm = TransferWord(load, TRUE, FALSE, n, d, amount)
      BY <1>1, <1>12, <2>1, Zenon
    <2>3. op = thumb_op_code_011(w)
      BY <1>3, <1>f, <1>g, <1>12, <2>1, Zenon
    <2>4. Bit(w, 12)
      BY <1>3, <1>12, SMT
    <2> QED
      BY <1>t, <1>12, <2>1, <2>2, <2>3, <2>4, Zenon
  <1>13. CASE p = 8
    <2>1. /\ c = 4 /\ c # 0 /\ c # 1
          /\ q # 16 /\ q # 17
          /\ p # 5 /\ p # 6 /\ p # 7 /\ p # 9 /\ p # 10 /\ p # 11 /\ p # 12 /\ p # 13
          /\ u # 28
      BY <1>2, <1>13, SMT
    <2>2. arm = HalfwordWord(load, TRUE, n, d, 2 * amount)
      BY <1>1, <1>13, <2>1, Zenon
    <2>3. op = thumb_op_code_100(w)
      BY <1>3, <1>f, <1>g, <1>13, <2>1, Zenon
    <2>4. ~Bit(w, 12)
      BY <1>3, <1>13, SMT
    <2> QED
      BY <1>t, <1>13, <2>1, <2>2, <2>3, <2>4, Zenon
  <1>14. CASE p = 9
    <2>1. /\ c = 4 /\ c # 0 /\ c # 1
          /\ q # 16 /\ q # 17
          /\ p # 5 /\ p # 6 /\ p # 7 /\ p # 8 /\ p # 10 /\ p # 11 /\ p # 12 /\ p # 13
          /\ u # 28
      BY <1>2, <1>14, SMT
    <2>2. arm = TransferWord(load, FALSE, FALSE, Sp, Bits(w, 10, 8), 4 * Bits(w, 7, 0))
      BY <1>1, <1>14, <2>1, Zenon
    <2>3. op = thumb_op_code_100(w)
      BY <1>3, <1>f, <1>g, <1>14, <2>1, Zenon
    <2>4. Bit(w, 12)
      BY <1>3, <1>14, SMT
    <2> QED
      BY <1>t, <1>14, <2>1, <2>2, <2>3, <2>4, Zenon
  <1>15. CASE p \in {10, 11}
    <2>1. /\ c = 5 /\ c # 0 /\ c # 1 /\ (p = 11 \/ p = 10)
          /\ q # 16 /\ q # 17
          /\ p # 5 /\ p # 6 /\ p # 7 /\ p # 8 /\ p # 9 /\ p # 12 /\ p # 13
          /\ u # 28
      BY <1>2, <1>15, SMT
    <2>2. arm = StackWord(w)
      BY <1>1, <1>15, <2>1, Zenon
    <2>3. op = thumb_op_code_101(w)
      BY <1>3, <1>f, <1>g, <1>15, <2>1, Zenon
    <2>4. StackWord(w) # NoWord
      BY <2>2 DEF arm
    <2> QED
      BY <2>2, <2>3, <2>4, StackAgrees
  <1>16. CASE p = 12
    <2>1. /\ c = 6 /\ c # 0 /\ c # 1
          /\ q # 16 /\ q # 17
          /\ p # 5 /\ p # 6 /\ p # 7 /\ p # 8 /\ p # 9 /\ p # 10 /\ p # 11 /\ p # 13
          /\ u # 28
      BY <1>2, <1>16, SMT
    <2>2. arm = BlockWord(load, FALSE, TRUE, Bits(w, 10, 8), Bits(w, 7, 0))
      BY <1>1, <1>16, <2>1, Zenon
    <2>3. op = LoadStoreMany(load, Bits(w, 10, 8), TRUE, ListOf(Bits(w, 7, 0)),
                               "IncrementAfter")
      BY <1>3, <1>f, <1>g, <1>16, <2>1, Zenon
    <2> QED
      BY <1>m, <1>16, <2>1, <2>2, <2>3, Zenon
  <1>17. CASE p = 13 /\ w % 2 = 0
    <2>1. /\ c # 0 /\ c # 1
          /\ q # 16 /\ q # 17
          /\ p # 5 /\ p # 6 /\ p # 7 /\ p # 8 /\ p # 9 /\ p # 10 /\ p # 11 /\ p # 12
          /\ u # 28
      BY <1>2, <1>17, SMT
    <2>2. arm = BranchWord(Bits(w, 11, 8), SignedField(Bits(w, 7, 0), 8))
      BY <1>1, <1>17, <2>1, Zenon
    <2> QED
      BY <1>b, <1>17, <2>1, <2>2, Zenon
  <1>18. CASE u = 28 /\ w % 2 = 0
    <2>1. /\ c # 0 /\ c # 1
          /\ q # 16 /\ q # 17
          /\ p # 5 /\ p # 6 /\ p # 7 /\ p # 8 /\ p # 9 /\ p # 10 /\ p # 11 /\ p # 12 /\ p # 13
      BY <1>2, <1>18, SMT
    <2>2. arm = BranchWord(14, SignedField(Bits(w, 10, 0), 11))
      BY <1>1, <1>18, <2>1, Zenon
    <2> QED
      BY <1>b, <1>18, <2>1, <2>2, Zenon
  <1>19. p \in {6, 7, 8, 9} => p = 6 \/ p = 7 \/ p = 8 \/ p = 9
    OBVIOUS
  <1> QED
    BY <1>4, <1>5, <1>6, <1>7, <1>8, <1>9, <1>10, <1>11, <1>12, <1>13, <1>14, <1>15, <1>16,
       <1>17, <1>18, <1>19, Zenon
-----------------------------------------------------------------------------

\* Every Thumb half word that is short for an ARM word is decoded, by decode_thumb, to
\* what decode_arm makes of that word: the two decoders agree.
THEOREM ThumbMeansArm == Spec => []ThumbIsArm
  <1>1. CodeOK => ThumbIsArm
    <2> SUFFICES ASSUME CodeOK, thumb, ArmOf(code[1]) # NoWord
                 PROVE  Meaning(Op) = Meaning(decode_arm(ArmOf(code[1])).op)
      BY DEF ThumbIsArm
    <2>1. code[1] \in HalfWords
      BY InstructionsAssumption, SMT DEF CodeOK
    <2>2. code[1] \in Nat
      BY <2>1, SMT DEF HalfWords
    <2>3. Op = decode_thumb(code[1], code[2]).op
      BY DEF Op, instruction
    <2> QED
      BY <2>2, <2>3, HalfWordsAgree, Zenon DEF MeansSame
  <1>2. CycleInv => ThumbIsArm
    BY <1>1 DEF CycleInv
  <1> QED
    BY <1>2, CycleInvHolds, PTL

=============================================================================
