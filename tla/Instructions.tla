----------------------------- MODULE Instructions ----------------------------
(***************************************************************************)
(* What a cycle of the core makes of the code it fetches: it decodes it,   *)
(* counts its ticks, executes it, and moves the instruction pointer on     *)
(* unless the instruction has written it (Gba::run_cycle of                *)
(* gbaemu-core/src/lib.rs; gbaemu-core/src/instructions.rs).               *)
(*                                                                         *)
(* Which instructions write Ip is decided twice: by what they do, and by   *)
(* increments_instruction_pointer, which the core asks before and after    *)
(* the execution.  Of the values only that is kept, and whether the        *)
(* condition of the instruction holds.                                     *)
(***************************************************************************)
EXTENDS ThumbAsArm, FiniteSets

CONSTANTS
  ThumbCodes,          \* pairs of a half word and the one behind it
  ArmWords,
  LongestInstruction   \* in ticks

HalfWords == 0..(2^16 - 1)

\* A load of all registers takes 20 ticks, one more if its condition fails.
ASSUME InstructionsAssumption ==
  /\ ThumbCodes \subseteq HalfWords \X HalfWords
  /\ ArmWords \subseteq HalfWords \X HalfWords
  /\ LongestInstruction \in Nat
  /\ LongestInstruction >= 21

VARIABLES
  thumb,       \* the T bit of Cpsr
  code,        \* what the fetch finds at Ip
  phase,       \* of the cycle
  holds,       \* the condition, with the flags as they are
  ip,          \* where Ip points: to this instruction, behind it, where it wrote
  wait_ticks

vars == <<thumb, code, phase, holds, ip, wait_ticks>>

Init ==
  /\ \/ thumb = TRUE /\ code \in ThumbCodes
     \/ thumb = FALSE /\ code \in ArmWords
  /\ phase = "fetch"
  /\ holds = TRUE
  /\ ip = "here"
  /\ wait_ticks = 0

-----------------------------------------------------------------------------

\* Gba::fetch
instruction == IF thumb THEN decode_thumb(code[1], code[2]) ELSE decode_arm(code)
Op == instruction.op

Comparing == {"Compare", "CompareNegative", "TestEquals", "Test"}

\* InstructionOp::execute: the instructions that write Ip.
WritesIp ==
  CASE Op.kind = "Branch" -> TRUE
    [] Op.kind = "StoreOrLoadRegister" ->
         \/ Op.is_load /\ Op.register_destination = Ip
         \/ /\ Op.address.register_base = Ip
            /\ Op.address.write_back \/ Op.address.is_post_indexing
    [] Op.kind = "StoreOrLoadRegisters" ->
         \/ Op.is_load /\ Ip \in Op.register_list
         \/ Op.register_base = Ip /\ Op.register_base_write_back
    [] Op.kind = "Mrs" -> Op.register_base = Ip
    [] Op.kind = "ShifterOperandInstruction" -> Op.destination = Ip /\ Op.op \notin Comparing
    [] OTHER -> FALSE

\* Block loads forgotten.
increments_instruction_pointer_NoBlocks(holding) ==
  /\ holding
  /\ \/ Op.kind = "Branch"
     \/ /\ Op.kind = "StoreOrLoadRegister" /\ Op.is_load
        /\ Op.register_destination = Ip /\ Op.read_size = "Word"
     \/ /\ Op.kind = "ShifterOperandInstruction" /\ Op.destination = Ip
        /\ Op.op \in {"Move", "Subtract", "Add"}

\* The instructions the core takes for writing Ip; its source has a "TODO: And
\* multiple others".
increments_instruction_pointer(holding) ==
  /\ holding
  /\ \/ Op.kind = "Branch"
     \/ /\ Op.kind = "StoreOrLoadRegister" /\ Op.is_load
        /\ Op.register_destination = Ip /\ Op.read_size = "Word"
     \/ Op.kind = "StoreOrLoadRegisters" /\ Op.is_load /\ Ip \in Op.register_list
     \/ /\ Op.kind = "ShifterOperandInstruction" /\ Op.destination = Ip
        /\ Op.op \in {"Move", "Subtract", "Add"}

\* The flags, or all of Cpsr: arithmetic with Ip as its destination takes it from
\* Spsr, a Move only if it updates the flags.
WritesFlags ==
  \/ /\ Op.kind = "ShifterOperandInstruction"
     /\ \/ Op.update_flags
        \/ /\ Op.destination = Ip
           /\ Op.op \in {"Add", "AddWithCarry", "Subtract", "ReverseSubtract", "Multiplicate",
                        "MoveNegate"}
  \/ Op.kind = "Msr" /\ ~Op.use_spsr

\* A block load without the ticks every load has.
tick_duration_LoadsByLength ==
  CASE Op.kind = "Branch" ->
         IF Op.store_return_address_in_link_register /\ Op.instruction_size = 2 THEN 4 ELSE 3
    [] Op.kind = "StoreOrLoadRegister" -> IF Op.is_load THEN 3 ELSE 2
    [] Op.kind = "StoreOrLoadRegisters" -> Cardinality(Op.register_list)
    [] OTHER -> 1

\* InstructionOp::tick_duration.  Storing no register takes (0 - 1) + 2.
tick_duration ==
  CASE Op.kind = "Branch" ->
         IF Op.store_return_address_in_link_register /\ Op.instruction_size = 2 THEN 4 ELSE 3
    [] Op.kind = "StoreOrLoadRegister" /\ Op.is_load ->
         IF Op.address.register_base = Ip THEN 5 ELSE 3
    [] Op.kind = "StoreOrLoadRegister" /\ ~Op.is_load -> 2
    [] Op.kind = "StoreOrLoadRegisters" /\ Op.is_load ->
         Cardinality(Op.register_list) + IF Ip \in Op.register_list THEN 4 ELSE 2
    [] Op.kind = "StoreOrLoadRegisters" /\ ~Op.is_load ->
         Cardinality(Op.register_list) - 1 + 2
    [] OTHER -> 1

StoresNothing ==
  Op.kind = "StoreOrLoadRegisters" /\ ~Op.is_load /\ Op.register_list = {}

\* execute has no way to store a signed number.
StoresSigned ==
  Op.kind = "StoreOrLoadRegister" /\ ~Op.is_load /\ Op.read_size = "SignedHalfword"

\* A Test is decoded without its S bit too, and then fails an assertion of
\* execute, which all comparisons have.
ComparesInVain ==
  Op.kind = "ShifterOperandInstruction" /\ Op.op \in Comparing /\ ~Op.update_flags

CannotExecute == StoresSigned \/ ComparesInVain

\* Depending on values: a todo!() of Msr (bits that are not allocated, a mode
\* without Spsr, the T bit), a shift by a register that holds 32 or more, a load or
\* store where no memory is.  That Cpsr names a mode is taken for granted.
MayPanic ==
  \/ Op.kind \in {"Msr", "StoreOrLoadRegister", "StoreOrLoadRegisters"}
  \/ Op.kind = "ShifterOperandInstruction" /\ Op.value.kind = "RegisterRegister"

-----------------------------------------------------------------------------

\* Ticks are counted before the instruction is executed, one more if its
\* condition does not hold.
Decodes ==
  /\ phase = "fetch"
  /\ instruction # Error
  /\ holds' \in IF instruction.condition = "Always" THEN {TRUE} ELSE BOOLEAN
  /\ wait_ticks' = tick_duration + IF holds' THEN 0 ELSE 1
  /\ phase' = "execute"
  /\ UNCHANGED <<thumb, code, ip>>

\* With overflow checks the duration of a store of nothing panics too.
Panics ==
  /\ \/ phase = "fetch" /\ (instruction = Error \/ StoresNothing)
     \/ phase = "execute" /\ holds /\ (CannotExecute \/ MayPanic)
  /\ phase' = "panicked"
  /\ UNCHANGED <<thumb, code, holds, ip, wait_ticks>>

\* The increment is chosen before the execution, and added if the instruction,
\* asked again after it, is not one that writes Ip.  The flags it has changed
\* may by then make its condition fail.
Executes ==
  /\ phase = "execute"
  /\ ~(holds /\ CannotExecute)
  /\ holds' \in IF holds /\ WritesFlags /\ instruction.condition # "Always"
                THEN BOOLEAN ELSE {holds}
  /\ ip' = IF ~increments_instruction_pointer(holds')
           THEN IF increments_instruction_pointer(holds) THEN "here" ELSE "behind"
           ELSE IF holds /\ WritesIp THEN "written" ELSE "here"
  /\ phase' = "executed"
  /\ UNCHANGED <<thumb, code, wait_ticks>>

\* The next cycle.  The code it finds is the same one; every other code is
\* that of a first cycle.
Continues ==
  /\ phase = "executed"
  /\ phase' = "fetch"
  /\ holds' = TRUE
  /\ ip' = "here"
  /\ wait_ticks' = 0
  /\ UNCHANGED <<thumb, code>>

Stopped == phase = "panicked" /\ UNCHANGED vars

Next == Decodes \/ Panics \/ Executes \/ Continues \/ Stopped

Spec == Init /\ [][Next]_vars

-----------------------------------------------------------------------------

\* A branch stays in the reach of its format, and in step with the code.
OffsetInReach(target) ==
  target.register = -1 =>
    /\ target.offset \in (-2^25)..(2^25 - 1)
    /\ target.offset % (IF thumb THEN 2 ELSE 4) = 0

TypeOK ==
  /\ phase \in {"fetch", "execute", "executed", "panicked"}
  /\ ip \in {"here", "behind", "written"}
  /\ holds \in BOOLEAN
  /\ wait_ticks \in Int
  /\ instruction.size \in {0, 2, 4}
  /\ Op.kind = "Branch" => OffsetInReach(Op.target)

\* The two lists of the instructions that write Ip agree in Thumb code: after its
\* cycle Ip is what the instruction wrote, or points behind it.  In ARM code an
\* instruction is at least left behind, unless it is a conditional one that
\* wrote Ip and the flags, and whose condition then no longer holds: of the
\* exception returns only the unconditional ones return.
IpWritesStick ==
  phase = "executed" =>
    /\ thumb => ip = IF holds /\ WritesIp THEN "written" ELSE "behind"
    /\ ip = "here" =>
         instruction.condition # "Always" /\ WritesFlags /\ WritesIp /\ ~holds

\* Every instruction that can be decoded keeps the core waiting, so that the
\* interrupt unit is asked at most once per tick, and not longer than
\* LongestInstruction, which bounds the time between two questions.
InstructionsTakeTicks ==
  phase = "execute" => wait_ticks \in 1..LongestInstruction

\* A Thumb half word means what the ARM word it is short for means: the two
\* decoders agree.
ThumbIsArm ==
  thumb /\ ArmOf(code[1]) # NoWord =>
    Meaning(Op) = Meaning(decode_arm(ArmOf(code[1])).op)

=============================================================================
