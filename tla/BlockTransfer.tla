---------------------------- MODULE BlockTransfer ----------------------------
(***************************************************************************)
(* Subroutines: calls, the stores and loads of lists of registers they     *)
(* save registers with, and returns (InstructionOp::execute and            *)
(* StoreLoadManyAddressingMode of gbaemu-core/src/instructions.rs,         *)
(* RegisterList of gbaemu-core/src/registers.rs).                          *)
(*                                                                         *)
(* The instructions are the program's, in Thumb and in ARM code; that a    *)
(* function restores what it saved, and saves what it changes, is the      *)
(* convention the program keeps.  Addresses are in bytes.                  *)
(***************************************************************************)
EXTENDS Integers, Sequences, FiniteSets

CONSTANTS
  Saved,         \* the registers a function must leave as they were
  Values,        \* that are computed for them
  CallSites,     \* where calls are made
  Entry,         \* where functions begin
  StackStart,    \* the lowest address of the memory of the stack
  Capacity,      \* in words; the program does not overflow its stack
  MaxCalls,      \* bounds how deep calls are nested
  AddressSpace   \* 2^32 in the program

Sp == 13
Lr == 14
Ip == 15

ASSUME BlockTransferAssumption ==
  /\ Saved \subseteq 0..12
  /\ {StackStart, Capacity, MaxCalls, AddressSpace} \subseteq Nat
  /\ AddressSpace % 4 = 0
  /\ Values \subseteq 0..(AddressSpace - 1)
  /\ CallSites \subseteq {a \in 0..(AddressSpace - 1) : a % 2 = 0}
  /\ Entry \in 0..(AddressSpace - 1) /\ Entry % 4 = 0
  /\ StackStart % 4 = 0 /\ StackStart >= 4
  \* behind the stack there is room for all registers
  /\ StackStart + 4 * (Capacity + 16) < AddressSpace

VARIABLES
  registers,
  thumb,      \* the T bit
  memory,     \* of the stack, by addresses of words
  modes,      \* the addressing modes stores and loads use for the stack
  calls       \* what each running function was called with, and has stored

vars == <<registers, thumb, memory, modes, calls>>

StackWords == {StackStart + 4 * k : k \in 0..(Capacity - 1)}

\* The addressing modes of a stack that grows to lower and of one that grows to
\* higher addresses, with Sp at the last word or at the next one.
ModePairs ==
  {<<"DecrementBefore", "IncrementAfter">>, <<"DecrementAfter", "IncrementBefore">>,
   <<"IncrementBefore", "DecrementAfter">>, <<"IncrementAfter", "DecrementBefore">>}
Descending == {"DecrementBefore", "DecrementAfter"}

Wrapped(n) == n % AddressSpace

\* Sp of an empty stack.
Bottom ==
  CASE modes[1] = "DecrementBefore" -> StackStart + 4 * Capacity
    [] modes[1] = "DecrementAfter"  -> StackStart + 4 * Capacity - 4
    [] modes[1] = "IncrementBefore" -> StackStart - 4
    [] modes[1] = "IncrementAfter"  -> StackStart

\* Thumb code has one pair of addressing modes.
Init ==
  /\ modes \in ModePairs
  /\ thumb \in IF modes[1] = "DecrementBefore" THEN BOOLEAN ELSE {FALSE}
  /\ registers = [r \in Saved \cup {Sp, Lr, Ip} |->
                    CASE r = Sp -> Bottom [] OTHER -> 0]
  /\ memory = [a \in StackWords |-> 0]
  /\ calls = <<>>

-----------------------------------------------------------------------------
(* StoreLoadManyAddressingMode and RegisterList. *)

byte_len(list) == 4 * Cardinality(list)

\* Every mode but the one that is used most.
start_address_NoOffset(mode, base, list) ==
  CASE mode = "IncrementBefore" -> Wrapped(base + 4)
    [] mode = "IncrementAfter"  -> base
    [] mode = "DecrementBefore" -> Wrapped(base - byte_len(list))
    [] mode = "DecrementAfter"  -> Wrapped(base - byte_len(list))

start_address(mode, base, list) ==
  CASE mode = "IncrementBefore" -> Wrapped(base + 4)
    [] mode = "IncrementAfter"  -> base
    [] mode = "DecrementBefore" -> Wrapped(base - byte_len(list))
    [] mode = "DecrementAfter"  -> Wrapped(base - byte_len(list) + 4)

\* The address behind the last word.
end_address_Behind(mode, base, list) ==
  CASE mode = "IncrementBefore" -> Wrapped(base + byte_len(list))
    [] mode = "IncrementAfter"  -> Wrapped(base + byte_len(list))
    [] mode = "DecrementBefore" -> Wrapped(base - 4)
    [] mode = "DecrementAfter"  -> base

end_address(mode, base, list) ==
  CASE mode = "IncrementBefore" -> Wrapped(base + byte_len(list))
    [] mode = "IncrementAfter"  -> Wrapped(base + byte_len(list) - 4)
    [] mode = "DecrementBefore" -> Wrapped(base - 4)
    [] mode = "DecrementAfter"  -> base

write_back(mode, base, list) ==
  IF mode \in Descending THEN Wrapped(base - byte_len(list))
                         ELSE Wrapped(base + byte_len(list))

\* The iterator goes from the lowest register to the highest, and the address
\* by a word with each.
AddressOf(r, mode, base, list) ==
  Wrapped(start_address(mode, base, list) + 4 * Cardinality({q \in list : q < r}))

\* accessed_memory_addresses: the addresses the debugger's history takes a store
\* to write to, as the first one and the one behind the last.
accessed_memory_addresses(mode, base, list) ==
  LET first == CASE mode = "IncrementBefore" -> base + 4
                 [] mode = "DecrementBefore" -> base - 4
                 [] OTHER -> base
  IN  IF mode \in Descending THEN <<first - byte_len(list), first>>
                             ELSE <<first, first + byte_len(list)>>

-----------------------------------------------------------------------------
(* The instructions. *)

\* A store of registers, with write-back: Sp is none of them.
StoreMany(list) ==
  LET base == registers[Sp]
      At(r) == AddressOf(r, modes[1], base, list)
  IN  /\ memory' = [a \in StackWords |->
                      IF \E r \in list : a = At(r)
                      THEN registers[CHOOSE r \in list : a = At(r)] ELSE memory[a]]
      /\ registers' = [registers EXCEPT ![Sp] = write_back(modes[1], base, list)]

\* Without the masks of a value loaded to Ip.
Loaded_Unmasked(r, value) == value

\* A value that is loaded to Ip loses its lowest bits.
Loaded(r, value) ==
  IF r = Ip THEN value - (value % (IF thumb THEN 2 ELSE 4)) ELSE value

LoadMany(list) ==
  LET base == registers[Sp]
      At(r) == AddressOf(r, modes[2], base, list)
  IN  /\ registers' = [r \in DOMAIN registers |->
                         IF r = Sp THEN write_back(modes[2], base, list)
                         ELSE IF r \in list THEN Loaded(r, memory[At(r)])
                         ELSE registers[r]]
      /\ UNCHANGED memory

\* The mode of the caller forgotten.
ReturnAddress_NoMode(size) == Wrapped(registers[Ip] + size)

\* The link register of a call: Ip as it is, not as it is read.
ReturnAddress(size) ==
  LET next == Wrapped(registers[Ip] + size)
  IN  IF thumb /\ next % 2 = 0 THEN next + 1 ELSE next

\* A branch to a target, that may take its mode from the target's lowest bit.
BranchTo(target, switch, file) ==
  /\ thumb' = IF switch THEN target % 2 = 1 ELSE thumb
  /\ registers' = [file EXCEPT ![Ip] = IF switch THEN target - (target % 2) ELSE target]

-----------------------------------------------------------------------------
(* The program. *)

Current == calls[Len(calls)]
Callers == SubSeq(calls, 1, Len(calls) - 1)
Stores(list) == calls' = [calls EXCEPT ![Len(calls)].list = list]

Depth ==
  (IF modes[1] \in Descending THEN Bottom - registers[Sp] ELSE registers[Sp] - Bottom) \div 4

\* Between calls a function computes, only with registers it has stored, and
\* comes to the place of the next call.
Computes ==
  /\ \E r \in Saved, v \in Values, a \in CallSites :
       /\ calls # <<>> => r \in Current.list
       /\ thumb \/ a % 4 = 0
       /\ registers' = [registers EXCEPT ![r] = v, ![Ip] = a]
  /\ UNCHANGED <<thumb, memory, modes, calls>>

\* BL: in ARM code one word; in Thumb code two half words, the second of which
\* says whether to switch to ARM, or the second one alone.  Who calls has stored Lr.
Calls(size, switch) ==
  /\ Len(calls) < MaxCalls
  /\ registers[Ip] \in CallSites
  /\ calls # <<>> => Lr \in Current.list
  /\ ~thumb => size = 4 /\ ~switch
  /\ size = 2 => ~switch
  /\ BranchTo(Entry, switch, [registers EXCEPT ![Lr] = ReturnAddress(size)])
  /\ calls' = Append(calls, [back |-> Wrapped(registers[Ip] + size), thumb |-> thumb,
                             sp |-> registers[Sp], list |-> {},
                             saved |-> [r \in Saved |-> registers[r]]])
  /\ UNCHANGED <<memory, modes>>

\* A function stores what it is going to change.
Pushes(list) ==
  /\ calls # <<>> /\ Current.list = {} /\ registers[Ip] = Entry
  /\ list # {} /\ Depth + Cardinality(list) <= Capacity
  /\ StoreMany(list)
  /\ Stores(list)
  /\ UNCHANGED <<thumb, modes>>

\* It loads it again, and may load Lr to Ip, if its caller is in the same mode:
\* a load does not change the mode.
PopsAndReturns ==
  /\ calls # <<>> /\ Lr \in Current.list /\ thumb = Current.thumb
  /\ LoadMany((Current.list \ {Lr}) \cup {Ip})
  /\ calls' = Callers
  /\ UNCHANGED <<thumb, modes>>

\* Or load it to where it was; Thumb code cannot load Lr.
Pops ==
  /\ calls # <<>> /\ Current.list # {}
  /\ thumb => Lr \notin Current.list
  /\ LoadMany(Current.list)
  /\ Stores({})
  /\ UNCHANGED <<thumb, modes>>

\* BX Lr
Returns ==
  /\ calls # <<>> /\ Current.list = {}
  /\ BranchTo(registers[Lr], TRUE, registers)
  /\ calls' = Callers
  /\ UNCHANGED <<memory, modes>>

Next ==
  \/ Computes
  \/ \E size \in {2, 4}, switch \in BOOLEAN : Calls(size, switch)
  \/ \E list \in SUBSET (Saved \cup {Lr}) : Pushes(list)
  \/ PopsAndReturns
  \/ Pops
  \/ Returns

Spec == Init /\ [][Next]_vars

-----------------------------------------------------------------------------

\* Sp stays where the stack is; Ip stays in step with the code, and is never
\* taken with the bit of the mode in it.
TypeOK ==
  /\ thumb \in BOOLEAN
  /\ memory \in [StackWords -> 0..(AddressSpace - 1)]
  /\ DOMAIN registers = Saved \cup {Sp, Lr, Ip}
  /\ registers[Sp] \in (StackStart - 4)..(StackStart + 4 * Capacity)
  /\ registers[Sp] % 4 = 0
  /\ registers[Ip] % (IF thumb THEN 2 ELSE 4) = 0

\* The word n places below the top.
Below(n) ==
  CASE modes[1] = "DecrementBefore" -> memory[registers[Sp] + 4 * (n - 1)]
    [] modes[1] = "DecrementAfter"  -> memory[registers[Sp] + 4 * n]
    [] modes[1] = "IncrementBefore" -> memory[registers[Sp] - 4 * (n - 1)]
    [] modes[1] = "IncrementAfter"  -> memory[registers[Sp] - 4 * n]

Stack ==
  INSTANCE WordStack WITH
    Registers <- Saved \cup {Lr},
    Unseen    <- {Ip},
    registers <- [r \in Saved \cup {Lr} |-> registers[r]],
    lowFirst  <- modes[1] \in Descending,
    stack     <- [n \in 1..Depth |-> Below(n)]

\* Stores and loads of lists of registers, by each of the four pairs of
\* addressing modes, are a stack: a load gives what was stored last, also when
\* it takes other registers, and nothing else touches the words in between.
StackSpec == Stack!Spec

\* A function that keeps to the convention returns to the instruction behind its
\* call, in the mode, with the registers and with the stack pointer its caller
\* had: over every nesting of calls in Thumb and ARM code, and by either way to
\* return.
CallsReturn ==
  [][Len(calls') < Len(calls) =>
       /\ registers'[Ip] = Current.back
       /\ thumb' = Current.thumb
       /\ registers'[Sp] = Current.sp
       /\ \A r \in Saved : registers'[r] = Current.saved[r]]_vars

\* Every transfer ends at the address the code asserts, and with an increasing
\* mode the debugger's history expects a store to write to the words it does write to.
TransfersAreAnnounced ==
  \A pair \in ModePairs, list \in SUBSET (Saved \cup {Lr, Ip}) :
    LET mode == pair[1]
        base == registers[Sp]
        to   == {AddressOf(r, mode, base, list) : r \in list}
        seen == accessed_memory_addresses(mode, base, list)
    IN  list # {} =>
          /\ AddressOf(CHOOSE r \in list : \A q \in list : q <= r, mode, base, list)
               = end_address(mode, base, list)
          /\ mode \notin Descending =>
               to = {a \in seen[1]..(seen[2] - 1) : (a - base) % 4 = 0}

=============================================================================
