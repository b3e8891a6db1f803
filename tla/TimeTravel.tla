----------------------------- MODULE TimeTravel ------------------------------
(***************************************************************************)
(* The debugger's history and its `b' command: History of                  *)
(* gbaemu-core/src/plugins/debugger/timetravel.rs, with the part of the    *)
(* registers (gbaemu-core/src/registers.rs) that going back has to put     *)
(* back.                                                                   *)
(*                                                                         *)
(* Every mode has a bank of its own for Lr and Spsr.  Lr stands for the    *)
(* banked registers with an index below Cpsr; those without banks are left *)
(* out.  The mode is what is kept of Cpsr; the modes are those with an     *)
(* Spsr.  An instruction writes one of these or stores to memory.          *)
(* start_entry and finish_entry are called in the same cycle, with the     *)
(* registers from before the interrupt a cycle may take.                   *)
(***************************************************************************)
EXTENDS Naturals, Sequences, SequencesExt

CONSTANTS
  Modes, Irq,        \* the modes with banks, and the one of interrupts
  Values, Start,     \* what a register and a byte hold, and hold at the start
  Addresses,
  HistoryCapacity

Registers == {"Lr", "Spsr"}

ASSUME TimeTravelAssumption ==
  Irq \in Modes /\ Start \in Values /\ HistoryCapacity \in Nat

VARIABLES
  mode,      \* of Cpsr
  banks,     \* the banked registers of every mode
  memory,
  entries,   \* of the history, oldest first
  past       \* the machine each entry was made at

vars == <<mode, banks, memory, entries, past>>

Init ==
  /\ mode \in Modes \ {Irq}
  /\ banks = [m \in Modes |-> [r \in Registers |-> Start]]
  /\ memory = [a \in Addresses |-> Start]
  /\ entries = <<>>
  /\ past = <<>>

-----------------------------------------------------------------------------

Machine == [mode |-> mode, banks |-> banks, memory |-> memory]

\* make_space(1) one entry more than the code does.
Kept_OneMore(s) ==
  IF Len(s) < HistoryCapacity THEN s ELSE Tail(s)

\* make_space(1): the newest entries, so that one more stays below the capacity.
Kept(s) ==
  IF Len(s) + 1 < HistoryCapacity THEN s
  ELSE SubSeq(s, Len(s) + 3 - HistoryCapacity, Len(s))

\* finish_entry after an instruction that stored to the given addresses: the
\* bytes are read when they have been stored.
Entry(stored) ==
  [mode      |-> mode,
   registers |-> banks[mode],
   memory    |-> [a \in stored |-> memory'[a]]]

Finish(stored) ==
  IF HistoryCapacity < 2
  THEN entries' = <<>> /\ past' = <<>>
  ELSE entries' = Append(Kept(entries), Entry(stored)) /\ past' = Append(Kept(past), Machine)

\* An instruction that writes a register of the current mode.
ExecuteWrite(r, v) ==
  /\ banks' = [banks EXCEPT ![mode][r] = v]
  /\ UNCHANGED <<mode, memory>>
  /\ Finish({})

\* Msr to Cpsr.
ExecuteSwitch(m) ==
  /\ mode' = m
  /\ UNCHANGED <<banks, memory>>
  /\ Finish({})

ExecuteStore(a, v) ==
  /\ memory' = [memory EXCEPT ![a] = v]
  /\ UNCHANGED <<mode, banks>>
  /\ Finish({a})

\* The cycle takes an interrupt and executes the branch at its vector.
ExecuteInterrupt(ip, psr) ==
  /\ mode' = Irq
  /\ banks' = [banks EXCEPT ![Irq] = [Lr |-> ip, Spsr |-> psr]]
  /\ UNCHANGED memory
  /\ Finish({})

\* A cycle that stays paused takes an interrupt all the same, and makes no entry.
PausedInterrupt(ip, psr) ==
  /\ mode' = Irq
  /\ banks' = [banks EXCEPT ![Irq] = [Lr |-> ip, Spsr |-> psr]]
  /\ UNCHANGED <<memory, entries, past>>

-----------------------------------------------------------------------------

\* All registers put back into the banks of the current mode, the mode last.
PutBack_ModeLast(e) ==
  /\ banks' = [banks EXCEPT ![mode] = e.registers]
  /\ mode' = e.mode

\* apply_register_changes writes in the order of RegisterIndex: Lr to the bank
\* of the mode the machine is in, then Cpsr, then Spsr to the bank of the mode
\* that gave.
PutBack(e) ==
  /\ banks' = [banks EXCEPT ![mode].Lr = e.registers.Lr,
                            ![e.mode].Spsr = e.registers.Spsr]
  /\ mode' = e.mode

\* The bytes of the entry are stored again.
PutMemoryBack(e) ==
  memory' = [a \in Addresses |-> IF a \in DOMAIN e.memory THEN e.memory[a] ELSE memory[a]]

\* go_back of the oldest entry.
GoBack_Oldest ==
  /\ entries # <<>>
  /\ PutBack(Head(entries))
  /\ PutMemoryBack(Head(entries))
  /\ entries' = Tail(entries)
  /\ past' = Front(past)

\* go_back, and the changes it asks for.
GoBack ==
  /\ entries # <<>>
  /\ PutBack(Last(entries))
  /\ PutMemoryBack(Last(entries))
  /\ entries' = Front(entries)
  /\ past' = Front(past)

Next ==
  \/ \E r \in Registers, v \in Values : ExecuteWrite(r, v)
  \/ \E m \in Modes : ExecuteSwitch(m)
  \/ \E a \in Addresses, v \in Values : ExecuteStore(a, v)
  \/ \E ip, psr \in Values : ExecuteInterrupt(ip, psr)
  \/ \E ip, psr \in Values : PausedInterrupt(ip, psr)
  \/ GoBack

Spec == Init /\ [][Next]_vars

-----------------------------------------------------------------------------

TypeOK ==
  /\ mode \in Modes
  /\ banks \in [Modes -> [Registers -> Values]]
  /\ memory \in [Addresses -> Values]
  /\ \A k \in DOMAIN entries :
       /\ entries[k].mode \in Modes
       /\ entries[k].registers \in [Registers -> Values]
  /\ Len(past) = Len(entries)
  /\ entries # <<>> => Len(entries) < HistoryCapacity

\* Going back puts back the mode and the Spsr of the instruction it goes back
\* to, over mode switches and interrupts, however much history was dropped:
\* Cpsr is written before Spsr.
SpsrComesBack ==
  [][GoBack => /\ mode' = Last(past).mode
               /\ banks'[mode'].Spsr = Last(past).banks[mode'].Spsr]_vars

\* While the mode did not change since, going back puts back Lr too, and leaves
\* the banks of the other modes alone.
LrComesBackInMode ==
  [][GoBack /\ mode = Last(past).mode =>
       /\ banks'[mode].Lr = Last(past).banks[mode].Lr
       /\ \A m \in Modes \ {mode} : banks'[m] = banks[m]]_vars

\* What `b' is said to do, seen by the registers: it goes back one instruction,
\* so every register of the mode it returns to is as that instruction found it.
RegistersComeBack ==
  [][GoBack => banks'[mode'] = Last(past).banks[mode']]_vars

=============================================================================
