------------------------------ MODULE IrqEntry -------------------------------
(***************************************************************************)
(* How an interrupt suspends the program and its handler gives the machine *)
(* back: the last part of Gba::handle_interrupts, the banks of             *)
(* gbaemu-core/src/registers.rs it writes, and the return from the handler *)
(* with SUBS Ip, Lr, #4 (gbaemu-core/src/lib.rs,                           *)
(* instructions/shifter_operand.rs).                                       *)
(*                                                                         *)
(* The interrupt unit lets two interrupts come more than GeneralCooldown   *)
(* ticks apart (InterruptWaitstate); nothing else keeps them apart.  In    *)
(* particular the I bit of Cpsr is neither set nor looked at, so one may   *)
(* come while the handler of another runs.                                 *)
(*                                                                         *)
(* The handler is HandlerLength ARM instructions at the vector, the last   *)
(* of which returns; the others may write the flag and leave mode, Lr and  *)
(* Spsr of the handler as they are.                                        *)
(***************************************************************************)
EXTENDS Integers

CONSTANTS
  ProgramModes, Start, Space,
  Irq,               \* the mode of interrupts
  NoMode,            \* of an Spsr that was never written: its bits are 0
  Vector,            \* the address of the handler
  HandlerLength,
  Durations,         \* the tick durations of instructions
  MaxDuration,       \* the longest
  GeneralCooldown

ASSUME IrqEntryAssumption ==
  /\ Start \in ProgramModes /\ Irq \notin ProgramModes
  /\ NoMode \notin ProgramModes
  /\ Space \in Nat \ {0}
  /\ Vector \in 0..(Space - 1)
  /\ HandlerLength \in Nat /\ HandlerLength > 1
  /\ Durations \subseteq 1..MaxDuration
  /\ MaxDuration \in Nat
  /\ GeneralCooldown \in Nat

Modes == ProgramModes \cup {Irq}
Psrs == [mode : Modes \cup {NoMode}, thumb : BOOLEAN, zero : BOOLEAN]

VARIABLES
  cpsr,
  ip,
  lr,        \* of every mode
  spsr,      \* of every mode
  since,     \* ticks from the latest interrupt to this cycle, capped
  handled    \* the instructions of the handler that were executed

vars == <<cpsr, ip, lr, spsr, since, handled>>

\* The program's instructions work on the registers of the machine.
Machine == INSTANCE Program WITH psr <- cpsr, links <- lr

Addresses == 0..(Space - 1)
Wrap(a) == a % Space

Init ==
  /\ cpsr = [mode |-> Start, thumb |-> FALSE, zero |-> FALSE]
  /\ ip = 0
  /\ lr = [m \in Modes |-> 0]
  /\ spsr = [m \in Modes |-> [mode |-> NoMode, thumb |-> FALSE, zero |-> FALSE]]
  /\ since = 1
  /\ handled = 0

-----------------------------------------------------------------------------

Capped(n) == IF n <= GeneralCooldown THEN n ELSE GeneralCooldown + 1

\* An interrupt at every cycle, whatever came before.
MayFire_Always == TRUE

MayFire == since > GeneralCooldown

\* Ip read without wrapping.
IpAsRead_Unwrapped == ip + IF cpsr.thumb THEN 2 ELSE 4

\* Registers::read of Ip: two instructions ahead.
IpAsRead == Wrap(ip + IF cpsr.thumb THEN 2 ELSE 4)

\* Spsr written while the machine is still in the mode of the program.
SpsrAtEntry_OldMode == [spsr EXCEPT ![cpsr.mode] = cpsr]

\* Cpsr is read first, then the mode is set, then Spsr is written.
SpsrAtEntry == [spsr EXCEPT ![Irq] = cpsr]

\* The cycle takes an interrupt and executes the first instruction of the
\* handler.
Interrupted(d) ==
  /\ MayFire
  /\ spsr' = SpsrAtEntry
  /\ lr' = [lr EXCEPT ![Irq] = IpAsRead]
  /\ \E z \in BOOLEAN : cpsr' = [mode |-> Irq, thumb |-> FALSE, zero |-> z]
  /\ ip' = Wrap(Vector + 2)
  /\ handled' = 1
  /\ since' = Capped(d + 1)

ProgramExecutes(d) ==
  /\ cpsr.mode # Irq
  /\ Machine!Executes
  /\ since' = Capped(since + d + 1)
  /\ UNCHANGED <<spsr, handled>>

HandlerExecutes(d) ==
  /\ cpsr.mode = Irq
  /\ handled < HandlerLength - 1
  /\ \E z \in BOOLEAN : Machine!WritesFlag(z)
  /\ handled' = handled + 1
  /\ since' = Capped(since + d + 1)
  /\ UNCHANGED spsr

\* Subtract with destination Ip: Spsr of the mode goes to Cpsr.  Ip is not
\* moved on by the cycle, before and after the instruction (whose condition is
\* Always) it is one that moves Ip itself.
HandlerReturns(d) ==
  /\ cpsr.mode = Irq
  /\ handled = HandlerLength - 1
  /\ ip' = Wrap(lr[Irq] - 2)
  /\ cpsr' = spsr[Irq]
  /\ handled' = 0
  /\ since' = Capped(since + d + 1)
  /\ UNCHANGED <<lr, spsr>>

Next ==
  \E d \in Durations :
    Interrupted(d) \/ ProgramExecutes(d) \/ HandlerExecutes(d) \/ HandlerReturns(d)

Spec == Init /\ [][Next]_vars

\* The core thread calls run_cycle for ever.
FairSpec == Spec /\ WF_vars(Next)

-----------------------------------------------------------------------------

TypeOK ==
  /\ cpsr \in Psrs
  /\ ip \in Addresses
  /\ lr \in [Modes -> Addresses]
  /\ spsr \in [Modes -> Psrs]
  /\ since \in 0..(GeneralCooldown + 1)
  /\ handled \in 0..(HandlerLength - 1)

\* The program as it will find itself: while the handler runs, in the mode and
\* with the flags of Spsr, where the handler will return to.
Handling == cpsr.mode = Irq

Own == INSTANCE Program WITH
  psr   <- IF Handling THEN spsr[Irq] ELSE cpsr,
  ip    <- IF Handling THEN Wrap(lr[Irq] - 2) ELSE ip,
  links <- [m \in ProgramModes |-> lr[m]]

\* Interrupts are invisible to the program: whenever they come and however
\* instructions are timed, it finds its mode, state, flags and link registers
\* as it left them and goes on where it was, in Thumb code at the instruction
\* before which the interrupt came, in ARM code behind it.
ProgramSpec == Own!Spec

\* The program is not starved by interrupts: it executes instructions again and
\* again although devices may request all the time.
ProgramRuns == []<><<\E d \in Durations : ProgramExecutes(d)>>_vars

\* Handlers are shorter than a cooldown: what keeps two of them apart.
HandlersAreShort == HandlerLength * (MaxDuration + 1) <= GeneralCooldown

\* While a handler runs, the cooldown of its interrupt does: the strengthening
\* that makes ProgramSpec inductive.
HandlerInv ==
  /\ cpsr.mode \in Modes
  /\ Handling <=> handled > 0
  /\ Handling => /\ since <= handled * (MaxDuration + 1)
                 /\ spsr[Irq].mode \in ProgramModes

=============================================================================
