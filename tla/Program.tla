------------------------------- MODULE Program -------------------------------
(***************************************************************************)
(* What a program of the emulated machine may rely on: its instructions    *)
(* are executed one after the other, in its own mode, with its own flags   *)
(* and link registers.  Interrupts do not show, except that an ARM         *)
(* instruction may be left out: an interrupt returns behind it.            *)
(*                                                                         *)
(* IrqEntry executes the program's instructions with the actions of this   *)
(* module and implements it.  What instructions compute is left out: one   *)
(* writes a flag or the link register, branches, changes between ARM and   *)
(* Thumb, or changes the mode.  Addresses are counted in half words.       *)
(***************************************************************************)
EXTENDS Integers

CONSTANTS
  ProgramModes,   \* the privileged modes the program changes between
  Start,          \* the mode it begins in (Supervisor)
  Space           \* the half words of the address space; addresses wrap

VARIABLES
  psr,     \* mode, ARM or Thumb, zero flag
  ip,      \* the next instruction
  links    \* the link register of every mode

programVars == <<psr, ip, links>>

Addresses == 0..(Space - 1)
Wrap(a) == a % Space

Size == IF psr.thumb THEN 1 ELSE 2
NextIp == Wrap(ip + Size)

Init ==
  /\ psr = [mode |-> Start, thumb |-> FALSE, zero |-> FALSE]
  /\ ip = 0
  /\ links = [m \in ProgramModes |-> 0]

WritesFlag(z) ==
  /\ psr' = [psr EXCEPT !.zero = z]
  /\ ip' = NextIp
  /\ UNCHANGED links

WritesLink(a) ==
  /\ links' = [links EXCEPT ![psr.mode] = a]
  /\ ip' = NextIp
  /\ UNCHANGED psr

\* A branch, which may be one to the other state.
Branches(target, thumb) ==
  /\ psr' = [psr EXCEPT !.thumb = thumb]
  /\ ip' = target
  /\ UNCHANGED links

\* A branch with link; the one of a pair of Thumb half words is as long as an
\* ARM instruction, and may go to ARM code.
Calls(target, thumb) ==
  /\ thumb => psr.thumb
  /\ \E n \in (IF psr.thumb THEN {1, 2} ELSE {2}) :
       links' = [links EXCEPT ![psr.mode] = Wrap(ip + n)]
  /\ psr' = [psr EXCEPT !.thumb = thumb]
  /\ ip' = target

\* Msr to Cpsr, in ARM code and a privileged mode.
ChangesMode(m) ==
  /\ ~psr.thumb
  /\ psr' = [psr EXCEPT !.mode = m]
  /\ ip' = NextIp
  /\ UNCHANGED links

Executes ==
  \/ \E z \in BOOLEAN : WritesFlag(z)
  \/ \E a \in Addresses : WritesLink(a)
  \/ \E target \in Addresses, thumb \in BOOLEAN :
       Branches(target, thumb) \/ Calls(target, thumb)
  \/ \E m \in ProgramModes : ChangesMode(m)

\* An interrupt comes before an ARM instruction and returns behind it.
LeavesOut ==
  /\ ~psr.thumb
  /\ ip' = NextIp
  /\ UNCHANGED <<psr, links>>

Next == Executes \/ LeavesOut

Spec == Init /\ [][Next]_programVars

=============================================================================
