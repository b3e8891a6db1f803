------------------------------ MODULE IrqLine -------------------------------
(***************************************************************************)
(* What the interrupt unit promises to Gba::run_cycle, without registers   *)
(* and absolute time.  A request waits in a queue; the cycle that asks for *)
(* an interrupt takes the front one when it is enabled and no interrupt    *)
(* fired too recently.  The age of a kind is the number of ticks since it  *)
(* was taken last, counted up to AgeCap: past the cooldowns the unit does  *)
(* not tell ages apart, so the state is finite and time unbounded.         *)
(*                                                                         *)
(* InterruptWaitstate implements this module; GbaCore is composed from it. *)
(***************************************************************************)
EXTENDS Naturals, Sequences

CONSTANTS
  Interrupts, None, GeneralCooldown, MinFireCooldown,
  AgeCap             \* an age every cooldown lies below

VARIABLES
  enabled,   \* the kinds IME and IE let through
  pending,   \* requested and not yet taken, oldest first
  age,       \* ticks since each kind was taken last (since power-on: never)
  uptime,    \* ticks since power-on, as old as an age can be
  raised     \* the interrupt the latest step gave to the processor, or None

lineVars == <<enabled, pending, age, uptime, raised>>

Waiting == {pending[k] : k \in DOMAIN pending}

Older(n) == IF n < AgeCap THEN n + 1 ELSE AgeCap

Init ==
  /\ enabled = {}
  /\ pending = <<>>
  /\ age = [i \in Interrupts |-> 0]
  /\ uptime = 0
  /\ raised = None

-----------------------------------------------------------------------------

\* The queue without the look for a request of the same kind.
Requested_Unchecked(q, i) == Append(q, i)

\* The queue when a request goes to its front.
Requested_AtFront(q, i) ==
  IF \E k \in DOMAIN q : q[k] = i THEN q ELSE <<i>> \o q

\* The queue after the kind i was requested.
Requested(q, i) ==
  IF \E k \in DOMAIN q : q[k] = i THEN q ELSE Append(q, i)

Rested(a, i) ==
  /\ \A j \in Interrupts : a[j] > GeneralCooldown
  /\ a[i] > MinFireCooldown[i]

\* The front of queue q can be taken when the ages are a.
Takes(q, a) == q # <<>> /\ Head(q) \in enabled /\ Rested(a, Head(q))

Request(i) ==
  /\ pending' = Requested(pending, i)
  /\ raised' = None
  /\ UNCHANGED <<enabled, age, uptime>>

Take ==
  /\ Takes(pending, age)
  /\ raised' = Head(pending)
  /\ age' = [age EXCEPT ![Head(pending)] = 0]
  /\ pending' = Tail(pending)
  /\ UNCHANGED <<enabled, uptime>>

Nothing ==
  /\ raised' = None
  /\ UNCHANGED <<enabled, pending, age, uptime>>

Enable(S) ==
  /\ enabled' = S
  /\ raised' = None
  /\ UNCHANGED <<pending, age, uptime>>

Reset ==
  /\ enabled' = {}
  /\ pending' = <<>>
  /\ age' = [i \in Interrupts |-> uptime]
  /\ raised' = None
  /\ UNCHANGED uptime

Tick ==
  /\ age' = [i \in Interrupts |-> Older(age[i])]
  /\ uptime' = Older(uptime)
  /\ raised' = None
  /\ UNCHANGED <<enabled, pending>>

Next ==
  \/ \E i \in Interrupts : Request(i)
  \/ Take
  \/ Nothing
  \/ \E S \in SUBSET Interrupts : Enable(S)
  \/ Reset
  \/ Tick

Spec == Init /\ [][Next]_lineVars

-----------------------------------------------------------------------------

TypeOK ==
  /\ enabled \subseteq Interrupts
  /\ pending \in Seq(Interrupts)
  /\ age \in [Interrupts -> 0..AgeCap]
  /\ uptime \in 0..AgeCap
  /\ raised \in Interrupts \cup {None}

=============================================================================
