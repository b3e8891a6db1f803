----------------------------- MODULE IrqLatency ------------------------------
(***************************************************************************)
(* How late an interrupt can be.  The interrupt unit is driven by a caller *)
(* that asks `next' at least once every MaxGap ticks: run_cycle asks in    *)
(* every cycle that is not a wait cycle, and an instruction waits for at   *)
(* most its tick_duration.  Two clocks record when a request became        *)
(* deliverable (it is queued and every kind is enabled) and when `next'    *)
(* was asked last.  A pause of the debugger stops the ticks and is         *)
(* therefore no delay here; its break_on_irq, which refuses a raised       *)
(* interrupt, is in GbaCore.                                               *)
(***************************************************************************)
EXTENDS InterruptWaitstate, FiniteSets

CONSTANTS
  MaxGap,        \* the most ticks between two calls of next
  LongCooldown   \* a tick count no cooldown exceeds

ASSUME GapAssumption == MaxGap \in Nat
ASSUME LongCooldownAssumption ==
  /\ LongCooldown \in Nat
  /\ GeneralCooldown <= LongCooldown
  /\ \A i \in Interrupts : MinFireCooldown[i] <= LongCooldown
ASSUME FiniteAssumption == IsFiniteSet(Interrupts)

VARIABLES
  ready_since,   \* for a queued kind: since when it is queued and all are enabled
  last_asked     \* the tick of the latest call of next

latencyVars == <<vars, ready_since, last_asked>>

AllEnabled == interrupt_master_enable /\ interrupt_enable = Interrupts

LatencyInit ==
  /\ Init
  /\ ready_since = [i \in Interrupts |-> 0]
  /\ last_asked = 0

\* A request keeps its clock while it stays queued and all kinds stay enabled.
ClocksReady ==
  ready_since' = [i \in Interrupts |->
                    IF i \in Queued /\ i \in Queued' /\ AllEnabled'
                    THEN ready_since[i] ELSE tick']

Ask ==
  /\ NextRaises \/ NextIsNone
  /\ last_asked' = tick

\* The time between two calls of next is bounded by the durations of the
\* instructions.
TickInGap ==
  /\ tick < last_asked + MaxGap
  /\ Tick
  /\ UNCHANGED last_asked

Other ==
  /\ \/ \E i \in Interrupts : queue(i)
     \/ \E S \in SUBSET Interrupts : WriteInterruptEnable(S)
     \/ \E S \in SUBSET Interrupts : WriteRequestFlags(S)
     \/ \E b \in BOOLEAN : WriteMasterEnable(b)
     \/ reset
  /\ UNCHANGED last_asked

LatencyNext == (Ask \/ TickInGap \/ Other) /\ ClocksReady

LatencySpec == LatencyInit /\ [][LatencyNext]_latencyVars

-----------------------------------------------------------------------------

\* One turn: the longest cooldown and one gap.
Turn == LongCooldown + MaxGap

\* While every kind stays enabled, a request is taken at the latest one turn
\* per kind after it was queued: the cooldowns count from the previous firing
\* of any kind, a gap passes before next is asked again, and since a kind is
\* queued once and at the back at most every other kind goes first.
BoundedLatency ==
  \A p \in DOMAIN interrupt_queue :
    tick - ready_since[interrupt_queue[p]] <= Cardinality(Interrupts) * Turn

(***************************************************************************)
(* The strengthening that is inductive.  The request at position p was     *)
(* ready at most Cardinality(Interrupts) - p turns before the latest       *)
(* firing of any kind; and if every cooldown had already run out when next *)
(* was asked last, nothing was ready then, or next would have taken it.    *)
(***************************************************************************)
Rank(p) == Cardinality(Interrupts) - p

AskedInTime == last_asked <= tick /\ tick <= last_asked + MaxGap

ReadyInPast ==
  \A i \in Interrupts : ready_since[i] <= tick

ReadyBeforeFiring ==
  \A p \in DOMAIN interrupt_queue : \A j \in Interrupts :
    interrupt_last_firing_time[j] <= ready_since[interrupt_queue[p]] + Rank(p) * Turn

ReadyAfterAsking ==
  (\A j \in Interrupts : interrupt_last_firing_time[j] + LongCooldown < last_asked)
    => \A p \in DOMAIN interrupt_queue : ready_since[interrupt_queue[p]] >= last_asked

LatencyInv ==
  /\ AskedInTime
  /\ ReadyInPast
  /\ ReadyBeforeFiring
  /\ ReadyAfterAsking

=============================================================================
