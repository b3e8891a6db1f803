------------------------- MODULE InterruptWaitstate -------------------------
(***************************************************************************)
(* The interrupt unit of the emulator: the IE, IF and IME registers and    *)
(* the queue of requested interrupts with their firing times, of           *)
(* gbaemu-core/src/io_registers/interrupt_waitstate.rs.                    *)
(*                                                                         *)
(* Its caller is Gba::run_cycle: every emulated cycle advances the tick,   *)
(* GbaIo::run_cycle queues what the devices request, and a cycle that      *)
(* executes an instruction asks `next' for an interrupt to take.  A cycle  *)
(* the debugger pauses is run again with the same tick, so `next' may be   *)
(* asked several times at one tick.                                        *)
(*                                                                         *)
(* IE, IF and IME are the sets of kinds whose bit is 1 (IME: its bit 0).   *)
(* The registers of the unit that nothing reads back (WAITCNT, POSTFLG,    *)
(* HALTCNT) are left out.                                                  *)
(***************************************************************************)
EXTENDS Integers, Sequences

CONSTANTS
  Interrupts,        \* the kinds of interrupt the devices request
  None,              \* `next' returned no interrupt
  GeneralCooldown,   \* ticks that must pass after any interrupt fired
  MinFireCooldown,   \* ticks that must pass after one of the same kind fired
  MaxTick,           \* the last tick (the largest usize)
  AgeCap             \* an age every cooldown lies below (see IrqLine)

ASSUME InterruptsAssumption == Interrupts # {} /\ None \notin Interrupts
ASSUME CooldownAssumption   == /\ GeneralCooldown \in Nat
                               /\ MinFireCooldown \in [Interrupts -> Nat]
ASSUME TickAssumption       == MaxTick \in Nat
ASSUME AgeCapAssumption     == /\ AgeCap \in Nat
                               /\ GeneralCooldown < AgeCap
                               /\ \A i \in Interrupts : MinFireCooldown[i] < AgeCap

VARIABLES
  interrupt_enable,           \* IE
  interrupt_request_flags,    \* IF
  interrupt_master_enable,    \* IME
  interrupt_last_firing_time, \* the tick at which each kind fired last
  interrupt_queue,            \* requested and not yet taken, oldest first
  tick,                       \* the ticks of the caller
  raised                      \* what the latest `next' returned

registers == <<interrupt_enable, interrupt_request_flags, interrupt_master_enable>>
vars == <<registers, interrupt_last_firing_time, interrupt_queue, tick, raised>>

Queued == {interrupt_queue[k] : k \in DOMAIN interrupt_queue}

Init ==
  /\ interrupt_enable = {}
  /\ interrupt_request_flags = {}
  /\ interrupt_master_enable = FALSE
  /\ interrupt_last_firing_time = [i \in Interrupts |-> 0]
  /\ interrupt_queue = <<>>
  /\ tick = 0
  /\ raised = None

-----------------------------------------------------------------------------

\* The test of can_fire_again without the look at the other kinds.
can_fire_again_OwnKindOnly(i) ==
  interrupt_last_firing_time[i] + MinFireCooldown[i] < tick

\* The test of can_fire_again; its assignment is in NextRaises.  The largest
\* firing time lies a cooldown back iff every firing time does.
can_fire_again(i) ==
  /\ \A j \in Interrupts : interrupt_last_firing_time[j] + GeneralCooldown < tick
  /\ interrupt_last_firing_time[i] + MinFireCooldown[i] < tick

should_raise_interrupt(i) ==
  /\ interrupt_master_enable
  /\ i \in interrupt_enable
  /\ can_fire_again(i)

\* queue without the test for a queued request of the same kind.
queue_Unchecked(i) ==
  /\ interrupt_queue' = Append(interrupt_queue, i)
  /\ raised' = None
  /\ UNCHANGED <<registers, interrupt_last_firing_time, tick>>

\* queue with push_front for push_back.
queue_AtFront(i) ==
  /\ interrupt_queue' = IF i \in Queued THEN interrupt_queue
                                        ELSE <<i>> \o interrupt_queue
  /\ raised' = None
  /\ UNCHANGED <<registers, interrupt_last_firing_time, tick>>

queue(i) ==
  /\ interrupt_queue' = IF i \in Queued THEN interrupt_queue
                                        ELSE Append(interrupt_queue, i)
  /\ raised' = None
  /\ UNCHANGED <<registers, interrupt_last_firing_time, tick>>

\* `next' only ever looks at the front of the queue.
FrontRaises ==
  interrupt_queue # <<>> /\ should_raise_interrupt(Head(interrupt_queue))

NextRaises ==
  /\ FrontRaises
  /\ raised' = Head(interrupt_queue)
  /\ interrupt_last_firing_time' =
       [interrupt_last_firing_time EXCEPT ![Head(interrupt_queue)] = tick]
  /\ interrupt_queue' = Tail(interrupt_queue)
  /\ UNCHANGED <<registers, tick>>

\* next, popping the front before it is decided that it fires.
NextIsNone_Pops ==
  /\ ~FrontRaises
  /\ raised' = None
  /\ interrupt_queue' = IF interrupt_queue = <<>> THEN <<>>
                        ELSE Tail(interrupt_queue)
  /\ UNCHANGED <<registers, interrupt_last_firing_time, tick>>

NextIsNone ==
  /\ ~FrontRaises
  /\ raised' = None
  /\ UNCHANGED <<registers, interrupt_last_firing_time, interrupt_queue, tick>>

WriteInterruptEnable(S) ==
  /\ interrupt_enable' = S
  /\ raised' = None
  /\ UNCHANGED <<interrupt_request_flags, interrupt_master_enable,
                 interrupt_last_firing_time, interrupt_queue, tick>>

WriteRequestFlags(S) ==
  /\ interrupt_request_flags' = S
  /\ raised' = None
  /\ UNCHANGED <<interrupt_enable, interrupt_master_enable,
                 interrupt_last_firing_time, interrupt_queue, tick>>

WriteMasterEnable(b) ==
  /\ interrupt_master_enable' = b
  /\ raised' = None
  /\ UNCHANGED <<interrupt_enable, interrupt_request_flags,
                 interrupt_last_firing_time, interrupt_queue, tick>>

\* A reset that forgets the firing times.
reset_KeepsTimes ==
  /\ interrupt_enable' = {}
  /\ interrupt_request_flags' = {}
  /\ interrupt_master_enable' = FALSE
  /\ interrupt_queue' = <<>>
  /\ raised' = None
  /\ UNCHANGED <<interrupt_last_firing_time, tick>>

\* Gba::reset makes the unit Default::default(); the ticks of the caller go on.
reset ==
  /\ interrupt_enable' = {}
  /\ interrupt_request_flags' = {}
  /\ interrupt_master_enable' = FALSE
  /\ interrupt_last_firing_time' = [i \in Interrupts |-> 0]
  /\ interrupt_queue' = <<>>
  /\ raised' = None
  /\ UNCHANGED tick

\* The caller starts its next cycle.
Tick ==
  /\ tick < MaxTick
  /\ tick' = tick + 1
  /\ raised' = None
  /\ UNCHANGED <<registers, interrupt_last_firing_time, interrupt_queue>>

Next ==
  \/ \E i \in Interrupts : queue(i)
  \/ NextRaises
  \/ NextIsNone
  \/ \E S \in SUBSET Interrupts : WriteInterruptEnable(S)
  \/ \E S \in SUBSET Interrupts : WriteRequestFlags(S)
  \/ \E b \in BOOLEAN : WriteMasterEnable(b)
  \/ reset
  \/ Tick

Spec == Init /\ [][Next]_vars

-----------------------------------------------------------------------------

TypeOK ==
  /\ interrupt_enable \subseteq Interrupts
  /\ interrupt_request_flags \subseteq Interrupts
  /\ interrupt_master_enable \in BOOLEAN
  /\ interrupt_last_firing_time \in [Interrupts -> 0..MaxTick]
  /\ interrupt_queue \in Seq(Interrupts)
  /\ tick \in 0..MaxTick
  /\ raised \in Interrupts \cup {None}

\* The queue holds a kind at most once, so it is never longer than the number
\* of kinds however often devices request and whatever the enable registers
\* say (queue looks for the kind before push_back, next pops the front only).
NoDuplicates ==
  \A j, k \in DOMAIN interrupt_queue :
    interrupt_queue[j] = interrupt_queue[k] => j = k

\* Until the unit is reset, the firing times of two kinds lie more than a
\* general cooldown apart (or one of them never fired): the unit remembers
\* the firing of every kind, not only of the latest.
FiringsApart ==
  \A i, j \in Interrupts :
    i # j => \/ interrupt_last_firing_time[i] = 0
             \/ interrupt_last_firing_time[j] = 0
             \/ interrupt_last_firing_time[i] + GeneralCooldown
                  < interrupt_last_firing_time[j]
             \/ interrupt_last_firing_time[j] + GeneralCooldown
                  < interrupt_last_firing_time[i]

\* A request is only lost by a reset: it leaves the queue in the step that
\* returns it to the caller and stamps its firing time, and the requests that
\* stay keep their order (next must not drop a front it does not return).
NoRequestLost ==
  [][\/ reset
     \/ /\ \A i \in Queued \ Queued' :
             raised' = i /\ interrupt_last_firing_time'[i] = tick
        /\ \A j, k \in DOMAIN interrupt_queue :
             j < k /\ interrupt_queue[j] \in Queued'
               => \E m, n \in DOMAIN interrupt_queue' :
                    /\ m < n
                    /\ interrupt_queue'[m] = interrupt_queue[j]
                    /\ interrupt_queue'[n] = interrupt_queue[k]
    ]_vars

-----------------------------------------------------------------------------

(***************************************************************************)
(* The unit implements IrqLine, where time is only how long ago each kind  *)
(* fired, counted no further than AgeCap.                                  *)
(***************************************************************************)

Capped(n) == IF n < AgeCap THEN n ELSE AgeCap

Line == INSTANCE IrqLine WITH
  enabled <- IF interrupt_master_enable THEN interrupt_enable ELSE {},
  pending <- interrupt_queue,
  age     <- [i \in Interrupts |-> Capped(tick - interrupt_last_firing_time[i])],
  uptime  <- Capped(tick)

LineSpec == Line!Spec

=============================================================================
