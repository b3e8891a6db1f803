-------------------------- MODULE IrqLatencyProofs ---------------------------
(***************************************************************************)
(* Proofs about the interrupt unit, for any kinds of interrupt and any     *)
(* cooldowns: its type invariant, that the queue holds a kind at most      *)
(* once, that firings lie a cooldown apart, and that the unit implements   *)
(* IrqLine.  Then the bound of its latency, for any instruction durations: *)
(* that argument ranks the requests by their position, see LatencyInv in   *)
(* IrqLatency.                                                             *)
(***************************************************************************)
EXTENDS IrqLatency, FiniteSetTheorems, TLAPS

-----------------------------------------------------------------------------
(* The unit. *)

\* The state of Default::default() is well typed.
LEMMA DefaultTyped ==
  /\ <<>> \in Seq(Interrupts)
  /\ [i \in Interrupts |-> 0] \in [Interrupts -> 0..MaxTick]
  /\ 0 \in 0..MaxTick
  /\ FALSE \in BOOLEAN
BY TickAssumption

\* The unit never leaves its types: in particular the queue holds kinds only
\* and no firing lies in the future of the largest tick.
THEOREM TypeCorrect == Spec => []TypeOK
<1>1. Init => TypeOK
  BY DefaultTyped DEF Init, TypeOK
<1>2. TypeOK /\ [Next]_vars => TypeOK'
  <2> SUFFICES ASSUME TypeOK, [Next]_vars PROVE TypeOK'
    OBVIOUS
  <2> USE DEF TypeOK, registers
  <2>1. ASSUME NEW i \in Interrupts, queue(i) PROVE TypeOK'
    BY <2>1 DEF queue
  <2>2. CASE NextRaises
    <3>1. Head(interrupt_queue) \in Interrupts /\ Tail(interrupt_queue) \in Seq(Interrupts)
      BY <2>2 DEF NextRaises, FrontRaises
    <3>2. QED
      BY <2>2, <3>1 DEF NextRaises
  <2>3. CASE NextIsNone
    BY <2>3 DEF NextIsNone
  <2>4. ASSUME NEW S \in SUBSET Interrupts, WriteInterruptEnable(S) PROVE TypeOK'
    BY <2>4 DEF WriteInterruptEnable
  <2>5. ASSUME NEW S \in SUBSET Interrupts, WriteRequestFlags(S) PROVE TypeOK'
    BY <2>5 DEF WriteRequestFlags
  <2>6. ASSUME NEW b \in BOOLEAN, WriteMasterEnable(b) PROVE TypeOK'
    BY <2>6 DEF WriteMasterEnable
  <2>7. CASE reset
    BY <2>7, DefaultTyped DEF reset
  <2>8. CASE Tick
    BY <2>8, TickAssumption DEF Tick
  <2>9. CASE UNCHANGED vars
    BY <2>9 DEF vars
  <2>10. QED
    BY <2>1, <2>2, <2>3, <2>4, <2>5, <2>6, <2>7, <2>8, <2>9 DEF Next
<1>3. QED
  BY <1>1, <1>2, PTL DEF Spec

-----------------------------------------------------------------------------

\* Appending a kind the queue does not hold keeps its entries distinct.
LEMMA AppendKeepsDistinct ==
  ASSUME interrupt_queue \in Seq(Interrupts), NEW i \in Interrupts,
         i \notin Queued, NoDuplicates
  PROVE  \A j, k \in DOMAIN Append(interrupt_queue, i) :
           Append(interrupt_queue, i)[j] = Append(interrupt_queue, i)[k] => j = k
<1> DEFINE q == Append(interrupt_queue, i)
<1>1. DOMAIN q = 1..(Len(interrupt_queue) + 1) /\ DOMAIN interrupt_queue = 1..Len(interrupt_queue)
  OBVIOUS
<1>2. \A k \in DOMAIN q : q[k] = IF k = Len(interrupt_queue) + 1 THEN i ELSE interrupt_queue[k]
  OBVIOUS
<1>3. \A k \in DOMAIN interrupt_queue : interrupt_queue[k] # i
  BY DEF Queued
<1>4. QED
  BY <1>1, <1>2, <1>3 DEF NoDuplicates

\* Removing the front keeps the entries distinct.
LEMMA TailKeepsDistinct ==
  ASSUME interrupt_queue \in Seq(Interrupts), interrupt_queue # <<>>, NoDuplicates
  PROVE  \A j, k \in DOMAIN Tail(interrupt_queue) :
           Tail(interrupt_queue)[j] = Tail(interrupt_queue)[k] => j = k
<1>1. /\ DOMAIN Tail(interrupt_queue) = 1..(Len(interrupt_queue) - 1)
      /\ DOMAIN interrupt_queue = 1..Len(interrupt_queue)
  OBVIOUS
<1>2. \A k \in DOMAIN Tail(interrupt_queue) : Tail(interrupt_queue)[k] = interrupt_queue[k + 1]
  OBVIOUS
<1>3. QED
  BY <1>1, <1>2 DEF NoDuplicates

\* One step of the unit keeps the queue without duplicates.
LEMMA StepKeepsNoDuplicates ==
  TypeOK /\ NoDuplicates /\ [Next]_vars => NoDuplicates'
<1> SUFFICES ASSUME TypeOK, NoDuplicates, [Next]_vars PROVE NoDuplicates'
  OBVIOUS
<1>1. ASSUME NEW i \in Interrupts, queue(i) PROVE NoDuplicates'
  <2>1. CASE i \in Queued
    BY <1>1, <2>1 DEF queue, NoDuplicates
  <2>2. CASE i \notin Queued
    <3>1. interrupt_queue' = Append(interrupt_queue, i)
      BY <1>1, <2>2 DEF queue
    <3>2. QED
      BY <3>1, <2>2, AppendKeepsDistinct DEF NoDuplicates, TypeOK
  <2>3. QED
    BY <2>1, <2>2
<1>2. CASE NextRaises
  <2>1. interrupt_queue # <<>> /\ interrupt_queue' = Tail(interrupt_queue)
    BY <1>2 DEF NextRaises, FrontRaises
  <2>2. QED
    BY <2>1, TailKeepsDistinct DEF NoDuplicates, TypeOK
<1>3. CASE reset
  <2>1. interrupt_queue' = <<>>
    BY <1>3 DEF reset
  <2>2. QED
    BY <2>1 DEF NoDuplicates
<1>4. CASE UNCHANGED interrupt_queue
  BY <1>4 DEF NoDuplicates
<1>5. QED
  BY <1>1, <1>2, <1>3, <1>4
     DEF Next, vars, NextIsNone, WriteInterruptEnable, WriteRequestFlags,
         WriteMasterEnable, Tick

\* The queue holds every kind at most once, whatever devices request.
THEOREM QueueHasNoDuplicates == Spec => []NoDuplicates
<1>1. Init => NoDuplicates
  BY DEF Init, NoDuplicates
<1>2. QED
  BY <1>1, StepKeepsNoDuplicates, TypeCorrect, PTL DEF Spec

-----------------------------------------------------------------------------

\* What NoRequestLost says of a step.
StepLosesNothing ==
  \/ reset
  \/ /\ \A i \in Queued \ Queued' :
          raised' = i /\ interrupt_last_firing_time'[i] = tick
     /\ \A j, k \in DOMAIN interrupt_queue :
          j < k /\ interrupt_queue[j] \in Queued'
            => \E m, n \in DOMAIN interrupt_queue' :
                 /\ m < n
                 /\ interrupt_queue'[m] = interrupt_queue[j]
                 /\ interrupt_queue'[n] = interrupt_queue[k]

\* The entries of the queue are where they were: nobody has left.
LEMMA LongerLosesNothing ==
  ASSUME TypeOK,
         \A k \in DOMAIN interrupt_queue :
           k \in DOMAIN interrupt_queue' /\ interrupt_queue'[k] = interrupt_queue[k]
  PROVE  StepLosesNothing
BY Zenon DEF StepLosesNothing, Queued

\* Whoever is behind the front moves one place up.
LEMMA FrontLosesNothing ==
  ASSUME TypeOK, NoDuplicates, NextRaises
  PROVE  StepLosesNothing
<1> DEFINE q == interrupt_queue
<1>1. /\ q \in Seq(Interrupts) /\ q # <<>> /\ q' = Tail(q) /\ raised' = Head(q)
      /\ interrupt_last_firing_time'
           = [interrupt_last_firing_time EXCEPT ![Head(q)] = tick]
      /\ interrupt_last_firing_time \in [Interrupts -> 0..MaxTick]
  BY DEF NextRaises, FrontRaises, TypeOK
<1>2. /\ Len(q) \in Nat /\ DOMAIN q = 1..Len(q) /\ 1 \in DOMAIN q
      /\ Head(q) = q[1] /\ q[1] \in Interrupts
      /\ DOMAIN q' = 1..(Len(q) - 1)
      /\ \A k \in DOMAIN q : k # 1 => k - 1 \in DOMAIN q' /\ q'[k - 1] = q[k]
  BY <1>1
<1>3. \A k \in DOMAIN q' : k + 1 \in DOMAIN q /\ k + 1 # 1 /\ q'[k] = q[k + 1]
  BY <1>1, <1>2
<1>4. \A i \in Queued \ Queued' : raised' = i /\ interrupt_last_firing_time'[i] = tick
  <2> SUFFICES ASSUME NEW k \in DOMAIN q, q[k] \notin Queued'
               PROVE  raised' = q[k] /\ interrupt_last_firing_time'[q[k]] = tick
    BY Zenon DEF Queued
  <2>1. k = 1
    BY <1>2 DEF Queued
  <2> QED
    BY <1>1, <1>2, <2>1
<1>5. ASSUME NEW j \in DOMAIN q, NEW k \in DOMAIN q, j < k, q[j] \in Queued'
      PROVE  \E m, n \in DOMAIN q' : m < n /\ q'[m] = q[j] /\ q'[n] = q[k]
  <2>1. PICK h \in DOMAIN q' : q'[h] = q[j]
    BY <1>5 DEF Queued
  <2>2. j = h + 1 /\ j # 1
    BY <1>3, <2>1 DEF NoDuplicates
  <2>3. k # 1
    BY <1>2, <1>5
  <2>4. k - 1 \in DOMAIN q' /\ q'[k - 1] = q[k] /\ h < k - 1
    BY <1>2, <1>5, <2>2, <2>3
  <2> QED
    BY <2>1, <2>4
<1>6. \A j, k \in DOMAIN q :
        j < k /\ q[j] \in Queued'
          => \E m, n \in DOMAIN q' : m < n /\ q'[m] = q[j] /\ q'[n] = q[k]
  BY <1>5
<1> HIDE DEF q
<1> QED
  BY <1>4, <1>6 DEF StepLosesNothing, q

\* A request leaves the queue only in the step that gives it to the caller and stamps
\* its firing time, and those that stay keep their order; only a reset forgets them.
THEOREM RequestsAreNotLost == Spec => NoRequestLost
<1>1. TypeOK /\ NoDuplicates /\ [Next]_vars => [StepLosesNothing]_vars
  <2> SUFFICES ASSUME TypeOK, NoDuplicates, Next
               PROVE  StepLosesNothing
    OBVIOUS
  <2> DEFINE Kept ==
        \A k \in DOMAIN interrupt_queue :
          k \in DOMAIN interrupt_queue' /\ interrupt_queue'[k] = interrupt_queue[k]
  <2>1. ASSUME NEW i \in Interrupts, queue(i) PROVE Kept
    <3>1. interrupt_queue \in Seq(Interrupts)
      BY DEF TypeOK
    <3>2. CASE i \in Queued
      BY <2>1, <3>2 DEF queue
    <3>3. CASE i \notin Queued
      BY <2>1, <3>1, <3>3 DEF queue
    <3> QED
      BY <3>2, <3>3
  <2>2. (NextIsNone \/ Tick) => Kept
    BY DEF NextIsNone, Tick
  <2>3. ASSUME NEW S, WriteInterruptEnable(S) \/ WriteRequestFlags(S) \/ WriteMasterEnable(S)
        PROVE  Kept
    BY <2>3 DEF WriteInterruptEnable, WriteRequestFlags, WriteMasterEnable
  <2>4. reset => StepLosesNothing
    BY Zenon DEF StepLosesNothing
  <2>5. Kept => StepLosesNothing
    BY LongerLosesNothing
  <2> HIDE DEF Kept
  <2> QED
    BY <2>1, <2>2, <2>3, <2>4, <2>5, FrontLosesNothing DEF Next
<1>2. NoRequestLost <=> [][StepLosesNothing]_vars
  BY DEF NoRequestLost, StepLosesNothing
<1> QED
  BY <1>1, <1>2, TypeCorrect, QueueHasNoDuplicates, PTL DEF Spec

-----------------------------------------------------------------------------

\* Nothing fired in the future.
FiredInPast == \A i \in Interrupts : interrupt_last_firing_time[i] <= tick

\* Firings lie in the past and apart: each firing only overwrites the time of
\* its own kind, the new time is a cooldown after all times that stay, and
\* those were apart before.
LEMMA FiringInvariant == Spec => [](FiredInPast /\ FiringsApart)
<1>1. Init => FiredInPast /\ FiringsApart
  BY DEF Init, FiredInPast, FiringsApart
<1>2. TypeOK /\ FiredInPast /\ FiringsApart /\ [Next]_vars
        => FiredInPast' /\ FiringsApart'
  <2> SUFFICES ASSUME TypeOK, FiredInPast, FiringsApart, [Next]_vars
               PROVE  FiredInPast' /\ FiringsApart'
    OBVIOUS
  <2>1. CASE NextRaises
    <3> DEFINE h == Head(interrupt_queue)
               f == interrupt_last_firing_time
    <3>1. /\ h \in Interrupts
          /\ f' = [f EXCEPT ![h] = tick]
          /\ \A j \in Interrupts : f[j] + GeneralCooldown < tick
          /\ tick' = tick
      BY <2>1 DEF NextRaises, FrontRaises, should_raise_interrupt, can_fire_again, TypeOK
    <3>2. /\ f \in [Interrupts -> 0..MaxTick]
          /\ tick \in Nat
          /\ GeneralCooldown \in Nat
      BY TickAssumption, CooldownAssumption DEF TypeOK
    <3>3. FiredInPast'
      BY <3>1, <3>2, TickAssumption DEF FiredInPast
    <3>4. \A j \in Interrupts : f'[j] = IF j = h THEN tick ELSE f[j]
      BY <3>1, <3>2
    <3>5. FiringsApart'
      BY <3>1, <3>2, <3>4, TickAssumption DEF FiringsApart
    <3>6. QED
      BY <3>3, <3>5
  <2>2. CASE reset
    <3>1. \A i \in Interrupts : interrupt_last_firing_time'[i] = 0
      BY <2>2 DEF reset
    <3>2. tick' \in Nat
      BY <2>2, TickAssumption DEF reset, TypeOK
    <3>3. QED
      BY <3>1, <3>2 DEF FiredInPast, FiringsApart
  <2>3. CASE Tick
    BY <2>3, TickAssumption DEF Tick, FiredInPast, FiringsApart, TypeOK
  <2>4. CASE UNCHANGED <<interrupt_last_firing_time, tick>>
    BY <2>4 DEF FiredInPast, FiringsApart
  <2>5. QED
    BY <2>1, <2>2, <2>3, <2>4
       DEF Next, vars, queue, NextIsNone, WriteInterruptEnable, WriteRequestFlags,
           WriteMasterEnable
<1>3. QED
  BY <1>1, <1>2, TypeCorrect, PTL DEF Spec

\* Two kinds never fire within a general cooldown of each other.
THEOREM FiringsAreApart == Spec => []FiringsApart
BY FiringInvariant, PTL

-----------------------------------------------------------------------------

\* What an age says of the firing time it stands for.
LEMMA AgeOfFiring ==
  ASSUME NEW n \in Nat, NEW m \in Nat, m <= n
  PROVE  /\ Capped(n + 1 - m) = Line!Older(Capped(n - m))
         /\ Capped(n + 1) = Line!Older(Capped(n))
         /\ Capped(n - n) = 0
         /\ \A c \in Nat : c < AgeCap => (Capped(n - m) > c <=> m + c < n)
BY AgeCapAssumption, CooldownAssumption DEF Capped, Line!Older

\* The unit answers as IrqLine does: the registers only matter as the set of
\* kinds let through, the firing times only as ages up to AgeCap.
THEOREM ImplementsLine == Spec => LineSpec
<1> DEFINE f  == interrupt_last_firing_time
           ages == [i \in Interrupts |-> Capped(tick - f[i])]
           let == IF interrupt_master_enable THEN interrupt_enable ELSE {}
           lvars == <<let, interrupt_queue, ages, Capped(tick), raised>>
<1>1. Init => Line!Init
  <2> SUFFICES ASSUME Init PROVE Line!Init
    OBVIOUS
  <2>1. Capped(0) = 0
    BY AgeOfFiring
  <2>2. ages = [i \in Interrupts |-> 0]
    BY <2>1 DEF Init
  <2>3. QED
    BY <2>1, <2>2 DEF Init, Line!Init
<1>2. TypeOK /\ FiredInPast /\ [Next]_vars => [Line!Next]_lvars
  <2> SUFFICES ASSUME TypeOK, FiredInPast, [Next]_vars PROVE [Line!Next]_lvars
    OBVIOUS
  <2>0. /\ f \in [Interrupts -> Nat]
        /\ tick \in Nat
        /\ \A i \in Interrupts : f[i] <= tick
    BY TickAssumption DEF TypeOK, FiredInPast
  <2> HIDE DEF f
  <2>1. ASSUME NEW i \in Interrupts, queue(i) PROVE Line!Next
    <3>1. Line!Request(i)
      BY <2>1 DEF queue, registers, Line!Request, Line!Requested, Queued, f
    <3>2. QED
      BY <3>1 DEF Line!Next
  <2>2. CASE NextRaises
    <3> DEFINE h == Head(interrupt_queue)
    <3>1. /\ interrupt_queue # <<>> /\ h \in Interrupts
          /\ interrupt_master_enable /\ h \in interrupt_enable
          /\ \A j \in Interrupts : f[j] + GeneralCooldown < tick
          /\ f[h] + MinFireCooldown[h] < tick
          /\ f' = [f EXCEPT ![h] = tick]
          /\ interrupt_queue' = Tail(interrupt_queue) /\ raised' = h
          /\ UNCHANGED <<registers, tick>>
      BY <2>2 DEF NextRaises, FrontRaises, should_raise_interrupt, can_fire_again, TypeOK, f
    <3>2. Line!Rested(ages, h)
      BY <3>1, <2>0, AgeOfFiring, AgeCapAssumption, CooldownAssumption DEF Line!Rested
    <3>3. Line!Takes(interrupt_queue, ages)
      BY <3>1, <3>2 DEF Line!Takes
    <3>4. \A j \in Interrupts : f'[j] = IF j = h THEN tick ELSE f[j]
      BY <3>1, <2>0
    <3>5. ages' = [ages EXCEPT ![h] = 0]
      BY <3>1, <3>4, <2>0, AgeOfFiring
    <3>6. Line!Take
      BY <3>1, <3>3, <3>5 DEF Line!Take, registers, f
    <3>7. QED
      BY <3>6 DEF Line!Next
  <2>3. CASE NextIsNone \/ \E S \in SUBSET Interrupts : WriteRequestFlags(S)
    <3>1. Line!Nothing
      BY <2>3 DEF NextIsNone, WriteRequestFlags, registers, Line!Nothing, f
    <3>2. QED
      BY <3>1 DEF Line!Next
  <2>4. CASE (\E S \in SUBSET Interrupts : WriteInterruptEnable(S))
                \/ \E b \in BOOLEAN : WriteMasterEnable(b)
    <3>1. /\ raised' = None /\ let' \in SUBSET Interrupts
          /\ UNCHANGED <<interrupt_queue, ages, Capped(tick)>>
      BY <2>4 DEF WriteInterruptEnable, WriteMasterEnable, TypeOK, f
    <3>2. Line!Enable(let')
      BY <3>1 DEF Line!Enable, f
    <3>3. QED
      BY <3>1, <3>2 DEF Line!Next
  <2>5. CASE reset
    <3>1. ages' = [i \in Interrupts |-> Capped(tick)]
      BY <2>5, <2>0 DEF reset, f
    <3>2. Line!Reset
      BY <2>5, <3>1 DEF reset, Line!Reset, f
    <3>3. QED
      BY <3>2 DEF Line!Next
  <2>6. CASE Tick
    <3>1. ages' = [i \in Interrupts |-> Line!Older(ages[i])]
      BY <2>6, <2>0, AgeOfFiring DEF Tick, f
    <3>2. Capped(tick)' = Line!Older(Capped(tick))
      BY <2>6, <2>0, AgeOfFiring DEF Tick
    <3>3. Line!Tick
      BY <2>6, <3>1, <3>2 DEF Tick, registers, Line!Tick, f
    <3>4. QED
      BY <3>3 DEF Line!Next
  <2>7. CASE UNCHANGED vars
    BY <2>7 DEF vars, registers, f
  <2>8. QED
    BY <2>1, <2>2, <2>3, <2>4, <2>5, <2>6, <2>7 DEF Next
<1>3. QED
  BY <1>1, <1>2, TypeCorrect, FiringInvariant, PTL DEF Spec, LineSpec, Line!Spec, Line!lineVars

-----------------------------------------------------------------------------
(* Its latency. *)

ClocksTyped ==
  /\ ready_since \in [Interrupts -> Nat]
  /\ last_asked \in Nat

\* What is known of a state of the unit and its clocks.
UnitInv == TypeOK /\ NoDuplicates /\ FiredInPast /\ ClocksTyped

\* The numbers of a state and of the next are naturals.
LEMMA UnitTypes ==
  /\ UnitInv => /\ tick \in Nat /\ last_asked \in Nat
                /\ interrupt_last_firing_time \in [Interrupts -> Nat]
                /\ ready_since \in [Interrupts -> Nat]
  /\ UnitInv' => /\ tick' \in Nat /\ last_asked' \in Nat
                 /\ interrupt_last_firing_time' \in [Interrupts -> Nat]
<1>1. 0..MaxTick \subseteq Nat
  BY TickAssumption
<1>2. \A S : S \subseteq Nat => \A g \in [Interrupts -> S] : g \in [Interrupts -> Nat]
  OBVIOUS
<1>3. QED
  BY <1>1, <1>2 DEF UnitInv, TypeOK, ClocksTyped

\* A caller that asks in time is a caller: the unit's invariants hold.
LEMMA LatencyIsSpec == LatencySpec => Spec
<1>1. LatencyInit => Init
  BY DEF LatencyInit
<1>2. [LatencyNext]_latencyVars => [Next]_vars
  <2> SUFFICES ASSUME LatencyNext PROVE Next
    BY DEF latencyVars
  <2>1. QED
    BY DEF LatencyNext, Ask, TickInGap, Other, Next
<1>3. QED
  BY <1>1, <1>2, PTL DEF LatencySpec, Spec

LEMMA ClocksStayTyped == LatencySpec => []ClocksTyped
<1>1. LatencyInit => ClocksTyped
  BY DEF LatencyInit, ClocksTyped
<1>2. TypeOK /\ TypeOK' /\ ClocksTyped /\ [LatencyNext]_latencyVars => ClocksTyped'
  <2> SUFFICES ASSUME TypeOK, TypeOK', ClocksTyped, [LatencyNext]_latencyVars
               PROVE  ClocksTyped'
    OBVIOUS
  <2>0. tick \in Nat /\ tick' \in Nat
    BY TickAssumption DEF TypeOK
  <2>1. CASE LatencyNext
    <3>1. ready_since' \in [Interrupts -> Nat]
      BY <2>0, <2>1 DEF LatencyNext, ClocksReady, ClocksTyped
    <3>2. last_asked' \in Nat
      BY <2>0, <2>1 DEF LatencyNext, Ask, TickInGap, Other, ClocksTyped
    <3>3. QED
      BY <3>1, <3>2 DEF ClocksTyped
  <2>2. CASE UNCHANGED latencyVars
    BY <2>2 DEF latencyVars, ClocksTyped
  <2>3. QED
    BY <2>1, <2>2
<1>3. QED
  BY <1>1, <1>2, LatencyIsSpec, TypeCorrect, PTL DEF LatencySpec

LEMMA UnitInvariant == LatencySpec => []UnitInv
BY LatencyIsSpec, ClocksStayTyped, TypeCorrect, QueueHasNoDuplicates,
   FiringInvariant, PTL DEF UnitInv

-----------------------------------------------------------------------------

\* A sequence without duplicates is no longer than there are kinds.
LEMMA DistinctIsShort ==
  ASSUME NEW q \in Seq(Interrupts),
         \A j, k \in DOMAIN q : q[j] = q[k] => j = k
  PROVE  Len(q) <= Cardinality(Interrupts) /\ Cardinality(Interrupts) \in Nat
<1>1. q \in [1..Len(q) -> Interrupts] /\ Len(q) \in Nat
  OBVIOUS
<1>2. q \in Injection(1..Len(q), Interrupts)
  BY <1>1 DEF Injection, IsInjective
<1>3. Cardinality(1..Len(q)) <= Cardinality(Interrupts)
  BY <1>2, FiniteAssumption, FS_Injection
<1>4. Cardinality(1..Len(q)) = IF 1 > Len(q) THEN 0 ELSE Len(q) - 1 + 1
  BY <1>1, 1 \in Int, Len(q) \in Int, FS_Interval, Zenon
<1>5. Cardinality(1..Len(q)) = Len(q)
  BY <1>1, <1>4
<1>6. Cardinality(Interrupts) \in Nat
  BY FiniteAssumption, FS_CardinalityType
<1>7. QED
  BY <1>3, <1>5, <1>6

\* So every position of the queue has a rank, in this state and the next.
LEMMA RankIsNat ==
  /\ TypeOK /\ NoDuplicates => \A p \in DOMAIN interrupt_queue : Rank(p) \in Nat
  /\ TypeOK' /\ NoDuplicates' => \A p \in DOMAIN interrupt_queue' : Rank(p) \in Nat
<1>1. ASSUME TypeOK, NoDuplicates PROVE \A p \in DOMAIN interrupt_queue : Rank(p) \in Nat
  BY <1>1, DistinctIsShort DEF TypeOK, NoDuplicates, Rank
<1>2. ASSUME TypeOK', NoDuplicates'
      PROVE  \A p \in DOMAIN interrupt_queue' : Rank(p) \in Nat
  BY <1>2, DistinctIsShort DEF TypeOK, NoDuplicates, Rank
<1>3. QED
  BY <1>1, <1>2

\* Turns are added up like any product of naturals.
LEMMA Turns ==
  /\ Turn \in Nat
  /\ \A r \in Nat : r * Turn \in Nat /\ (r + 1) * Turn = r * Turn + Turn
<1>1. Turn \in Nat
  BY GapAssumption, LongCooldownAssumption DEF Turn
<1>2. \A t, r \in Nat : r * t \in Nat /\ (r + 1) * t = r * t + t
  OBVIOUS
<1>3. QED
  BY <1>1, <1>2

\* A clock runs on or starts again.
LEMMA ClockStep ==
  ASSUME LatencyNext, NEW i \in Interrupts
  PROVE  \/ ready_since'[i] = tick'
         \/ /\ ready_since'[i] = ready_since[i]
            /\ i \in Queued /\ i \in Queued' /\ AllEnabled'
BY DEF LatencyNext, ClocksReady

\* The clocks lie in the past and next is asked in time.
LEMMA StepKeepsClocks ==
  ASSUME UnitInv, UnitInv', AskedInTime, ReadyInPast, LatencyNext
  PROVE  AskedInTime' /\ ReadyInPast'
<1>0. /\ tick \in Nat /\ tick' \in Nat /\ last_asked \in Nat /\ MaxGap \in Nat
      /\ ready_since \in [Interrupts -> Nat]
  BY TickAssumption, GapAssumption DEF UnitInv, TypeOK, ClocksTyped
<1>1. tick <= tick'
  BY <1>0 DEF LatencyNext, Ask, TickInGap, Other, NextRaises, NextIsNone, Tick, queue,
         WriteInterruptEnable, WriteRequestFlags, WriteMasterEnable, reset
<1>2. ReadyInPast'
  BY <1>0, <1>1, ClockStep DEF ReadyInPast
<1>3. CASE Ask
  BY <1>0, <1>2, <1>3 DEF Ask, NextRaises, NextIsNone, AskedInTime
<1>4. CASE TickInGap
  BY <1>0, <1>2, <1>4 DEF TickInGap, Tick, AskedInTime
<1>5. CASE Other
  BY <1>0, <1>2, <1>5 DEF Other, queue, WriteInterruptEnable, WriteRequestFlags,
         WriteMasterEnable, reset, AskedInTime
<1>6. QED
  BY <1>3, <1>4, <1>5 DEF LatencyNext

\* The queue of the next state holds kinds.
LEMMA QueueHoldsKinds ==
  ASSUME TypeOK', NEW p \in DOMAIN interrupt_queue'
  PROVE  interrupt_queue'[p] \in Interrupts
<1>1. interrupt_queue' \in Seq(Interrupts)
  BY DEF TypeOK
<1>2. QED
  BY <1>1

\* Where a request whose clock runs on was before: one position further back
\* when the front was taken, else where it is, and then no kind fired.
LEMMA WhereItWas ==
  ASSUME UnitInv, LatencyNext, NEW p \in DOMAIN interrupt_queue',
         interrupt_queue'[p] \in Queued
  PROVE  \/ /\ NextRaises
            /\ p + 1 \in DOMAIN interrupt_queue
            /\ interrupt_queue[p + 1] = interrupt_queue'[p]
         \/ /\ UNCHANGED interrupt_last_firing_time
            /\ p \in DOMAIN interrupt_queue
            /\ interrupt_queue[p] = interrupt_queue'[p]
<1>0. interrupt_queue \in Seq(Interrupts)
  BY DEF UnitInv, TypeOK
<1>1. CASE NextRaises
  <2>1. interrupt_queue # <<>> /\ interrupt_queue' = Tail(interrupt_queue)
    BY <1>1 DEF NextRaises, FrontRaises
  <2>2. QED
    BY <1>0, <1>1, <2>1
<1>2. CASE reset
  <2>1. interrupt_queue' = <<>>
    BY <1>2 DEF reset
  <2>2. QED
    BY <2>1
<1>3. ASSUME NEW i \in Interrupts, queue(i)
      PROVE  /\ UNCHANGED interrupt_last_firing_time
             /\ p \in DOMAIN interrupt_queue
             /\ interrupt_queue[p] = interrupt_queue'[p]
  <2>1. CASE i \in Queued
    BY <1>3, <2>1 DEF queue
  <2>2. CASE i \notin Queued
    <3>1. interrupt_queue' = Append(interrupt_queue, i)
      BY <1>3, <2>2 DEF queue
    <3>2. interrupt_queue'[p] # i
      BY <2>2
    <3>3. QED
      BY <1>0, <1>3, <3>1, <3>2 DEF queue
  <2>3. QED
    BY <2>1, <2>2
<1>4. CASE UNCHANGED <<interrupt_queue, interrupt_last_firing_time>>
  BY <1>4
<1>5. QED
  BY <1>1, <1>2, <1>3, <1>4
     DEF LatencyNext, Ask, TickInGap, Other, NextIsNone, Tick,
         WriteInterruptEnable, WriteRequestFlags, WriteMasterEnable

\* When next raises, the firing now is at most a turn after the previous one,
\* or every cooldown had run out when next was asked last.
LEMMA RaiseInTime ==
  ASSUME UnitInv, LatencyInv, NextRaises, NEW p \in DOMAIN interrupt_queue',
         p + 1 \in DOMAIN interrupt_queue,
         NEW i \in Interrupts, interrupt_queue[p + 1] = i
  PROVE  tick <= ready_since[i] + Rank(p) * Turn
<1> DEFINE f == interrupt_last_firing_time
           r == Rank(p + 1)
<1>0. /\ tick \in Nat /\ last_asked \in Nat
      /\ f \in [Interrupts -> Nat] /\ ready_since \in [Interrupts -> Nat]
      /\ MaxGap \in Nat /\ LongCooldown \in Nat /\ Turn = LongCooldown + MaxGap
  BY TickAssumption, GapAssumption, LongCooldownAssumption
     DEF UnitInv, TypeOK, ClocksTyped, Turn
<1>1. r \in Nat
  BY RankIsNat DEF UnitInv
<1>2. Rank(p) = r + 1
  <2>1. Cardinality(Interrupts) \in Nat /\ p \in Nat
    BY FiniteAssumption, FS_CardinalityType DEF UnitInv, TypeOK, NextRaises, FrontRaises
  <2>2. QED
    BY <2>1 DEF Rank
<1>3. r * Turn \in Nat /\ Rank(p) * Turn = r * Turn + Turn
  BY <1>1, <1>2, Turns
<1>4. CASE \A j \in Interrupts : f[j] + LongCooldown < last_asked
  <2>1. ready_since[i] >= last_asked
    BY <1>4 DEF LatencyInv, ReadyAfterAsking
  <2>2. tick <= last_asked + MaxGap
    BY DEF LatencyInv, AskedInTime
  <2>3. QED
    BY <1>0, <1>3, <2>1, <2>2
<1>5. CASE \E j \in Interrupts : last_asked <= f[j] + LongCooldown
  <2>1. PICK j \in Interrupts : last_asked <= f[j] + LongCooldown
    BY <1>5
  <2>2. f[j] <= ready_since[i] + r * Turn
    BY DEF LatencyInv, ReadyBeforeFiring
  <2>3. tick <= last_asked + MaxGap
    BY DEF LatencyInv, AskedInTime
  <2>4. QED
    BY <1>0, <1>3, <2>1, <2>2, <2>3
<1>6. QED
  BY <1>0, <1>4, <1>5

\* A step keeps every request within its rank of the latest firing.
LEMMA StepKeepsReadyBeforeFiring ==
  ASSUME UnitInv, UnitInv', LatencyInv, LatencyNext
  PROVE  ReadyBeforeFiring'
<1> SUFFICES ASSUME NEW p \in DOMAIN interrupt_queue', NEW j \in Interrupts
             PROVE  interrupt_last_firing_time'[j]
                      <= ready_since'[interrupt_queue'[p]] + Rank(p) * Turn
  BY DEF ReadyBeforeFiring, Rank, Turn
<1> DEFINE i == interrupt_queue'[p]
           f == interrupt_last_firing_time
<1>0. /\ tick \in Nat /\ tick' \in Nat
      /\ f \in [Interrupts -> Nat] /\ f' \in [Interrupts -> Nat]
      /\ ready_since \in [Interrupts -> Nat]
  BY UnitTypes
<1>kind. i \in Interrupts
  BY QueueHoldsKinds DEF UnitInv
<1>1. Rank(p) \in Nat /\ Rank(p) * Turn \in Nat
  BY RankIsNat, Turns DEF UnitInv
<1>2. f'[j] <= tick'
  BY DEF UnitInv, FiredInPast
<1>3. CASE ready_since'[i] = tick'
  BY <1>0, <1>1, <1>2, <1>3, <1>kind
<1>4. CASE ready_since'[i] = ready_since[i] /\ i \in Queued
  <2>1. CASE /\ NextRaises
             /\ p + 1 \in DOMAIN interrupt_queue
             /\ interrupt_queue[p + 1] = i
    <3>1. tick <= ready_since[i] + Rank(p) * Turn
      BY <1>0, <1>kind, <2>1, RaiseInTime
    <3>2. tick' = tick
      BY <2>1 DEF NextRaises
    <3>3. QED
      BY <1>0, <1>1, <1>2, <1>4, <1>kind, <3>1, <3>2
  <2>2. CASE /\ UNCHANGED interrupt_last_firing_time
             /\ p \in DOMAIN interrupt_queue
             /\ interrupt_queue[p] = i
    BY <1>4, <2>2 DEF LatencyInv, ReadyBeforeFiring
  <2>3. QED
    BY <1>4, <2>1, <2>2, WhereItWas
<1>5. QED
  BY <1>3, <1>4, <1>kind, ClockStep

\* When every cooldown has run out and all kinds are enabled, the front is
\* taken: what is still queued after next was asked became ready later.
LEMMA StepKeepsReadyAfterAsking ==
  ASSUME UnitInv, UnitInv', LatencyInv, LatencyNext
  PROVE  ReadyAfterAsking'
<1> DEFINE f == interrupt_last_firing_time
<1> SUFFICES ASSUME \A j \in Interrupts : f'[j] + LongCooldown < last_asked',
                    NEW p \in DOMAIN interrupt_queue'
             PROVE  ready_since'[interrupt_queue'[p]] >= last_asked'
  BY DEF ReadyAfterAsking
<1> DEFINE i == interrupt_queue'[p]
<1>0. /\ tick \in Nat /\ tick' \in Nat /\ last_asked \in Nat /\ last_asked' \in Nat
      /\ f \in [Interrupts -> Nat] /\ f' \in [Interrupts -> Nat]
      /\ ready_since \in [Interrupts -> Nat]
      /\ LongCooldown \in Nat
  BY UnitTypes, LongCooldownAssumption
<1>kind. i \in Interrupts
  BY QueueHoldsKinds DEF UnitInv
<1>1. last_asked' <= tick'
  BY StepKeepsClocks DEF LatencyInv, AskedInTime
<1>2. CASE ready_since'[i] = tick'
  BY <1>0, <1>1, <1>2
<1>3. CASE ready_since'[i] = ready_since[i] /\ i \in Queued /\ AllEnabled'
  <2>1. CASE Ask
    <3>1. CASE NextRaises
      <4>1. /\ Head(interrupt_queue) \in Interrupts
            /\ f'[Head(interrupt_queue)] = tick
            /\ last_asked' = tick
        BY <2>1, <3>1 DEF Ask, NextRaises, FrontRaises, UnitInv, TypeOK
      <4>2. QED
        BY <1>0, <4>1
    <3>2. CASE NextIsNone
      <4>1. /\ AllEnabled /\ UNCHANGED <<f, interrupt_queue>> /\ last_asked' = tick
        BY <1>3, <2>1, <3>2 DEF Ask, NextIsNone, registers, AllEnabled
      <4>2. interrupt_queue # <<>> /\ Head(interrupt_queue) \in Interrupts
        BY <1>3 DEF Queued, UnitInv, TypeOK
      <4>3. can_fire_again(Head(interrupt_queue))
        BY <1>0, <4>1, <4>2, LongCooldownAssumption, CooldownAssumption DEF can_fire_again
      <4>4. FrontRaises
        BY <4>1, <4>2, <4>3 DEF FrontRaises, should_raise_interrupt, AllEnabled
      <4>5. QED
        BY <3>2, <4>4 DEF NextIsNone
    <3>3. QED
      BY <2>1, <3>1, <3>2 DEF Ask
  <2>2. CASE ~NextRaises /\ UNCHANGED last_asked
    <3>1. /\ UNCHANGED f
          /\ p \in DOMAIN interrupt_queue
          /\ interrupt_queue[p] = i
      BY <1>3, <2>2, WhereItWas
    <3>2. \A j \in Interrupts : f[j] + LongCooldown < last_asked
      BY <2>2, <3>1
    <3>3. ready_since[i] >= last_asked
      BY <3>1, <3>2 DEF LatencyInv, ReadyAfterAsking
    <3>4. QED
      BY <1>3, <2>2, <3>3
  <2>3. CASE NextRaises /\ ~Ask
    BY <2>3 DEF LatencyNext, TickInGap, Other, NextRaises, Tick, queue,
          WriteInterruptEnable, WriteRequestFlags, WriteMasterEnable, reset,
          UnitInv, TypeOK, FrontRaises
  <2>4. QED
    BY <2>1, <2>2, <2>3 DEF LatencyNext, TickInGap, Other
<1>4. QED
  BY <1>2, <1>3, <1>kind, ClockStep

LEMMA LatencyInvariant == LatencySpec => []LatencyInv
<1>1. LatencyInit => LatencyInv
  BY GapAssumption
     DEF LatencyInit, Init, LatencyInv, AskedInTime, ReadyInPast, ReadyBeforeFiring,
         ReadyAfterAsking
<1>2. UnitInv /\ UnitInv' /\ LatencyInv /\ [LatencyNext]_latencyVars => LatencyInv'
  <2>1. ASSUME UnitInv, UnitInv', LatencyInv, LatencyNext PROVE LatencyInv'
    BY <2>1, StepKeepsClocks, StepKeepsReadyBeforeFiring, StepKeepsReadyAfterAsking
       DEF LatencyInv
  <2>2. ASSUME LatencyInv, UNCHANGED latencyVars PROVE LatencyInv'
    BY <2>2 DEF latencyVars, vars, LatencyInv, AskedInTime, ReadyInPast,
                ReadyBeforeFiring, ReadyAfterAsking
  <2>3. QED
    BY <2>1, <2>2
<1>3. QED
  BY <1>1, <1>2, UnitInvariant, PTL DEF LatencySpec

\* No request of an enabled unit waits longer than one turn per kind.
THEOREM LatencyIsBounded == LatencySpec => []BoundedLatency
<1>1. UnitInv /\ LatencyInv => BoundedLatency
  <2> SUFFICES ASSUME UnitInv, LatencyInv, NEW p \in DOMAIN interrupt_queue
               PROVE  tick - ready_since[interrupt_queue[p]] <= Cardinality(Interrupts) * Turn
    BY DEF BoundedLatency
  <2> DEFINE i == interrupt_queue[p]
             f == interrupt_last_firing_time
             r == Rank(p)
  <2>0. /\ tick \in Nat /\ last_asked \in Nat /\ i \in Interrupts
        /\ f \in [Interrupts -> Nat] /\ ready_since \in [Interrupts -> Nat]
        /\ MaxGap \in Nat /\ LongCooldown \in Nat /\ Turn = LongCooldown + MaxGap
        /\ tick <= last_asked + MaxGap
    BY TickAssumption, GapAssumption, LongCooldownAssumption
       DEF UnitInv, TypeOK, ClocksTyped, Turn, LatencyInv, AskedInTime
  <2>1. r \in Nat /\ r * Turn \in Nat /\ (r + 1) * Turn = r * Turn + Turn
    BY RankIsNat, Turns DEF UnitInv
  <2>2. (r + 1) * Turn <= Cardinality(Interrupts) * Turn
    <3>1. /\ Cardinality(Interrupts) \in Nat
          /\ p \in Nat /\ p >= 1
      BY FiniteAssumption, FS_CardinalityType DEF UnitInv, TypeOK
    <3>2. r + 1 <= Cardinality(Interrupts)
      BY <3>1 DEF Rank
    <3>3. \A a, b, t \in Nat : a <= b => a * t <= b * t
      OBVIOUS
    <3>4. QED
      BY <2>1, <3>1, <3>2, <3>3, Turns
  <2>3. tick <= ready_since[i] + (r + 1) * Turn
    <3>1. CASE \A j \in Interrupts : f[j] + LongCooldown < last_asked
      <4>1. ready_since[i] >= last_asked
        BY <3>1 DEF LatencyInv, ReadyAfterAsking
      <4>2. QED
        BY <2>0, <2>1, <4>1
    <3>2. CASE \E j \in Interrupts : last_asked <= f[j] + LongCooldown
      <4>1. PICK j \in Interrupts : last_asked <= f[j] + LongCooldown
        BY <3>2
      <4>2. f[j] <= ready_since[i] + r * Turn
        BY DEF LatencyInv, ReadyBeforeFiring
      <4>3. QED
        BY <2>0, <2>1, <4>1, <4>2
    <3>3. QED
      BY <2>0, <3>1, <3>2
  <2>4. QED
    BY <2>0, <2>1, <2>2, <2>3, FiniteAssumption, FS_CardinalityType, Turns
<1>2. QED
  BY <1>1, UnitInvariant, LatencyInvariant, PTL

=============================================================================
