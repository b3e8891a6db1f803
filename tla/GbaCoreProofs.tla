---------------------------- MODULE GbaCoreProofs ----------------------------
(***************************************************************************)
(* Proofs about the core, for any kinds of interrupt, any cooldowns, any   *)
(* size of a frame, and every instruction and command: its type invariant, *)
(* that no request is doubled or lost between devices, debugger and        *)
(* processor, and that lines and ticks only drift apart in paused cycles.   *)
(***************************************************************************)
EXTENDS GbaCore, TLAPS

-----------------------------------------------------------------------------
(* Queues. *)

Elements(q) == {q[k] : k \in DOMAIN q}
Distinct(q) == \A j, k \in DOMAIN q : q[j] = q[k] => j = k

\* A request adds its kind and nothing else, and never a second time.
LEMMA RequestedAdds ==
  ASSUME NEW q \in Seq(Interrupts), NEW i \in Interrupts
  PROVE  /\ Requested(q, i) \in Seq(Interrupts)
         /\ Elements(q) \subseteq Elements(Requested(q, i))
         /\ Distinct(q) => Distinct(Requested(q, i))
<1>1. CASE \E k \in DOMAIN q : q[k] = i
  BY <1>1 DEF Requested
<1>2. CASE ~ \E k \in DOMAIN q : q[k] = i
  <2> DEFINE r == Append(q, i)
  <2>1. Requested(q, i) = r
    BY <1>2 DEF Requested
  <2>2. DOMAIN q = 1..Len(q) /\ DOMAIN r = 1..(Len(q) + 1) /\ r \in Seq(Interrupts)
    OBVIOUS
  <2>3. \A k \in DOMAIN r : r[k] = IF k = Len(q) + 1 THEN i ELSE q[k]
    OBVIOUS
  <2> HIDE DEF r
  <2>4. Elements(q) \subseteq Elements(r)
    BY <2>2, <2>3 DEF Elements
  <2>5. Distinct(q) => Distinct(r)
    BY <1>2, <2>2, <2>3 DEF Distinct
  <2>6. QED
    BY <2>1, <2>2, <2>4, <2>5
<1>3. QED
  BY <1>1, <1>2

\* Without its front a queue holds the other kinds.
LEMMA TailKeeps ==
  ASSUME NEW q \in Seq(Interrupts), q # <<>>
  PROVE  /\ Head(q) \in Interrupts
         /\ Tail(q) \in Seq(Interrupts)
         /\ Elements(q) \subseteq Elements(Tail(q)) \cup {Head(q)}
         /\ Distinct(q) => Distinct(Tail(q)) /\ Head(q) \notin Elements(Tail(q))
<1>1. /\ DOMAIN q = 1..Len(q) /\ Len(q) \in Nat \ {0}
      /\ Tail(q) \in Seq(Interrupts) /\ Head(q) \in Interrupts /\ Head(q) = q[1]
      /\ DOMAIN Tail(q) = 1..(Len(q) - 1)
  OBVIOUS
<1>2. \A k \in DOMAIN Tail(q) : Tail(q)[k] = q[k + 1]
  OBVIOUS
<1>3. Elements(q) \subseteq Elements(Tail(q)) \cup {Head(q)}
  <2> SUFFICES ASSUME NEW k \in DOMAIN q, k # 1 PROVE q[k] \in Elements(Tail(q))
    BY <1>1 DEF Elements
  <2>1. k - 1 \in DOMAIN Tail(q) /\ q[k] = Tail(q)[k - 1]
    BY <1>1, <1>2
  <2>2. QED
    BY <2>1 DEF Elements
<1>4. Distinct(q) => Distinct(Tail(q)) /\ Head(q) \notin Elements(Tail(q))
  BY <1>1, <1>2 DEF Distinct, Elements
<1>5. QED
  BY <1>1, <1>3, <1>4

\* Putting the front at the back keeps the kinds of a queue.
LEMMA RotateKeeps ==
  ASSUME NEW q \in Seq(Interrupts), q # <<>>
  PROVE  /\ Append(Tail(q), Head(q)) \in Seq(Interrupts)
         /\ Elements(q) \subseteq Elements(Append(Tail(q), Head(q)))
         /\ Distinct(q) => Distinct(Append(Tail(q), Head(q)))
<1> DEFINE t == Tail(q)
           h == Head(q)
           r == Append(t, h)
<1>1. /\ h \in Interrupts /\ t \in Seq(Interrupts)
      /\ Elements(q) \subseteq Elements(t) \cup {h}
      /\ Distinct(q) => Distinct(t) /\ h \notin Elements(t)
  BY TailKeeps
<1> HIDE DEF t, h
<1>2. /\ DOMAIN t = 1..Len(t) /\ Len(t) \in Nat
      /\ DOMAIN r = 1..(Len(t) + 1) /\ r \in Seq(Interrupts)
  BY <1>1
<1>3. \A k \in DOMAIN r : r[k] = IF k = Len(t) + 1 THEN h ELSE t[k]
  BY <1>1
<1> HIDE DEF r
<1>4. Elements(t) \subseteq Elements(r) /\ h \in Elements(r)
  BY <1>2, <1>3 DEF Elements
<1>5. Distinct(t) /\ h \notin Elements(t) => Distinct(r)
  BY <1>2, <1>3 DEF Distinct, Elements
<1>6. QED
  BY <1>1, <1>2, <1>4, <1>5 DEF r, t, h

\* The devices only add requests.
LEMMA DevicesAdd ==
  ASSUME pending \in Seq(Interrupts)
  PROVE  /\ AfterDevices \in Seq(Interrupts)
         /\ Waiting \subseteq Elements(AfterDevices)
         /\ PendingOnce => Distinct(AfterDevices)
<1> DEFINE lcd == IF NextLine = VisibleLines THEN Requested(pending, Vblank) ELSE pending
<1>1. Vblank \in Interrupts /\ SerialCom \in Interrupts
  BY CoreAssumption
<1>2. /\ lcd \in Seq(Interrupts)
      /\ Elements(pending) \subseteq Elements(lcd)
      /\ Distinct(pending) => Distinct(lcd)
  BY <1>1, RequestedAdds
<1>3. AfterDevices = IF just_finished_transmission THEN Requested(lcd, SerialCom) ELSE lcd
  BY DEF AfterDevices
<1> HIDE DEF lcd
<1>4. /\ Requested(lcd, SerialCom) \in Seq(Interrupts)
      /\ Elements(lcd) \subseteq Elements(Requested(lcd, SerialCom))
      /\ Distinct(lcd) => Distinct(Requested(lcd, SerialCom))
  BY <1>1, <1>2, RequestedAdds
<1>5. Waiting = Elements(pending) /\ (PendingOnce => Distinct(pending))
  BY DEF Waiting, Elements, PendingOnce, Distinct
<1>6. QED
  BY <1>2, <1>3, <1>4, <1>5

\* The interrupt unit takes the front for the processor, and nothing else.
LEMMA InterruptsTakeFront ==
  ASSUME pending \in Seq(Interrupts)
  PROVE  /\ AfterInterrupts \in Seq(Interrupts)
         /\ Fires => Fired \in Interrupts
         /\ Waiting \subseteq Elements(AfterInterrupts)
                                \cup (IF Fires /\ ~Refused THEN {Fired} ELSE {})
         /\ PendingOnce => Distinct(AfterInterrupts)
<1>1. /\ AfterDevices \in Seq(Interrupts)
      /\ Waiting \subseteq Elements(AfterDevices)
      /\ PendingOnce => Distinct(AfterDevices)
  BY DevicesAdd
<1>2. CASE ~Fires
  BY <1>1, <1>2 DEF AfterInterrupts
<1>3. CASE Fires
  <2>1. AfterDevices # <<>>
    BY <1>3 DEF Fires, Takes
  <2>2. /\ Head(AfterDevices) \in Interrupts
        /\ Tail(AfterDevices) \in Seq(Interrupts)
        /\ Elements(AfterDevices) \subseteq Elements(Tail(AfterDevices)) \cup {Head(AfterDevices)}
        /\ Distinct(AfterDevices) => Distinct(Tail(AfterDevices))
    BY <1>1, <2>1, TailKeeps
  <2>3. CASE Refused
    <3>1. AfterInterrupts = Append(Tail(AfterDevices), Head(AfterDevices))
      BY <1>3, <2>3 DEF AfterInterrupts, Fired
    <3>2. QED
      BY <1>1, <2>1, <2>2, <3>1, RotateKeeps DEF Fired
  <2>4. CASE ~Refused
    <3>1. AfterInterrupts = Tail(AfterDevices)
      BY <1>3, <2>4 DEF AfterInterrupts
    <3>2. QED
      BY <1>1, <1>3, <2>2, <2>4, <3>1 DEF Fired
  <2>5. QED
    BY <2>3, <2>4
<1>4. QED
  BY <1>2, <1>3

-----------------------------------------------------------------------------
(* Types. *)

\* The constants are numbers.
LEMMA CoreNumbers ==
  /\ AgeCap \in Nat \ {0} /\ HistoryCapacity \in Nat
  /\ TicksPerLine \in Nat \ {0} /\ LastLine \in Nat
  /\ FrameTicks \in Nat \ {0} /\ FrameTicks = TicksPerLine * (LastLine + 1)
<1>1. AgeCap \in Nat \ {0} /\ HistoryCapacity \in Nat
  BY CoreAssumption
<1>2. TicksPerLine \in Nat \ {0} /\ LastLine \in Nat
  BY LcdAssumption
<1>3. TicksPerLine * (LastLine + 1) \in Nat \ {0}
  <2>1. TicksPerLine * (LastLine + 1) = TicksPerLine * LastLine + TicksPerLine
    BY <1>2
  <2>2. TicksPerLine * LastLine \in Nat
    BY <1>2
  <2>3. QED
    BY <1>2, <2>1, <2>2
<1>4. QED
  BY <1>1, <1>2, <1>3 DEF FrameTicks

\* Ages stay in their range when they grow.
LEMMA AgesTyped ==
  ASSUME CoreTypeOK
  PROVE  Aged \in [Interrupts -> -1..AgeCap] /\ Older(uptime) \in 0..AgeCap
BY CoreNumbers DEF CoreTypeOK, Aged, Older

\* A line that goes up is a line.
LEMMA LinesAdvance ==
  ASSUME NEW v \in Lines, NEW t
  PROVE  LineAt(v, t) \in Lines
BY CoreNumbers DEF LineAt, LineAfter, Lines

\* The next tick and the next line exist.
LEMMA ClockTyped ==
  ASSUME CoreTypeOK
  PROVE  NextTick \in 0..(FrameTicks - 1) /\ NextLine \in Lines
<1>1. NextTick \in 0..(FrameTicks - 1)
  BY CoreNumbers DEF CoreTypeOK, NextTick
<1>2. NextLine \in Lines
  BY CoreNumbers DEF CoreTypeOK, NextLine, LineAt, LineAfter, Lines
<1>3. QED
  BY <1>1, <1>2

\* What every cycle that asks the interrupt unit does to the types.
LEMMA HandleInterruptsTyped ==
  ASSUME CoreTypeOK, HandleInterrupts
  PROVE  /\ pending' \in Seq(Interrupts)
         /\ raised' \in Interrupts \cup {None}
         /\ vertical_count' \in Lines
BY InterruptsTakeFront, ClockTyped DEF HandleInterrupts, CoreTypeOK

\* A store changes the enabled kinds or the serial port.
LEMMA StoresTyped ==
  ASSUME CoreTypeOK, Stores \/ Plain
  PROVE  enabled' \subseteq Interrupts /\ just_finished_transmission' \in BOOLEAN
BY DEF CoreTypeOK, Stores, Plain, StoresEnable, StoresSerialControl

\* A paused cycle keeps the types, whichever ticks it takes back.
LEMMA PausedCycleTyped ==
  ASSUME CoreTypeOK, NEW before \in BOOLEAN, NEW after \in BOOLEAN,
         PausedCycle(before, after), history' \in 0..HistoryCapacity
  PROVE  CoreTypeOK'
<1>1. age' \in [Interrupts -> -1..AgeCap]
  <2>1. age \in [Interrupts -> -1..AgeCap] /\ -1 \in -1..AgeCap
    BY CoreNumbers DEF CoreTypeOK
  <2>2. age' = IF Fires THEN [age EXCEPT ![Fired] = -1] ELSE age
    BY DEF PausedCycle
  <2>3. QED
    BY <2>1, <2>2
<1>2. wait_ticks' \in Nat \cup {Forever} /\ panicked' \in BOOLEAN
  <2> DEFINE n == ConditionTicks(before) - ConditionTicks(after)
  <2>1. n \in -1..1
    BY DEF ConditionTicks
  <2>2. TakesBack(n)
    BY DEF PausedCycle
  <2> HIDE DEF n
  <2>3. wait_ticks' \in Nat \cup {Forever}
    BY <2>1, <2>2 DEF TakesBack
  <2>4. panicked' = panicked \/ panicked' = TRUE
    BY <2>2 DEF TakesBack
  <2>5. QED
    BY <2>3, <2>4 DEF CoreTypeOK
<1>3. /\ pending' \in Seq(Interrupts)
      /\ raised' \in Interrupts \cup {None}
      /\ vertical_count' \in Lines
  BY HandleInterruptsTyped DEF PausedCycle
<1>4. enabled' \subseteq Interrupts /\ just_finished_transmission' \in BOOLEAN
  BY StoresTyped DEF PausedCycle
<1>5. /\ ticks' \in 0..(FrameTicks - 1) /\ uptime' \in 0..AgeCap /\ debugged' \in BOOLEAN
      /\ is_stepping' \in BOOLEAN /\ replays' \in Lines
  BY LinesAdvance DEF PausedCycle, CoreTypeOK
<1>6. QED
  BY <1>1, <1>2, <1>3, <1>4, <1>5 DEF CoreTypeOK

\* Every cycle, command and reset keeps the core in its types: the queue holds
\* kinds only, wait_ticks is a number or what a subtraction below 0 wrapped to,
\* and the history never outgrows its capacity.
LEMMA CoreStepTyped == CoreTypeOK /\ [CoreNext]_coreVars => CoreTypeOK'
<1> SUFFICES ASSUME CoreTypeOK, [CoreNext]_coreVars PROVE CoreTypeOK'
  OBVIOUS
<1>1. CASE WaitCycle
  <2>1. wait_ticks' \in Nat \cup {Forever}
    BY <1>1, CoreAssumption DEF WaitCycle, CoreTypeOK
  <2>2. pending' \in Seq(Interrupts)
    BY <1>1, DevicesAdd DEF WaitCycle, CoreTypeOK
  <2>3. /\ age' \in [Interrupts -> -1..AgeCap] /\ uptime' \in 0..AgeCap
        /\ ticks' \in 0..(FrameTicks - 1) /\ vertical_count' \in Lines
    BY <1>1, AgesTyped, ClockTyped DEF WaitCycle
  <2>4. QED
    BY <1>1, <2>1, <2>2, <2>3 DEF WaitCycle, CoreTypeOK
<1>2. CASE ExecuteCycle
  <2>1. /\ pending' \in Seq(Interrupts) /\ raised' \in Interrupts \cup {None}
        /\ vertical_count' \in Lines
    BY <1>2, HandleInterruptsTyped DEF ExecuteCycle
  <2>2. age' \in [Interrupts -> -1..AgeCap]
    <3>1. age' = IF Fires THEN [Aged EXCEPT ![Fired] = 0] ELSE Aged
      BY <1>2 DEF ExecuteCycle
    <3>2. 0 \in -1..AgeCap
      BY CoreNumbers
    <3>3. QED
      BY <3>1, <3>2, AgesTyped
  <2>3. ticks' \in 0..(FrameTicks - 1) /\ uptime' \in 0..AgeCap
    BY <1>2, AgesTyped, ClockTyped DEF ExecuteCycle
  <2>4. is_stepping' \in BOOLEAN
    BY <1>2 DEF ExecuteCycle, Continues, CoreTypeOK
  <2>5. /\ wait_ticks' \in Nat \cup {Forever}
        /\ enabled' \subseteq Interrupts /\ just_finished_transmission' \in BOOLEAN
    <3>1. PICK d \in Durations, holds \in BOOLEAN :
            wait_ticks' = d + ConditionTicks(holds) /\ IF holds THEN Stores ELSE Plain
      BY <1>2 DEF ExecuteCycle
    <3>2. d \in Nat
      BY CoreAssumption
    <3>3. QED
      BY <3>1, <3>2, StoresTyped DEF ConditionTicks
  <2>6. history' \in 0..HistoryCapacity
    BY <1>2, CoreNumbers DEF ExecuteCycle, Remembered, CoreTypeOK
  <2>7. QED
    BY <1>2, <2>1, <2>2, <2>3, <2>4, <2>5, <2>6 DEF ExecuteCycle, CoreTypeOK
<1>3. CASE PausesWithoutChange
  <2>1. PausedCycle(TRUE, TRUE) /\ history' \in 0..HistoryCapacity
    BY <1>3 DEF PausesWithoutChange, CoreTypeOK
  <2>2. QED
    BY <2>1, PausedCycleTyped
<1>4. CASE GoesBack
  <2>1. PICK before, after \in BOOLEAN : PausedCycle(before, after)
    BY <1>4 DEF GoesBack
  <2>2. history' \in 0..HistoryCapacity
    BY <1>4, CoreNumbers DEF GoesBack, CoreTypeOK
  <2>3. QED
    BY <2>1, <2>2, PausedCycleTyped
<1>5. CASE ResetGba
  <2>1. age' \in [Interrupts -> -1..AgeCap]
    BY <1>5, CoreNumbers DEF ResetGba, Reset, CoreTypeOK
  <2>2. QED
    BY <1>5, <2>1 DEF ResetGba, Reset, CoreTypeOK
<1>6. CASE Stopped \/ UNCHANGED coreVars
  BY <1>6 DEF Stopped, coreVars, lineVars, CoreTypeOK
<1>7. QED
  BY <1>1, <1>2, <1>3, <1>4, <1>5, <1>6 DEF CoreNext

\* The machine is switched on with these types.
LEMMA CoreInitTyped == CoreInit => CoreTypeOK
<1> SUFFICES ASSUME CoreInit PROVE CoreTypeOK
  OBVIOUS
<1>1. /\ enabled \subseteq Interrupts /\ pending \in Seq(Interrupts)
      /\ raised \in Interrupts \cup {None}
  BY DEF CoreInit, Init
<1>2. age \in [Interrupts -> -1..AgeCap] /\ uptime \in 0..AgeCap
  BY CoreNumbers DEF CoreInit, Init
<1>3. ticks \in 0..(FrameTicks - 1) /\ vertical_count \in Lines /\ history \in 0..HistoryCapacity
      /\ replays \in Lines
  BY CoreNumbers DEF CoreInit, Lines
<1>4. QED
  BY <1>1, <1>2, <1>3 DEF CoreInit, CoreTypeOK

\* The types of the core, over every run of cycles, commands and resets.
THEOREM CoreTypeCorrect == CoreSpec => []CoreTypeOK
BY CoreInitTyped, CoreStepTyped, PTL DEF CoreSpec

-----------------------------------------------------------------------------
(* Requests. *)

\* What the queue holds is what it is said to hold.
LEMMA WaitingIsElements ==
  /\ Waiting = Elements(pending)
  /\ PendingOnce <=> Distinct(pending)
BY DEF Waiting, Elements, PendingOnce, Distinct

\* The same in the next state.
LEMMA WaitingIsElementsNext ==
  /\ Waiting' = Elements(pending')
  /\ Distinct(pending') => PendingOnce'
BY DEF Waiting, Elements, PendingOnce, Distinct

\* A cycle that asks the interrupt unit keeps the requests distinct, and loses
\* none but the one it gives to the processor.
LEMMA HandleInterruptsKeeps ==
  ASSUME CoreTypeOK, PendingOnce, HandleInterrupts
  PROVE  PendingOnce' /\ \A i \in Waiting \ Waiting' : raised' = i
<1>1. pending \in Seq(Interrupts)
  BY DEF CoreTypeOK
<1>2. /\ Waiting \subseteq Elements(AfterInterrupts)
                         \cup (IF Fires /\ ~Refused THEN {Fired} ELSE {})
      /\ Distinct(AfterInterrupts)
  BY <1>1, InterruptsTakeFront
<1>3. pending' = AfterInterrupts /\ raised' = IF Fires /\ ~Refused THEN Fired ELSE None
  BY DEF HandleInterrupts
<1>4. QED
  BY <1>2, <1>3, WaitingIsElementsNext

\* One step keeps the requests distinct, and only a reset loses one that the
\* processor does not get.
LEMMA CoreStepKeepsRequests ==
  CoreTypeOK /\ PendingOnce /\ [CoreNext]_coreVars =>
    PendingOnce' /\ (ResetGba \/ \A i \in Waiting \ Waiting' : raised' = i)
<1> SUFFICES ASSUME CoreTypeOK, PendingOnce, [CoreNext]_coreVars
             PROVE  PendingOnce' /\ (ResetGba \/ \A i \in Waiting \ Waiting' : raised' = i)
  OBVIOUS
<1>1. CASE WaitCycle
  <2>1. Waiting \subseteq Elements(AfterDevices) /\ Distinct(AfterDevices)
    BY DevicesAdd DEF CoreTypeOK
  <2>2. pending' = AfterDevices
    BY <1>1 DEF WaitCycle
  <2>3. QED
    BY <2>1, <2>2, WaitingIsElementsNext
<1>2. CASE ExecuteCycle
  BY <1>2, HandleInterruptsKeeps DEF ExecuteCycle
<1>3. CASE PausesWithoutChange
  BY <1>3, HandleInterruptsKeeps DEF PausesWithoutChange, PausedCycle
<1>4. CASE GoesBack
  BY <1>4, HandleInterruptsKeeps DEF GoesBack, PausedCycle
<1>5. CASE ResetGba
  <2>1. pending' = <<>>
    BY <1>5 DEF ResetGba, Reset
  <2>2. Distinct(pending')
    BY <2>1 DEF Distinct
  <2>3. QED
    BY <1>5, <2>2, WaitingIsElementsNext
<1>6. CASE Stopped \/ UNCHANGED coreVars
  <2>1. pending' = pending
    BY <1>6 DEF Stopped, coreVars, lineVars
  <2>2. QED
    BY <2>1, WaitingIsElements, WaitingIsElementsNext
<1>7. QED
  BY <1>1, <1>2, <1>3, <1>4, <1>5, <1>6 DEF CoreNext

\* Nothing is pending when the machine is switched on.
LEMMA CoreInitPendingOnce == CoreInit => PendingOnce
BY DEF CoreInit, Init, PendingOnce

\* Devices, refusals of break_on_irq and resets never queue a kind twice.
THEOREM RequestsAreDistinct == CoreSpec => []PendingOnce
<1>1. CoreTypeOK /\ PendingOnce /\ [CoreNext]_coreVars => CoreTypeOK' /\ PendingOnce'
  BY CoreStepTyped, CoreStepKeepsRequests
<1>2. QED
  BY <1>1, CoreInitTyped, CoreInitPendingOnce, PTL DEF CoreSpec

\* A request is only lost to the processor or to a reset.
THEOREM RequestsAreKept == CoreSpec => PendingUntilTaken
<1>1. CoreSpec => [](CoreTypeOK /\ PendingOnce)
  BY CoreTypeCorrect, RequestsAreDistinct, PTL
<1>2. CoreTypeOK /\ PendingOnce /\ [CoreNext]_coreVars =>
        [ResetGba \/ \A i \in Waiting \ Waiting' : raised' = i]_coreVars
  BY CoreStepKeepsRequests
<1>3. QED
  BY <1>1, <1>2, PTL DEF CoreSpec, PendingUntilTaken

-----------------------------------------------------------------------------
(* Lines. *)

\* Where a number lies between the multiples of another one.
LEMMA Quotient ==
  ASSUME NEW n \in Nat \ {0}, NEW a \in Nat
  PROVE  /\ a \div n \in Nat /\ a % n \in 0..(n - 1)
         /\ a = n * (a \div n) + (a % n)
OBVIOUS

\* Quotient and remainder are the only ones.
LEMMA QuotientUnique ==
  ASSUME NEW n \in Nat \ {0}, NEW q \in Nat, NEW p \in Nat,
         NEW r \in 0..(n - 1), NEW s \in 0..(n - 1), n * q + r = n * p + s
  PROVE  q = p /\ r = s
<1>1. ASSUME NEW x \in Nat, NEW y \in Nat, x < y
      PROVE  n * x + n <= n * y
  <2>1. PICK k \in Nat : y = x + 1 + k
    BY <1>1
  <2>2. n * y = n * x + n + n * k /\ n * k >= 0 /\ n * x \in Int
    BY <2>1
  <2>3. QED
    BY <2>2
<1>2. n * q \in Int /\ n * p \in Int
  OBVIOUS
<1>3. ~(q < p) /\ ~(p < q)
  BY <1>1, <1>2
<1>4. q = p
  BY <1>3
<1>5. QED
  BY <1>2, <1>4

\* The line of the next tick is the one after the line of this tick.
LEMMA NextLineFollows ==
  ASSUME CoreTypeOK
  PROVE  /\ ticks \div TicksPerLine \in Lines
         /\ NextTick \div TicksPerLine = LineAt(ticks \div TicksPerLine, NextTick)
<1> DEFINE n == TicksPerLine
           f == FrameTicks
           v == ticks \div n
           r == ticks % n
<1>1. /\ n \in Nat \ {0} /\ LastLine \in Nat /\ f \in Nat \ {0}
      /\ f = n * LastLine + n /\ n * LastLine \in Nat
  BY CoreNumbers
<1>2. ticks \in Nat /\ ticks < f
  BY <1>1 DEF CoreTypeOK
<1>3. v \in Nat /\ ticks = n * v + r /\ r \in 0..(n - 1)
  <2> HIDE DEF f
  <2>1. n \in Nat \ {0} /\ ticks \in Nat
    BY <1>1, <1>2
  <2> QED
    BY <2>1, Quotient
<1>4. v \in Lines
  <2> HIDE DEF n, f, v, r
  <2> SUFFICES ASSUME v > LastLine PROVE FALSE
    BY <1>1, <1>3 DEF Lines
  <2>1. PICK k \in Nat : v = LastLine + 1 + k
    BY <1>1, <1>3
  <2>2. n * v = n * LastLine + n + n * k /\ n * k \in Nat
    BY <1>1, <2>1
  <2> QED
    BY <1>1, <1>2, <1>3, <2>2
<1> SUFFICES NextTick \div n = LineAt(v, NextTick)
  BY <1>4
<1>5. LineAt(v, NextTick) = IF NextTick % n = 0 THEN IF v + 1 > LastLine THEN 0 ELSE v + 1
                            ELSE v
  BY DEF LineAt, LineStarts, LineAfter
<1>6. NextTick = (ticks + 1) % f
  BY DEF NextTick
<1>7. /\ NextTick \in Nat
      /\ NextTick = n * (NextTick \div n) + (NextTick % n)
      /\ NextTick \div n \in Nat /\ NextTick % n \in 0..(n - 1)
  <2> HIDE DEF n, f
  <2>1. NextTick \in Nat
    BY <1>1, <1>2, <1>3, <1>6, Quotient
  <2>2. QED
    BY <1>1, <2>1, Quotient
<1>8. v <= LastLine
  BY <1>4 DEF Lines
<1> HIDE DEF n, f, v, r
<1>9. CASE ticks + 1 = f
  <2>1. NextTick = 0
    BY <1>1, <1>6, <1>9
  <2>2. n * 0 + 0 = n * (NextTick \div n) + (NextTick % n)
    BY <1>1, <1>7, <2>1
  <2>3. NextTick \div n = 0 /\ NextTick % n = 0
    BY <1>1, <1>7, <2>2, QuotientUnique
  <2>4. n * v + r = n * LastLine + (n - 1) /\ n - 1 \in 0..(n - 1)
    BY <1>1, <1>2, <1>3, <1>9
  <2>5. v = LastLine
    BY <1>1, <1>2, <1>3, <2>4, QuotientUnique
  <2>6. QED
    BY <1>1, <1>5, <2>3, <2>5
<1>10. CASE ticks + 1 < f
  <2>1. NextTick = ticks + 1
    BY <1>1, <1>2, <1>3, <1>6, <1>10
  <2>2. CASE r + 1 < n
    <3>1. n * v + (r + 1) = n * (NextTick \div n) + (NextTick % n) /\ r + 1 \in 0..(n - 1)
      BY <1>1, <1>2, <1>3, <1>7, <2>1, <2>2
    <3>2. v = NextTick \div n /\ r + 1 = NextTick % n
      BY <1>1, <1>2, <1>3, <1>7, <3>1, QuotientUnique
    <3>3. QED
      BY <1>4, <1>1, <1>3, <1>5, <3>2
  <2>3. CASE r + 1 = n
    <3>1. n * (v + 1) + 0 = n * (NextTick \div n) + (NextTick % n)
      <4>1. n * (v + 1) = n * v + n
        BY <1>1, <1>3
      <4>2. QED
        BY <1>1, <1>2, <1>3, <1>7, <2>1, <2>3, <4>1
    <3>2. v + 1 = NextTick \div n /\ NextTick % n = 0
      <4> DEFINE w == v + 1
      <4>1. /\ w \in Nat /\ 0 \in 0..(n - 1)
            /\ n * w + 0 = n * (NextTick \div n) + (NextTick % n)
        BY <1>1, <1>3, <3>1
      <4> HIDE DEF w
      <4>2. w = NextTick \div n /\ 0 = NextTick % n
        BY <1>1, <1>7, <4>1, QuotientUnique
      <4>3. QED
        BY <4>2 DEF w
    <3>3. v # LastLine
      BY <1>1, <1>2, <1>3, <1>10, <2>3
    <3>4. QED
      BY <1>1, <1>3, <1>8, <1>5, <3>2, <3>3
  <2>4. QED
    BY <1>1, <1>3, <2>2, <2>3
<1>11. QED
  BY <1>1, <1>2, <1>9, <1>10

\* Lines added up go around at the last one.
LEMMA SumOfLines ==
  ASSUME NEW a \in Lines, NEW b \in Lines
  PROVE  (a + b) % (LastLine + 1) =
           IF a + b > LastLine THEN a + b - (LastLine + 1) ELSE a + b
<1> DEFINE m == LastLine + 1
           s == a + b
<1>1. m \in Nat \ {0} /\ s \in Nat /\ s <= 2 * LastLine /\ LastLine \in Nat
      /\ a \in Nat /\ b \in Nat
  BY CoreNumbers DEF Lines
<1>2. /\ s = m * (s \div m) + (s % m)
      /\ s \div m \in Nat /\ s % m \in 0..(m - 1)
  <2> HIDE DEF m, s
  <2> QED
    BY <1>1, Quotient
<1>3. CASE s > LastLine
  <2>1. m * 1 + (s - m) = m * (s \div m) + (s % m) /\ s - m \in 0..(m - 1)
    BY <1>1, <1>2, <1>3
  <2>2. s - m = s % m
    <3> HIDE DEF m, s
    <3> QED
      BY <1>1, <1>2, <2>1, QuotientUnique
  <2> QED
    BY <1>1, <1>3, <2>2
<1>4. CASE ~(s > LastLine)
  <2>1. m * 0 + s = m * (s \div m) + (s % m) /\ s \in 0..(m - 1)
    BY <1>1, <1>2, <1>4
  <2>2. s = s % m
    <3> HIDE DEF m, s
    <3> QED
      BY <1>1, <1>2, <2>1, QuotientUnique
  <2> QED
    BY <1>1, <1>4, <2>2
<1> QED
  BY <1>3, <1>4

\* When one of two lines goes up their sum does.
LEMMA SumAdvances ==
  ASSUME NEW a \in Lines, NEW b \in Lines, NEW t
  PROVE  /\ LineAt((a + b) % (LastLine + 1), t) = (LineAt(a, t) + b) % (LastLine + 1)
         /\ (LineAt(a, t) + b) % (LastLine + 1) = (a + LineAt(b, t)) % (LastLine + 1)
<1>1. /\ a \in Nat /\ b \in Nat /\ a <= LastLine /\ b <= LastLine /\ LastLine \in Nat
      /\ LineAfter(a) \in Lines /\ LineAfter(b) \in Lines
  BY CoreNumbers DEF Lines, LineAfter
<1>2. (a + b) % (LastLine + 1) =
        IF a + b > LastLine THEN a + b - (LastLine + 1) ELSE a + b
  BY SumOfLines
<1>3. (LineAfter(a) + b) % (LastLine + 1) =
        IF LineAfter(a) + b > LastLine THEN LineAfter(a) + b - (LastLine + 1)
                                       ELSE LineAfter(a) + b
  BY <1>1, SumOfLines
<1>4. (a + LineAfter(b)) % (LastLine + 1) =
        IF a + LineAfter(b) > LastLine THEN a + LineAfter(b) - (LastLine + 1)
                                       ELSE a + LineAfter(b)
  BY <1>1, SumOfLines
<1>5. /\ LineAfter((a + b) % (LastLine + 1)) = (LineAfter(a) + b) % (LastLine + 1)
      /\ (LineAfter(a) + b) % (LastLine + 1) = (a + LineAfter(b)) % (LastLine + 1)
  BY <1>1, <1>2, <1>3, <1>4 DEF LineAfter
<1> QED
  BY <1>5 DEF LineAt

\* A cycle that counts its tick, and one that is taken back, keep VCOUNT the sum.
LEMMA SumFollows ==
  ASSUME CoreTypeOK, LineFollowsTicks
  PROVE  /\ NextLine = (NextTick \div TicksPerLine + replays) % (LastLine + 1)
         /\ NextLine = (ticks \div TicksPerLine + LineAt(replays, NextTick)) % (LastLine + 1)
<1>1. ticks \div TicksPerLine \in Lines /\ replays \in Lines
  BY NextLineFollows DEF CoreTypeOK
<1>2. NextLine = LineAt((ticks \div TicksPerLine + replays) % (LastLine + 1), NextTick)
  BY DEF NextLine, LineFollowsTicks
<1> QED
  BY <1>1, <1>2, NextLineFollows, SumAdvances

\* Without a debugger nothing makes the core step, and so no cycle is taken back.
NeverPauses == ~debugged => ~is_stepping

LineInv == CoreTypeOK /\ NeverPauses /\ LineFollowsTicks

\* A cycle that is paused is a debugger's.
LEMMA PausesAreDebugged ==
  ASSUME NeverPauses, NEW before \in BOOLEAN, NEW after \in BOOLEAN,
         PausedCycle(before, after)
  PROVE  debugged
<1> SUFFICES ASSUME ~debugged PROVE FALSE
  OBVIOUS
<1>1. ~Refused
  BY DEF Refused, Broken
<1>2. PICK atBreakpoint \in {FALSE, debugged} : is_stepping \/ Refused \/ atBreakpoint
  BY DEF PausedCycle, Asks
<1>3. ~is_stepping
  BY DEF NeverPauses
<1>4. ~atBreakpoint
  BY <1>2
<1>5. QED
  BY <1>1, <1>2, <1>3, <1>4

\* One step keeps lines and ticks together.
LEMMA CoreStepKeepsLines == LineInv /\ [CoreNext]_coreVars => LineInv'
<1> SUFFICES ASSUME LineInv, [CoreNext]_coreVars PROVE LineInv'
  OBVIOUS
<1> USE DEF LineInv
<1>1. CoreTypeOK'
  BY CoreStepTyped
<1>2. CASE WaitCycle
  <2>1. NeverPauses'
    BY <1>2 DEF WaitCycle, NeverPauses
  <2>2. LineFollowsTicks'
    BY <1>2, SumFollows DEF WaitCycle, LineFollowsTicks
  <2>3. QED
    BY <1>1, <2>1, <2>2
<1>3. CASE ExecuteCycle
  <2>1. /\ debugged' = debugged /\ ticks' = NextTick /\ vertical_count' = NextLine
        /\ replays' = replays
    BY <1>3 DEF ExecuteCycle, HandleInterrupts
  <2>2. NeverPauses'
    <3> SUFFICES ASSUME ~debugged PROVE ~is_stepping'
      BY <2>1 DEF NeverPauses
    <3>1. ~Refused
      BY DEF Refused, Broken
    <3>2. PICK atBreakpoint \in {FALSE, debugged} : Continues(atBreakpoint)
      BY <1>3 DEF ExecuteCycle
    <3>3. ~Asks(atBreakpoint)
      BY <3>1, <3>2 DEF Asks, NeverPauses
    <3>4. is_stepping' \in {FALSE, debugged}
      BY <3>2, <3>3 DEF Continues
    <3>5. QED
      BY <3>4
  <2>3. LineFollowsTicks'
    BY <2>1, SumFollows DEF LineFollowsTicks
  <2>4. QED
    BY <1>1, <2>2, <2>3
<1>4. CASE PausesWithoutChange \/ GoesBack
  <2>1. PICK before, after \in BOOLEAN : PausedCycle(before, after)
    BY <1>4 DEF PausesWithoutChange, GoesBack
  <2>2. debugged /\ debugged' = debugged
    BY <2>1, PausesAreDebugged DEF PausedCycle
  <2>3. LineFollowsTicks'
    BY <2>1, <2>2, SumFollows DEF PausedCycle, HandleInterrupts, LineFollowsTicks
  <2>4. QED
    BY <1>1, <2>2, <2>3 DEF NeverPauses
<1>5. CASE ResetGba \/ Stopped \/ UNCHANGED coreVars
  BY <1>1, <1>5 DEF ResetGba, Stopped, coreVars, NeverPauses, LineFollowsTicks
<1>6. QED
  BY <1>2, <1>3, <1>4, <1>5 DEF CoreNext

\* Only paused cycles drive lcd and ticks apart, each by the line it begins, for
\* every size of frame, every instruction and command and over every reset.
THEOREM LinesFollowTicks == CoreSpec => []LineFollowsTicks
<1>1. CoreInit => LineInv
  <2> SUFFICES ASSUME CoreInit PROVE LineInv
    OBVIOUS
  <2>1. ticks \div TicksPerLine = 0 /\ replays = 0 /\ vertical_count = 0
    BY CoreNumbers DEF CoreInit
  <2>2. (0 + 0) % (LastLine + 1) = 0
    BY CoreNumbers, SumOfLines DEF Lines
  <2>3. NeverPauses
    BY DEF CoreInit, NeverPauses
  <2>4. QED
    BY <2>1, <2>2, <2>3, CoreInitTyped DEF LineInv, LineFollowsTicks
<1>2. LineInv => LineFollowsTicks
  BY DEF LineInv
<1>3. QED
  BY <1>1, <1>2, CoreStepKeepsLines, PTL DEF CoreSpec

=============================================================================
