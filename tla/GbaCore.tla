------------------------------- MODULE GbaCore -------------------------------
(***************************************************************************)
(* The core of the emulator: Gba::run_cycle of gbaemu-core/src/lib.rs with *)
(* the devices it drives (lcd line counter, serial port), the interrupt    *)
(* unit it asks, the debugger that may pause it, and the reset of the user *)
(* interface.  The core thread holds the lock of the Gba for a whole       *)
(* cycle, the reset holds it too: each is one step here.                   *)
(*                                                                         *)
(* The interrupt unit is the one of IrqLine; time only matters modulo a    *)
(* frame.  What an instruction computes is left out: it is a plain one, a  *)
(* store to IE or IME, or a store to SIOCNT, its condition holds or not,   *)
(* and it takes some number of ticks.                                      *)
(***************************************************************************)
EXTENDS IrqLine, LcdClock, Integers

CONSTANTS
  Vblank, SerialCom,  \* the interrupts of the lcd and of the serial port
  Durations,          \* the tick durations of instructions
  Commands,           \* what the user may type at the debugger
  BreakOnIrq,         \* the kinds break_on_irq was called for
  HistoryCapacity,    \* of the debugger's history
  Forever             \* wait_ticks after it went below 0 and wrapped

ASSUME CoreAssumption ==
  /\ {Vblank, SerialCom} \subseteq Interrupts
  /\ Durations \subseteq Nat \ {0} /\ Durations # {}
  /\ Commands \subseteq {"continue", "step", "back", "other"}
  /\ BreakOnIrq \subseteq Interrupts
  /\ HistoryCapacity \in Nat
  /\ Forever \notin Int
  /\ AgeCap \in Nat /\ GeneralCooldown \in Nat /\ GeneralCooldown < AgeCap
  /\ \A i \in Interrupts : MinFireCooldown[i] \in 0..(AgeCap - 1)

VARIABLES
  ticks,                      \* modulo a frame
  wait_ticks,                 \* ticks the last instruction still takes
  vertical_count,             \* VCOUNT of the lcd
  just_finished_transmission, \* of the serial port
  is_stepping,                \* of the debugger
  history,                    \* the number of entries of the debugger's history
  debugged,                   \* the Gba was given the debugger as a plugin
  panicked,                   \* the core thread panicked
  replays                     \* history: the lines begun by paused cycles, modulo
                              \* the lines there are

coreVars == <<lineVars, ticks, wait_ticks, vertical_count,
              just_finished_transmission, is_stepping, history, debugged, panicked,
              replays>>

CoreInit ==
  /\ Init
  /\ ticks = 0
  /\ wait_ticks = 0
  /\ vertical_count = 0
  /\ just_finished_transmission = FALSE
  /\ is_stepping = FALSE
  /\ history = 0
  /\ debugged \in BOOLEAN
  /\ panicked = FALSE
  /\ replays = 0

-----------------------------------------------------------------------------
(* What a cycle does before it looks at the instruction. *)

NextTick == (ticks + 1) % FrameTicks

\* The devices run before the tick is counted.
NextLine_StaleTick == LineAt(vertical_count, ticks)

NextLine == LineAt(vertical_count, NextTick)

\* GbaIo::run_cycle: the lcd requests Vblank in every cycle of the first line
\* of the vertical blank, then the serial port its interrupt once.
AfterDevices ==
  LET lcd == IF NextLine = VisibleLines THEN Requested(pending, Vblank) ELSE pending
  IN  IF just_finished_transmission THEN Requested(lcd, SerialCom) ELSE lcd

Aged == [i \in Interrupts |-> Older(age[i])]

\* The kinds break_on_irq was called for, of the debugger if there is one.
Broken == IF debugged THEN BreakOnIrq ELSE {}

\* handle_interrupts: the front is taken ...
Fires == Takes(AfterDevices, Aged)
Fired == Head(AfterDevices)

\* ... but when break_on_irq asks for a pause it goes to the back of the queue,
\* although its firing time is noted.
Refused == Fires /\ Fired \in Broken

\* A front that does not fire is popped all the same.
AfterInterrupts_PopsBlocked ==
  IF AfterDevices = <<>> THEN <<>> ELSE Tail(AfterDevices)

\* A refused interrupt goes back to the front.
AfterInterrupts_RefusedFirst ==
  IF Fires /\ ~Refused THEN Tail(AfterDevices) ELSE AfterDevices

\* A refused interrupt is not queued again.
AfterInterrupts_DropsRefused ==
  IF Fires THEN Tail(AfterDevices) ELSE AfterDevices

AfterInterrupts ==
  IF Fires THEN IF Refused THEN Append(Tail(AfterDevices), Fired)
                           ELSE Tail(AfterDevices)
           ELSE AfterDevices

HandleInterrupts ==
  /\ pending' = AfterInterrupts
  /\ raised' = IF Fires /\ ~Refused THEN Fired ELSE None
  /\ vertical_count' = NextLine

-----------------------------------------------------------------------------
(* The cycles. *)

WaitCycle ==
  /\ ~panicked
  /\ wait_ticks # 0
  /\ wait_ticks' = IF wait_ticks = Forever THEN Forever ELSE wait_ticks - 1
  /\ ticks' = NextTick
  /\ vertical_count' = NextLine
  /\ pending' = AfterDevices
  /\ just_finished_transmission' = FALSE
  /\ age' = Aged
  /\ uptime' = Older(uptime)
  /\ raised' = None
  /\ UNCHANGED <<enabled, is_stepping, history, debugged, panicked, replays>>

\* tick_duration adds a tick to that of the operation when the condition does
\* not hold.
ConditionTicks(holds) == IF holds THEN 0 ELSE 1

\* The debugger asks the user: it was stepping, the interrupt of this cycle
\* made it step, or it is at a breakpoint.
Asks(atBreakpoint) == is_stepping \/ Refused \/ atBreakpoint

\* should_execute of the debugger lets the instruction run.  A watched memory
\* address may make it step again in after_executing.
Continues(atBreakpoint) ==
  \/ ~Asks(atBreakpoint) /\ is_stepping' \in {FALSE, debugged}
  \/ Asks(atBreakpoint) /\ "continue" \in Commands /\ is_stepping' \in BOOLEAN
  \/ Asks(atBreakpoint) /\ "step" \in Commands /\ is_stepping' = TRUE

Plain ==
  UNCHANGED enabled /\ just_finished_transmission' = FALSE

\* A store to IE or IME.
StoresEnable ==
  (\E S \in SUBSET Interrupts : enabled' = S) /\ just_finished_transmission' = FALSE

\* A store to SIOCNT: the start or irq bit finishes a transmission at once.
StoresSerialControl ==
  UNCHANGED enabled /\ just_finished_transmission' \in BOOLEAN

\* finish_entry makes space first and keeps one entry less than the capacity.
Remembered ==
  IF HistoryCapacity < 2 THEN 0
  ELSE IF history + 1 < HistoryCapacity THEN history + 1 ELSE HistoryCapacity - 1

Stores == Plain \/ StoresEnable \/ StoresSerialControl

ExecuteCycle ==
  /\ ~panicked
  /\ wait_ticks = 0
  /\ HandleInterrupts
  /\ ticks' = NextTick
  /\ age' = IF Fires THEN [Aged EXCEPT ![Fired] = 0] ELSE Aged
  /\ uptime' = Older(uptime)
  /\ \E atBreakpoint \in {FALSE, debugged} : Continues(atBreakpoint)
  /\ \E d \in Durations, holds \in BOOLEAN :
       /\ wait_ticks' = d + ConditionTicks(holds)
       /\ IF holds THEN Stores ELSE Plain
  /\ history' = IF debugged THEN Remembered ELSE history
  /\ UNCHANGED <<debugged, panicked, replays>>

\* The subtraction that takes a paused instruction's ticks back: below 0 it
\* panics, or without overflow checks wraps to the largest number there is.
TakesBack(n) ==
  IF n >= 0 THEN wait_ticks' = n /\ UNCHANGED panicked
            ELSE \/ wait_ticks' = 0 /\ panicked' = TRUE
                 \/ wait_ticks' = Forever /\ UNCHANGED panicked

\* The user typed a command that keeps the core paused: the tick is taken back
\* and the cycle will run again, but lcd, serial port and interrupt unit went
\* through it.  A memory command may store to the device registers.  Of the two
\* durations, with the flags before and after the command, the condition's
\* ticks are all that may differ.
PausedCycle(before, after) ==
  /\ ~panicked
  /\ wait_ticks = 0
  /\ \E atBreakpoint \in {FALSE, debugged} : Asks(atBreakpoint)
  /\ is_stepping' = TRUE
  /\ HandleInterrupts
  /\ age' = IF Fires THEN [age EXCEPT ![Fired] = -1] ELSE age
  /\ replays' = LineAt(replays, NextTick)
  /\ UNCHANGED <<ticks, uptime, debugged>>
  /\ Stores
  /\ TakesBack(ConditionTicks(before) - ConditionTicks(after))

PausesWithoutChange ==
  /\ "other" \in Commands
  /\ PausedCycle(TRUE, TRUE)
  /\ UNCHANGED history

\* `b' puts back the registers of an earlier instruction, flags included, and
\* what it remembers of the memory, before the ticks are taken back.
GoesBack ==
  /\ "back" \in Commands
  /\ history > 0
  /\ \E before, after \in BOOLEAN : PausedCycle(before, after)
  /\ history' = history - 1

\* Gba::reset of the user interface: registers and interrupt unit start anew,
\* ticks, wait_ticks, lcd, serial port and debugger go on.
ResetGba ==
  /\ ~panicked
  /\ Reset
  /\ UNCHANGED <<ticks, wait_ticks, vertical_count, just_finished_transmission,
                 is_stepping, history, debugged, panicked, replays>>

\* Nothing happens any more after the core thread panicked.
Stopped == panicked /\ UNCHANGED coreVars

CoreNext ==
  \/ WaitCycle \/ ExecuteCycle \/ PausesWithoutChange \/ GoesBack \/ ResetGba
  \/ Stopped

CoreSpec == CoreInit /\ [][CoreNext]_coreVars

\* The core thread calls run_cycle for ever.
CoreFairSpec == CoreSpec /\ WF_coreVars(WaitCycle) /\ WF_coreVars(ExecuteCycle)

-----------------------------------------------------------------------------

CoreTypeOK ==
  /\ enabled \subseteq Interrupts
  /\ pending \in Seq(Interrupts)
  /\ age \in [Interrupts -> -1..AgeCap]
  /\ uptime \in 0..AgeCap
  /\ raised \in Interrupts \cup {None}
  /\ ticks \in 0..(FrameTicks - 1)
  /\ wait_ticks \in Nat \cup {Forever}
  /\ vertical_count \in Lines
  /\ just_finished_transmission \in BOOLEAN
  /\ is_stepping \in BOOLEAN
  /\ history \in 0..HistoryCapacity
  /\ debugged \in BOOLEAN
  /\ panicked \in BOOLEAN
  /\ replays \in Lines

\* Requests of both devices, refusals of break_on_irq and resets together
\* never put a kind into the queue twice.
PendingOnce ==
  \A j, k \in DOMAIN pending : pending[j] = pending[k] => j = k

\* What drives lcd and ticks apart are the paused cycles that begin a line, by one
\* line each, and nothing else: VCOUNT is the number of lines the ticks of this
\* frame amount to, and those lines.  Without a debugger there are none of them.
LineFollowsTicks ==
  /\ vertical_count = (ticks \div TicksPerLine + replays) % (LastLine + 1)
  /\ ~debugged => replays = 0

\* A request the unit holds is not lost between devices, debugger and
\* processor: it stays until the processor takes it or the Gba is reset.
PendingUntilTaken ==
  [][ResetGba \/ \A i \in Waiting \ Waiting' : raised' = i]_coreVars

\* Without a debugger a request does not starve: if from some time on every
\* request in the queue is enabled, no kind stays in the queue for ever, although
\* Vblank asks again in every frame and the cooldown is as long as a frame.  (A
\* disabled front blocks the kinds behind it, so one disabled request is too many.)
NoRequestStarves ==
  \A i \in Interrupts :
    <>[](~debugged /\ Waiting \subseteq enabled) => []<>(i \notin Waiting)

\* The core goes on and all its interrupts are enabled.
Served == enabled = Interrupts /\ ~panicked /\ wait_ticks # Forever

\* With the interrupts enabled for good the processor sees the vertical blank
\* again and again, also when another kind is refused each time it fires.
VblanksAreServed ==
  <>[]Served => []<>(raised = Vblank)

\* An interrupt of break_on_irq never gets through: once requested, and with
\* the interrupts enabled for good, it stays in the queue and fires again and
\* again (its age is 0 or less), each time to be refused, also after the user
\* continued.
BrokenIrqFiresAgain ==
  \A i \in BreakOnIrq :
    [](debugged /\ i \in Waiting /\ []Served => [](i \in Waiting) /\ []<>(age[i] <= 0))

\* Going back one instruction leaves the debugger at that instruction: there is
\* nothing to wait for, so the next cycle asks the user again.
GoingBackStaysPaused ==
  [][GoesBack => wait_ticks' = 0 /\ ~panicked']_coreVars

=============================================================================
