# A TLA+ model of gbaemu

gbaemu is a Game Boy Advance emulator in Rust: a library (`gbaemu-core`) with the
machine and a debugger, a window program (`gbaemu`), and two command line tools
(`gba-decomp`, `disasm`). This directory holds TLA+ modules translated from its
source, configurations that check them with TLC, and proofs that TLAPS checks.
`PROJECT.json` lists, for every definition, the lines it models, and every run,
mutant, finding, hazard and theorem.

Contents: [the system](#the-system), [the modules](#the-modules),
[the runs](#the-runs), [fairness](#fairness-and-assumptions-about-the-environment),
[the proofs](#the-proofs), [where code and descriptions disagree](#where-code-and-descriptions-disagree),
[not modelled](#what-is-not-modelled), [the plan](#the-plan).

## The system

Paths are below `src/gbaemu-core/src/` unless they begin with `src/`.

| Component | State | Operations | What makes it hard | What makes it correct |
|---|---|---|---|---|
| core loop, `lib.rs` | `ticks`, `wait_ticks`, the devices and registers | `run_cycle`, `handle_interrupts`, `reset` | a cycle the debugger pauses is taken back in part only; reset keeps some of the state | ticks and lines stay together, requests reach the processor, the core never stops by itself |
| interrupt unit, `io_registers/interrupt_waitstate.rs`, `interrupts.rs` | IE, IF, IME, queue, firing times | `queue`, `next`, stores, reset | only the front of the queue is looked at; two cooldowns | no request lost, doubled or starved, a bound on the delay |
| lcd timing, `io_registers/lcd.rs` | VCOUNT, `last_rendered_line`, `last_fetched_line`, two buffers | `run_cycle`, `swap_buffers`, `get_buffer_raw` | two threads, three counters that wrap at different moments | each line drawn once per frame, the window follows the beam |
| lcd rendering, `io_registers/lcd.rs`, `lcd/obj.rs` | none of its own | `render_background*`, objects, palettes | index arithmetic | pixels |
| serial communication, `io_registers/serial_communication.rs` | SIOCNT, data, `just_finished_transmission` | stores, `run_cycle` | the transmission is over in the cycle after the store | its interrupt is requested once per transmission |
| io bus, `io_registers.rs` | the devices | `run_cycle`, `reset`, `find_for_address` | order of the devices in a cycle | one device per address |
| sound, dma, timer, keypad, `io_registers/*.rs` | registers | stores and loads | nothing runs; some registers cannot be read, one switches a bank | storage |
| memory, `memory.rs` | one array, the memories behind plugins, the watcher's lists | loads and stores of 1, 2 and 4 bytes | masks of the mirrors, read-only ranges, a store that reads first | a load gives what was stored, and the watcher tells it |
| registers, `registers.rs` | banks per mode, Cpsr and Spsr | get, set, mode switch | which bank a write goes to depends on the mode at that moment | a mode finds its bank as it left it |
| decoding, `instructions/decode.rs` | none | `parse` of ARM and Thumb words | overlapping patterns, order of the tests | each word decoded as what it is |
| execution, `instructions.rs`, `instructions/shifter_operand.rs` | the machine | `execute`, `tick_duration`, `can_execute`, `increments_instruction_pointer` | flags at the boundaries of words; a condition asked again after the flags changed | results and flags equal the arithmetic they stand for |
| plugins, `plugins.rs` | wished changes | `combined_with`, `apply_register_changes` | order of writes to banked registers | the wish of a plugin is what the machine becomes |
| debugger, `plugins/debugger.rs` | stepping, breakpoints, history, watched memory, `break_on_irq` | `should_execute`, `after_executing`, `on_irq`, commands | runs in the middle of a cycle; the user may change everything | pausing and going back do not disturb the machine |
| debugger history, `plugins/debugger/timetravel.rs` | entries, capacity | `start_entry`, `finish_entry`, `go_back` | entry begun before and finished after the instruction | going back restores what was |
| window program, `src/gbaemu/src/main.rs` | window buffer, `is_running`, open windows | core thread, loop of the main window, palette, tile and memory windows | a mutex around the whole machine, held while the user is asked, poisoned by a panic; one window takes the lock below it alone | every window gets its pictures, the program ends when it is told to |
| decompiler, disassembler, symbols, parser, display, bit helpers, `src/stackvec` | | text and containers | sequential | their unit tests |

How they meet: the window program starts one thread that calls `Gba::run_cycle`
in an endless loop, each time under the lock of the `Gba`; the threads of the
windows take the same lock for a reset, a copy of the buffer or a screenshot. A
cycle counts the tick, runs the devices (lcd, then serial port), which queue
requests at the interrupt unit, and, when no instruction is being waited for, asks
the unit for an interrupt, offers the plugins the instruction, executes it and adds
its duration to `wait_ticks`. The debugger is such a plugin: it may keep a cycle
from executing, in which case tick and duration are taken back, but the devices and
the interrupt unit have already run.

The hazards this leads to are listed in `PROJECT.json`, each at its line with the
properties that watch it, or with the reason why none does.

## The modules

    IrqLine   <--implements--   InterruptWaitstate  <--extends--  IrqLatency
       |                                                              |
    extends                                                    IrqLatencyProofs
       |
    GbaCore  --extends-->  LcdClock  <--extends--  LcdTiming  <--extends--\
       |                                                            WindowProofs
    GbaCoreProofs                                  Frontend   <--extends--/

    Program    <--implements--  IrqEntry  <--extends--  ProcessorProofs
                                                             |
                                                          extends
                                                             |
                                                       ShifterOperand
    WordStack  <--implements--  BlockTransfer  <--  BlockTransferProofs
    FlatMemory <--implements--  MemoryMap  --extends-->  IoRegisters
         \--extends-->  Regions  <--extends--/   <--  MemoryMapProofs

    Decode  <--extends--  ThumbAsArm  <--extends--  Instructions  <-- InstructionsProofs

    TimeTravel <-- TimeTravelProofs

The modules meet in the numbers they leave open: `Instructions` shows how many ticks
an instruction takes, which is what `Durations` of `GbaCore` and `MaxGap` of
`IrqLatency` stand for; `GbaCore` is one turn of the core thread of `Frontend`;
`BlockTransfer` reads and writes the words that `MemoryMap` keeps.

* **`InterruptWaitstate`** is the interrupt unit as it is written: registers, the
  queue, a firing time per kind and the tick of its caller. One action per method
  (`queue`, `next` in its two outcomes, the stores, `reset`) and one for the tick.
  The stores are of whole register values, so every order of half stores is
  included. The firing times are compared with the tick in natural numbers; the
  program's `usize` would need more than 10^11 frames to wrap.
* **`IrqLine`** is what that unit promises: a queue, ages instead of firing times,
  counted up to `AgeCap`, so that time is unbounded and the state finite.
  `InterruptWaitstate!Line` is the refinement mapping.
* **`IrqLatency`** adds the one thing its caller guarantees (it asks at least every
  `MaxGap` ticks) and two clocks, and states how long a request can wait.
* **`LcdClock`** is the arithmetic of VCOUNT, used by the two modules in which lines
  are counted.
* **`GbaCore`** composes the interrupt line, the line counter, the serial port, the
  debugger, if `Init` chooses one, and the reset in the steps of the core thread: `WaitCycle`,
  `ExecuteCycle`, `PausesWithoutChange`, `GoesBack`, and `ResetGba` of the window.
  A cycle is one step because the core thread holds the lock for it. An
  instruction is a plain one, a store to IE or IME, or a store to SIOCNT, with a
  duration of `Durations`, and its condition holds or not. `replays` is a history
  variable: the lines begun by cycles that were paused and taken back.
* **`Program`** is what the program the machine runs may rely on: its instructions
  one after the other, in its mode, with its flags and link registers, with one
  exception (`LeavesOut`). **`IrqEntry`** is the machine with its interrupts: the
  entry (`Interrupted`: `Ip` as read, `Cpsr`, mode, `Spsr`, `Lr`, in the order of the
  code), the handler, and the return by `SUBS pc, lr, #4`. It executes the program's
  instructions with the actions of `Program` (`Machine`), and implements `Program`
  seen through the registers the return will put back (`Own`).
* **`LcdTiming`** is the lcd's buffer and the window's: which lines `run_cycle`
  draws, `swap_buffers` copies and the screenshot of `get_buffer_raw` disturbs. A
  pixel is abstracted to how often its line was drawn (`renders`) and how many
  drawings the window is behind (`lag`). Nothing makes the window swap in time, and
  two history variables, read by the properties only, say when it did:
  `lines_since_swap` and `lines_since_late`, the lines begun since the last swap and
  since the last late one, each counted up to the number the properties ask for.
* **`TimeTravel`** is the debugger's history with the banks of `Lr` and `Spsr` of
  two modes (Irq and one more) and the memory. `past` is the machine each entry was
  made at, and is read by the properties only.
* **`ShifterOperand`** is the data-processing instructions on words that are sets of
  bits: second operands and their shifts, results, the four flags, and the
  conditions that read the flags. `source` remembers what the flags are of.
  `Number` is the number a word is, the sum of the powers of two of its bits
  (`TwoTo`, `SumsOf`: recursive functions, so that they can be proved about).
* **`Decode`** is `decode_arm` and `decode_thumb` in the order of their tests, for
  every word: fields are taken out of numbers by the bits they lie in.
  **`ThumbAsArm`** is the reference for one by the other: the ARM word a Thumb half
  word is short for (`ArmOf`). **`Instructions`** fetches a word, counts its ticks,
  executes it and moves Ip on (`Decodes`, `Executes`, `Panics`); of the execution it
  keeps who writes Ip, who may change the flags, and who panics: at words nothing
  decodes, at signed stores and comparisons without the S bit (`CannotExecute`), and,
  depending on values the model does not have, at Msr, at shifts by a register and at
  accesses to memory (`MayPanic`).
* **`WordStack`** is what a program wants block transfers for, a stack of words.
  **`BlockTransfer`** is calls, block stores and loads, and returns, with
  `start_address`, `end_address` and the new base as the code computes them, in the
  four pairs of addressing modes, in Thumb and ARM code and between the two. It
  implements `WordStack`.
* **`Regions`** says by sizes where an address has its byte (`Home`).
  **`FlatMemory`** is one byte for each home and a list of accesses.
  **`IoRegisters`** is the registers of all devices, byte by byte: which device claims
  an address, what it reads as, what a store does. **`MemoryMap`** is the memory as
  it is written, masks, plugins, cartridge and the array with the watcher's lists,
  and implements `FlatMemory`. A device is free to answer as devices do (`Settled`,
  `Linked`), all other memory must give back what was stored.
* **`Frontend`** is the threads of the window program: which of them waits for which
  lock and holds which, who looks at `is_running` and who sets it, panics that
  poison locks, the joins and the exit of the process.
* `MC*` modules give the constants their values; definitions whose names end in
  `_Something` are the mutants, the code with one plausible mistake.

## The runs

| Run | Checks | Shows |
|---|---|---|
| `interrupt_unit` | `NoDuplicates`, `FiringsApart`, `BoundedLatency`, `NoRequestLost`, `LineSpec` | over every order of requests, stores, calls of `next` and resets the queue holds a kind once, is only emptied by `next` and `reset`, firings keep their distance, the unit implements `IrqLine`, and a request waits at most one turn per kind |
| `core` | `CoreTypeOK`, `PendingOnce`, `LineFollowsTicks`, `PendingUntilTaken`, `NoRequestStarves`, `BrokenIrqFiresAgain`, `VblanksAreServed` | with and without a debugger (every command of it, and `break_on_irq(SerialCom)` as the window program sets it up): no request is lost, VCOUNT is the quotient of the ticks and leaves it only by the lines of cycles the debugger paused, both kinds reach the processor although a frame is shorter than the cooldown, and the kind the debugger refuses keeps firing, is never taken, and does not keep the other one from being served |
| `instructions` | `TypeOK`, `IpWritesStick`, `InstructionsTakeTicks`, `ThumbIsArm` | the two lists of instructions that write Ip agree in Thumb code, and where they do not in ARM code; no instruction takes no ticks or more than the longest; the two decoders agree |
| `block_transfer` | `TypeOK`, `TransfersAreAnnounced`, `StackSpec`, `CallsReturn` | block transfers are a stack in each pair of addressing modes; calls in mixed code return with mode, stack and registers as they were; the history expects the stores of the increasing modes |
| `memory_map` | `TypeOK`, `FlatSpec` | through every mirror and at every width memory is one byte per place, stores change nothing else, and the watcher tells what happened |
| `frontend` | `CleanExit`, `NoCircularWait`, `ProgramEnds`, `WindowsKeepUp` | whoever has a lock waits for nobody who waits for it, no window waits for ever, a closed main window or a panic ends the program, and an end without a panic has ended every thread before |
| `going_back_stays_paused` | `GoingBackStaysPaused` | violated: `b` may take back more ticks than were added |
| `lcd_timing` | `TypeOK`, `RenderedOnce`, `LinesAboveBeamAreCurrent`, `WholeFrameAtStart` | lines are drawn once per frame; a swap in time shows every line above the beam drawn since the last late swap, and a whole frame at VCOUNT 0 |
| `time_travel` | `TypeOK`, `SpsrComesBack`, `LrComesBackInMode` | what `b` restores: mode and Spsr always, Lr while the mode is the same |
| `time_travel_registers` | `RegistersComeBack` | violated: after an interrupt Lr goes to the wrong bank |
| `shifter_operand` | `OperandTypeOK`, `SignedConditionsTell`, `SumsCarryOver`, `ShiftsAreArithmetic` | results and flags against arithmetic on numbers |
| `irq_entry` | `TypeOK`, `ProgramSpec`, `ProgramRuns` | interrupts, at whatever moment, are invisible to the program but for an ARM instruction that is left out, and do not starve it |

### Bounds, and why they are enough

* *Interrupt kinds.* Two, the number the program has (`interrupts.rs`). The
  theorems are for any finite set.
* *Time of the interrupt unit.* `MaxTick = 12` with cooldowns 2, 2 and 3 and a gap
  of 2: five ticks are a turn, so two kinds can fire twice each and a full turn per
  kind fits. That the bound does not matter is what the theorems say. In the
  abstract line and in `GbaCore` time is not bounded at all: ages are capped above
  every cooldown, which the unit cannot tell apart, and ticks count modulo a frame.
* *A frame of `GbaCore`* has 4 lines of 2 ticks, 2 of them visible, and a cooldown
  of 8 ticks. In the program it is 229 lines of 4 ticks (916) with a cooldown of
  1000. What matters is kept: a cooldown is as long as a frame or longer, so that
  Vblank asks again before the cooldown of the previous firing ran out, Vblank is
  requested in every tick of its line, and an instruction (1 to 4 ticks with the
  tick of a condition that does not hold) can span a line.
* *The history* of `GbaCore` holds one entry (capacity 2, the smallest one
  that remembers); in `TimeTravel` two entries of capacity 3, so that entries are
  dropped and the ones behind them are gone back to.
* *The lcd of `LcdTiming`* has 8 visible lines and 13 in all, of 4 ticks. `renders`
  and `lag` are counted to 2: the properties tell 0, 1 and more apart.
* *`IrqEntry`* has an address space of 5 half words (Ip as read is 2 or 4 ahead, the
  return 2 back: they must not meet), two modes of the program beside Irq, a
  handler of three instructions of at most two ticks and a cooldown of the 9 ticks
  this takes. The theorem is for all of them.
* *Words* have 3 bits: the sign, the carry out and the overflow are at their
  boundaries, shifts by nothing, one bit and more exist, and every pair of words is
  reached. Operands are immediates of two values, a register, and the four shifts by
  immediates and, for the rotation, by a register.

* *Instruction words.* `ThumbCodes` is every half word, alone and, for the first half
  of a call, with a second half that stays in Thumb code and one that leaves it.
  `ArmWords` are the words with every combination of the bits 27 to 20 and 7 to 4,
  which are the ones that tell instructions apart, with the registers R0 and Ip in
  the places of the first operand and of the destination, two values in the other
  fields, and the conditions Equal and Always. `LongestInstruction` is 21 ticks: a
  conditional load of 16 registers that loads Ip. (The reach of a Branch of 24 bits
  is met by the offsets the fields can hold; nothing else depends on which register
  is named.)
* *Calls* are nested two deep (`MaxCalls`): a third one does nothing the second one
  does not. `Saved` has two registers and `Capacity` five words, so lists of
  different registers and lengths follow each other, and a load takes what another
  list stored. Two `CallSites` and an `AddressSpace` of 128 bytes keep return
  addresses, with the bit of the mode, apart from values and from the stack.
* *Memory accesses.* Each memory by two of its repetitions, at the last word in front
  of a repetition, and video memory at both sides of the part that is there twice;
  registers that only keep a value, that switch a bank, that cannot be read, that are
  written only, and places between devices. `MaxStores = 2` stores (the second one
  through another mirror or width than the first) and lists of one access when the
  next one is made. Stored words have four different bytes with the highest bit set
  and not set. `RomLength` of 64 bytes makes the end of the file a case.
* *`Frontend`* starts with four sets of `Options`: each window with and without
  another one, with and without the main window. `Batch = 2` cycles stand for the
  1000 the core thread runs before it looks at `is_running`: one after which it
  goes on and one after which it looks.

Deadlock is checked in every run: where the system stops for good (a panic of the
core thread, the end of the program) the model has an action that says so.

## Fairness and assumptions about the environment

* `CoreFairSpec` assumes weak fairness of `WaitCycle` and of `ExecuteCycle`. Their
  only cause is the core thread, which calls `run_cycle` for as long as the program
  runs (`src/gbaemu/src/main.rs`, 199-211) and takes the lock the window's thread
  holds for bounded times. With a debugger, `ExecuteCycle` is enabled at every
  prompt because the user may type `continue` or `step`: fairness then says that
  the user does so in the end, and does not type other commands for ever. A user who
  leaves the prompt alone stops the program; nothing is claimed of that case.
* `NoRequestStarves`, `VblanksAreServed` and `BrokenIrqFiresAgain` have premises
  about the emulated program (it keeps its interrupts enabled). They are needed: a
  disabled kind at the front of the queue holds up everything behind it, and a reset
  disables all kinds.
* `VblanksAreServed` covers the debugged core too, with the premise that the core has
  not panicked and is not waiting for ever: both happen (see `GoingBackStaysPaused`).
* `Frontend` assumes weak fairness of each thread's steps that take no contended lock
  (the operating system schedules them), and strong fairness of the ones that do: a
  thread that waits for a lock that is released again and again gets it in the end.
  `std::sync::Mutex` does not promise that, and the core thread takes its lock again
  right after releasing it, so this is an assumption about the platform and what
  `WindowsKeepUp` says rests on it. The user answers the debugger
  (`WF(UserAnswers)`) and presses no key for ever (`SF(Shows(main))`); the window of
  the tile maps has finitely many pixels (`SF(LoadedTiles("show"))`).
* `ProgramEnds` leaves one case out by its premise (`TilesKeepItRunning`): started
  without a main window but with the one of the tile maps, the program goes on showing
  tiles after the core thread has panicked.
* `BlockTransfer` assumes the convention that makes calls work: a function stores what
  it changes, loads what it stored, and returns by the way its caller can use. The
  emulated program keeps it or not; the actions have it as guards.
* `IrqEntry` assumes that a handler is over within a cooldown (`HandlersAreShort`),
  keeps `Lr` and `Spsr` of its mode, and returns unconditionally. Handlers are code of
  the emulated BIOS and program, nothing in the emulator makes them so: the I bit of
  `Cpsr` is neither set at the entry nor looked at, so only the cooldown keeps a
  second interrupt from overwriting `Lr` and `Spsr`. The condition is exact: with a
  cooldown of 8 instead of 9 ticks the program can be starved, with one of 5 (less
  than the handler without its return) `ProgramSpec` is violated.
  `FairSpec` says that the core thread runs cycles for ever.
* `LcdTiming` assumes nothing of the window: the core thread begins 250 lines in a
  batch of 1000 cycles (`src/gbaemu/src/main.rs`, 203-208) and waits for nobody, so any
  number of lines may begin between two swaps. A swap is *in time* (`InTime`) when
  fewer than `VisibleLines` lines have begun since the last one, and *late* otherwise.
  Of what a late swap leaves in the window nothing is claimed; a swap in time is held to
  every line above the beam that was drawn since the last late one, so that whatever was
  missed is made good once a frame has passed with swaps in time. A window that is
  always late, one that swaps once per frame or in every vertical blank with a frame
  between, never gets a guarantee, and rightly: swaps that find the beam where the last
  one did copy nothing. Both bounds are exact. With `<=` in `InTime`, with one line more
  in the premise, or without `lines_since_late`, `LinesAboveBeamAreCurrent` is violated.
  The last visible line is never copied by a swap during the vertical blank, only by
  one that finds VCOUNT wrapped, hence the `SwapEnd` in the property.
* `IrqLatency` assumes that `next` is asked every `MaxGap` ticks, where `MaxGap` is
  the longest duration of an instruction; the debugger's pauses do not count ticks.
  Its `break_on_irq` does break the bound and is left to `GbaCore`.

## The proofs

Checked by TLAPS for every value of the constants that meets the named assumptions.

* `IrqLatencyProofs`, about the unit: `TypeCorrect`, `QueueHasNoDuplicates`,
  `FiringsAreApart`, and `ImplementsLine` (the unit implements `IrqLine`).
  `NoDuplicates` is inductive with the types (which no run checks for this unit: they
  are proved). `FiringsApart` needs that no firing
  time lies in the future, which the types do not say: `FiredInPast` is proved
  beside it. The refinement needs the same fact: an age that is capped is the capped difference only if the difference is not
  negative, and the guard of `can_fire_again` equals the guard on ages because every
  cooldown lies below `AgeCap`.
* `IrqLatencyProofs`, about its caller: `LatencyIsBounded`. The bound itself is not inductive: a
  request at the back says nothing about how soon it moves up. `LatencyInv` relates
  the place in the queue to the latest firing of any kind (`ReadyBeforeFiring`: the
  request at place p was ready at most `|Interrupts| - p` turns before it), and says
  that a call of `next` at which every cooldown had run out left nothing that had
  been ready before it (`ReadyAfterAsking`). Both together with the length of a
  queue without duplicates (at most `|Interrupts|`) and `AskedInTime` give the bound.
* `IrqLatencyProofs`, about every step: `RequestsAreNotLost`. The place in the queue of what
  stays is followed through each action (`StepLosesNothing`). It needs `NoDuplicates`:
  were the kind at the front queued twice, what stood between the two would stand in
  front of it after the step, and the order would be lost.
* `ProcessorProofs`, of `IrqEntry`: `TypeCorrect`, and, from `HandlersAreShort`, `ImplementsProgram`
  (every step of the machine is a step of the program, a left out instruction or a
  stutter). It rests on `HandlerInv`: while a handler runs, the latest interrupt is no
  longer ago than the executed part of it can take. With the assumption this puts
  the next interrupt behind its return, so `Spsr` keeps the program's mode. That
  going four half words ahead and two back is two ahead also when addresses wrap
  is `WrapTwice`, proved from quotient and remainder.
* `ProcessorProofs`, of `ShifterOperand`: `RegistersHoldWords`, `ComparisonsTell`,
  `AdditionsCarry`, `ShiftsAreOfNumbers`, for words of every width from 2 bits, any
  registers and any instructions, bottom up:
  * *Recursion.* `TwoTo` and `SumsOf` are recursive functions. That they exist and meet
    their equations (`RecursionExists`, `RecursionUnique`) rests on `Induction`: a set of
    numbers with 0 and with the successor of each member has all numbers, because a
    smallest number outside would have a predecessor inside.
  * *Digits.* Digit b of n is `(n \div 2^b) % 2`. `DigitOfQuotient`, `DigitOfProduct`,
    `DigitOfSum` and `DigitOfRemainder` say what arithmetic does to digits; a number below
    a power of two has the digits of its sign from there on (`SmallNumber`).
  * *Words.* `Number` and `WordOf` are inverse (`WordOfItsNumber`, `NumberOfWord`) up
    to multiples of `2^Width` (`SameWord`), and a number that fits is the signed number
    of its word (`SignedOfWord`).
  * *Shifts.* One lemma for each, from the sets of bits the code moves to the product,
    quotient or rotation of the number (`LeftShiftMultiplies`, `RightShiftDivides`,
    `ArithmeticRightShiftDivides`, `RotateRightRotates`), and by 0 bits to what the code
    makes of them: the quotient of a whole word (`FilledWithSign`) and the rotation of a
    word with the carry in front of it (`RotatedWithCarry`).
  * *The invariant* `OperandInv`: the types, and that the flags are of the two
    words in `source` (`FlagsAreOfSource`), whatever was executed since. From it `SignOfDifference`
    gives the signed conditions and `CarryIsQuotient` the sum of two words with its
    carry.
* `WindowProofs`, of `LcdTiming`: `TypeCorrect`, `LinesRenderedOnce`, `WindowFollowsBeam` and
  `WindowShowsFrame`, with no assumption on the window. `RenderedInv` ties `last_rendered_line`
  to VCOUNT (they are equal until the vertical blank, then it stays until the first line of the next
  frame was drawn). `FetchedInv` says, as long as the next swap would be in time, where
  the last copy ended, `lines_since_swap` lines back from VCOUNT and around the wrap if
  need be, and that no line before that place lags that was drawn since the last late
  swap (`ShownBehind`). A late swap makes the second part empty, and the lines of the
  swaps in time fill it up again.

* `GbaCoreProofs`: `CoreTypeCorrect`, `RequestsAreDistinct`, `RequestsAreKept`,
  `LinesFollowTicks`, for every frame, cooldown, history and set of instructions.
  What the devices and the interrupt unit do to the queue are lemmas about sequences
  (`RequestedAdds`, `TailKeeps`, `RotateKeeps`); `InterruptsTakeFront` puts them
  together: what is gone from the queue is what the processor got. `LineFollowsTicks`
  counts lines modulo a frame: a tick begins the next line where it is a multiple
  (`LinesAdvance`, from the uniqueness of quotients), a paused cycle at such a tick
  begins one and takes only its tick back, and the sum of the two stays VCOUNT
  (`SumAdvances`, `SumFollows`). That without a debugger the core never steps
  (`NeverPauses`) makes `replays` 0 there.
* `TimeTravelProofs`: `TypeCorrect`, `SpsrIsPutBack`, `LrIsPutBack`. `HistoryInv` says
  that each entry belongs to the machine at the same place of `past`; both lists drop
  the same number of entries (`KeptDrops`), and `PutBackBanks` says which banks the
  registers go to.
* `WindowProofs`, of `Frontend`: `ExitIsClean`. `CleanExit` needs to know who holds the locks
  (`LocksHeld`: whoever is at a place where a lock is needed has it, and such a Gba is
  not poisoned), that a panic leaves poison (`PanicsPoison`), that the core's loop only
  ends when `is_running` is gone, and that nobody is left after the joins.
* `WindowProofs`, of the locks: `LocksMakeNoCircle`. The other direction of `LocksHeld`,
  `HoldersAtPlaces`: a lock that is not free is one of a thread at a place where it is
  needed. None of these places waits for a lock of the same thread, and who has the GbaIo
  waits for none at all, so that the Gba comes before the GbaIo in every thread.
* `MemoryMapProofs`: `MirrorsLeadHome`, `TypeCorrect`, `ImplementsFlat`, for every set of
  accesses, words, kind of cartridge and length of the lists, bottom up:
  * *Mirrors.* The masks of `handle_mirrors`, for all 2^32 addresses, lead to an address
    that is its own mirror, and to the byte that `Home` says by sizes; the video memory
    with its odd mask is `VramMirrorCases` and `PartCases`.
  * *Cells and aligned accesses.* A mirror is one of the `Cells`, its home is one, and
    both belong to the same plugin (`PluginOfHome`). An aligned access does not cross
    the end of a repetition, so that its bytes lie behind one another at the mirror,
    each at the home of its own address (`CellsOfAccess`, `BytesOfAccess`). This is where
    alignment is needed: an access across the end of a memory would go on behind it.
  * *Registers.* What each register reads as and where its byte comes from (`ReadCases`),
    what a store changes (`WriteCases`), and that nothing else reads differently
    (`StoreToOther`, `StoreToSelf`, `StoreToMode`). `write_bytes` is a recursive function;
    it is unfolded for the one, two and four bytes of an access (`StoreOfBytes`). The
    hard cases are the bank of the wave pattern, which is chosen by a register of the
    same access or an earlier one, and the ready bit of the serial port, which a later
    byte of the same store may set in an earlier one.
  * *The invariant* `MemInv`. `TypeOK` is not inductive: a store has to find what a plugin
    keeps at homes (a cartridge's byte under one of its repetitions would be read under
    none), and bytes of a register only where a register is (`IoTyped`). With it what
    is read at a home that was never written is what it began with (`UnwrittenRegister`),
    and what the flat memory has for a home is what every cell with that home reads as
    (`ValuesRead`).
  * *Steps.* `StoreInRam` and `StoreInRegisters` say for a store what every cell reads as
    afterwards; from them and from lemmas about lists that grow (`AddedIsTheRest`,
    `ReadHomesOfConcat`) `ReadsStep`, `WritesStep` and `ResetsStep` show that a load, a
    store and a reset are those of `FlatMemory`, and that the invariant is kept.
* `BlockTransferProofs`: `TypeCorrect`, `StoresAreAnnounced`, `FunctionsReturn`,
  `ImplementsStack`, for any saved registers, size of the stack, nesting of calls and
  address space with room for sixteen words behind the stack.
  * *Places.* The code adds four for each register of the list in the order of their
    numbers. That this gives each register a word of its own, and all words between the
    ends, is a fact about ranks in a finite set (`RanksDiffer`, `RanksAreAll`). With the
    four pairs of addressing modes (`Pairs`) it says where a store puts the word of a
    register and where a load looks for it (`StoresOnTop`, `LoadsFromTop`): at the same
    place counted from the top of the stack.
  * *Wrapping.* `EndsAsAsserted` and `IncreasingIsAnnounced` need that the stack does not
    reach the end of the address space; addresses that differ by its size are the
    same (`SameAddress`).
  * *The invariant* `CallsInv`. That a function returns right needs what all callers
    have stored: the calls' lists fill the stack one behind the other (`Nested`), a
    word on the stack is what its register was when the function was called
    (`WordsKept`), and a register that was not stored still is what it was
    (`RegistersKept`). `CallingKeeps`, `ListingKeeps` and `ReturningKeeps` are the three
    ways a step changes them.

* `InstructionsProofs`: `TypeCorrect`, `TicksAreBounded`, `IpIsRight`, for every half
  word and every ARM word (the run has all half words but a choice of ARM words).
  What the cycle depends on is said once for an operation (`ThumbFits`, `ArmFits`:
  lists name registers, branches are in reach and in step, and who may write Ip in
  Thumb code), and shown for each format of the decoders from the width of its fields
  (`Thumb000Fits` to `Thumb111Fits`, `ArmBranchFits`, `ArmMiscellaneousFits`), then for
  the decoders (`ThumbDecodes`, `ArmDecodes`). Thumb code writes Ip by branches, POP and
  a Move to a high register, all three of which the core's list knows (`ThumbListed`);
  who is on that list does write Ip (`ListedWrite`). `CycleInv` carries it through a cycle.
* `InstructionsProofs`, about the two decoders: `ThumbMeansArm`. `ThumbAsArm` assembles
  the ARM word of a half word from fields. `FieldsOfHalves`, `DataHigh` and `DataLow` take
  the fields out of the word again; for each format of ARM words a lemma says what
  `decode_arm` makes of an assembled word (`DataDecodes`, `TransferDecodes`,
  `HalfwordDecodes`, `BlockDecodes`, `BranchDecodes`, `ProductDecodes`,
  `ReturnDecodes`), and for each format of Thumb code that its decoder makes the same of
  the half word (`LowAgrees`, `NumbersAgree`, `AluAgrees`, `HighAgrees`, `OffsetsAgree`,
  `StackAgrees`, `BranchesAgree`). `HalfWordsAgree` puts them together in the order in
  which `decode_thumb` and `ArmOf` test the half word.

The inductive invariants were checked with TLC on the instances of the runs. The proofs
also found four mistakes in the models, now corrected, which no run met: two `CASE`s with
overlapping guards, of which TLC takes the first one that holds while the formula allows
either (a cell of another page at the offset of a register in `AfterStore`, the control
register among `SerialRegisters`); the register at 0x410, which was missing from `Fixed`
(an access of the run now reaches it); and assumptions about constants that were too weak
(offsets inside a page in `MemoryMap`, room behind the stack in `BlockTransfer`).

Model-checked only: the liveness properties (`NoRequestStarves`, `BrokenIrqFiresAgain`,
`VblanksAreServed`, `ProgramRuns`, `ProgramEnds`, `WindowsKeepUp`), because liveness under
fairness and ENABLED are out of the prover's reach. Every other property of the passing
runs is a theorem. What a recursive definition computes is proved here only where it is
about natural numbers, by the smallest counterexample: the library's theorems about
induction take an operator, which the installed provers cannot instantiate.

## Where code and descriptions disagree

Two runs end in a violation; each is a finding of `PROJECT.json` with the lines.

1. `GoingBackStaysPaused`: the ticks of a paused instruction are taken back with the
   flags `b` just restored. If the condition of the instruction holds after and did not
   before, one tick stays; the other way round `wait_ticks` goes below 0.
2. `RegistersComeBack`: `b` over an interrupt writes Lr (and Sp) to the bank of the
   mode it leaves, because Cpsr comes later in the order.

Met while reading and modelling, with no line of the repository to hold against it,
and therefore no run; the models do what the code does:

* *interrupts* A request is queued and never shows in IF. ARM code resumes one
  instruction after the interrupted one when its handler returns with
  `SUBS pc, lr, #4` (Lr is Ip as read, 8 ahead), Thumb code at the interrupted one.
* *going back* The history reads the bytes after the store, so `b` undoes no store; its
  range of a decreasing block store is 4 bytes too low.
* *conditions and flags* The carry of a comparison is a comparison of signed numbers, so
  the unsigned conditions tell nothing of words with different signs. A conditional
  return from an exception asks its condition again with the restored flags to decide
  whether Ip moves on. Arithmetic with Ip as destination restores Cpsr from Spsr also
  without the S bit. An AddWithCarry that updates the flags adds the carry of its own
  shifted operand. A logical shift right by 0 gives the number 32. A shift by a
  register that holds 0 is the one by an immediate of 0.
* *decoding* The arithmetic shift of Thumb code takes its register from bits of the
  amount. The byte and signed transfers with a register as offset are decoded as
  others. A signed transfer of an ARM word without the L bit is decoded and hits an
  `unreachable!` when it is executed; a TST without the S bit is decoded and fails an
  assertion. SWP, MLA and the long multiplications are
  decoded as MUL. The third form of the Thumb branches never switches the mode.
  The duration of a block store of an empty list is computed as `0 - 1`.
* *memory* The mask of the video memory shows the first 32 KB twice in every other
  repetition of 128 KB. `is_read_only` looks at the address before its mirrors, so a
  store to 0x10000000 writes the BIOS. An access at the end of the address space
  overflows. A store to a register that cannot be read (some of sound and of the serial
  port) panics in the read that the watcher needs. The watcher is told the address
  after its mirrors but not the place in the cartridge.
* *window program* Without a main window the window of the tile maps keeps the program
  running after the core thread has panicked.
* `Gba::reset` leaves `wait_ticks`, lcd, serial port and memory as they are.

## What is not modelled

* *Rendering* of lines (`lcd.rs`, `lcd/obj.rs`): a pure function of video memory whose
  result is pixels; when lines are drawn is in `LcdTiming`.
* *Text*: the parser of the debugger's commands, symbols and function watcher, the
  display of instructions, the tools `gba-decomp` and `disasm`.
* *`src/stackvec`* and the bit fields of `bitmod.rs`: a vector nothing uses, and one
  helper, which the models have as `Bits`.
* How the wishes of several plugins are combined: only the debugger wishes anything.
  Stack frames and skipped sections of the debugger.
* The banks of Fiq; the addresses of single loads and stores, which are decoded and
  not computed; operations with Ip as base and their returns but `SUBS pc, lr, #4`.
* `Lcd::reset`, which nothing calls.
* What is changed before a panic. That panics happen is modelled where it matters to
  another component: in `GbaCore`, `Instructions`, `MemoryMap` and `Frontend`.

## The plan

Done, in this order: the interrupt unit, its abstraction and its latency with
proofs; the core with its devices, debugger and reset; the lcd and the window with
proofs; the debugger's history; data-processing instructions, flags and conditions;
entry of and return from interrupts with proofs; decoding and execution; block
transfers and calls; memory and device registers; the threads of the window program.

The proofs were written in the order of the modules; block transfers, the memory, the
instructions, the arithmetic of words and the agreement of the two decoders came last.

Left: the liveness properties for every value of the constants. `NoCircularWait` and
`LocksHeld` are the safety they rest on; the rest is fairness, which TLC checks.
