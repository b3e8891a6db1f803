------------------------------ MODULE LcdTiming ------------------------------
(***************************************************************************)
(* How a frame gets from the lcd to the window: Lcd::run_cycle draws the   *)
(* lines VCOUNT passes into the lcd's buffer, swap_buffers copies what was *)
(* drawn since the last call into the window's buffer, get_buffer_raw      *)
(* draws a screenshot by changing the lcd's counters for a moment          *)
(* (gbaemu-core/src/io_registers/lcd.rs).  The core thread and the thread  *)
(* of the window take turns at the lock of the Gba, so each is one step.   *)
(*                                                                         *)
(* What a line looks like is left out: a line of the window is as many     *)
(* drawings behind the lcd's buffer as `lag' says.                         *)
(*                                                                         *)
(* Nothing makes the core thread wait for the window's: any number of      *)
(* lines begin between two swaps.  A swap is late when as many lines as    *)
(* are visible have begun since the one before it.                         *)
(***************************************************************************)
EXTENDS LcdClock

CONSTANT LagCap   \* lag and renders are counted up to this

ASSUME LagAssumption == LagCap \in Nat \ {0}

VARIABLES
  tick,                \* of the Gba, modulo TicksPerLine
  vertical_count,
  last_rendered_line,
  last_fetched_line,
  renders,             \* how often each visible line was drawn in this frame
  lag,                 \* how often it was drawn since it was copied
  lines_since_swap,    \* history: the lines begun since the last swap
  lines_since_late     \* history: the lines begun since the last late swap

swapHistory == <<lines_since_swap, lines_since_late>>
lcdVars == <<tick, vertical_count, last_rendered_line, last_fetched_line,
             renders, lag, swapHistory>>

Visible == 0..(VisibleLines - 1)
Never == [l \in Visible |-> 0]

AtMost(n, bound) == IF n < bound THEN n ELSE bound

\* A frame and the vertical blank behind it.
LinesOfFrame == LastLine + 1

\* What the swaps tell of their past; no step depends on it.  A swap with
\* VisibleLines lines before it is late, however many they are, and a late swap
\* is forgotten after a frame.
InTime == lines_since_swap < VisibleLines

\* The lines counted once more.
Counted(count, lines) ==
  [l \in Visible |-> IF l \in lines THEN AtMost(count[l] + 1, LagCap) ELSE count[l]]

LcdInit ==
  /\ tick = 0
  /\ vertical_count = 0
  /\ last_rendered_line = 0
  /\ last_fetched_line = 0
  /\ renders = Never
  /\ lag = Never
  /\ lines_since_swap = 0
  /\ lines_since_late = LinesOfFrame

-----------------------------------------------------------------------------

\* The lines from `from' on to the one before `to', past the last visible one
\* from 0 again.
vert_lines(from, to) ==
  {l \in Visible : IF from > to THEN l >= from \/ l < to ELSE l \in from..(to - 1)}

\* A cycle within a line, and one the debugger has paused and runs again.
CycleWithinLine ==
  /\ tick' = (tick + 1) % TicksPerLine
  /\ ~LineStarts(tick')
  /\ UNCHANGED <<vertical_count, last_rendered_line, last_fetched_line,
                 renders, lag, swapHistory>>

\* The cycle of a tick at which a line starts.  A paused cycle is run again
\* with the same tick.
StartsLine == tick' \in {tick, (tick + 1) % TicksPerLine} /\ LineStarts(tick')

Drawn == vert_lines(last_rendered_line, AtMost(vertical_count + 1, VisibleLines))

CycleToNextLine ==
  /\ StartsLine
  /\ lag' = Counted(lag, Drawn)
  /\ last_rendered_line' = AtMost(vertical_count + 1, VisibleLines)
  /\ vertical_count' = LineAfter(vertical_count)
  /\ renders' = IF vertical_count' = 0 THEN Never ELSE Counted(renders, Drawn)
  /\ lines_since_swap' = AtMost(lines_since_swap + 1, VisibleLines)
  /\ lines_since_late' = AtMost(lines_since_late + 1, LinesOfFrame)
  /\ UNCHANGED last_fetched_line

\* The start of the copy by VCOUNT instead of by what was rendered.
SwapStart_ByCount ==
  IF last_fetched_line > vertical_count THEN 0 ELSE last_fetched_line

\* The copy goes on where the last one ended, after a wrap at the top.
SwapStart ==
  IF last_fetched_line > last_rendered_line THEN 0 ELSE last_fetched_line

SwapEnd == AtMost(vertical_count, VisibleLines - 1)

\* The copy when last_fetched_line is updated first: it starts where it ends.
Copied_AfterUpdate == {}

Copied ==
  IF SwapEnd < SwapStart THEN 0..(SwapEnd - 1) \cup SwapStart..(VisibleLines - 1)
                         ELSE SwapStart..(SwapEnd - 1)

swap_buffers ==
  /\ lag' = [l \in Visible |-> IF l \in Copied THEN 0 ELSE lag[l]]
  /\ last_fetched_line' = SwapEnd
  /\ lines_since_swap' = 0
  /\ lines_since_late' = IF InTime THEN lines_since_late ELSE 0
  /\ UNCHANGED <<tick, vertical_count, last_rendered_line, renders>>

\* get_buffer_raw without the last two assignments.
get_buffer_raw_Unrestored ==
  /\ last_rendered_line' = 0
  /\ vertical_count' = VisibleLines
  /\ UNCHANGED <<tick, last_fetched_line, renders, lag, swapHistory>>

\* The screenshot is drawn into a buffer of its own, as if all visible lines
\* were due; then the counters are put back.
get_buffer_raw ==
  LET lrl == last_rendered_line
      vc  == vertical_count
  IN  /\ last_rendered_line' = lrl
      /\ vertical_count' = vc
      /\ UNCHANGED <<tick, last_fetched_line, renders, lag, swapHistory>>

LcdNext == CycleWithinLine \/ CycleToNextLine \/ swap_buffers \/ get_buffer_raw

LcdSpec == LcdInit /\ [][LcdNext]_lcdVars

-----------------------------------------------------------------------------

TypeOK ==
  /\ tick \in 0..(TicksPerLine - 1)
  /\ vertical_count \in Lines
  /\ last_rendered_line \in 0..VisibleLines
  /\ last_fetched_line \in 0..(VisibleLines - 1)
  /\ renders \in [Visible -> 0..LagCap]
  /\ lag \in [Visible -> 0..LagCap]
  /\ lines_since_swap \in 0..VisibleLines
  /\ lines_since_late \in 0..LinesOfFrame

\* When VCOUNT has passed a line it was drawn exactly once in this frame, and
\* not before: across the wrap at the end of a frame, during the vertical
\* blank, and whatever screenshots were made in between.
RenderedOnce ==
  \A l \in Visible : renders[l] = IF l < vertical_count THEN 1 ELSE 0

\* A swap in time shows the newest drawing of every line above the beam that was
\* drawn since the last late swap (the lines the beam has passed since, all of
\* them once it has been at the top), except the last visible line, which a
\* swap during the vertical blank leaves out.  What late swaps have lost is lost
\* for one frame and no longer.
LinesAboveBeamAreCurrent ==
  [][swap_buffers /\ InTime =>
       \A l \in 0..(SwapEnd - 1) :
         l >= vertical_count - lines_since_late => lag'[l] = 0]_lcdVars

\* A swap in time at VCOUNT 0 shows one whole frame, if no late swap came while
\* the frame was drawn.
WholeFrameAtStart ==
  [][swap_buffers /\ InTime /\ vertical_count = 0 /\ lines_since_late = LinesOfFrame
       => lag' = Never]_lcdVars

=============================================================================
