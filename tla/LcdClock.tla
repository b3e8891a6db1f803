------------------------------ MODULE LcdClock -------------------------------
(***************************************************************************)
(* How the lcd counts its lines (Lcd::run_cycle): every TicksPerLine ticks *)
(* VCOUNT goes up by one, past LastLine it is 0 again.  Lines from         *)
(* VisibleLines on are the vertical blank.  In the program these are 4,    *)
(* 228 and 160.                                                            *)
(***************************************************************************)
EXTENDS Naturals

CONSTANTS VisibleLines, LastLine, TicksPerLine

ASSUME LcdAssumption ==
  /\ TicksPerLine \in Nat \ {0}
  /\ LastLine \in Nat
  /\ VisibleLines \in 2..LastLine   \* of one line vert_lines(1, 1) would draw none

Lines == 0..LastLine
FrameTicks == TicksPerLine * (LastLine + 1)

\* A line starts at tick t.
LineStarts(t) == t % TicksPerLine = 0

\* The wrap one line late.
LineAfter_LateWrap(v) == IF v > LastLine THEN 0 ELSE v + 1

\* VCOUNT after it went up from line v.
LineAfter(v) == IF v + 1 > LastLine THEN 0 ELSE v + 1

\* VCOUNT after the cycle of tick t, when it was v.
LineAt(v, t) == IF LineStarts(t) THEN LineAfter(v) ELSE v

=============================================================================
