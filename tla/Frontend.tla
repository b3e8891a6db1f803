------------------------------ MODULE Frontend ------------------------------
(***************************************************************************)
(* The threads of the window program and the two locks they share          *)
(* (gbaemu/src/main.rs): the core thread emulates cycle after cycle with   *)
(* the lock of the Gba held, the main thread and the threads of up to      *)
(* three more windows take it for each picture they show.  Under it is the *)
(* lock of the GbaIo, which the window of the tile maps takes without it.  *)
(*                                                                         *)
(* What a lock guards is left out; a thread that panics leaves the locks   *)
(* it holds poisoned, and the next one that takes them panics too.  The    *)
(* locks below the GbaIo's, of the video, colour and object memory, are    *)
(* only taken for one access, or one after the other with it held.         *)
(***************************************************************************)
EXTENDS Naturals

CONSTANTS
  Options,   \* the sets of options the program is started with
  Batch      \* cycles the core thread runs before it looks at is_running

Viewers == {"palette", "tilemaps", "memory"}
Threads == {"core", "main"} \cup Viewers
Free    == "free"

ASSUME FrontendAssumption ==
  /\ Options \subseteq SUBSET ({"headless"} \cup Viewers)
  /\ Batch \in Nat \ {0}

VARIABLES
  options,      \* headless, and the windows that are asked for
  is_running,
  pc,           \* what each thread does next
  cycles,       \* that are left of the core's batch
  gba, gba_io,  \* who holds the locks
  poisoned,     \* the locks a thread panicked with
  open,         \* the windows that are open
  exit          \* of the process: "none", "ok" or "panic"

vars == <<options, is_running, pc, cycles, gba, gba_io, poisoned, open, exit>>

Init ==
  /\ options \in Options
  /\ is_running = TRUE
  /\ pc = [t \in Threads |->
             CASE t = "core"    -> "check"
               [] t = "main"    -> IF "headless" \in options THEN "join" ELSE "check"
               [] t \in Viewers -> IF t \notin options THEN "done"
                                   ELSE IF t = "tilemaps" THEN "clone" ELSE "check"]
  /\ cycles = Batch
  /\ gba = Free /\ gba_io = Free
  /\ poisoned = {}
  /\ open = (options \cap Viewers) \cup (IF "headless" \in options THEN {} ELSE {"main"})
  /\ exit = "none"

-----------------------------------------------------------------------------
(* Locks, and how threads go on. *)

Goes(t, from, to) ==
  exit = "none" /\ pc[t] = from /\ pc' = [pc EXCEPT ![t] = to]

\* `lock' of the Gba or the GbaIo: it waits until the lock is free.
TakesGba(t) == gba = Free /\ "gba" \notin poisoned /\ gba' = t
TakesIo(t)  == gba_io = Free /\ "gba_io" \notin poisoned /\ gba_io' = t

\* `unwrap' of a poisoned lock, or a panic of the thread's own: what it holds is
\* released, poisoned.  If it is the main thread, the process ends.
Panics(t) ==
  /\ exit = "none"
  /\ pc' = [pc EXCEPT ![t] = "panicked"]
  /\ poisoned' = poisoned \cup (IF gba = t THEN {"gba"} ELSE {})
                          \cup (IF gba_io = t THEN {"gba_io"} ELSE {})
  /\ gba' = IF gba = t THEN Free ELSE gba
  /\ gba_io' = IF gba_io = t THEN Free ELSE gba_io
  /\ exit' = IF t = "main" THEN "panic" ELSE exit
  /\ UNCHANGED <<options, is_running, cycles, open>>

WaitsForGba(t) == pc[t] \in {"lock", "clone", "final"}
WaitsForIo(t)  ==
  pc[t] \in {"devices", "interrupts", "refuse", "access", "picture", "load", "final picture"}

FindsPoison(t) ==
  /\ \/ WaitsForGba(t) /\ gba = Free /\ "gba" \in poisoned
     \/ WaitsForIo(t) /\ gba_io = Free /\ "gba_io" \in poisoned
  /\ Panics(t)

-----------------------------------------------------------------------------
(* The core thread. *)

core == "core"

CoreChecks ==
  /\ Goes(core, "check", IF is_running THEN "lock" ELSE "done")
  /\ cycles' = Batch
  /\ UNCHANGED <<options, is_running, gba, gba_io, poisoned, open, exit>>

CoreLocks ==
  /\ Goes(core, "lock", "devices") /\ TakesGba(core)
  /\ UNCHANGED <<options, is_running, cycles, gba_io, poisoned, open, exit>>

\* The devices run with both locks held; then, if the last instruction takes no
\* more ticks, interrupts are looked at and the next one is executed.
CoreRunsDevices ==
  /\ Goes(core, "devices", "in devices") /\ TakesIo(core)
  /\ UNCHANGED <<options, is_running, cycles, gba, poisoned, open, exit>>

CoreReleasesDevices ==
  /\ \E next \in {"interrupts", "unlock"} : Goes(core, "in devices", next)
  /\ gba_io' = Free
  /\ UNCHANGED <<options, is_running, cycles, gba, poisoned, open, exit>>

\* The guard of the question kept alive while the answer is looked at.
CoreAsksInterrupt_KeepsGuard ==
  /\ \E next \in {"refuse", "execute"} : Goes(core, "interrupts", next)
  /\ gba_io = Free /\ "gba_io" \notin poisoned
  /\ gba_io' = IF pc'[core] = "refuse" THEN core ELSE Free
  /\ UNCHANGED <<options, is_running, cycles, gba, poisoned, open, exit>>

\* The unit is asked for an interrupt with the lock for the question only, and once
\* more to put back what the debugger refuses.  The fetch behind it asks for the
\* lock in the same way: locks of one call after the other are one step.
CoreAsksInterrupt ==
  /\ \E next \in {"refuse", "execute"} : Goes(core, "interrupts", next)
  /\ gba_io = Free /\ "gba_io" \notin poisoned
  /\ UNCHANGED <<options, is_running, cycles, gba, gba_io, poisoned, open, exit>>

CoreRefuses ==
  /\ Goes(core, "refuse", "execute")
  /\ gba_io = Free /\ "gba_io" \notin poisoned
  /\ UNCHANGED <<options, is_running, cycles, gba, gba_io, poisoned, open, exit>>

\* The debugger may ask the user, and waits for a line of input.
CoreAsks ==
  /\ Goes(core, "execute", "prompt")
  /\ UNCHANGED <<options, is_running, cycles, gba, gba_io, poisoned, open, exit>>

UserAnswers ==
  /\ \E next \in {"executes", "unlock"} : Goes(core, "prompt", next)
  /\ UNCHANGED <<options, is_running, cycles, gba, gba_io, poisoned, open, exit>>

\* An instruction that accesses registers of the devices takes their lock again.
CoreExecutes ==
  /\ \E from \in {"execute", "executes"}, next \in {"access", "unlock"} : Goes(core, from, next)
  /\ UNCHANGED <<options, is_running, cycles, gba, gba_io, poisoned, open, exit>>

CoreAccesses ==
  /\ Goes(core, "access", "in access") /\ TakesIo(core)
  /\ UNCHANGED <<options, is_running, cycles, gba, poisoned, open, exit>>

CoreAccessed ==
  /\ Goes(core, "in access", "unlock")
  /\ gba_io' = Free
  /\ UNCHANGED <<options, is_running, cycles, gba, poisoned, open, exit>>

\* One guard for all cycles.
CoreUnlocks_KeepsGuard ==
  /\ Goes(core, "unlock", "devices")
  /\ UNCHANGED <<options, is_running, cycles, gba, gba_io, poisoned, open, exit>>

CoreUnlocks ==
  /\ Goes(core, "unlock", IF cycles = 1 THEN "check" ELSE "lock")
  /\ cycles' = cycles - 1
  /\ gba' = Free
  /\ UNCHANGED <<options, is_running, gba_io, poisoned, open, exit>>

\* A todo! or an unreachable!, of the devices, an instruction or an access.
CorePanics == pc[core] \in {"in devices", "execute", "executes", "in access"} /\ Panics(core)

CoreRuns ==
  \/ CoreChecks \/ CoreReleasesDevices \/ CoreAsks \/ CoreExecutes
  \/ CoreAccessed \/ CoreUnlocks

CoreGets ==
  \/ CoreLocks \/ CoreRunsDevices \/ CoreAsksInterrupt \/ CoreRefuses \/ CoreAccesses

-----------------------------------------------------------------------------
(* The main thread and its window. *)

main == "main"

\* The loop left without a word to the other threads.
MainChecks_Silently ==
  /\ Goes(main, "check", IF "main" \in open /\ is_running THEN "lock" ELSE "join")
  /\ UNCHANGED <<options, is_running, cycles, gba, gba_io, poisoned, open, exit>>

MainChecks ==
  /\ Goes(main, "check", IF "main" \in open /\ is_running THEN "lock" ELSE "join")
  /\ is_running' = (is_running /\ "main" \in open)
  /\ UNCHANGED <<options, cycles, gba, gba_io, poisoned, open, exit>>

\* The main thread and the windows of the palette and the memory take the Gba
\* first.
Locks(t) ==
  /\ Goes(t, "lock", "picture") /\ TakesGba(t)
  /\ UNCHANGED <<options, is_running, cycles, gba_io, poisoned, open, exit>>

TakesPicture(t) ==
  /\ Goes(t, "picture", "in picture") /\ TakesIo(t)
  /\ UNCHANGED <<options, is_running, cycles, gba, poisoned, open, exit>>

HasPicture(t) ==
  /\ Goes(t, "in picture", "show")
  /\ gba' = Free /\ gba_io' = Free
  /\ UNCHANGED <<options, is_running, cycles, poisoned, open, exit>>

Shows(t) ==
  /\ Goes(t, "show", "check")
  /\ UNCHANGED <<options, is_running, cycles, gba, gba_io, poisoned, open, exit>>

\* A picture without its colours, or a reset, if the user asks for it.
KeyPressed ==
  /\ Goes(main, "show", "lock")
  /\ UNCHANGED <<options, is_running, cycles, gba, gba_io, poisoned, open, exit>>

Ended(t) == pc[t] \in {"done", "panicked"}

\* A join of the windows' threads only.
MainJoins_NotCore ==
  /\ \A t \in Viewers : Ended(t)
  /\ Goes(main, "join", "final")
  /\ UNCHANGED <<options, is_running, cycles, gba, gba_io, poisoned, open, exit>>

MainJoins ==
  /\ \A t \in Threads \ {main} : Ended(t)
  /\ Goes(main, "join", "final")
  /\ UNCHANGED <<options, is_running, cycles, gba, gba_io, poisoned, open, exit>>

MainTakesLast ==
  /\ Goes(main, "final", "final picture") /\ TakesGba(main)
  /\ UNCHANGED <<options, is_running, cycles, gba_io, poisoned, open, exit>>

MainSavesLast ==
  /\ Goes(main, "final picture", "done") /\ TakesIo(main)
  /\ exit' = "ok"
  /\ UNCHANGED <<options, is_running, cycles, gba, poisoned, open>>

-----------------------------------------------------------------------------
(* The threads of the other windows. *)

ViewerChecks(t) ==
  /\ Goes(t, "check", CASE ~(t \in open /\ is_running) -> "done"
                        [] t = "tilemaps"              -> "load"
                        [] OTHER                       -> "lock")
  /\ UNCHANGED <<options, is_running, cycles, gba, gba_io, poisoned, open, exit>>

\* The window of the tile maps takes the Gba once, for a handle of the GbaIo.
ClonesIo ==
  /\ gba = Free /\ "gba" \notin poisoned
  /\ Goes("tilemaps", "clone", "check")
  /\ UNCHANGED <<options, is_running, cycles, gba, gba_io, poisoned, open, exit>>

\* And then the GbaIo alone: for the tiles, the palette, and each pixel.
LoadsTiles ==
  /\ Goes("tilemaps", "load", "in load") /\ TakesIo("tilemaps")
  /\ UNCHANGED <<options, is_running, cycles, gba, poisoned, open, exit>>

LoadedTiles(next) ==
  /\ Goes("tilemaps", "in load", next)
  /\ gba_io' = Free
  /\ UNCHANGED <<options, is_running, cycles, gba, poisoned, open, exit>>

\* Addresses where nothing is, or a register that cannot be read, are no less a
\* panic for the window that shows the memory.
MemoryPanics == pc["memory"] \in {"picture", "in picture"} /\ Panics("memory")

-----------------------------------------------------------------------------

Closes(window) ==
  /\ exit = "none" /\ window \in open
  /\ open' = open \ {window}
  /\ UNCHANGED <<options, is_running, pc, cycles, gba, gba_io, poisoned, exit>>

Exited == exit # "none" /\ UNCHANGED vars

\* Steps of one thread that do not take a lock that others take.
Works(t) ==
  \/ t = core /\ CoreRuns
  \/ t = main /\ (MainChecks \/ MainJoins)
  \/ t \in Viewers /\ ViewerChecks(t)
  \/ t = "tilemaps" /\ (LoadedTiles("load") \/ LoadedTiles("show"))
  \/ t # core /\ (HasPicture(t) \/ Shows(t))
  \/ FindsPoison(t)

\* Steps that wait for one.
Gets(t) ==
  \/ t = core /\ CoreGets
  \/ t = main /\ (MainTakesLast \/ MainSavesLast)
  \/ t = "tilemaps" /\ (ClonesIo \/ LoadsTiles)
  \/ t # core /\ (Locks(t) \/ TakesPicture(t))

Next ==
  \/ \E t \in Threads : Works(t) \/ Gets(t)
  \/ CorePanics \/ MemoryPanics
  \/ UserAnswers \/ KeyPressed
  \/ \E window \in Viewers \cup {"main"} : Closes(window)
  \/ Exited

\* The threads are scheduled; a thread that waits for a lock gets it, if it is
\* released again and again; the user answers, and keeps no key pressed for ever;
\* there are so many pixels and no more.
Fairness ==
  /\ \A t \in Threads : WF_vars(Works(t)) /\ SF_vars(Gets(t))
  /\ WF_vars(UserAnswers)
  /\ SF_vars(Shows(main))
  /\ SF_vars(LoadedTiles("show"))

Spec == Init /\ [][Next]_vars /\ Fairness

-----------------------------------------------------------------------------

\* Who has the Gba waits at most for the GbaIo, and who has the GbaIo for no other
\* thread, whether it has the Gba or not; and nobody ends with one of them.  So no
\* threads wait for each other, in a circle of whatever length, or for an ended one.
NoCircularWait ==
  exit = "none" =>
    /\ gba # Free => ~Ended(gba) /\ ~WaitsForGba(gba) /\ pc[gba] # "join"
    /\ gba_io # Free =>
         /\ ~Ended(gba_io) /\ pc[gba_io] # "join"
         /\ ~WaitsForGba(gba_io) /\ ~WaitsForIo(gba_io)

\* The program that ends without a panic has ended every thread before it saves
\* the last picture, and the locks are the main thread's and were never poisoned.
CleanExit ==
  exit = "ok" =>
    /\ ~is_running /\ poisoned = {}
    /\ \A t \in Threads \ {main} : pc[t] = "done"
    /\ gba = main /\ gba_io = main

\* The window of the tile maps does not need the Gba, and without the main window
\* nothing else tells it to end.
TilesKeepItRunning == "tilemaps" \in open /\ "headless" \in options

\* After the main window is closed, or a thread has panicked with the Gba, the
\* program ends: no two threads wait for each other, and every loop hears of it.
ProgramEnds ==
  \/ "main" \notin open /\ "headless" \notin options
  \/ "gba" \in poisoned /\ ~TilesKeepItRunning
  ~> exit # "none"

\* Every window that waits for a picture gets it, however long the core thread
\* runs and the debugger asks, or its thread, or the program, has ended.
WindowsKeepUp ==
  \A t \in Threads \ {core} :
    WaitsForGba(t) \/ WaitsForIo(t) ~> (pc[t] = "show" \/ Ended(t) \/ exit # "none")

=============================================================================
