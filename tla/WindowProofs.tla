----------------------------- MODULE WindowProofs -----------------------------
(***************************************************************************)
(* Proofs about the window program.  Its threads, for every set of options *)
(* and every length of the core's batches: who holds a lock is who is at a *)
(* place where it is needed, a thread that panicked left poison behind,    *)
(* and an end without a panic is a clean one.  And the picture its main    *)
(* window shows of the lcd, for every number of lines and ticks.           *)
(***************************************************************************)
EXTENDS Frontend, LcdTiming, Integers, TLAPS

-----------------------------------------------------------------------------
(* Where a thread has the locks. *)

GbaPlaces ==
  {"devices", "in devices", "interrupts", "refuse", "execute", "prompt", "executes",
   "access", "in access", "unlock", "picture", "in picture", "final picture"}
IoPlaces == {"in devices", "in access", "in picture", "in load"}

\* A thread at such a place has the lock, so there is one at most, and a Gba that is
\* held is not poisoned.
LocksHeld ==
  \A t \in Threads :
    /\ pc[t] \in GbaPlaces => gba = t /\ "gba" \notin poisoned
    /\ pc[t] \in IoPlaces => gba_io = t

\* The core and the memory's thread only panic with the Gba, so every panic is
\* one with a lock or one because of a poisoned lock.
PanicsPoison == (\E t \in Threads : pc[t] = "panicked") => poisoned # {}

\* The core's loop ends when it sees is_running gone; it does not come back.
CoreEndsLast == pc[core] = "done" => ~is_running

\* The main thread is past the joins when the others have ended.
JoinsAll ==
  pc[main] \in {"final", "final picture", "done"} =>
    \A t \in Threads \ {main} : Ended(t)

ExitInv ==
  /\ pc = [t \in Threads |-> pc[t]]
  /\ poisoned \subseteq {"gba", "gba_io"}
  /\ LocksHeld /\ PanicsPoison /\ CoreEndsLast /\ JoinsAll /\ CleanExit

-----------------------------------------------------------------------------

\* No thread is a free lock.
LEMMA ThreadsAreNames ==
  Free \notin Threads /\ core \in Threads /\ main \in Threads /\ core # main
    /\ Viewers \subseteq Threads /\ main \notin Viewers /\ core \notin Viewers
BY DEF Free, Threads, Viewers, core, main

\* The program starts with its locks free and all its threads before their ends.
LEMMA InitExit == Init => ExitInv
<1> SUFFICES ASSUME Init PROVE ExitInv
  OBVIOUS
<1>1. /\ pc = [t \in Threads |-> pc[t]] /\ exit = "none" /\ poisoned = {}
      /\ \A t \in Threads : pc[t] \in {"check", "join", "clone", "done"}
      /\ pc[core] = "check" /\ pc[main] \in {"check", "join"}
  BY DEF Init, Threads, Viewers, core, main
<1>2. LocksHeld
  BY <1>1 DEF LocksHeld, GbaPlaces, IoPlaces
<1>3. PanicsPoison /\ CoreEndsLast /\ JoinsAll /\ CleanExit
  BY <1>1 DEF PanicsPoison, CoreEndsLast, JoinsAll, CleanExit
<1>4. QED
  BY <1>1, <1>2, <1>3 DEF ExitInv

\* A panic: what the thread held is free and poisoned.
LEMMA PanicKeepsExit ==
  ASSUME ExitInv, NEW t \in Threads, Panics(t), ~Ended(t),
         gba = t \/ poisoned # {}
  PROVE  ExitInv'
<1>1. /\ pc' = [pc EXCEPT ![t] = "panicked"] /\ exit = "none"
      /\ poisoned' = poisoned \cup (IF gba = t THEN {"gba"} ELSE {})
                              \cup (IF gba_io = t THEN {"gba_io"} ELSE {})
      /\ gba' = IF gba = t THEN Free ELSE gba
      /\ gba_io' = IF gba_io = t THEN Free ELSE gba_io
      /\ exit' = (IF t = "main" THEN "panic" ELSE exit) /\ is_running' = is_running
  BY DEF Panics
<1>2. /\ pc' = [u \in Threads |-> pc'[u]] /\ pc'[t] = "panicked"
      /\ \A u \in Threads : u # t => pc'[u] = pc[u]
  BY <1>1 DEF ExitInv
<1>3. LocksHeld'
  BY <1>1, <1>2 DEF ExitInv, LocksHeld, GbaPlaces, IoPlaces
<1>4. PanicsPoison' /\ poisoned' \subseteq {"gba", "gba_io"}
  BY <1>1 DEF ExitInv, PanicsPoison
<1>5. CoreEndsLast'
  BY <1>1, <1>2, ThreadsAreNames DEF ExitInv, CoreEndsLast
<1>6. JoinsAll'
  BY <1>1, <1>2, ThreadsAreNames DEF ExitInv, JoinsAll, Ended
<1>7. CleanExit'
  BY <1>1 DEF CleanExit
<1>8. QED
  BY <1>2, <1>3, <1>4, <1>5, <1>6, <1>7 DEF ExitInv

\* A thread goes on, to a place whose locks it has and that is no end.
LEMMA GoingOnKeepsExit ==
  ASSUME ExitInv, NEW t \in Threads, NEW from, NEW to, Goes(t, from, to),
         t = main => from \notin {"final", "final picture", "done"},
         to \notin {"panicked", "final", "final picture"},
         from \notin {"done", "panicked"},
         to = "done" => t # main /\ (t = core => ~is_running'),
         is_running' => is_running,
         poisoned' = poisoned, exit' = exit,
         to \in GbaPlaces => gba' = t /\ "gba" \notin poisoned,
         to \in IoPlaces => gba_io' = t,
         gba' = gba \/ gba = t \/ gba = Free,
         gba_io' = gba_io \/ gba_io = t \/ gba_io = Free
  PROVE  ExitInv'
<1>1. exit = "none" /\ pc[t] = from /\ pc' = [pc EXCEPT ![t] = to]
  BY DEF Goes
<1>2. /\ pc' = [u \in Threads |-> pc'[u]] /\ pc'[t] = to
      /\ \A u \in Threads : u # t => pc'[u] = pc[u]
  BY <1>1 DEF ExitInv
<1>3. LocksHeld'
  <2> SUFFICES ASSUME NEW u \in Threads
               PROVE  /\ pc'[u] \in GbaPlaces => gba' = u /\ "gba" \notin poisoned'
                      /\ pc'[u] \in IoPlaces => gba_io' = u
    BY DEF LocksHeld
  <2>1. CASE u = t
    BY <1>2, <2>1
  <2>2. CASE u # t
    BY <1>2, <2>2, ThreadsAreNames DEF ExitInv, LocksHeld
  <2>3. QED
    BY <2>1, <2>2
<1>4. PanicsPoison'
  BY <1>2 DEF ExitInv, PanicsPoison
<1>5. CoreEndsLast'
  BY <1>2, ThreadsAreNames DEF ExitInv, CoreEndsLast
<1>6. JoinsAll'
  <2> SUFFICES ASSUME pc'[main] \in {"final", "final picture", "done"},
                      NEW u \in Threads \ {main}
               PROVE  pc'[u] \in {"done", "panicked"}
    BY DEF JoinsAll, Ended
  <2>1. t # main
    BY <1>2
  <2>2. pc[main] \in {"final", "final picture", "done"}
    BY <1>2, <2>1, ThreadsAreNames
  <2>3. pc[t] \in {"done", "panicked"} /\ pc[u] \in {"done", "panicked"}
    BY <2>1, <2>2 DEF ExitInv, JoinsAll, Ended
  <2>4. QED
    BY <1>1, <2>3
<1>7. CleanExit'
  BY <1>1 DEF CleanExit
<1>8. QED
  BY <1>2, <1>3, <1>4, <1>5, <1>6, <1>7 DEF ExitInv

-----------------------------------------------------------------------------
(* Every step. *)

\* The core thread, cycle by cycle.
LEMMA CoreStepKeepsExit ==
  ASSUME ExitInv, CoreRuns \/ CoreGets \/ UserAnswers
  PROVE  ExitInv'
<1> USE ThreadsAreNames
<1>0. LocksHeld
  BY DEF ExitInv
<1>1. CASE CoreChecks
  <2>1. CASE is_running
    BY <1>1, <2>1, GoingOnKeepsExit DEF CoreChecks, GbaPlaces, IoPlaces
  <2>2. CASE ~is_running
    BY <1>1, <2>2, GoingOnKeepsExit DEF CoreChecks, GbaPlaces, IoPlaces
  <2>3. QED
    BY <2>1, <2>2
<1>2. CASE CoreLocks
  <2>1. Goes(core, "lock", "devices") /\ gba = Free /\ gba' = core /\ "gba" \notin poisoned
    BY <1>2 DEF CoreLocks, TakesGba
  <2>2. UNCHANGED <<is_running, gba_io, poisoned, exit>>
    BY <1>2 DEF CoreLocks
  <2>3. QED
    BY <2>1, <2>2, GoingOnKeepsExit DEF GbaPlaces, IoPlaces
<1>3. CASE CoreRunsDevices \/ CoreAccesses
  <2>1. PICK from \in {"devices", "access"}, to \in {"in devices", "in access"} :
          Goes(core, from, to)
    BY <1>3 DEF CoreRunsDevices, CoreAccesses
  <2>2. gba_io = Free /\ gba_io' = core /\ UNCHANGED <<is_running, gba, poisoned, exit>>
    BY <1>3 DEF CoreRunsDevices, CoreAccesses, TakesIo
  <2>3. gba = core /\ "gba" \notin poisoned
    BY <1>0, <2>1 DEF LocksHeld, Goes, GbaPlaces
  <2>4. QED
    BY <2>1, <2>2, <2>3, GoingOnKeepsExit DEF GbaPlaces, IoPlaces
<1>4. CASE CoreReleasesDevices \/ CoreAccessed
  <2>1. PICK from \in {"in devices", "in access"}, to \in {"interrupts", "unlock"} :
          Goes(core, from, to)
    BY <1>4 DEF CoreReleasesDevices, CoreAccessed
  <2>2. UNCHANGED <<is_running, gba, poisoned, exit>>
    BY <1>4 DEF CoreReleasesDevices, CoreAccessed
  <2>3. gba = core /\ gba_io = core /\ "gba" \notin poisoned
    BY <1>0, <2>1 DEF LocksHeld, Goes, GbaPlaces, IoPlaces
  <2>4. QED
    BY <2>1, <2>2, <2>3, GoingOnKeepsExit DEF GbaPlaces, IoPlaces
<1>5. CASE CoreAsksInterrupt \/ CoreRefuses \/ CoreAsks \/ UserAnswers \/ CoreExecutes
  <2>1. PICK from \in {"interrupts", "refuse", "execute", "prompt", "executes"},
             to \in {"refuse", "execute", "prompt", "executes", "unlock", "access"} :
          Goes(core, from, to)
    BY <1>5 DEF CoreAsksInterrupt, CoreRefuses, CoreAsks, UserAnswers, CoreExecutes
  <2>2. UNCHANGED <<is_running, gba, gba_io, poisoned, exit>>
    BY <1>5 DEF CoreAsksInterrupt, CoreRefuses, CoreAsks, UserAnswers, CoreExecutes
  <2>3. gba = core /\ "gba" \notin poisoned
    BY <1>0, <2>1 DEF LocksHeld, Goes, GbaPlaces
  <2>4. QED
    BY <2>1, <2>2, <2>3, GoingOnKeepsExit DEF GbaPlaces, IoPlaces
<1>6. CASE CoreUnlocks
  <2>1. PICK to \in {"check", "lock"} : Goes(core, "unlock", to)
    BY <1>6 DEF CoreUnlocks
  <2>2. UNCHANGED <<is_running, gba_io, poisoned, exit>>
    BY <1>6 DEF CoreUnlocks
  <2>3. gba = core /\ "gba" \notin poisoned
    BY <1>0, <2>1 DEF LocksHeld, Goes, GbaPlaces
  <2>4. QED
    BY <2>1, <2>2, <2>3, GoingOnKeepsExit DEF GbaPlaces, IoPlaces
<1>7. QED
  BY <1>1, <1>2, <1>3, <1>4, <1>5, <1>6 DEF CoreRuns, CoreGets

\* The windows' threads, and what they share with the main thread.
LEMMA WindowStepKeepsExit ==
  ASSUME ExitInv, NEW t \in Threads \ {core},
         \/ Locks(t) \/ TakesPicture(t) \/ HasPicture(t) \/ Shows(t)
         \/ t \in Viewers /\ ViewerChecks(t)
         \/ t = "tilemaps" /\ (ClonesIo \/ LoadsTiles \/ LoadedTiles("load") \/ LoadedTiles("show"))
  PROVE  ExitInv'
<1> USE ThreadsAreNames
<1>0. LocksHeld
  BY DEF ExitInv
<1>1. CASE Locks(t)
  <2>1. Goes(t, "lock", "picture") /\ gba = Free /\ gba' = t /\ "gba" \notin poisoned
    BY <1>1 DEF Locks, TakesGba
  <2>2. UNCHANGED <<is_running, gba_io, poisoned, exit>>
    BY <1>1 DEF Locks
  <2>3. QED
    BY <2>1, <2>2, GoingOnKeepsExit DEF GbaPlaces, IoPlaces
<1>2. CASE TakesPicture(t)
  <2>1. Goes(t, "picture", "in picture") /\ gba_io = Free /\ gba_io' = t
    BY <1>2 DEF TakesPicture, TakesIo
  <2>2. UNCHANGED <<is_running, gba, poisoned, exit>>
    BY <1>2 DEF TakesPicture
  <2>3. gba = t /\ "gba" \notin poisoned
    BY <1>0, <2>1 DEF LocksHeld, Goes, GbaPlaces
  <2>4. QED
    BY <2>1, <2>2, <2>3, GoingOnKeepsExit DEF GbaPlaces, IoPlaces
<1>3. CASE HasPicture(t)
  <2>1. Goes(t, "in picture", "show") /\ UNCHANGED <<is_running, poisoned, exit>>
    BY <1>3 DEF HasPicture
  <2>2. gba = t /\ gba_io = t
    BY <1>0, <2>1 DEF LocksHeld, Goes, GbaPlaces, IoPlaces
  <2>3. QED
    BY <2>1, <2>2, GoingOnKeepsExit DEF GbaPlaces, IoPlaces
<1>4. CASE Shows(t)
  BY <1>4, GoingOnKeepsExit DEF Shows, GbaPlaces, IoPlaces
<1>5. CASE t \in Viewers /\ ViewerChecks(t)
  <2>1. PICK to \in {"done", "load", "lock"} : Goes(t, "check", to)
    BY <1>5 DEF ViewerChecks
  <2>2. UNCHANGED <<is_running, gba, gba_io, poisoned, exit>>
    BY <1>5 DEF ViewerChecks
  <2>3. QED
    BY <1>5, <2>1, <2>2, GoingOnKeepsExit DEF GbaPlaces, IoPlaces
<1>6. CASE t = "tilemaps" /\ ClonesIo
  BY <1>6, GoingOnKeepsExit DEF ClonesIo, GbaPlaces, IoPlaces
<1>7. CASE t = "tilemaps" /\ LoadsTiles
  BY <1>7, GoingOnKeepsExit DEF LoadsTiles, TakesIo, GbaPlaces, IoPlaces
<1>8. CASE t = "tilemaps" /\ (LoadedTiles("load") \/ LoadedTiles("show"))
  <2>1. PICK to \in {"load", "show"} : Goes(t, "in load", to)
    BY <1>8 DEF LoadedTiles
  <2>2. UNCHANGED <<is_running, gba, poisoned, exit>>
    BY <1>8 DEF LoadedTiles
  <2>3. gba_io = t
    BY <1>0, <2>1 DEF LocksHeld, Goes, IoPlaces
  <2>4. QED
    BY <2>1, <2>2, <2>3, GoingOnKeepsExit DEF GbaPlaces, IoPlaces
<1>9. QED
  BY <1>1, <1>2, <1>3, <1>4, <1>5, <1>6, <1>7, <1>8

\* The main thread before and after the joins.
LEMMA MainStepKeepsExit ==
  ASSUME ExitInv, MainChecks \/ KeyPressed \/ MainJoins \/ MainTakesLast \/ MainSavesLast
  PROVE  ExitInv'
<1> USE ThreadsAreNames
<1>1. CASE MainChecks
  <2>1. PICK to \in {"lock", "join"} : Goes(main, "check", to)
    BY <1>1 DEF MainChecks
  <2>2. UNCHANGED <<gba, gba_io, poisoned, exit>> /\ (is_running' => is_running)
    BY <1>1 DEF MainChecks
  <2>3. QED
    BY <2>1, <2>2, GoingOnKeepsExit DEF GbaPlaces, IoPlaces
<1>2. CASE KeyPressed
  BY <1>2, GoingOnKeepsExit DEF KeyPressed, GbaPlaces, IoPlaces
<1>3. CASE MainJoins \/ MainTakesLast \/ MainSavesLast
  <2>1. PICK to \in {"final", "final picture", "done"} :
          pc' = [pc EXCEPT ![main] = to] /\ (to = "final picture" => MainTakesLast)
            /\ (to = "done" => MainSavesLast)
    BY <1>3 DEF MainJoins, MainTakesLast, MainSavesLast, Goes
  <2>2. /\ pc' = [u \in Threads |-> pc'[u]] /\ pc'[main] = to
        /\ \A u \in Threads : u # main => pc'[u] = pc[u]
    BY <2>1 DEF ExitInv
  <2>3. \A u \in Threads \ {main} : Ended(u)
    <3>1. CASE MainJoins
      BY <3>1 DEF MainJoins
    <3>2. CASE MainTakesLast \/ MainSavesLast
      BY <3>2 DEF MainTakesLast, MainSavesLast, Goes, ExitInv, JoinsAll
    <3>3. QED
      BY <1>3, <3>1, <3>2
  <2>4. \A u \in Threads \ {main} : pc'[u] \in {"done", "panicked"}
    BY <2>2, <2>3 DEF Ended
  <2>5. UNCHANGED <<is_running, poisoned>> /\ exit = "none"
    BY <1>3 DEF MainJoins, MainTakesLast, MainSavesLast, Goes
  <2>6. LocksHeld'
    BY <2>1, <2>2, <2>4 DEF LocksHeld, GbaPlaces, IoPlaces, MainTakesLast, TakesGba
  <2>7. PanicsPoison' /\ CoreEndsLast' /\ JoinsAll'
    BY <2>2, <2>4, <2>5 DEF ExitInv, PanicsPoison, CoreEndsLast, JoinsAll, Ended
  <2>8. CleanExit'
    <3>1. CASE MainJoins \/ MainTakesLast
      BY <2>5, <3>1 DEF MainJoins, MainTakesLast, CleanExit
    <3>2. CASE MainSavesLast
      <4>1. /\ gba' = main /\ gba_io' = main
            /\ "gba" \notin poisoned /\ "gba_io" \notin poisoned
        BY <3>2 DEF MainSavesLast, TakesIo, Goes, ExitInv, LocksHeld, GbaPlaces
      <4>2. QED
        BY <2>2, <2>4, <2>5, <4>1 DEF CleanExit, ExitInv, PanicsPoison, CoreEndsLast
    <3>3. QED
      BY <1>3, <3>1, <3>2
  <2>9. QED
    BY <2>2, <2>5, <2>6, <2>7, <2>8 DEF ExitInv
<1>4. QED
  BY <1>1, <1>2, <1>3

\* What is left: panics, windows that are closed, the end.
LEMMA StepKeepsExit == ExitInv /\ [Next]_vars => ExitInv'
<1> SUFFICES ASSUME ExitInv, [Next]_vars PROVE ExitInv'
  OBVIOUS
<1> USE ThreadsAreNames
<1>0. LocksHeld
  BY DEF ExitInv
<1>1. ASSUME NEW t \in Threads, FindsPoison(t) PROVE ExitInv'
  <2>1. Panics(t) /\ poisoned # {} /\ ~Ended(t)
    BY <1>1 DEF FindsPoison, WaitsForGba, WaitsForIo, Ended
  <2>2. QED
    BY <2>1, PanicKeepsExit
<1>2. CASE CorePanics
  <2>1. Panics(core) /\ gba = core /\ ~Ended(core)
    BY <1>0, <1>2 DEF CorePanics, LocksHeld, GbaPlaces, Ended
  <2>2. QED
    BY <2>1, PanicKeepsExit
<1>3. CASE MemoryPanics
  <2>1. "memory" \in Threads
    BY DEF Threads, Viewers
  <2>2. Panics("memory") /\ gba = "memory" /\ ~Ended("memory")
    BY <1>0, <1>3, <2>1 DEF MemoryPanics, LocksHeld, GbaPlaces, Ended
  <2>3. QED
    BY <2>1, <2>2, PanicKeepsExit
<1>4. CASE UNCHANGED <<is_running, pc, gba, gba_io, poisoned, exit>>
  BY <1>4 DEF ExitInv, LocksHeld, PanicsPoison, CoreEndsLast, JoinsAll, Ended, CleanExit
<1>5. ASSUME NEW t \in Threads, Works(t) \/ Gets(t) PROVE ExitInv'
  <2>1. CASE FindsPoison(t)
    BY <2>1, <1>1
  <2>2. CASE CoreRuns \/ CoreGets
    BY <2>2, CoreStepKeepsExit
  <2>3. CASE MainChecks \/ MainJoins \/ MainTakesLast \/ MainSavesLast
    BY <2>3, MainStepKeepsExit
  <2>4. CASE /\ t # core
             /\ \/ Locks(t) \/ TakesPicture(t) \/ HasPicture(t) \/ Shows(t)
                \/ t \in Viewers /\ ViewerChecks(t)
                \/ t = "tilemaps"
                     /\ (ClonesIo \/ LoadsTiles \/ LoadedTiles("load") \/ LoadedTiles("show"))
    BY <2>4, WindowStepKeepsExit
  <2>5. "tilemaps" # core
    BY DEF core
  <2>6. QED
    BY <1>5, <2>1, <2>2, <2>3, <2>4, <2>5 DEF Works, Gets
<1>6. CASE UserAnswers \/ KeyPressed
  BY <1>6, CoreStepKeepsExit, MainStepKeepsExit
<1>7. CASE \E window \in Viewers \cup {"main"} : Closes(window)
  BY <1>4, <1>7 DEF Closes
<1>8. CASE Exited \/ UNCHANGED vars
  BY <1>4, <1>8 DEF Exited, vars
<1>9. QED
  BY <1>2, <1>3, <1>5, <1>6, <1>7, <1>8 DEF Next

\* A program that ends without a panic has ended every thread, and its locks were
\* never poisoned: whatever windows it has, however threads, panics of the core
\* and of the memory's window, and closed windows interleave.
THEOREM ExitIsClean == Spec => []CleanExit
<1>1. ExitInv => CleanExit
  BY DEF ExitInv
<1>2. QED
  BY <1>1, InitExit, StepKeepsExit, PTL DEF Spec

-----------------------------------------------------------------------------
(* Who has a lock. *)

\* The other direction of LocksHeld: as long as the program runs, a lock that is not
\* free is one of a thread that is at a place where it is needed.
HoldersAtPlaces ==
  exit = "none" =>
    /\ gba # Free => gba \in Threads /\ pc[gba] \in GbaPlaces
    /\ gba_io # Free => gba_io \in Threads /\ pc[gba_io] \in IoPlaces

\* Where threads are without the Gba, and without the GbaIo.
LEMMA Places ==
  /\ \A p \in {"check", "lock", "clone", "load", "show", "join", "final", "done", "panicked"} :
       p \notin GbaPlaces /\ p \notin IoPlaces
  /\ \A p \in {"devices", "interrupts", "refuse", "execute", "prompt", "executes", "access",
               "unlock", "picture"} :
       p \in GbaPlaces /\ p \notin IoPlaces
  /\ "final picture" \in GbaPlaces /\ "in load" \in IoPlaces /\ "in load" \notin GbaPlaces
BY DEF GbaPlaces, IoPlaces

\* A thread goes on: with a lock it takes to where it needs it, and with a lock it has
\* to where it needs it still.
LEMMA GoingOnKeepsHolders ==
  ASSUME HoldersAtPlaces, NEW t \in Threads, NEW from, NEW to, Goes(t, from, to),
         pc = [u \in Threads |-> pc[u]],
         gba' \in {gba, t, Free}, gba_io' \in {gba_io, t, Free},
         exit' = "none" /\ gba' = t => to \in GbaPlaces,
         exit' = "none" /\ gba_io' = t => to \in IoPlaces
  PROVE  HoldersAtPlaces'
<1>1. /\ exit = "none" /\ pc'[t] = to
      /\ \A u \in Threads : u # t => pc'[u] = pc[u]
  BY DEF Goes
<1>2. QED
  BY <1>1, ThreadsAreNames DEF HoldersAtPlaces

\* Who panics keeps nothing.
LEMMA PanicKeepsHolders ==
  ASSUME HoldersAtPlaces, NEW t \in Threads, Panics(t), pc = [u \in Threads |-> pc[u]]
  PROVE  HoldersAtPlaces'
<1>1. /\ exit = "none" /\ \A u \in Threads : u # t => pc'[u] = pc[u]
      /\ gba' = IF gba = t THEN Free ELSE gba
      /\ gba_io' = IF gba_io = t THEN Free ELSE gba_io
  BY DEF Panics
<1>2. QED
  BY <1>1 DEF HoldersAtPlaces

LEMMA CoreStepKeepsHolders ==
  ASSUME ExitInv, HoldersAtPlaces, CoreRuns \/ CoreGets \/ UserAnswers
  PROVE  HoldersAtPlaces'
<1> DEFINE Step(from, to) ==
      /\ Goes(core, from, to)
      /\ gba' \in {gba, core, Free} /\ gba_io' \in {gba_io, core, Free}
      /\ gba' = core => to \in GbaPlaces
      /\ gba_io' = core => to \in IoPlaces
<1>0. /\ core # Free /\ pc = [u \in Threads |-> pc[u]]
      /\ exit = "none" /\ gba = core => pc[core] \in GbaPlaces
      /\ exit = "none" /\ gba_io = core => pc[core] \in IoPlaces
      /\ \A from, to : Goes(core, from, to) => exit = "none" /\ pc[core] = from
  BY ThreadsAreNames DEF ExitInv, HoldersAtPlaces, Goes
<1>1. ASSUME CoreChecks PROVE \E from, to : Step(from, to)
  <2>1. Step("check", IF is_running THEN "lock" ELSE "done")
    BY <1>0, <1>1, Places DEF CoreChecks
  <2>2. QED
    BY <2>1
<1>2. ASSUME CoreLocks PROVE \E from, to : Step(from, to)
  <2>1. Step("lock", "devices")
    BY <1>0, <1>2, Places DEF CoreLocks, TakesGba
  <2>2. QED
    BY <2>1
<1>3. ASSUME CoreRunsDevices PROVE \E from, to : Step(from, to)
  <2>1. Step("devices", "in devices")
    BY <1>0, <1>3 DEF CoreRunsDevices, TakesIo, GbaPlaces, IoPlaces
  <2>2. QED
    BY <2>1
<1>4. ASSUME CoreReleasesDevices PROVE \E from, to : Step(from, to)
  <2>1. PICK next \in {"interrupts", "unlock"} : Goes(core, "in devices", next)
    BY <1>4 DEF CoreReleasesDevices
  <2>2. Step("in devices", next)
    BY <1>0, <1>4, <2>1 DEF CoreReleasesDevices, GbaPlaces
  <2>3. QED
    BY <2>2
<1>5. ASSUME CoreAsks PROVE \E from, to : Step(from, to)
  <2>1. Step("execute", "prompt")
    BY <1>0, <1>5, Places DEF CoreAsks
  <2>2. QED
    BY <2>1
<1>6. ASSUME UserAnswers PROVE \E from, to : Step(from, to)
  <2>1. PICK next \in {"executes", "unlock"} : Goes(core, "prompt", next)
    BY <1>6 DEF UserAnswers
  <2>2. Step("prompt", next)
    BY <1>0, <1>6, <2>1, Places DEF UserAnswers
  <2>3. QED
    BY <2>2
<1>7. ASSUME CoreExecutes PROVE \E from, to : Step(from, to)
  <2>1. PICK from \in {"execute", "executes"}, next \in {"access", "unlock"} :
               Goes(core, from, next)
    BY <1>7 DEF CoreExecutes
  <2>2. Step(from, next)
    BY <1>0, <1>7, <2>1 DEF CoreExecutes, GbaPlaces, IoPlaces
  <2>3. QED
    BY <2>2
<1>8. ASSUME CoreAccesses PROVE \E from, to : Step(from, to)
  <2>1. Step("access", "in access")
    BY <1>0, <1>8 DEF CoreAccesses, TakesIo, GbaPlaces, IoPlaces
  <2>2. QED
    BY <2>1
<1>9. ASSUME CoreAccessed PROVE \E from, to : Step(from, to)
  <2>1. Step("in access", "unlock")
    BY <1>0, <1>9 DEF CoreAccessed, GbaPlaces
  <2>2. QED
    BY <2>1
<1>10. ASSUME CoreUnlocks PROVE \E from, to : Step(from, to)
  <2>1. Step("unlock", IF cycles = 1 THEN "check" ELSE "lock")
    BY <1>0, <1>10, Places DEF CoreUnlocks
  <2>2. QED
    BY <2>1
<1>11. ASSUME CoreAsksInterrupt PROVE \E from, to : Step(from, to)
  <2>1. PICK next \in {"refuse", "execute"} : Goes(core, "interrupts", next)
    BY <1>11 DEF CoreAsksInterrupt
  <2>2. Step("interrupts", next)
    BY <1>0, <1>11, <2>1, Places DEF CoreAsksInterrupt
  <2>3. QED
    BY <2>2
<1>12. ASSUME CoreRefuses PROVE \E from, to : Step(from, to)
  <2>1. Step("refuse", "execute")
    BY <1>0, <1>12, Places DEF CoreRefuses
  <2>2. QED
    BY <2>1
<1>13. \E from, to : Step(from, to)
  BY <1>1, <1>2, <1>3, <1>4, <1>5, <1>6, <1>7, <1>8, <1>9, <1>10, <1>11, <1>12, Zenon
  DEF CoreRuns, CoreGets
<1>14. QED
  BY <1>0, <1>13, ThreadsAreNames, GoingOnKeepsHolders

\* The windows take the GbaIo in the Gba and release both at once; the one of the tile
\* maps takes the GbaIo only, and the main thread the Gba once more at the end.
LEMMA WindowStepKeepsHolders ==
  ASSUME ExitInv, HoldersAtPlaces, NEW t \in Threads, t # core,
         \/ Locks(t) \/ TakesPicture(t) \/ HasPicture(t) \/ Shows(t)
         \/ t = main /\ (MainChecks \/ MainJoins \/ MainTakesLast \/ MainSavesLast \/ KeyPressed)
         \/ t \in Viewers /\ ViewerChecks(t)
         \/ t = "tilemaps" /\ (ClonesIo \/ LoadsTiles \/ LoadedTiles("load")
                                 \/ LoadedTiles("show"))
  PROVE  HoldersAtPlaces'
<1> DEFINE Step(from, to) ==
      /\ Goes(t, from, to)
      /\ gba' \in {gba, t, Free} /\ gba_io' \in {gba_io, t, Free}
      /\ exit' = "none" /\ gba' = t => to \in GbaPlaces
      /\ exit' = "none" /\ gba_io' = t => to \in IoPlaces
<1>0. /\ t # Free /\ pc = [u \in Threads |-> pc[u]]
      /\ exit = "none" /\ gba = t => pc[t] \in GbaPlaces
      /\ exit = "none" /\ gba_io = t => pc[t] \in IoPlaces
      /\ \A from, to : Goes(t, from, to) => exit = "none" /\ pc[t] = from
  BY ThreadsAreNames DEF ExitInv, HoldersAtPlaces, Goes
<1>1. ASSUME Locks(t) PROVE \E from, to : Step(from, to)
  <2>1. Step("lock", "picture")
    BY <1>0, <1>1, Places DEF Locks, TakesGba
  <2>2. QED
    BY <2>1
<1>2. ASSUME TakesPicture(t) PROVE \E from, to : Step(from, to)
  <2>1. Step("picture", "in picture")
    BY <1>0, <1>2 DEF TakesPicture, TakesIo, GbaPlaces, IoPlaces
  <2>2. QED
    BY <2>1
<1>3. ASSUME HasPicture(t) PROVE \E from, to : Step(from, to)
  <2>1. Step("in picture", "show")
    BY <1>0, <1>3 DEF HasPicture
  <2>2. QED
    BY <2>1
<1>4. ASSUME Shows(t) PROVE \E from, to : Step(from, to)
  <2>1. Step("show", "check")
    BY <1>0, <1>4, Places DEF Shows
  <2>2. QED
    BY <2>1
<1>5. ASSUME t = main, MainChecks PROVE \E from, to : Step(from, to)
  <2>1. Step("check", IF "main" \in open /\ is_running THEN "lock" ELSE "join")
    BY <1>0, <1>5, Places DEF MainChecks
  <2>2. QED
    BY <2>1
<1>6. ASSUME t = main, MainJoins PROVE \E from, to : Step(from, to)
  <2>1. Step("join", "final")
    BY <1>0, <1>6, Places DEF MainJoins
  <2>2. QED
    BY <2>1
<1>7. ASSUME t = main, MainTakesLast PROVE \E from, to : Step(from, to)
  <2>1. /\ Goes(t, "final", "final picture") /\ gba' = t
        /\ UNCHANGED <<options, is_running, cycles, gba_io, poisoned, open, exit>>
    BY <1>7, Zenon DEF MainTakesLast, TakesGba
  <2>2. gba_io' = gba_io /\ exit' = exit
    BY <2>1
  <2>3. pc[t] = "final" /\ exit = "none"
    BY <1>0, <2>1, Zenon
  <2>4. gba_io # t
    BY <1>0, <2>3, Places
  <2>5. Step("final", "final picture")
    BY <2>1, <2>2, <2>4, Places, Zenon
  <2>6. QED
    BY <2>5
<1>8. ASSUME t = main, MainSavesLast PROVE \E from, to : Step(from, to)
  <2>1. Step("final picture", "done")
    BY <1>0, <1>8 DEF MainSavesLast, TakesIo
  <2>2. QED
    BY <2>1
<1>9. ASSUME t = main, KeyPressed PROVE \E from, to : Step(from, to)
  <2>1. Step("show", "lock")
    BY <1>0, <1>9, Places DEF KeyPressed
  <2>2. QED
    BY <2>1
<1>10. ASSUME ViewerChecks(t) PROVE \E from, to : Step(from, to)
  <2>1. PICK to : Goes(t, "check", to)
    BY <1>10 DEF ViewerChecks
  <2>2. Step("check", to)
    BY <1>0, <1>10, <2>1, Places DEF ViewerChecks
  <2>3. QED
    BY <2>2
<1>11. ASSUME t = "tilemaps", ClonesIo PROVE \E from, to : Step(from, to)
  <2>1. Step("clone", "check")
    BY <1>0, <1>11, Places DEF ClonesIo
  <2>2. QED
    BY <2>1
<1>12. ASSUME t = "tilemaps", LoadsTiles PROVE \E from, to : Step(from, to)
  <2>1. /\ Goes(t, "load", "in load") /\ gba_io' = t
        /\ UNCHANGED <<options, is_running, cycles, gba, poisoned, open, exit>>
    BY <1>12, Zenon DEF LoadsTiles, TakesIo
  <2>2. gba' = gba /\ exit' = exit
    BY <2>1
  <2>3. pc[t] = "load" /\ exit = "none"
    BY <1>0, <2>1, Zenon
  <2>4. gba # t
    BY <1>0, <2>3, Places
  <2>5. Step("load", "in load")
    BY <2>1, <2>2, <2>4, Places, Zenon
  <2>6. QED
    BY <2>5
<1>13. ASSUME t = "tilemaps", NEW to, LoadedTiles(to) PROVE \E from : Step(from, to)
  <2>1. /\ Goes(t, "in load", to) /\ gba_io' = Free
        /\ UNCHANGED <<options, is_running, cycles, gba, poisoned, open, exit>>
    BY <1>13, Zenon DEF LoadedTiles
  <2>2. gba' = gba /\ exit' = exit
    BY <2>1
  <2>3. gba # t
    BY <1>0, <2>1, Places, Zenon
  <2>4. Step("in load", to)
    BY <1>0, <2>1, <2>2, <2>3, Zenon
  <2>5. QED
    BY <2>4
<1>14. \E from, to : Step(from, to)
  <2> HIDE DEF Step
  <2> QED
    BY <1>1, <1>2, <1>3, <1>4, <1>5, <1>6, <1>7, <1>8, <1>9, <1>10, <1>11, <1>12, <1>13, Zenon
<1>15. QED
  BY <1>0, <1>14, GoingOnKeepsHolders

LEMMA StepKeepsHolders == ExitInv /\ HoldersAtPlaces /\ [Next]_vars => HoldersAtPlaces'
<1> SUFFICES ASSUME ExitInv, HoldersAtPlaces, [Next]_vars PROVE HoldersAtPlaces'
  OBVIOUS
<1>0. core \in Threads /\ main \in Threads /\ main # core /\ "memory" \in Threads
      /\ "tilemaps" # core /\ pc = [u \in Threads |-> pc[u]]
  BY DEF core, main, Threads, Viewers, ExitInv
<1>1. ASSUME NEW t \in Threads, Panics(t) PROVE HoldersAtPlaces'
  BY <1>0, <1>1, PanicKeepsHolders
<1>2. CASE CorePanics \/ MemoryPanics
  BY <1>0, <1>1, <1>2 DEF CorePanics, MemoryPanics
<1>3. CASE UNCHANGED <<pc, gba, gba_io, exit>>
  BY <1>3 DEF HoldersAtPlaces
<1>4. ASSUME NEW t \in Threads, Works(t) \/ Gets(t) PROVE HoldersAtPlaces'
  <2>1. CASE FindsPoison(t)
    BY <1>1, <2>1 DEF FindsPoison
  <2>2. CASE CoreRuns \/ CoreGets
    BY <2>2, CoreStepKeepsHolders
  <2>3. CASE /\ t # core
             /\ \/ Locks(t) \/ TakesPicture(t) \/ HasPicture(t) \/ Shows(t)
                \/ t = main /\ (MainChecks \/ MainJoins \/ MainTakesLast \/ MainSavesLast)
                \/ t \in Viewers /\ ViewerChecks(t)
                \/ t = "tilemaps" /\ (ClonesIo \/ LoadsTiles \/ LoadedTiles("load")
                                        \/ LoadedTiles("show"))
    BY <2>3, WindowStepKeepsHolders
  <2>4. t = main => t # core
    BY <1>0
  <2>5. t \in Viewers => t # core
    BY ThreadsAreNames
  <2>6. QED
    BY <1>0, <1>4, <2>1, <2>2, <2>3, <2>4, <2>5 DEF Works, Gets
<1>5. CASE UserAnswers
  BY <1>5, CoreStepKeepsHolders
<1>6. CASE KeyPressed
  BY <1>0, <1>6, WindowStepKeepsHolders
<1>7. CASE \E window \in Viewers \cup {"main"} : Closes(window)
  BY <1>3, <1>7 DEF Closes
<1>8. CASE Exited \/ UNCHANGED vars
  BY <1>3, <1>8 DEF Exited, vars
<1>9. QED
  BY <1>2, <1>4, <1>5, <1>6, <1>7, <1>8 DEF Next

\* Whoever has a lock is not waiting for one that another thread has while waiting for
\* the first: the Gba is taken before the GbaIo by all threads that take both, and no
\* thread ends, or joins the others, with one of them.
THEOREM LocksMakeNoCircle == Spec => []NoCircularWait
<1>1. Init => HoldersAtPlaces
  BY DEF Init, HoldersAtPlaces
<1>2. HoldersAtPlaces => NoCircularWait
  <2>1. /\ \A p \in GbaPlaces : p \notin {"done", "panicked", "lock", "clone", "final", "join"}
        /\ \A p \in IoPlaces : p \notin {"done", "panicked", "lock", "clone", "final", "join",
                                         "devices", "interrupts", "refuse", "access",
                                         "picture", "load", "final picture"}
    BY DEF GbaPlaces, IoPlaces
  <2>2. QED
    BY <2>1 DEF HoldersAtPlaces, NoCircularWait, Ended, WaitsForGba, WaitsForIo
<1>3. QED
  BY <1>1, <1>2, InitExit, StepKeepsExit, StepKeepsHolders, PTL DEF Spec

-----------------------------------------------------------------------------
(* The lcd and the window's buffer. *)

\* Where the counters of the lcd stand between two cycles.
RenderedInv ==
  /\ RenderedOnce
  /\ vertical_count > 0 => last_rendered_line = AtMost(vertical_count, VisibleLines)
  /\ vertical_count = 0 => last_rendered_line \in {0, VisibleLines}

\* AtMost is the smaller of its arguments.
LEMMA AtMostFact ==
  \A n, bound \in Nat : /\ AtMost(n, bound) \in 0..bound
                        /\ n < bound => AtMost(n, bound) = n
                        /\ n >= bound => AtMost(n, bound) = bound
  BY DEF AtMost

\* Counting keeps counts between 0 and LagCap.
LEMMA CountedTyped ==
  ASSUME NEW count \in [Visible -> 0..LagCap], NEW lines
  PROVE  Counted(count, lines) \in [Visible -> 0..LagCap]
  <1>1. ASSUME NEW l \in Visible
        PROVE  (IF l \in lines THEN AtMost(count[l] + 1, LagCap) ELSE count[l])
                 \in 0..LagCap
    <2>1. count[l] \in Nat /\ LagCap \in Nat
      BY LagAssumption
    <2>2. AtMost(count[l] + 1, LagCap) \in 0..LagCap
      BY <2>1 DEF AtMost
    <2> QED BY <2>2
  <1> QED BY <1>1 DEF Counted

\* The lcd's types are invariant (TypeOK), whatever the window's thread does.
LEMMA StepKeepsTypes == TypeOK /\ [LcdNext]_lcdVars => TypeOK'
  <1> SUFFICES ASSUME TypeOK, [LcdNext]_lcdVars PROVE TypeOK'
    OBVIOUS
  <1> USE LcdAssumption, LagAssumption
  <1>types. /\ vertical_count \in Nat /\ VisibleLines \in Nat
            /\ VisibleLines - 1 \in Nat /\ Never \in [Visible -> 0..LagCap]
    BY DEF TypeOK, Lines, Never
  <1>1. CASE CycleWithinLine
    BY <1>1 DEF CycleWithinLine, TypeOK, swapHistory
  <1>2. CASE CycleToNextLine
    <2>1. tick' \in 0..(TicksPerLine - 1)
      BY <1>2 DEF CycleToNextLine, StartsLine, TypeOK
    <2>2. vertical_count' \in Lines
      BY <1>2 DEF CycleToNextLine, LineAfter, TypeOK, Lines
    <2>3. last_rendered_line' \in 0..VisibleLines
      BY <1>2, <1>types, AtMostFact DEF CycleToNextLine
    <2>4. lag' \in [Visible -> 0..LagCap] /\ renders' \in [Visible -> 0..LagCap]
      BY <1>2, <1>types, CountedTyped DEF CycleToNextLine, TypeOK
    <2>5. /\ lines_since_swap' \in 0..VisibleLines
          /\ lines_since_late' \in 0..LinesOfFrame
      BY <1>2, <1>types, AtMostFact DEF CycleToNextLine, TypeOK, LinesOfFrame
    <2> QED BY <1>2, <2>1, <2>2, <2>3, <2>4, <2>5 DEF CycleToNextLine, TypeOK
  <1>3. CASE swap_buffers
    <2>1. SwapEnd \in 0..(VisibleLines - 1)
      BY <1>types, AtMostFact DEF SwapEnd
    <2> QED BY <1>3, <2>1 DEF swap_buffers, TypeOK, LinesOfFrame
  <1>4. CASE get_buffer_raw
    BY <1>4 DEF get_buffer_raw, TypeOK, swapHistory
  <1>5. CASE UNCHANGED lcdVars
    BY <1>5 DEF lcdVars, TypeOK, swapHistory
  <1> QED BY <1>1, <1>2, <1>3, <1>4, <1>5 DEF LcdNext

\* The counters and counts of LcdInit have their types.
LEMMA InitTyped == LcdInit => TypeOK
  BY LcdAssumption, LagAssumption
     DEF LcdInit, TypeOK, Never, Lines, LinesOfFrame

\* TypeOK holds always.
THEOREM TypeCorrect == LcdSpec => []TypeOK
  BY InitTyped, StepKeepsTypes, PTL DEF LcdSpec

-----------------------------------------------------------------------------
(* Every line is drawn once. *)

\* The lines a cycle draws: the one VCOUNT leaves, or none in the blank.
LEMMA DrawnIsTheLine ==
  ASSUME TypeOK, RenderedInv
  PROVE  Drawn = {l \in Visible : l = vertical_count}
  <1> USE LcdAssumption
  <1>types. vertical_count \in Nat /\ VisibleLines \in Nat \ {0}
    BY DEF TypeOK, Lines
  <1>1. CASE vertical_count = 0
    <2>1. AtMost(vertical_count + 1, VisibleLines) = 1
      BY <1>1, <1>types DEF AtMost
    <2>2. CASE last_rendered_line = 0
      BY <1>1, <1>types, <2>1, <2>2 DEF Drawn, vert_lines, Visible
    <2>3. CASE last_rendered_line = VisibleLines
      <3>1. Drawn = {l \in Visible : IF VisibleLines > 1 THEN l >= VisibleLines \/ l < 1
                                      ELSE l \in VisibleLines..(1 - 1)}
        BY <2>1, <2>3 DEF Drawn, vert_lines
      <3>2. Drawn = {l \in Visible : l = 0}
        BY <3>1, <1>types DEF Visible
      <3> QED BY <3>2, <1>1
    <2> QED BY <1>1, <2>2, <2>3 DEF RenderedInv
  <1>2. CASE vertical_count > 0 /\ vertical_count < VisibleLines
    <2>1. /\ AtMost(vertical_count + 1, VisibleLines) = vertical_count + 1
          /\ last_rendered_line = vertical_count
      BY <1>2, <1>types DEF AtMost, RenderedInv
    <2> QED BY <1>2, <1>types, <2>1 DEF Drawn, vert_lines, Visible
  <1>3. CASE vertical_count > 0 /\ vertical_count >= VisibleLines
    <2>1. /\ AtMost(vertical_count + 1, VisibleLines) = VisibleLines
          /\ last_rendered_line = VisibleLines
      BY <1>3, <1>types DEF AtMost, RenderedInv
    <2> QED BY <1>3, <1>types, <2>1 DEF Drawn, vert_lines, Visible
  <1> QED BY <1>1, <1>2, <1>3, <1>types

\* A line that starts keeps the counts of the frame right.
LEMMA NextLineRendersOnce ==
  ASSUME TypeOK, RenderedInv, CycleToNextLine
  PROVE  RenderedInv'
  <1> USE LcdAssumption, LagAssumption
  <1>types. /\ vertical_count \in Nat /\ VisibleLines \in Nat \ {0}
            /\ vertical_count <= LastLine /\ LagCap \in Nat \ {0}
    BY DEF TypeOK, Lines
  <1>1. last_rendered_line' = AtMost(vertical_count + 1, VisibleLines)
    BY DEF CycleToNextLine
  <1>2. CASE vertical_count' = 0
    <2>1. vertical_count = LastLine
      BY <1>2, <1>types DEF CycleToNextLine, LineAfter
    <2>2. last_rendered_line' = VisibleLines
      BY <1>1, <2>1, <1>types DEF AtMost
    <2>3. renders' = Never
      BY <1>2 DEF CycleToNextLine
    <2> QED BY <1>2, <2>2, <2>3, <1>types DEF RenderedInv, RenderedOnce, Never, Visible
  <1>3. CASE vertical_count' # 0
    <2>1. vertical_count' = vertical_count + 1
      BY <1>3, <1>types DEF CycleToNextLine, LineAfter
    <2>2. renders' = Counted(renders, {l \in Visible : l = vertical_count})
      BY <1>3, DrawnIsTheLine DEF CycleToNextLine
    <2>3. ASSUME NEW l \in Visible
          PROVE  renders'[l] = IF l < vertical_count' THEN 1 ELSE 0
      <3>1. renders[l] = IF l < vertical_count THEN 1 ELSE 0
        BY DEF RenderedInv, RenderedOnce
      <3>2. l \in Nat
        BY <1>types DEF Visible
      <3>3. CASE l = vertical_count
        <4>1. renders'[l] = AtMost(renders[l] + 1, LagCap)
          BY <2>2, <3>3 DEF Counted
        <4>2. renders[l] = 0
          BY <3>1, <3>3, <1>types
        <4>3. AtMost(0 + 1, LagCap) = 1
          BY <1>types DEF AtMost
        <4> QED BY <4>1, <4>2, <4>3, <2>1, <3>3, <1>types
      <3>4. CASE l # vertical_count
        <4>1. renders'[l] = renders[l]
          BY <2>2, <3>4 DEF Counted
        <4> QED BY <4>1, <3>1, <3>2, <3>4, <2>1, <1>types
      <3> QED BY <3>3, <3>4
    <2> QED BY <1>1, <1>3, <2>1, <2>3 DEF RenderedInv, RenderedOnce
  <1> QED BY <1>2, <1>3

\* Every step keeps RenderedInv.
LEMMA StepRendersOnce == TypeOK /\ RenderedInv /\ [LcdNext]_lcdVars => RenderedInv'
  <1> SUFFICES ASSUME TypeOK, RenderedInv, [LcdNext]_lcdVars PROVE RenderedInv'
    OBVIOUS
  <1>1. CASE CycleWithinLine
    BY <1>1 DEF CycleWithinLine, RenderedInv, RenderedOnce
  <1>2. CASE CycleToNextLine
    BY <1>2, NextLineRendersOnce
  <1>3. CASE swap_buffers
    BY <1>3 DEF swap_buffers, RenderedInv, RenderedOnce
  <1>4. CASE get_buffer_raw
    BY <1>4 DEF get_buffer_raw, RenderedInv, RenderedOnce
  <1>5. CASE UNCHANGED lcdVars
    BY <1>5 DEF lcdVars, RenderedInv, RenderedOnce
  <1> QED BY <1>1, <1>2, <1>3, <1>4, <1>5 DEF LcdNext

\* The invariant that RenderedOnce needs holds always.
LEMMA RenderedInvariant == LcdSpec => []RenderedInv
  <1>1. LcdInit => RenderedInv
    BY LcdAssumption DEF LcdInit, RenderedInv, RenderedOnce, Never, Visible
  <1> QED BY <1>1, StepRendersOnce, TypeCorrect, PTL DEF LcdSpec

\* Whatever the window's thread does, a frame draws each of its lines once.
THEOREM LinesRenderedOnce == LcdSpec => []RenderedOnce
  <1>1. RenderedInv => RenderedOnce
    BY DEF RenderedInv
  <1> QED BY <1>1, RenderedInvariant, PTL

-----------------------------------------------------------------------------
(* What the window shows. *)

\* Where the last swap was, counted back from a position (VCOUNT, or where it would
\* be without its wrap), and that the window shows of the lines above that place
\* what was drawn of them since the last late swap.
ShownBehind(position) ==
  /\ last_fetched_line = AtMost(position - lines_since_swap, VisibleLines - 1)
  /\ \A l \in Visible :
       l >= position - lines_since_late /\ l < last_fetched_line => lag[l] = 0

\* Before the wrap of VCOUNT what was copied follows the beam.  After it the copy
\* still is where the beam of the last frame was.
FetchedInv ==
  InTime =>
    IF lines_since_swap <= vertical_count
    THEN /\ ShownBehind(vertical_count)
         /\ vertical_count = 0 /\ lines_since_late = LinesOfFrame => lag = Never
    ELSE /\ last_fetched_line =
              AtMost(vertical_count + LinesOfFrame - lines_since_swap, VisibleLines - 1)
         /\ vertical_count = 0 =>
              last_rendered_line = VisibleLines /\ ShownBehind(LinesOfFrame)

\* A line that starts moves the beam, not what was fetched.
LEMMA NextLineKeepsFetched ==
  ASSUME TypeOK, RenderedInv, FetchedInv, CycleToNextLine
  PROVE  FetchedInv'
  <1> USE LcdAssumption, LagAssumption
  <1> SUFFICES ASSUME lines_since_swap' < VisibleLines PROVE FetchedInv'
    BY DEF FetchedInv, InTime
  <1>types. /\ vertical_count \in Nat /\ VisibleLines \in Nat \ {0}
            /\ LastLine \in Nat /\ VisibleLines <= LastLine
            /\ LinesOfFrame = LastLine + 1
            /\ vertical_count <= LastLine /\ lines_since_swap \in Nat
            /\ lines_since_late \in Nat /\ lines_since_late <= LinesOfFrame
            /\ last_fetched_line \in Nat
            /\ last_fetched_line' = last_fetched_line
    BY DEF TypeOK, Lines, CycleToNextLine, LinesOfFrame
  <1>swap. /\ lines_since_swap' = lines_since_swap + 1
           /\ lines_since_swap < VisibleLines
    BY <1>types DEF CycleToNextLine, AtMost
  <1>late. lines_since_late' = IF lines_since_late = LinesOfFrame THEN LinesOfFrame
                               ELSE lines_since_late + 1
    BY <1>types DEF CycleToNextLine, AtMost
  <1>1. \A l \in Visible : l # vertical_count => lag'[l] = lag[l]
    BY DrawnIsTheLine DEF CycleToNextLine, Counted
  <1>2. vertical_count' = IF vertical_count = LastLine THEN 0 ELSE vertical_count + 1
    BY <1>types DEF CycleToNextLine, LineAfter
  <1>3. CASE lines_since_swap <= vertical_count
    <2>1. ShownBehind(vertical_count)
      BY <1>3, <1>swap DEF FetchedInv, InTime
    <2>2. last_fetched_line <= vertical_count
      BY <1>3, <1>types, <2>1 DEF ShownBehind, AtMost
    <2>3. (vertical_count + 1) - lines_since_swap' = vertical_count - lines_since_swap
      BY <1>types, <1>swap
    <2>4. last_fetched_line' =
            AtMost((vertical_count + 1) - lines_since_swap', VisibleLines - 1)
      BY <1>types, <2>1, <2>3 DEF ShownBehind
    <2>5. ASSUME NEW l \in Visible,
                 l >= (vertical_count + 1) - lines_since_late', l < last_fetched_line
          PROVE  lag'[l] = 0
      <3>1. l \in Nat /\ l # vertical_count /\ l >= vertical_count - lines_since_late
        BY <1>types, <1>late, <2>2, <2>5 DEF Visible
      <3> QED BY <1>1, <2>1, <2>5, <3>1 DEF ShownBehind
    <2>6. CASE vertical_count < LastLine
      <3>1. /\ vertical_count' = vertical_count + 1 /\ vertical_count' # 0
            /\ lines_since_swap' <= vertical_count'
        BY <1>2, <1>3, <1>types, <1>swap, <2>6
      <3>2. ShownBehind(vertical_count)'
        BY <1>types, <2>4, <2>5, <3>1 DEF ShownBehind, Visible
      <3> QED BY <3>1, <3>2 DEF FetchedInv
    <2>7. CASE vertical_count = LastLine
      <3>1. /\ vertical_count' = 0 /\ last_rendered_line' = VisibleLines
            /\ ~(lines_since_swap' <= vertical_count')
        BY <1>2, <1>types, <1>swap, <2>7 DEF CycleToNextLine, AtMost
      <3>2. ShownBehind(LinesOfFrame)'
        BY <1>types, <2>4, <2>5, <2>7 DEF ShownBehind, Visible, LinesOfFrame
      <3>3. last_fetched_line' =
              AtMost(vertical_count' + LinesOfFrame - lines_since_swap', VisibleLines - 1)
        BY <1>types, <1>swap, <2>4, <2>7, <3>1
      <3> QED BY <3>1, <3>2, <3>3 DEF FetchedInv, LinesOfFrame
    <2> QED BY <1>types, <2>6, <2>7
  <1>4. CASE ~(lines_since_swap <= vertical_count)
    <2>1. /\ vertical_count' = vertical_count + 1 /\ vertical_count' # 0
          /\ ~(lines_since_swap' <= vertical_count')
      BY <1>2, <1>4, <1>types, <1>swap
    <2>2. vertical_count' + LinesOfFrame - lines_since_swap'
            = vertical_count + LinesOfFrame - lines_since_swap
      BY <2>1, <1>types, <1>swap
    <2>3. last_fetched_line =
            AtMost(vertical_count + LinesOfFrame - lines_since_swap, VisibleLines - 1)
      BY <1>4, <1>swap DEF FetchedInv, InTime
    <2>4. last_fetched_line' =
            AtMost(vertical_count' + LinesOfFrame - lines_since_swap', VisibleLines - 1)
      BY <1>types, <2>2, <2>3
    <2> QED BY <2>1, <2>4 DEF FetchedInv, LinesOfFrame
  <1> QED BY <1>3, <1>4

\* A swap in time shows every line above the beam drawn since the late one.
LEMMA SwapShowsAboveBeam ==
  ASSUME TypeOK, RenderedInv, FetchedInv, swap_buffers, InTime,
         NEW l \in 0..(SwapEnd - 1), l >= vertical_count - lines_since_late
  PROVE  lag'[l] = 0
  <1> USE LcdAssumption, LagAssumption
  <1>types. /\ vertical_count \in Nat /\ VisibleLines \in Nat \ {0}
            /\ LastLine \in Nat /\ VisibleLines <= LastLine
            /\ LinesOfFrame = LastLine + 1
            /\ vertical_count <= LastLine /\ lines_since_swap \in Nat
            /\ lines_since_late \in Nat
            /\ lines_since_swap < VisibleLines
            /\ last_fetched_line \in Nat
    BY DEF TypeOK, Lines, InTime, LinesOfFrame
  <1>1. /\ SwapEnd \in Nat /\ SwapEnd <= vertical_count
        /\ SwapEnd < VisibleLines /\ vertical_count > 0
        /\ l \in Nat /\ l < SwapEnd /\ l \in Visible
    BY <1>types DEF SwapEnd, AtMost, Visible
  <1>2. lag'[l] = IF l \in Copied THEN 0 ELSE lag[l]
    BY <1>1 DEF swap_buffers
  <1>3. CASE lines_since_swap <= vertical_count
    <2>1. ShownBehind(vertical_count)
      BY <1>3 DEF FetchedInv
    <2>2. last_fetched_line <= SwapEnd /\ last_fetched_line <= last_rendered_line
      BY <1>1, <1>types, <2>1 DEF ShownBehind, RenderedInv, SwapEnd, AtMost
    <2>3. Copied = last_fetched_line..(SwapEnd - 1)
      BY <2>2, <1>1, <1>types DEF Copied, SwapStart, TypeOK
    <2> QED BY <1>1, <1>2, <2>1, <2>3, <1>types DEF ShownBehind
  <1>4. CASE ~(lines_since_swap <= vertical_count)
    <2>1. last_rendered_line = vertical_count /\ last_fetched_line > vertical_count
      BY <1>1, <1>4, <1>types DEF FetchedInv, RenderedInv, AtMost
    <2>2. Copied = 0..(SwapEnd - 1)
      BY <2>1, <1>1, <1>types DEF Copied, SwapStart
    <2> QED BY <1>2, <2>2
  <1> QED BY <1>3, <1>4

\* A swap in time at VCOUNT 0 shows the frame.
LEMMA SwapShowsFrame ==
  ASSUME TypeOK, FetchedInv, swap_buffers, InTime,
         vertical_count = 0, lines_since_late = LinesOfFrame
  PROVE  lag' = Never
  <1> USE LcdAssumption, LagAssumption
  <1>types. /\ VisibleLines \in Nat \ {0} /\ LastLine \in Nat
            /\ VisibleLines <= LastLine /\ lines_since_swap \in Nat
            /\ LinesOfFrame = LastLine + 1
            /\ lines_since_swap < VisibleLines /\ last_fetched_line \in Nat
    BY DEF TypeOK, InTime, LinesOfFrame
  <1>1. SwapEnd = 0
    BY <1>types DEF SwapEnd, AtMost
  <1>2. lag' = [l \in Visible |-> IF l \in Copied THEN 0 ELSE lag[l]]
    BY DEF swap_buffers
  <1>3. CASE lines_since_swap <= vertical_count
    <2>1. lag = Never
      BY <1>3 DEF FetchedInv
    <2> QED BY <1>2, <2>1 DEF Never
  <1>4. CASE ~(lines_since_swap <= vertical_count)
    <2>1. /\ last_rendered_line = VisibleLines
          /\ \A l \in Visible : l < last_fetched_line => lag[l] = 0
          /\ last_fetched_line > 0 /\ last_fetched_line < VisibleLines
      BY <1>4, <1>types DEF FetchedInv, ShownBehind, AtMost, Visible
    <2>2. Copied = 0..(0 - 1) \cup last_fetched_line..(VisibleLines - 1)
      BY <1>1, <2>1, <1>types DEF Copied, SwapStart
    <2>3. ASSUME NEW l \in Visible PROVE (IF l \in Copied THEN 0 ELSE lag[l]) = 0
      BY <2>1, <2>2, <1>types DEF Visible
    <2> QED BY <1>2, <2>3 DEF Never
  <1> QED BY <1>3, <1>4

\* A swap leaves off at the beam.  A late one has lost nothing drawn after it.
LEMMA SwapFetches ==
  ASSUME TypeOK, RenderedInv, FetchedInv, swap_buffers
  PROVE  FetchedInv'
  <1> USE LcdAssumption, LagAssumption
  <1>1. /\ lines_since_swap' = 0 /\ last_fetched_line' = SwapEnd
        /\ vertical_count' = vertical_count /\ vertical_count \in Nat
        /\ vertical_count - 0 = vertical_count
        /\ lines_since_late' = IF InTime THEN lines_since_late ELSE 0
        /\ SwapEnd \in Nat /\ SwapEnd <= vertical_count
        /\ LinesOfFrame \in Nat \ {0} /\ LinesOfFrame' = LinesOfFrame
    BY DEF swap_buffers, TypeOK, Lines, SwapEnd, AtMost, LinesOfFrame
  <1>2. ASSUME NEW l \in Visible,
               l >= vertical_count' - lines_since_late', l < last_fetched_line'
        PROVE  lag'[l] = 0
    <2>1. CASE InTime
      BY <1>1, <1>2, <2>1, SwapShowsAboveBeam DEF Visible
    <2>2. CASE ~InTime
      BY <1>1, <1>2, <2>2 DEF Visible
    <2> QED BY <2>1, <2>2
  <1>3. ASSUME vertical_count' = 0, lines_since_late' = LinesOfFrame
        PROVE  lag' = Never
    <2>1. InTime
      BY <1>1, <1>3
    <2> QED BY <1>1, <1>3, <2>1, SwapShowsFrame
  <1>4. ShownBehind(vertical_count)'
    BY <1>1, <1>2 DEF ShownBehind, SwapEnd
  <1> QED BY <1>1, <1>3, <1>4 DEF FetchedInv

\* The invariant the swaps need holds however often the window's thread swaps.
LEMMA FetchedInvariant == LcdSpec => []FetchedInv
  <1>1. LcdInit => FetchedInv
    <2> SUFFICES ASSUME LcdInit PROVE FetchedInv
      OBVIOUS
    <2>1. AtMost(0, VisibleLines - 1) = 0
      BY LcdAssumption DEF AtMost
    <2> QED BY <2>1 DEF LcdInit, FetchedInv, ShownBehind, Visible
  <1>2. TypeOK /\ RenderedInv /\ FetchedInv /\ [LcdNext]_lcdVars => FetchedInv'
    <2> SUFFICES ASSUME TypeOK, RenderedInv, FetchedInv, [LcdNext]_lcdVars
                 PROVE  FetchedInv'
      OBVIOUS
    <2>1. CASE CycleWithinLine
      BY <2>1 DEF CycleWithinLine, FetchedInv, ShownBehind, InTime, swapHistory
    <2>2. CASE CycleToNextLine
      BY <2>2, NextLineKeepsFetched
    <2>3. CASE swap_buffers
      BY <2>3, SwapFetches
    <2>4. CASE get_buffer_raw
      BY <2>4 DEF get_buffer_raw, FetchedInv, ShownBehind, InTime, swapHistory
    <2>5. CASE UNCHANGED lcdVars
      BY <2>5 DEF lcdVars, FetchedInv, ShownBehind, InTime, swapHistory
    <2> QED BY <2>1, <2>2, <2>3, <2>4, <2>5 DEF LcdNext
  <1> QED BY <1>1, <1>2, TypeCorrect, RenderedInvariant, PTL DEF LcdSpec

\* However the core and the window take turns: what a late swap has lost above the
\* beam is shown again as soon as the beam has passed it once more, and swaps in
\* time lose nothing.
THEOREM WindowFollowsBeam == LcdSpec => LinesAboveBeamAreCurrent
  <1>1. TypeOK /\ RenderedInv /\ FetchedInv /\ [LcdNext]_lcdVars
          => [swap_buffers /\ InTime =>
                \A l \in 0..(SwapEnd - 1) :
                  l >= vertical_count - lines_since_late => lag'[l] = 0]_lcdVars
    BY SwapShowsAboveBeam
  <1> QED BY <1>1, TypeCorrect, RenderedInvariant, FetchedInvariant, PTL
          DEF LcdSpec, LinesAboveBeamAreCurrent

\* A swap in time at VCOUNT 0 shows one whole frame, unless a late one came within
\* the frame before it.
THEOREM WindowShowsFrame == LcdSpec => WholeFrameAtStart
  <1>1. TypeOK /\ FetchedInv /\ [LcdNext]_lcdVars
          => [swap_buffers /\ InTime /\ vertical_count = 0
                /\ lines_since_late = LinesOfFrame => lag' = Never]_lcdVars
    BY SwapShowsFrame
  <1> QED BY <1>1, TypeCorrect, FetchedInvariant, PTL
          DEF LcdSpec, WholeFrameAtStart

=============================================================================
