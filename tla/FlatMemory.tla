----------------------------- MODULE FlatMemory -----------------------------
(***************************************************************************)
(* What a program and its debugger may take the memory for: one byte for   *)
(* each home, however many addresses and access widths lead to it, and a   *)
(* list of every access with the values it saw.                            *)
(***************************************************************************)
EXTENDS Integers, Sequences, Regions

CONSTANTS
  Initially(_),      \* what a home has before anything is stored there
  Settled(_, _, _),  \* what a home may read as after a byte is stored in it
  Linked(_),         \* the other homes that may change with that
  Cleared(_)         \* a reset of the machine clears it

VARIABLES
  bytes,       \* by homes, where something was stored
  reads,       \* <<home, value>>
  writes,      \* <<home, old value, stored value>>
  access       \* the latest one: <<address, number of bytes>>

flatVars == <<bytes, reads, writes, access>>

Init == bytes = <<>> /\ reads = <<>> /\ writes = <<>> /\ access = <<>>

ValueIn(memory, home) == IF home \in DOMAIN memory THEN memory[home] ELSE Initially(home)

Added(list, longer) == SubSeq(longer, Len(list) + 1, Len(longer))

\* What is new on a list is about the bytes of the latest access, in their order.
Lists(new, latest) ==
  /\ latest # <<>> /\ Len(new) = latest[2]
  /\ \A i \in 1..Len(new) : new[i][1] = Home(<<latest[1][1], latest[1][2] + i - 1>>)

Loads ==
  LET new == Added(reads, reads')
  IN  /\ Lists(new, access')
      /\ reads' = reads \o new
      /\ \A i \in 1..Len(new) : new[i][2] = ValueIn(bytes, new[i][1])
      /\ UNCHANGED <<bytes, writes>>

Stores ==
  LET new     == Added(writes, writes')
      touched == {new[i][1] : i \in 1..Len(new)}
      linked  == UNION {Linked(home) : home \in touched}
  IN  /\ Lists(new, access')
      /\ writes' = writes \o new
      /\ \A i \in 1..Len(new) :
           /\ new[i][2] = ValueIn(bytes, new[i][1])
           /\ ValueIn(bytes', new[i][1]) \in Settled(new[i][1], new[i][2], new[i][3])
      /\ \A home \in DOMAIN bytes \cup DOMAIN bytes' :
           home \notin touched \cup linked => ValueIn(bytes', home) = ValueIn(bytes, home)
      /\ UNCHANGED reads

\* The debugger takes the list, in the order of the accesses.
Taken == reads' = <<>> /\ writes' = <<>> /\ access' = <<>> /\ UNCHANGED bytes

Resets ==
  /\ bytes' = [home \in {h \in DOMAIN bytes : ~Cleared(h)} |-> bytes[home]]
  /\ UNCHANGED <<reads, writes, access>>

Next ==
  \/ Loads
  \/ Stores
  \/ Taken
  \/ Resets

Spec == Init /\ [][Next]_flatVars

=============================================================================
