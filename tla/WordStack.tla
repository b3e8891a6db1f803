------------------------------ MODULE WordStack ------------------------------
(***************************************************************************)
(* What a program wants block transfers for: a stack of words.  Storing a  *)
(* list of registers puts their values on it, loading a list takes as many *)
(* words off it again, whatever list they were stored from, and nothing    *)
(* else changes what is on it.                                             *)
(***************************************************************************)
EXTENDS Integers, Sequences, FiniteSets

CONSTANTS
  Registers,   \* numbers; the ones whose values the stack is used for
  Unseen       \* further ones that may be loaded, which hold something else

VARIABLES
  registers,
  lowFirst,    \* the lowest register of a list ends up on top
  stack        \* the words on it, the top first

stackVars == <<registers, lowFirst, stack>>

Init ==
  /\ lowFirst \in BOOLEAN
  /\ stack = <<>>

\* How many registers of a list come before r.
Rank(r, list) == Cardinality({q \in list : q < r})

\* The place, counted from the top, of what belongs to register r.
Place(r, list) ==
  IF lowFirst THEN Rank(r, list) + 1 ELSE Cardinality(list) - Rank(r, list)

Push(list) ==
  /\ Len(stack') = Len(stack) + Cardinality(list)
  /\ \A i \in 1..Len(stack) : stack'[Cardinality(list) + i] = stack[i]
  /\ \A r \in list : stack'[Place(r, list)] = registers[r]
  /\ UNCHANGED <<registers, lowFirst>>

Pop(list) ==
  /\ Cardinality(list) <= Len(stack)
  /\ stack' = SubSeq(stack, Cardinality(list) + 1, Len(stack))
  /\ registers' = [r \in Registers |->
                     IF r \in list THEN stack[Place(r, list)] ELSE registers[r]]
  /\ UNCHANGED lowFirst

Computes == UNCHANGED <<lowFirst, stack>>

Next ==
  \/ \E list \in SUBSET Registers : Push(list)
  \/ \E list \in SUBSET (Registers \cup Unseen) : Pop(list)
  \/ Computes

Spec == Init /\ [][Next]_stackVars

=============================================================================
