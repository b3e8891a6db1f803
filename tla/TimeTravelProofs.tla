--------------------------- MODULE TimeTravelProofs ---------------------------
(***************************************************************************)
(* Proofs about the debugger's history, for any modes, values, memory and  *)
(* capacity: an entry belongs to the machine it was made at, so what goes  *)
(* back is what the theorems say.                                          *)
(***************************************************************************)
EXTENDS TimeTravel, SequenceTheorems, TLAPS

-----------------------------------------------------------------------------
(* The history. *)

\* How many of n entries stay.
KeptLength(n) == IF n + 1 < HistoryCapacity THEN n ELSE HistoryCapacity - 2

\* make_space drops the oldest entries and moves the others up.
LEMMA KeptDrops ==
  ASSUME NEW S, NEW s \in Seq(S), HistoryCapacity >= 2
  PROVE  /\ Kept(s) \in Seq(S)
         /\ Len(Kept(s)) = KeptLength(Len(s)) /\ KeptLength(Len(s)) \in 0..Len(s)
         /\ \A k \in 1..Len(Kept(s)) : Kept(s)[k] = s[k + (Len(s) - Len(Kept(s)))]
<1>1. Len(s) \in Nat /\ HistoryCapacity \in Nat
  BY TimeTravelAssumption
<1>2. CASE Len(s) + 1 < HistoryCapacity
  BY <1>1, <1>2 DEF Kept, KeptLength
<1>3. CASE ~(Len(s) + 1 < HistoryCapacity)
  <2> DEFINE m == Len(s) + 3 - HistoryCapacity
  <2>1. Kept(s) = SubSeq(s, m, Len(s)) /\ m \in 1..(Len(s) + 1)
    BY <1>1, <1>3 DEF Kept
  <2>2. /\ Kept(s) \in Seq(S) /\ Len(Kept(s)) = Len(s) - m + 1
        /\ \A k \in 1..(Len(s) - m + 1) : Kept(s)[k] = s[m + k - 1]
    BY <1>1, <2>1
  <2>3. QED
    BY <1>1, <1>3, <2>2 DEF KeptLength
<1>4. QED
  BY <1>2, <1>3

\* The first elements of a sequence.
LEMMA PrefixIsSequence ==
  ASSUME NEW S, NEW s \in Seq(S), NEW m \in Nat, m <= Len(s)
  PROVE  /\ SubSeq(s, 1, m) \in Seq(S) /\ Len(SubSeq(s, 1, m)) = m
         /\ \A k \in 1..m : SubSeq(s, 1, m)[k] = s[k]
<1>1. \A k \in 1..m : s[k] \in S
  OBVIOUS
<1>2. QED
  BY <1>1, SubSeqProperties

\* The newest entry and what is left without it.
LEMMA LastAndFront ==
  ASSUME NEW S, NEW s \in Seq(S), s # <<>>
  PROVE  /\ Last(s) \in S /\ Last(s) = s[Len(s)] /\ Len(s) \in Nat \ {0}
         /\ Front(s) \in Seq(S) /\ Len(Front(s)) = Len(s) - 1
         /\ \A k \in 1..(Len(s) - 1) : Front(s)[k] = s[k]
<1>1. Len(s) \in Nat \ {0} /\ \A k \in 1..Len(s) : s[k] \in S
  OBVIOUS
<1>2. Front(s) = SubSeq(s, 1, Len(s) - 1) /\ Last(s) = s[Len(s)]
  BY DEF Front, Last
<1>3. Len(s) - 1 \in Nat /\ Len(s) - 1 <= Len(s)
  BY <1>1
<1>4. /\ Front(s) \in Seq(S) /\ Len(Front(s)) = Len(s) - 1
      /\ \A k \in 1..(Len(s) - 1) : Front(s)[k] = s[k]
  BY <1>2, <1>3, PrefixIsSequence
<1>5. Last(s) \in S
  <2>1. Len(s) \in 1..Len(s)
    BY <1>1
  <2>2. QED
    BY <1>1, <1>2, <2>1
<1>6. QED
  BY <1>1, <1>2, <1>4, <1>5

-----------------------------------------------------------------------------
(* Machines and entries. *)

Banks    == [Modes -> [Registers -> Values]]
Machines == [mode : Modes, banks : Banks, memory : [Addresses -> Values]]
Bytes    == UNION {[stored -> Values] : stored \in SUBSET Addresses}
Entries  == [mode : Modes, registers : [Registers -> Values], memory : Bytes]

\* An entry holds the mode and the registers of its machine.
Belongs(entry, machine) ==
  entry.mode = machine.mode /\ entry.registers = machine.banks[machine.mode]

HistoryInv ==
  /\ mode \in Modes /\ banks \in Banks /\ memory \in [Addresses -> Values]
  /\ entries \in Seq(Entries) /\ past \in Seq(Machines)
  /\ Len(past) = Len(entries)
  /\ entries # <<>> => Len(entries) < HistoryCapacity
  /\ \A k \in 1..Len(entries) : Belongs(entries[k], past[k])

\* The invariant gives the types.
LEMMA HistoryTyped == HistoryInv => TypeOK
<1> SUFFICES ASSUME HistoryInv PROVE TypeOK
  OBVIOUS
<1>1. \A k \in DOMAIN entries : entries[k] \in Entries
  BY DEF HistoryInv
<1>2. QED
  BY <1>1 DEF HistoryInv, TypeOK, Entries, Banks

\* A bank written by an interrupt, or by one register, is a bank.
LEMMA BanksTyped ==
  ASSUME banks \in Banks
  PROVE  /\ \A m \in Modes, r \in Registers, v \in Values :
              [banks EXCEPT ![m][r] = v] \in Banks
         /\ \A m \in Modes, ip, psr \in Values :
              [banks EXCEPT ![m] = [Lr |-> ip, Spsr |-> psr]] \in Banks
<1>1. ASSUME NEW m \in Modes, NEW r \in Registers, NEW v \in Values
      PROVE  [banks EXCEPT ![m][r] = v] \in Banks
  BY DEF Banks
<1>2. ASSUME NEW m \in Modes, NEW ip \in Values, NEW psr \in Values
      PROVE  [banks EXCEPT ![m] = [Lr |-> ip, Spsr |-> psr]] \in Banks
  <2>1. [Lr |-> ip, Spsr |-> psr] \in [Registers -> Values]
    BY DEF Registers
  <2>2. QED
    BY <2>1 DEF Banks
<1>3. QED
  BY <1>1, <1>2

\* An instruction that keeps the machine in its types adds an entry that belongs to
\* the machine before it, and drops old ones from both lists alike.
LEMMA FinishKeepsHistory ==
  ASSUME HistoryInv, NEW stored \in SUBSET Addresses, Finish(stored),
         mode' \in Modes, banks' \in Banks, memory' \in [Addresses -> Values]
  PROVE  HistoryInv'
<1> DEFINE e == Entry(stored)
<1>1. CASE HistoryCapacity < 2
  <2>1. entries' = <<>> /\ past' = <<>>
    BY <1>1 DEF Finish
  <2>2. QED
    BY <2>1 DEF HistoryInv
<1>2. CASE ~(HistoryCapacity < 2)
  <2>0. HistoryCapacity \in Nat /\ HistoryCapacity >= 2
    BY <1>2, TimeTravelAssumption
  <2>1. entries' = Append(Kept(entries), e) /\ past' = Append(Kept(past), Machine)
    BY <1>2 DEF Finish
  <2>2. e \in Entries
    <3>1. [a \in stored |-> memory'[a]] \in [stored -> Values]
      OBVIOUS
    <3>2. [a \in stored |-> memory'[a]] \in Bytes
      BY <3>1 DEF Bytes
    <3>3. banks[mode] \in [Registers -> Values] /\ mode \in Modes
      BY DEF HistoryInv, Banks
    <3>4. QED
      BY <3>2, <3>3 DEF Entry, Entries
  <2>3. Machine \in Machines /\ Belongs(e, Machine)
    BY DEF Machine, Machines, Belongs, Entry, HistoryInv
  <2>4. entries \in Seq(Entries) /\ past \in Seq(Machines) /\ Len(past) = Len(entries)
    BY DEF HistoryInv
  <2> DEFINE es == Kept(entries)
             ps == Kept(past)
             n  == KeptLength(Len(entries))
             d  == Len(entries) - n
  <2>5. /\ es \in Seq(Entries) /\ Len(es) = n /\ n \in 0..Len(entries)
        /\ \A k \in 1..n : es[k] = entries[k + d]
    BY <2>0, <2>4, KeptDrops
  <2>6. /\ ps \in Seq(Machines) /\ Len(ps) = n
        /\ \A k \in 1..n : ps[k] = past[k + d]
    BY <2>0, <2>4, KeptDrops
  <2>7. n + 1 < HistoryCapacity
    BY <2>0, <2>4 DEF KeptLength
  <2>8. Len(entries) \in Nat /\ d \in Nat /\ n \in Nat
    BY <2>4, <2>5
  <2>9. \A k \in 1..n : k + d \in 1..Len(entries)
    BY <2>5, <2>8
  <2>10. \A k \in 1..n : Belongs(es[k], ps[k])
    BY <2>5, <2>6, <2>9 DEF HistoryInv
  <2> HIDE DEF es, ps, n, d, e
  <2>11. /\ Append(es, e) \in Seq(Entries) /\ Append(ps, Machine) \in Seq(Machines)
         /\ Len(Append(es, e)) = n + 1 /\ Len(Append(ps, Machine)) = n + 1
    BY <2>2, <2>3, <2>5, <2>6
  <2>12. \A k \in 1..(n + 1) : Belongs(Append(es, e)[k], Append(ps, Machine)[k])
    BY <2>2, <2>3, <2>5, <2>6, <2>8, <2>10
  <2>13. entries' = Append(es, e) /\ past' = Append(ps, Machine)
    BY <2>1 DEF es, ps
  <2>14. QED
    BY <2>0, <2>7, <2>8, <2>11, <2>12, <2>13 DEF HistoryInv
<1>3. QED
  BY <1>1, <1>2

\* Going back: which banks the registers of the entry are written to.
LEMMA PutBackBanks ==
  ASSUME NEW e \in Entries, banks \in Banks, mode \in Modes, PutBack(e)
  PROVE  /\ banks' \in Banks /\ mode' = e.mode /\ mode' \in Modes
         /\ banks'[e.mode].Spsr = e.registers.Spsr
         /\ e.mode = mode => banks'[mode].Lr = e.registers.Lr
         /\ \A m \in Modes \ {mode, e.mode} : banks'[m] = banks[m]
<1> DEFINE b == [banks EXCEPT ![mode].Lr = e.registers.Lr]
<1>1. /\ e.mode \in Modes /\ e.registers \in [Registers -> Values]
      /\ "Lr" \in Registers /\ "Spsr" \in Registers
  BY DEF Entries, Registers
<1>2. banks' = [b EXCEPT ![e.mode].Spsr = e.registers.Spsr] /\ mode' = e.mode
  BY DEF PutBack
<1>3. /\ b \in Banks /\ b[mode].Lr = e.registers.Lr
      /\ \A m \in Modes \ {mode} : b[m] = banks[m]
  BY <1>1 DEF Banks
<1> HIDE DEF b
<1>4. banks' \in Banks
  BY <1>1, <1>2, <1>3 DEF Banks
<1>5. /\ banks'[e.mode] = [b[e.mode] EXCEPT !.Spsr = e.registers.Spsr]
      /\ \A m \in Modes \ {e.mode} : banks'[m] = b[m]
  BY <1>1, <1>2, <1>3 DEF Banks
<1>6. b[e.mode] \in [Registers -> Values]
  BY <1>1, <1>3 DEF Banks
<1>7. banks'[e.mode].Spsr = e.registers.Spsr /\ banks'[e.mode].Lr = b[e.mode].Lr
  BY <1>1, <1>5, <1>6
<1>8. QED
  BY <1>1, <1>2, <1>3, <1>4, <1>5, <1>7

\* The entry and the machine a step back goes to belong together.
LEMMA NewestBelongs ==
  ASSUME HistoryInv, entries # <<>>
  PROVE  /\ Last(entries) \in Entries /\ Last(past) \in Machines
         /\ Belongs(Last(entries), Last(past))
<1>1. past # <<>> /\ Len(past) = Len(entries)
  BY DEF HistoryInv
<1>2. /\ Last(entries) \in Entries /\ Last(entries) = entries[Len(entries)]
      /\ Last(past) \in Machines /\ Last(past) = past[Len(past)]
      /\ Len(entries) \in Nat \ {0}
  BY <1>1, LastAndFront DEF HistoryInv
<1>3. QED
  BY <1>1, <1>2 DEF HistoryInv

\* One step keeps the history of the machine.
LEMMA StepKeepsHistory == HistoryInv /\ [Next]_vars => HistoryInv'
<1> SUFFICES ASSUME HistoryInv, [Next]_vars PROVE HistoryInv'
  OBVIOUS
<1>0. Irq \in Modes /\ mode \in Modes /\ banks \in Banks /\ memory \in [Addresses -> Values]
  BY TimeTravelAssumption DEF HistoryInv
<1>1. ASSUME NEW r \in Registers, NEW v \in Values, ExecuteWrite(r, v) PROVE HistoryInv'
  BY <1>0, <1>1, BanksTyped, FinishKeepsHistory DEF ExecuteWrite
<1>2. ASSUME NEW m \in Modes, ExecuteSwitch(m) PROVE HistoryInv'
  BY <1>0, <1>2, FinishKeepsHistory DEF ExecuteSwitch
<1>3. ASSUME NEW a \in Addresses, NEW v \in Values, ExecuteStore(a, v) PROVE HistoryInv'
  <2>1. memory' \in [Addresses -> Values] /\ {a} \in SUBSET Addresses
    BY <1>0, <1>3 DEF ExecuteStore
  <2>2. QED
    BY <1>0, <1>3, <2>1, FinishKeepsHistory DEF ExecuteStore
<1>4. ASSUME NEW ip \in Values, NEW psr \in Values, ExecuteInterrupt(ip, psr)
      PROVE  HistoryInv'
  BY <1>0, <1>4, BanksTyped, FinishKeepsHistory DEF ExecuteInterrupt
<1>5. ASSUME NEW ip \in Values, NEW psr \in Values, PausedInterrupt(ip, psr)
      PROVE  HistoryInv'
  <2>1. mode' \in Modes /\ banks' \in Banks /\ memory' \in [Addresses -> Values]
    BY <1>0, <1>5, BanksTyped DEF PausedInterrupt
  <2>2. entries' = entries /\ past' = past
    BY <1>5 DEF PausedInterrupt
  <2>3. QED
    BY <2>1, <2>2 DEF HistoryInv
<1>6. CASE GoBack
  <2>1. /\ entries # <<>> /\ past # <<>>
        /\ entries' = Front(entries) /\ past' = Front(past)
    BY <1>6 DEF GoBack, HistoryInv
  <2>2. Last(entries) \in Entries
    BY <2>1, NewestBelongs
  <2>3. banks' \in Banks /\ mode' \in Modes
    BY <1>0, <1>6, <2>2, PutBackBanks DEF GoBack
  <2>4. memory' \in [Addresses -> Values]
    <3>1. PutMemoryBack(Last(entries))
      BY <1>6 DEF GoBack
    <3>2. PICK stored \in SUBSET Addresses : Last(entries).memory \in [stored -> Values]
      BY <2>2 DEF Entries, Bytes
    <3>3. QED
      BY <1>0, <3>1, <3>2 DEF PutMemoryBack
  <2>5. /\ Front(entries) \in Seq(Entries) /\ Front(past) \in Seq(Machines)
        /\ Len(Front(entries)) = Len(entries) - 1 /\ Len(Front(past)) = Len(past) - 1
        /\ \A k \in 1..(Len(entries) - 1) : Front(entries)[k] = entries[k]
        /\ \A k \in 1..(Len(past) - 1) : Front(past)[k] = past[k]
        /\ Len(entries) \in Nat \ {0}
    BY <2>1, LastAndFront DEF HistoryInv
  <2>6. QED
    BY <2>1, <2>3, <2>4, <2>5, TimeTravelAssumption DEF HistoryInv
<1>7. CASE UNCHANGED vars
  BY <1>7 DEF vars, HistoryInv
<1>8. QED
  BY <1>1, <1>2, <1>3, <1>4, <1>5, <1>6, <1>7 DEF Next

\* At the start there is no history.
LEMMA InitHistory == Init => HistoryInv
<1> SUFFICES ASSUME Init PROVE HistoryInv
  OBVIOUS
<1>1. mode \in Modes /\ memory \in [Addresses -> Values] /\ banks \in Banks
  BY TimeTravelAssumption DEF Init, Banks
<1>2. entries = <<>> /\ past = <<>>
  BY DEF Init
<1>3. QED
  BY <1>1, <1>2 DEF HistoryInv

\* The history is that of the machine, always.
LEMMA HistoryInvariant == Spec => []HistoryInv
BY InitHistory, StepKeepsHistory, PTL DEF Spec

-----------------------------------------------------------------------------

\* The machine and its history keep their types, and the history stays below
\* its capacity.
THEOREM TypeCorrect == Spec => []TypeOK
BY HistoryInvariant, HistoryTyped, PTL

\* Going back puts back the mode and its Spsr, over whatever instructions, switches
\* and interrupts came between.
THEOREM SpsrIsPutBack == Spec => SpsrComesBack
<1>1. HistoryInv /\ GoBack =>
        /\ mode' = Last(past).mode
        /\ banks'[mode'].Spsr = Last(past).banks[mode'].Spsr
  <2> SUFFICES ASSUME HistoryInv, GoBack
               PROVE  /\ mode' = Last(past).mode
                      /\ banks'[mode'].Spsr = Last(past).banks[mode'].Spsr
    OBVIOUS
  <2>1. Last(entries) \in Entries /\ Belongs(Last(entries), Last(past))
    BY NewestBelongs DEF GoBack
  <2>2. mode' = Last(entries).mode /\ banks'[mode'].Spsr = Last(entries).registers.Spsr
    BY <2>1, PutBackBanks DEF GoBack, HistoryInv
  <2>3. QED
    BY <2>1, <2>2 DEF Belongs
<1>2. HistoryInv /\ [Next]_vars =>
        [GoBack => /\ mode' = Last(past).mode
                   /\ banks'[mode'].Spsr = Last(past).banks[mode'].Spsr]_vars
  BY <1>1
<1>3. QED
  BY <1>2, HistoryInvariant, PTL DEF Spec, SpsrComesBack

\* While the mode did not change, going back puts back Lr and touches no other bank.
THEOREM LrIsPutBack == Spec => LrComesBackInMode
<1>1. HistoryInv /\ GoBack /\ mode = Last(past).mode =>
        /\ banks'[mode].Lr = Last(past).banks[mode].Lr
        /\ \A m \in Modes \ {mode} : banks'[m] = banks[m]
  <2> SUFFICES ASSUME HistoryInv, GoBack, mode = Last(past).mode
               PROVE  /\ banks'[mode].Lr = Last(past).banks[mode].Lr
                      /\ \A m \in Modes \ {mode} : banks'[m] = banks[m]
    OBVIOUS
  <2>1. Last(entries) \in Entries /\ Belongs(Last(entries), Last(past))
    BY NewestBelongs DEF GoBack
  <2>2. Last(entries).mode = mode
    BY <2>1 DEF Belongs
  <2>3. /\ banks'[mode].Lr = Last(entries).registers.Lr
        /\ \A m \in Modes \ {mode} : banks'[m] = banks[m]
    BY <2>1, <2>2, PutBackBanks DEF GoBack, HistoryInv
  <2>4. QED
    BY <2>1, <2>2, <2>3 DEF Belongs
<1>2. HistoryInv /\ [Next]_vars =>
        [GoBack /\ mode = Last(past).mode =>
           /\ banks'[mode].Lr = Last(past).banks[mode].Lr
           /\ \A m \in Modes \ {mode} : banks'[m] = banks[m]]_vars
  BY <1>1
<1>3. QED
  BY <1>2, HistoryInvariant, PTL DEF Spec, LrComesBackInMode

=============================================================================
