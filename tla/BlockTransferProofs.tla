------------------------- MODULE BlockTransferProofs -------------------------
(***************************************************************************)
(* Block transfers are a stack, and calls return, for every set of         *)
(* registers, every size and place of the stack, every nesting of calls    *)
(* and each of the four pairs of addressing modes.                         *)
(***************************************************************************)
EXTENDS BlockTransfer, FiniteSetTheorems, TLAPS

-----------------------------------------------------------------------------
(* The places of registers in a list. *)

Below_(r, list) == {q \in list : q < r}
RankOf(r, list) == Cardinality(Below_(r, list))

\* Lists of registers, as sets of numbers.
Lists == SUBSET (0..15)

\* A list has at most sixteen registers.
LEMMA ListsAreFinite ==
  ASSUME NEW list \in Lists
  PROVE  /\ IsFiniteSet(list)
         /\ Cardinality(list) \in 0..16
         /\ list # {} <=> Cardinality(list) > 0
         /\ \A part \in SUBSET list : IsFiniteSet(part) /\ Cardinality(part) \in 0..Cardinality(list)
<1>1. IsFiniteSet(0..15) /\ Cardinality(0..15) = 16
  <2>1. PICK n \in Int : n = 15
    OBVIOUS
  <2>2. IsFiniteSet(0..n) /\ Cardinality(0..n) = IF 0 > n THEN 0 ELSE n - 0 + 1
    BY FS_Interval
  <2>3. QED
    BY <2>1, <2>2
<1>2. IsFiniteSet(list) /\ Cardinality(list) <= 16
  BY <1>1, FS_Subset DEF Lists
<1>3. Cardinality(list) \in Nat
  BY <1>2, FS_CardinalityType
<1>4. ASSUME NEW part \in SUBSET list
      PROVE  IsFiniteSet(part) /\ Cardinality(part) \in 0..Cardinality(list)
  <2>1. IsFiniteSet(part) /\ Cardinality(part) <= Cardinality(list)
    BY <1>2, FS_Subset
  <2>2. Cardinality(part) \in Nat
    BY <2>1, FS_CardinalityType
  <2>3. QED
    BY <1>3, <2>1, <2>2
<1>5. Cardinality(list) = 0 <=> list = {}
  BY <1>2, FS_EmptySet
<1>6. QED
  BY <1>2, <1>3, <1>4, <1>5

\* The ranks of a list's registers are different numbers below its length.
LEMMA RanksDiffer ==
  ASSUME NEW list \in Lists, NEW r \in list
  PROVE  /\ RankOf(r, list) \in 0..(Cardinality(list) - 1)
         /\ \A q \in list : q < r => RankOf(q, list) < RankOf(r, list)
<1>1. IsFiniteSet(list) /\ Cardinality(list) \in Nat /\ r \in Int
  BY ListsAreFinite DEF Lists
<1>2. ASSUME NEW p \in list, p # r
      PROVE  IsFiniteSet(Below_(p, list)) /\ Cardinality(Below_(p, list)) \in Nat
  BY <1>1, ListsAreFinite DEF Below_
<1>3. RankOf(r, list) \in 0..(Cardinality(list) - 1)
  <2>1. Below_(r, list) \subseteq list \ {r}
    BY <1>1 DEF Below_
  <2>2. IsFiniteSet(list \ {r}) /\ Cardinality(list \ {r}) = Cardinality(list) - 1
    BY <1>1, FS_RemoveElement
  <2>3. Cardinality(Below_(r, list)) <= Cardinality(list) - 1
    BY <2>1, <2>2, FS_Subset
  <2>4. Cardinality(Below_(r, list)) \in Nat
    BY <2>1, <2>2, FS_Subset, FS_CardinalityType
  <2>5. QED
    BY <1>1, <2>3, <2>4 DEF RankOf
<1>4. ASSUME NEW q \in list, q < r
      PROVE  RankOf(q, list) < RankOf(r, list)
  <2>1. q \in Int /\ q # r
    BY <1>1, <1>4 DEF Lists
  <2>2. IsFiniteSet(Below_(q, list)) /\ Cardinality(Below_(q, list)) \in Nat
    BY <1>2, <2>1
  <2>3. q \notin Below_(q, list)
    BY <2>1 DEF Below_
  <2>4. Cardinality(Below_(q, list) \cup {q}) = Cardinality(Below_(q, list)) + 1
    BY <2>2, <2>3, FS_AddElement
  <2>5. Below_(q, list) \cup {q} \subseteq Below_(r, list)
    <3>1. \A p \in list : p \in Int
      BY DEF Lists
    <3>2. \A p \in list : p < q => p < r
      BY <1>1, <1>4, <2>1, <3>1
    <3>3. QED
      BY <1>4, <3>2 DEF Below_
  <2>6. IsFiniteSet(Below_(r, list))
    BY ListsAreFinite DEF Below_
  <2>7. /\ Cardinality(Below_(q, list) \cup {q}) <= Cardinality(Below_(r, list))
        /\ Cardinality(Below_(r, list)) \in Nat
    BY <2>5, <2>6, FS_Subset, FS_CardinalityType
  <2>8. QED
    BY <2>2, <2>4, <2>7 DEF RankOf
<1>5. QED
  BY <1>3, <1>4

\* Every number below the length of a list is the rank of one of its registers.
LEMMA RanksAreAll ==
  ASSUME NEW list \in Lists, NEW k \in 0..(Cardinality(list) - 1)
  PROVE  \E r \in list : RankOf(r, list) = k
<1> DEFINE n == Cardinality(list)
           rank == [r \in list |-> RankOf(r, list)]
<1>1. IsFiniteSet(list) /\ n \in Nat
  BY ListsAreFinite
<1>2. IsFiniteSet(0..(n - 1)) /\ Cardinality(0..(n - 1)) = n
  BY <1>1, FS_Interval
<1>3. rank \in Injection(list, 0..(n - 1))
  <2>1. rank \in [list -> 0..(n - 1)]
    BY RanksDiffer
  <2>2. ASSUME NEW q \in list, NEW r \in list, q # r
        PROVE  rank[q] # rank[r]
    <3>1. q < r \/ r < q
      BY <2>2 DEF Lists
    <3>2. rank[q] \in Int /\ rank[r] \in Int
      BY <2>1
    <3>3. QED
      BY <3>1, <3>2, RanksDiffer
  <2>3. QED
    BY <2>1, <2>2 DEF Injection, IsInjective
<1>4. rank \in Surjection(list, 0..(n - 1))
  BY <1>1, <1>2, <1>3, FS_Injection
<1>5. QED
  BY <1>4 DEF Surjection

-----------------------------------------------------------------------------
(* Addresses wrap. *)

\* Quotient and remainder.
LEMMA Division ==
  ASSUME NEW n \in Nat \ {0}, NEW a \in Int
  PROVE  /\ a % n \in 0..(n - 1)
         /\ a \div n \in Int
         /\ a = n * (a \div n) + (a % n)
OBVIOUS

\* A remainder is unique.
LEMMA RemainderUnique ==
  ASSUME NEW n \in Nat \ {0}, NEW q \in Int, NEW p \in Int,
         NEW r \in 0..(n - 1), NEW s \in 0..(n - 1),
         n * q + r = n * p + s
  PROVE  r = s
<1>1. ASSUME NEW i \in Int, NEW j \in Int, i > j
      PROVE  n * i >= n * j + n
  <2>1. PICK k \in Nat : i = j + 1 + k
    BY <1>1
  <2>2. n * i = n * j + n + n * k /\ n * k >= 0
    BY <2>1
  <2>3. QED
    BY <2>2
<1>2. CASE q > p
  BY <1>1, <1>2
<1>3. CASE p > q
  BY <1>1, <1>3
<1>4. QED
  BY <1>2, <1>3

\* Numbers that differ by a multiple of the size of the address space are the
\* same address.
LEMMA SameAddress ==
  ASSUME NEW a \in Int, NEW b \in Int, NEW k \in Int, a = b + AddressSpace * k
  PROVE  Wrapped(a) = Wrapped(b)
<1> DEFINE n == AddressSpace
           q == a \div n
           p == b \div n
           r == a % n
           s == b % n
<1>1. n \in Nat \ {0}
  BY BlockTransferAssumption
<1>2. a = n * q + r /\ q \in Int /\ r \in 0..(n - 1)
  BY <1>1, Division
<1>3. b = n * p + s /\ p \in Int /\ s \in 0..(n - 1)
  BY <1>1, Division
<1>4. n * q + r = n * (p + k) + s
  <2>1. n * (p + k) = n * p + n * k
    BY <1>1, <1>3
  <2>2. n * q \in Int /\ n * p \in Int /\ n * k \in Int
    BY <1>1, <1>2, <1>3
  <2> HIDE DEF n, p, q, r, s
  <2>3. QED
    BY <1>2, <1>3, <2>1, <2>2 DEF n
<1>5. r = s
  <2>1. p + k \in Int
    BY <1>3
  <2> HIDE DEF n, p, q, r, s
  <2>2. QED
    BY <1>1, <1>2, <1>3, <1>4, <2>1, RemainderUnique
<1>6. QED
  BY <1>5 DEF Wrapped

\* Wrapping gives an address, does nothing to one, and once is enough.
LEMMA WrappedTyped ==
  /\ \A a \in Int : Wrapped(a) \in 0..(AddressSpace - 1)
  /\ \A a \in 0..(AddressSpace - 1) : Wrapped(a) = a
  /\ \A a, b \in Int : Wrapped(Wrapped(a) + b) = Wrapped(a + b)
<1>1. AddressSpace \in Nat \ {0}
  BY BlockTransferAssumption
<1>2. ASSUME NEW a \in Int
      PROVE  Wrapped(a) \in 0..(AddressSpace - 1)
  BY <1>1, Division DEF Wrapped
<1>3. ASSUME NEW a \in 0..(AddressSpace - 1)
      PROVE  Wrapped(a) = a
  <2>1. a \in Int
    BY <1>1
  <2>2. /\ AddressSpace * (a \div AddressSpace) + Wrapped(a) = AddressSpace * 0 + a
        /\ Wrapped(a) \in 0..(AddressSpace - 1)
        /\ a \div AddressSpace \in Int
    BY <1>1, <2>1, Division DEF Wrapped
  <2>3. QED
    BY <1>1, <2>2, RemainderUnique
<1>4. ASSUME NEW a \in Int, NEW b \in Int
      PROVE  Wrapped(Wrapped(a) + b) = Wrapped(a + b)
  <2>1. /\ a = AddressSpace * (a \div AddressSpace) + Wrapped(a)
        /\ a \div AddressSpace \in Int /\ Wrapped(a) \in Int
    BY <1>1, Division DEF Wrapped
  <2>2. AddressSpace * (a \div AddressSpace) \in Int
    BY <1>1, <2>1
  <2>3. a + b = (Wrapped(a) + b) + AddressSpace * (a \div AddressSpace)
    BY <2>1, <2>2
  <2>4. QED
    BY <2>1, <2>3, SameAddress
<1>5. QED
  BY <1>2, <1>3, <1>4

\* An address stays in step with the code, or with the words, when it wraps.
LEMMA WrappedInStep ==
  ASSUME NEW a \in Int
  PROVE  /\ a % 4 = 0 => Wrapped(a) % 4 = 0
         /\ a % 2 = 0 => Wrapped(a) % 2 = 0
<1>1. PICK w \in Nat : AddressSpace = 4 * w /\ w # 0
  <2>1. AddressSpace \in Nat /\ AddressSpace % 4 = 0 /\ AddressSpace # 0
    BY BlockTransferAssumption
  <2>2. AddressSpace = 4 * (AddressSpace \div 4) /\ AddressSpace \div 4 \in Nat
    BY <2>1
  <2>3. QED
    BY <2>1, <2>2
<1>2. /\ a = AddressSpace * (a \div AddressSpace) + Wrapped(a)
      /\ a \div AddressSpace \in Int /\ Wrapped(a) \in Int
  <2>1. AddressSpace \in Nat \ {0}
    BY BlockTransferAssumption
  <2>2. QED
    BY <2>1, Division DEF Wrapped
<1>3. PICK k \in Int : a = 4 * k + Wrapped(a)
  <2>1. AddressSpace * (a \div AddressSpace) = 4 * (w * (a \div AddressSpace))
    BY <1>1, <1>2
  <2>2. w * (a \div AddressSpace) \in Int
    BY <1>1, <1>2
  <2>3. QED
    BY <1>2, <2>1, <2>2
<1>4. QED
  BY <1>2, <1>3


-----------------------------------------------------------------------------
(* Places on the stack: the stack of depth d ends at SpAt(d), and its k-th word *)
(* from the bottom is at Slot(k).                                               *)

SpAt(d) == IF modes[1] \in Descending THEN Bottom - 4 * d ELSE Bottom + 4 * d

Slot(k) ==
  IF modes[1] \in Descending THEN StackStart + 4 * (Capacity - k)
                             ELSE StackStart + 4 * (k - 1)

\* The lists a program stores and loads.
Stored == SUBSET (Saved \cup {Lr})
Loadable == SUBSET (Saved \cup {Lr, Ip})

LEMMA ListsOfPrograms == Stored \subseteq Loadable /\ Loadable \subseteq Lists
BY BlockTransferAssumption DEF Stored, Loadable, Lists, Lr, Ip

\* Sizes of the stack, as far as addresses depend on them.
LEMMA Sizes ==
  /\ StackStart \in Nat /\ Capacity \in Nat /\ AddressSpace \in Nat
  /\ StackStart >= 4 /\ StackStart % 4 = 0
  /\ StackStart + 4 * Capacity + 64 < AddressSpace
BY BlockTransferAssumption

\* The abstract stack counts as the machine does.
LEMMA StackCounts ==
  ASSUME NEW S
  PROVE  Stack!Cardinality(S) = Cardinality(S)
BY DEF Stack!Cardinality, Cardinality

\* The place of a register of a list among the words of the list.
LEMMA PlaceInList ==
  ASSUME NEW list \in Lists, NEW r \in list
  PROVE  /\ Stack!Place(r, list) \in 1..Cardinality(list)
         /\ Stack!Place(r, list) =
              IF modes[1] \in Descending THEN RankOf(r, list) + 1
                                         ELSE Cardinality(list) - RankOf(r, list)
         /\ \A q \in list : q # r => Stack!Place(q, list) # Stack!Place(r, list)
<1>1. \A q \in list : RankOf(q, list) \in 0..(Cardinality(list) - 1) /\ q \in Int
  BY RanksDiffer DEF Lists
<1>2. Cardinality(list) \in Nat
  BY ListsAreFinite
<1>3. ASSUME NEW q \in list, q # r
      PROVE  RankOf(q, list) # RankOf(r, list)
  <2>1. q < r \/ r < q
    BY <1>1, <1>3
  <2>2. QED
    BY <1>1, <2>1, RanksDiffer
<1>4. ASSUME NEW q \in list
      PROVE  Stack!Place(q, list) =
               IF modes[1] \in Descending THEN RankOf(q, list) + 1
                                          ELSE Cardinality(list) - RankOf(q, list)
  <2>1. Stack!Rank(q, list) = RankOf(q, list)
    BY StackCounts DEF Stack!Rank, RankOf, Below_
  <2>2. QED
    BY <2>1, StackCounts DEF Stack!Place
<1>5. QED
  BY <1>1, <1>2, <1>3, <1>4

\* The four pairs of addressing modes, and where they begin.
LEMMA Pairs ==
  ASSUME modes \in ModePairs
  PROVE  \/ /\ modes[1] = "DecrementBefore" /\ modes[2] = "IncrementAfter"
            /\ modes[1] \in Descending /\ modes[2] \notin Descending
            /\ Bottom = StackStart + 4 * Capacity
         \/ /\ modes[1] = "DecrementAfter" /\ modes[2] = "IncrementBefore"
            /\ modes[1] \in Descending /\ modes[2] \notin Descending
            /\ Bottom = StackStart + 4 * Capacity - 4
         \/ /\ modes[1] = "IncrementBefore" /\ modes[2] = "DecrementAfter"
            /\ modes[1] \notin Descending /\ modes[2] \in Descending
            /\ Bottom = StackStart - 4
         \/ /\ modes[1] = "IncrementAfter" /\ modes[2] = "DecrementBefore"
            /\ modes[1] \notin Descending /\ modes[2] \in Descending
            /\ Bottom = StackStart
BY DEF ModePairs, Descending, Bottom

\* A store writes the words of its registers on top of the stack, and leaves the
\* stack pointer at the new top.
LEMMA StoresOnTop ==
  ASSUME modes \in ModePairs, NEW list \in Lists, list # {},
         NEW d \in Nat, d + Cardinality(list) <= Capacity
  PROVE  /\ write_back(modes[1], SpAt(d), list) = SpAt(d + Cardinality(list))
         /\ \A r \in list :
              AddressOf(r, modes[1], SpAt(d), list)
                = Slot(d + Cardinality(list) + 1 - Stack!Place(r, list))
<1> DEFINE c == Cardinality(list)
           start == start_address(modes[1], SpAt(d), list)
<1>1. /\ c \in Nat /\ c >= 1
      /\ \A r \in list : RankOf(r, list) \in 0..(c - 1)
  BY ListsAreFinite, RanksDiffer
<1>2. \A a \in Int : 0 <= a /\ a < AddressSpace => Wrapped(a) = a
  BY Sizes, WrappedTyped
<1>3. byte_len(list) = 4 * c
  BY DEF byte_len
<1> HIDE DEF c
<1>4. start = IF modes[1] \in Descending THEN Slot(d + c) ELSE Slot(d + 1)
  BY <1>1, <1>2, <1>3, Pairs, Sizes DEF start_address, SpAt, Slot, c
<1>5. write_back(modes[1], SpAt(d), list) = SpAt(d + c)
  BY <1>1, <1>2, <1>3, Pairs, Sizes DEF write_back, SpAt, c
<1> HIDE DEF start
<1>6. ASSUME NEW r \in list
      PROVE  AddressOf(r, modes[1], SpAt(d), list) = Slot(d + c + 1 - Stack!Place(r, list))
  <2>1. AddressOf(r, modes[1], SpAt(d), list) = Wrapped(start + 4 * RankOf(r, list))
    BY DEF AddressOf, RankOf, Below_, start
  <2>2. RankOf(r, list) \in Nat /\ RankOf(r, list) < c
    BY <1>1
  <2>3. Stack!Place(r, list) =
          IF modes[1] \in Descending THEN RankOf(r, list) + 1 ELSE c - RankOf(r, list)
    BY PlaceInList DEF c
  <2>4. /\ start + 4 * RankOf(r, list) = Slot(d + c + 1 - Stack!Place(r, list))
        /\ start + 4 * RankOf(r, list) \in 0..(AddressSpace - 1)
    BY <1>1, <1>4, <2>2, <2>3, Sizes DEF Slot, c
  <2>5. QED
    BY <1>2, <2>1, <2>4, Sizes
<1>7. QED
  BY <1>5, <1>6 DEF c

\* A load takes the words of its registers from the top of the stack.
LEMMA LoadsFromTop ==
  ASSUME modes \in ModePairs, NEW list \in Lists, list # {},
         NEW d \in Nat, Cardinality(list) <= d, d <= Capacity
  PROVE  /\ write_back(modes[2], SpAt(d), list) = SpAt(d - Cardinality(list))
         /\ \A r \in list :
              AddressOf(r, modes[2], SpAt(d), list) = Slot(d + 1 - Stack!Place(r, list))
<1> DEFINE c == Cardinality(list)
           start == start_address(modes[2], SpAt(d), list)
<1>1. /\ c \in Nat /\ c >= 1
      /\ \A r \in list : RankOf(r, list) \in 0..(c - 1)
  BY ListsAreFinite, RanksDiffer
<1>2. \A a \in Int : 0 <= a /\ a < AddressSpace => Wrapped(a) = a
  BY Sizes, WrappedTyped
<1>3. byte_len(list) = 4 * c
  BY DEF byte_len
<1> HIDE DEF c
<1>4. start = IF modes[1] \in Descending THEN Slot(d) ELSE Slot(d - c + 1)
  BY <1>1, <1>2, <1>3, Pairs, Sizes DEF start_address, SpAt, Slot, c
<1>5. write_back(modes[2], SpAt(d), list) = SpAt(d - c)
  BY <1>1, <1>2, <1>3, Pairs, Sizes DEF write_back, SpAt, c
<1> HIDE DEF start
<1>6. ASSUME NEW r \in list
      PROVE  AddressOf(r, modes[2], SpAt(d), list) = Slot(d + 1 - Stack!Place(r, list))
  <2>1. AddressOf(r, modes[2], SpAt(d), list) = Wrapped(start + 4 * RankOf(r, list))
    BY DEF AddressOf, RankOf, Below_, start
  <2>2. RankOf(r, list) \in Nat /\ RankOf(r, list) < c
    BY <1>1
  <2>3. Stack!Place(r, list) =
          IF modes[1] \in Descending THEN RankOf(r, list) + 1 ELSE c - RankOf(r, list)
    BY PlaceInList DEF c
  <2>4. /\ start + 4 * RankOf(r, list) = Slot(d + 1 - Stack!Place(r, list))
        /\ start + 4 * RankOf(r, list) \in 0..(AddressSpace - 1)
    BY <1>1, <1>4, <2>2, <2>3, Sizes DEF Slot, c
  <2>5. QED
    BY <1>2, <2>1, <2>4, Sizes
<1>7. QED
  BY <1>5, <1>6 DEF c


-----------------------------------------------------------------------------
(* Transfers are announced. *)

\* The highest register of a list comes last.
LEMMA HighestIsLast ==
  ASSUME NEW list \in Lists, list # {}
  PROVE  LET last == CHOOSE r \in list : \A q \in list : q <= r
         IN  last \in list /\ RankOf(last, list) = Cardinality(list) - 1
<1> DEFINE c == Cardinality(list)
           last == CHOOSE r \in list : \A q \in list : q <= r
<1>1. /\ c \in 1..16
      /\ \A r \in list : RankOf(r, list) \in 0..(c - 1) /\ r \in Int
      /\ \A k \in 0..(c - 1) : \E r \in list : RankOf(r, list) = k
  BY ListsAreFinite, RanksDiffer, RanksAreAll DEF Lists
<1>2. PICK r \in list : RankOf(r, list) = c - 1
  BY <1>1
<1>3. ASSUME NEW q \in list, r < q
      PROVE  FALSE
  <2>1. RankOf(r, list) < RankOf(q, list)
    BY <1>3, RanksDiffer
  <2>2. QED
    BY <1>1, <1>2, <2>1
<1>4. \A q \in list : q <= r
  BY <1>1, <1>3
<1>5. last \in list /\ \A q \in list : q <= last
  BY <1>4
<1>6. last = r
  BY <1>1, <1>4, <1>5
<1>7. QED
  BY <1>2, <1>5, <1>6

\* The last word goes where the code asserts, wherever the address space ends.
LEMMA EndsAsAsserted ==
  ASSUME NEW base \in 0..(AddressSpace - 5), NEW list \in Lists, list # {},
         NEW mode \in {"IncrementBefore", "IncrementAfter", "DecrementBefore", "DecrementAfter"},
         NEW last \in list, RankOf(last, list) = Cardinality(list) - 1
  PROVE  AddressOf(last, mode, base, list) = end_address(mode, base, list)
<1> DEFINE c == Cardinality(list)
           start == start_address(mode, base, list)
<1>1. c \in 1..16
  BY ListsAreFinite
<1>2. /\ base \in Int /\ base \in 0..(AddressSpace - 1) /\ base + 4 \in 0..(AddressSpace - 1)
  BY Sizes
<1>3. AddressOf(last, mode, base, list) = Wrapped(start + 4 * (c - 1))
  BY DEF AddressOf, RankOf, Below_
<1>4. byte_len(list) = 4 * c
  BY DEF byte_len
<1> HIDE DEF c, start
<1>5. CASE mode = "IncrementBefore"
  <2>1. start = base + 4
    BY <1>2, <1>5, WrappedTyped DEF start_address, start
  <2>2. base + 4 + 4 * (c - 1) = base + 4 * c
    BY <1>1, <1>2
  <2>3. QED
    BY <1>3, <1>4, <1>5, <2>1, <2>2 DEF end_address
<1>6. CASE mode = "IncrementAfter"
  <2>1. start = base
    BY <1>6 DEF start_address, start
  <2>2. base + 4 * (c - 1) = base + 4 * c - 4
    BY <1>1, <1>2
  <2>3. QED
    BY <1>3, <1>4, <1>6, <2>1, <2>2 DEF end_address
<1>7. CASE mode = "DecrementBefore"
  <2>1. start = Wrapped(base - 4 * c)
    BY <1>4, <1>7 DEF start_address, start
  <2>2. base - 4 * c \in Int /\ 4 * (c - 1) \in Int
    BY <1>1, <1>2
  <2>3. Wrapped(start + 4 * (c - 1)) = Wrapped(base - 4 * c + 4 * (c - 1))
    BY <2>1, <2>2, WrappedTyped
  <2>4. base - 4 * c + 4 * (c - 1) = base - 4
    BY <1>1, <1>2
  <2>5. QED
    BY <1>3, <1>7, <2>3, <2>4 DEF end_address
<1>8. CASE mode = "DecrementAfter"
  <2>1. start = Wrapped(base - 4 * c + 4)
    BY <1>4, <1>8 DEF start_address, start
  <2>2. base - 4 * c + 4 \in Int /\ 4 * (c - 1) \in Int
    BY <1>1, <1>2
  <2>3. Wrapped(start + 4 * (c - 1)) = Wrapped(base - 4 * c + 4 + 4 * (c - 1))
    BY <2>1, <2>2, WrappedTyped
  <2>4. base - 4 * c + 4 + 4 * (c - 1) = base
    BY <1>1, <1>2
  <2>5. QED
    BY <1>2, <1>3, <1>8, <2>3, <2>4, WrappedTyped DEF end_address
<1>9. QED
  BY <1>5, <1>6, <1>7, <1>8

\* With an increasing mode the words that are written are all of the ones in the
\* range the history looks at.
LEMMA IncreasingIsAnnounced ==
  ASSUME NEW base \in Nat, base + 64 < AddressSpace, NEW list \in Lists, list # {},
         NEW mode \in {"IncrementBefore", "IncrementAfter"}
  PROVE  LET seen == accessed_memory_addresses(mode, base, list)
         IN  {AddressOf(r, mode, base, list) : r \in list}
               = {a \in seen[1]..(seen[2] - 1) : (a - base) % 4 = 0}
<1> DEFINE c == Cardinality(list)
           start == start_address(mode, base, list)
<1>1. /\ c \in 1..16
      /\ \A r \in list : RankOf(r, list) \in 0..(c - 1)
      /\ \A k \in 0..(c - 1) : \E r \in list : RankOf(r, list) = k
  BY ListsAreFinite, RanksDiffer, RanksAreAll
<1>2. start = IF mode = "IncrementBefore" THEN base + 4 ELSE base
  <2>1. base + 4 \in 0..(AddressSpace - 1)
    BY Sizes
  <2>2. Wrapped(base + 4) = base + 4
    BY <2>1, WrappedTyped
  <2>3. QED
    BY <2>2 DEF start_address
<1>3. accessed_memory_addresses(mode, base, list) = <<start, start + 4 * c>>
  BY <1>2 DEF accessed_memory_addresses, Descending, byte_len
<1>4. \A r \in list : AddressOf(r, mode, base, list) = Wrapped(start + 4 * RankOf(r, list))
  BY DEF AddressOf, RankOf, Below_
<1> HIDE DEF c, start
<1>5. /\ start \in Nat /\ start - base \in {0, 4}
      /\ start + 4 * (c - 1) < AddressSpace
  BY <1>1, <1>2, Sizes
<1>6. ASSUME NEW r \in list
      PROVE  /\ AddressOf(r, mode, base, list) \in start..(start + 4 * c - 1)
             /\ (AddressOf(r, mode, base, list) - base) % 4 = 0
  <2> DEFINE k == RankOf(r, list)
  <2>1. k \in 0..(c - 1)
    BY <1>1
  <2> HIDE DEF k
  <2>2. start + 4 * k \in 0..(AddressSpace - 1)
    BY <1>1, <1>5, <2>1, Sizes
  <2>3. AddressOf(r, mode, base, list) = start + 4 * k
    BY <1>4, <2>2, WrappedTyped DEF k
  <2>4. QED
    BY <1>1, <1>5, <2>1, <2>3
<1>7. ASSUME NEW a \in start..(start + 4 * c - 1), (a - base) % 4 = 0
      PROVE  \E r \in list : a = AddressOf(r, mode, base, list)
  <2> DEFINE k == (a - start) \div 4
  <2>1. (a - start) % 4 = 0 /\ a \in Int /\ start \in Int
    BY <1>1, <1>5, <1>7
  <2>2. k \in 0..(c - 1) /\ a = start + 4 * k
    BY <1>1, <1>7, <2>1
  <2> HIDE DEF k
  <2>3. PICK r \in list : RankOf(r, list) = k
    BY <1>1, <2>2
  <2>4. a \in 0..(AddressSpace - 1)
    BY <1>1, <1>5, <2>2, Sizes
  <2>5. AddressOf(r, mode, base, list) = a
    BY <1>4, <2>2, <2>3, <2>4, WrappedTyped
  <2>6. QED
    BY <2>5
<1>8. {AddressOf(r, mode, base, list) : r \in list}
        = {a \in start..(start + 4 * c - 1) : (a - base) % 4 = 0}
  BY <1>6, <1>7
<1>9. QED
  BY <1>1, <1>3, <1>5, <1>8

\* The stack pointer is an address with room for all registers behind it: that is
\* all that what a transfer announces rests on.
LEMMA AnnouncedFromTypes == TypeOK => TransfersAreAnnounced
<1> SUFFICES ASSUME TypeOK, NEW pair \in ModePairs, NEW list \in Loadable, list # {}
             PROVE  LET mode == pair[1]
                        base == registers[Sp]
                        to   == {AddressOf(r, mode, base, list) : r \in list}
                        seen == accessed_memory_addresses(mode, base, list)
                    IN  /\ AddressOf(CHOOSE r \in list : \A q \in list : q <= r,
                                     mode, base, list)
                             = end_address(mode, base, list)
                        /\ mode \notin Descending =>
                             to = {a \in seen[1]..(seen[2] - 1) : (a - base) % 4 = 0}
  BY DEF TransfersAreAnnounced, Loadable
<1>1. /\ list \in Lists
      /\ pair[1] \in {"IncrementBefore", "IncrementAfter", "DecrementBefore", "DecrementAfter"}
      /\ pair[1] \notin Descending => pair[1] \in {"IncrementBefore", "IncrementAfter"}
  BY ListsOfPrograms DEF ModePairs, Descending
<1>2. /\ registers[Sp] \in Nat /\ registers[Sp] + 64 < AddressSpace
      /\ registers[Sp] \in 0..(AddressSpace - 5)
  BY Sizes DEF TypeOK
<1>3. QED
  BY <1>1, <1>2, HighestIsLast, EndsAsAsserted, IncreasingIsAnnounced


-----------------------------------------------------------------------------
(* The inductive invariant. *)

Word == 0..(AddressSpace - 1)

\* How deep the stack is that ends at sp.
DepthOf(sp) ==
  (IF modes[1] \in Descending THEN Bottom - sp ELSE sp - Bottom) \div 4

\* The depth at which the i-th call begins, and the one reached now.
Base(i) == DepthOf(IF i <= Len(calls) THEN calls[i].sp ELSE registers[Sp])

\* What a register held when the function was called.
Given(call, r) ==
  IF r = Lr THEN IF call.thumb THEN call.back + 1 ELSE call.back
            ELSE call.saved[r]

CallRecord ==
  [back : Word, thumb : BOOLEAN, sp : Word, list : Stored, saved : [Saved -> Word]]

MachineTyped ==
  /\ modes \in ModePairs
  /\ thumb \in BOOLEAN
  /\ memory \in [StackWords -> Word]
  /\ registers \in [Saved \cup {Sp, Lr, Ip} -> Word]
  /\ registers[Ip] % (IF thumb THEN 2 ELSE 4) = 0
  /\ calls \in Seq(CallRecord)
  /\ \A i \in 1..Len(calls) : calls[i].back % (IF calls[i].thumb THEN 2 ELSE 4) = 0

\* What is on the stack is what the calls have stored, one behind the other.
Nested ==
  /\ \A i \in 1..Len(calls) : Base(i + 1) = Base(i) + Cardinality(calls[i].list)
  /\ \A i \in 1..(Len(calls) + 1) :
       /\ Base(i) \in 0..Capacity
       /\ SpAt(Base(i)) = IF i <= Len(calls) THEN calls[i].sp ELSE registers[Sp]
  /\ \A i, j \in 1..(Len(calls) + 1) : i <= j => Base(i) <= Base(j)

\* Where a list's word for a register is, of a stack that ends with the list.
WordOf(top, r, list) == Slot(top + 1 - Stack!Place(r, list))

\* Every call's words are what the registers it has stored were when it was called.
WordsKept ==
  \A i \in 1..Len(calls) : \A r \in calls[i].list :
    memory[WordOf(Base(i + 1), r, calls[i].list)] = Given(calls[i], r)

\* The registers a function has not stored are what they were when it was called,
\* or when it called another one, which has stored its link register before.
RegistersKept ==
  /\ calls # <<>> =>
       \A r \in (Saved \cup {Lr}) \ Current.list : registers[r] = Given(Current, r)
  /\ \A i \in 1..(Len(calls) - 1) :
       /\ Lr \in calls[i].list
       /\ \A r \in Saved \ calls[i].list : calls[i + 1].saved[r] = calls[i].saved[r]

CallsInv == MachineTyped /\ Nested /\ WordsKept /\ RegistersKept

-----------------------------------------------------------------------------
(* Lemmas about the parts of the invariant. *)

\* The addressing modes stay what they are, and with them all places.
LEMMA SameModes ==
  ASSUME modes' = modes
  PROVE  /\ \A d : SpAt(d)' = SpAt(d)
         /\ \A sp : DepthOf(sp)' = DepthOf(sp)
         /\ \A top, r, list : WordOf(top, r, list)' = WordOf(top, r, list)
         /\ \A k : Slot(k)' = Slot(k)
         /\ Bottom' = Bottom
<1>1. Bottom' = Bottom
  BY DEF Bottom
<1>2. \A k : Slot(k)' = Slot(k)
  BY DEF Slot
<1>3. \A top, r, list : WordOf(top, r, list)' = WordOf(top, r, list)
  BY DEF WordOf, Slot, Stack!Place, Stack!Rank, Stack!Cardinality
<1>4. QED
  BY <1>1, <1>2, <1>3 DEF SpAt, DepthOf

\* The stack pointer tells the depth, and the words of the stack are memory.
LEMMA DepthIsOfSp ==
  ASSUME modes \in ModePairs, NEW d \in 0..Capacity
  PROVE  /\ DepthOf(SpAt(d)) = d
         /\ SpAt(d) \in (StackStart - 4)..(StackStart + 4 * Capacity)
         /\ SpAt(d) \in Word
         /\ SpAt(d) % 4 = 0
<1>1. PICK w \in Int : StackStart = 4 * w
  <2>1. StackStart = 4 * (StackStart \div 4) /\ StackStart \div 4 \in Int
    BY Sizes
  <2>2. QED
    BY <2>1
<1>2. d \in Nat /\ d <= Capacity
  BY Sizes
<1>3. /\ Bottom \in Int
      /\ Bottom >= StackStart - 4
      /\ Bottom <= StackStart + 4 * Capacity
      /\ modes[1] \in Descending => Bottom >= StackStart - 4 + 4 * Capacity
      /\ modes[1] \notin Descending => Bottom <= StackStart
  BY Pairs, Sizes
<1>4. PICK b \in Int : Bottom = 4 * b
  <2>1. /\ StackStart + 4 * Capacity = 4 * (w + Capacity)
        /\ StackStart + 4 * Capacity - 4 = 4 * (w + Capacity - 1)
        /\ StackStart - 4 = 4 * (w - 1)
    BY <1>1, Sizes
  <2>2. w + Capacity \in Int /\ w + Capacity - 1 \in Int /\ w - 1 \in Int
    BY Sizes
  <2>3. \/ Bottom = 4 * w \/ Bottom = 4 * (w + Capacity)
        \/ Bottom = 4 * (w + Capacity - 1) \/ Bottom = 4 * (w - 1)
    BY <1>1, <2>1, Pairs
  <2>4. QED
    BY <2>2, <2>3
<1>5. QED
  BY <1>2, <1>3, <1>4, Sizes DEF SpAt, DepthOf, Word

\* The words of the stack are different ones.
LEMMA SlotsDiffer ==
  /\ \A k \in 1..Capacity : Slot(k) \in StackWords
  /\ \A j, k \in 1..Capacity : Slot(j) = Slot(k) => j = k
<1>1. ASSUME NEW k \in 1..Capacity
      PROVE  Slot(k) \in StackWords
  <2>1. Capacity - k \in 0..(Capacity - 1) /\ k - 1 \in 0..(Capacity - 1)
    BY Sizes
  <2>2. QED
    BY <2>1 DEF Slot, StackWords
<1>2. QED
  BY <1>1, Sizes DEF Slot

\* The stack ends where the last call's words end.
LEMMA TopOfStack ==
  ASSUME CallsInv
  PROVE  /\ Len(calls) \in Nat
         /\ Depth = Base(Len(calls) + 1)
         /\ Depth \in 0..Capacity
         /\ registers[Sp] = SpAt(Depth)
         /\ calls # <<>> =>
              /\ Len(calls) \in 1..Len(calls) /\ Len(calls) >= 1
              /\ Current \in CallRecord
              /\ Current.list \in Lists /\ Current.list \subseteq Saved \cup {Lr}
              /\ Current.sp = SpAt(Base(Len(calls)))
              /\ Base(Len(calls)) \in 0..Capacity
              /\ Depth = Base(Len(calls)) + Cardinality(Current.list)
<1>1. calls \in Seq(CallRecord) /\ Len(calls) \in Nat
  BY DEF CallsInv, MachineTyped
<1>2. /\ Depth = Base(Len(calls) + 1)
      /\ registers[Sp] = SpAt(Base(Len(calls) + 1))
      /\ Base(Len(calls) + 1) \in 0..Capacity
  <2>1. ~(Len(calls) + 1 <= Len(calls)) /\ Len(calls) + 1 \in 1..(Len(calls) + 1)
    BY <1>1
  <2>2. QED
    BY <2>1 DEF CallsInv, Nested, Depth, Base, DepthOf
<1>3. ASSUME calls # <<>>
      PROVE  /\ Len(calls) \in 1..Len(calls) /\ Len(calls) >= 1
             /\ Current \in CallRecord
             /\ Current.list \in Lists /\ Current.list \subseteq Saved \cup {Lr}
             /\ Current.sp = SpAt(Base(Len(calls)))
             /\ Base(Len(calls)) \in 0..Capacity
             /\ Base(Len(calls) + 1) = Base(Len(calls)) + Cardinality(Current.list)
  <2>1. Len(calls) \in 1..Len(calls) /\ Len(calls) >= 1 /\ Len(calls) \in 1..(Len(calls) + 1)
    BY <1>1, <1>3
  <2>2. Current \in CallRecord
    BY <1>1, <2>1 DEF Current
  <2>3. Current.list \in Stored
    BY <2>2 DEF CallRecord
  <2>4. QED
    BY <2>1, <2>2, <2>3, ListsOfPrograms DEF CallsInv, Nested, Current, Stored
<1>4. QED
  BY <1>1, <1>2, <1>3

\* A list that is loaded is what was given to the function for its registers, and
\* the stack is then as it was when the function was called.
LEMMA LoadsWhatWasGiven ==
  ASSUME CallsInv, calls # <<>>, Current.list # {}
  PROVE  /\ write_back(modes[2], registers[Sp], Current.list) = Current.sp
         /\ \A r \in Current.list :
              memory[AddressOf(r, modes[2], registers[Sp], Current.list)] = Given(Current, r)
<1> DEFINE list == Current.list
           c == Cardinality(list)
<1>1. /\ Len(calls) \in 1..Len(calls)
      /\ Depth \in Nat /\ Depth <= Capacity /\ Depth = Base(Len(calls) + 1)
      /\ registers[Sp] = SpAt(Depth)
      /\ list \in Lists
      /\ Base(Len(calls)) \in Nat /\ Current.sp = SpAt(Base(Len(calls)))
      /\ Depth = Base(Len(calls)) + c
  BY TopOfStack, Sizes
<1>2. c \in Nat /\ c <= Depth /\ Depth - c = Base(Len(calls))
  BY <1>1, ListsAreFinite
<1>3. modes \in ModePairs
  BY DEF CallsInv, MachineTyped
<1> HIDE DEF c
<1>4. /\ write_back(modes[2], SpAt(Depth), list) = SpAt(Depth - c)
      /\ \A r \in list :
           AddressOf(r, modes[2], SpAt(Depth), list) = Slot(Depth + 1 - Stack!Place(r, list))
  BY <1>1, <1>2, <1>3, LoadsFromTop DEF c
<1>5. \A r \in list : memory[WordOf(Base(Len(calls) + 1), r, list)] = Given(Current, r)
  BY <1>1 DEF CallsInv, WordsKept, Current
<1>6. QED
  BY <1>1, <1>2, <1>4, <1>5 DEF WordOf

\* A function that returns to where it was called, with the stack and the
\* registers of its caller, leaves all there was before the call.
LEMMA ReturningKeeps ==
  ASSUME CallsInv, calls # <<>>, calls' = Callers, UNCHANGED <<memory, modes>>,
         registers' \in [Saved \cup {Sp, Lr, Ip} -> Word],
         registers'[Ip] = Current.back, thumb' = Current.thumb,
         registers'[Sp] = Current.sp,
         \A r \in Saved : registers'[r] = Current.saved[r]
  PROVE  CallsInv'
<1> PICK n \in Nat : n = Len(calls)
  BY TopOfStack
<1>1. /\ n = Len(calls) /\ n >= 1 /\ n \in 1..n /\ calls \in Seq(CallRecord)
      /\ Current \in CallRecord /\ Current = calls[n]
  BY TopOfStack DEF CallsInv, MachineTyped, Current
<1>2. /\ calls' \in Seq(CallRecord) /\ Len(calls') = n - 1
      /\ \A i \in 1..(n - 1) : calls'[i] = calls[i]
  BY <1>1 DEF Callers
<1>3. modes' = modes /\ memory' = memory /\ Bottom' = Bottom
  BY SameModes
<1>4. \A i \in 1..n : Base(i)' = Base(i)
  <2>1. ASSUME NEW i \in 1..(n - 1)
        PROVE  Base(i)' = Base(i)
    <3>1. i <= Len(calls) /\ i <= Len(calls')
      BY <1>1, <1>2
    <3>2. QED
      BY <1>2, <1>3, <3>1 DEF Base, DepthOf
  <2>2. Base(n)' = Base(n)
    <3>1. n <= Len(calls) /\ ~(n <= Len(calls'))
      BY <1>1, <1>2
    <3>2. QED
      BY <1>2, <1>3, <3>1 DEF Base, DepthOf, Current
  <2>3. QED
    BY <1>1, <2>1, <2>2
<1>5. MachineTyped'
  <2>1. Current.back % (IF Current.thumb THEN 2 ELSE 4) = 0 /\ Current.thumb \in BOOLEAN
    BY <1>1 DEF CallsInv, MachineTyped, Current, CallRecord
  <2>2. \A i \in 1..Len(calls') : calls'[i].back % (IF calls'[i].thumb THEN 2 ELSE 4) = 0
    BY <1>1, <1>2 DEF CallsInv, MachineTyped
  <2>3. QED
    BY <1>2, <1>3, <2>1, <2>2 DEF CallsInv, MachineTyped
<1>6. Nested'
  <2>1. \A i \in 1..(n - 1) : Base(i + 1)' = Base(i)' + Cardinality(calls'[i].list)
    <3>1. \A i \in 1..(n - 1) : i \in 1..n /\ i + 1 \in 1..n
      BY <1>1
    <3>2. QED
      BY <1>2, <1>4, <3>1 DEF CallsInv, Nested
  <2>2. \A i \in 1..n : /\ Base(i)' \in 0..Capacity
                        /\ SpAt(Base(i))' = IF i <= Len(calls') THEN calls'[i].sp ELSE registers'[Sp]
    <3>1. ASSUME NEW i \in 1..n
          PROVE  /\ Base(i)' \in 0..Capacity
                 /\ SpAt(Base(i))' = IF i <= Len(calls') THEN calls'[i].sp ELSE registers'[Sp]
      <4>1. Base(i)' = Base(i) /\ Base(i) \in 0..Capacity /\ SpAt(Base(i)) = calls[i].sp
        BY <1>1, <1>4 DEF CallsInv, Nested
      <4>2. SpAt(Base(i))' = SpAt(Base(i))
        BY <1>3, <4>1 DEF SpAt
      <4>3. i <= n - 1 \/ i = n
        BY <1>1
      <4>4. QED
        BY <1>1, <1>2, <4>1, <4>2, <4>3 DEF Current
    <3>2. QED
      BY <3>1
  <2>3. \A i, j \in 1..n : i <= j => Base(i)' <= Base(j)'
    BY <1>1, <1>4 DEF CallsInv, Nested
  <2>4. Len(calls') + 1 = n
    BY <1>1, <1>2
  <2>5. QED
    BY <1>2, <2>1, <2>2, <2>3, <2>4 DEF Nested
<1>7. WordsKept'
  <2>1. ASSUME NEW i \in 1..(n - 1), NEW r \in calls[i].list
        PROVE  memory[WordOf(Base(i + 1)', r, calls[i].list)] = Given(calls[i], r)
    <3>1. i \in 1..Len(calls) /\ i + 1 \in 1..n
      BY <1>1
    <3>2. memory[WordOf(Base(i + 1), r, calls[i].list)] = Given(calls[i], r)
      BY <3>1 DEF CallsInv, WordsKept
    <3>3. QED
      BY <1>4, <3>1, <3>2
  <2>2. \A top, r, list : WordOf(top, r, list)' = WordOf(top, r, list)
    BY <1>3, SameModes
  <2>3. \A call, r : Given(call, r)' = Given(call, r)
    BY DEF Given
  <2>4. SUFFICES ASSUME NEW i \in 1..(n - 1), NEW r \in calls[i].list
                 PROVE  memory'[WordOf(Base(i + 1), r, calls[i].list)'] = Given(calls[i], r)'
    BY <1>2 DEF WordsKept
  <2>5. calls'[i] = calls[i]
    BY <1>2
  <2>6. WordOf(Base(i + 1), r, calls[i].list)' = WordOf(Base(i + 1)', r, calls[i].list)
    BY <2>2, <2>5
  <2>7. Given(calls[i], r)' = Given(calls[i], r)
    BY <2>3, <2>5
  <2>8. QED
    BY <1>3, <2>1, <2>6, <2>7
<1>8. RegistersKept'
  <2>1. \A i \in 1..(n - 1) :
          /\ Lr \in calls[i].list
          /\ \A r \in Saved \ calls[i].list : calls[i + 1].saved[r] = calls[i].saved[r]
    BY <1>1 DEF CallsInv, RegistersKept
  <2>2. ASSUME calls' # <<>>
        PROVE  \A r \in (Saved \cup {Lr}) \ Current'.list : registers'[r] = Given(Current', r)
    <3>1. n - 1 \in 1..(n - 1) /\ Current' = calls[n - 1]
      BY <1>1, <1>2, <2>2 DEF Current
    <3>2. /\ Lr \in Current'.list
          /\ \A r \in Saved \ Current'.list : Current.saved[r] = Current'.saved[r]
      BY <1>1, <2>1, <3>1
    <3>3. Lr \notin Saved
      BY BlockTransferAssumption DEF Lr
    <3>4. QED
      BY <3>2, <3>3 DEF Given
  <2>3. \A i \in 1..(n - 2) : i \in 1..(n - 1) /\ i + 1 \in 1..(n - 1)
    BY <1>1
  <2>4. Len(calls') - 1 = n - 2
    BY <1>1, <1>2
  <2>5. QED
    BY <1>2, <2>1, <2>2, <2>3, <2>4 DEF RegistersKept, Given, Current
<1>9. QED
  BY <1>5, <1>6, <1>7, <1>8 DEF CallsInv

\* A function that stores a list, or loads what it has stored, on the stack it was
\* called with, and keeps the other words and registers, keeps what calls rest on.
LEMMA ListingKeeps ==
  ASSUME CallsInv, calls # <<>>, NEW list \in Stored, Stores(list), UNCHANGED <<thumb, modes>>,
         registers' \in [Saved \cup {Sp, Lr, Ip} -> Word], registers'[Ip] = registers[Ip],
         memory' \in [StackWords -> Word],
         Base(Len(calls)) + Cardinality(list) <= Capacity,
         registers'[Sp] = SpAt(Base(Len(calls)) + Cardinality(list)),
         \A k \in 1..Base(Len(calls)) : memory'[Slot(k)] = memory[Slot(k)],
         \A r \in list :
           memory'[WordOf(Base(Len(calls)) + Cardinality(list), r, list)] = Given(Current, r),
         \A r \in (Saved \cup {Lr}) \ list : registers'[r] = Given(Current, r)
  PROVE  CallsInv'
<1> PICK n \in Nat : n = Len(calls)
  BY TopOfStack
<1> DEFINE c == Cardinality(list)
<1>1. /\ n = Len(calls) /\ n >= 1 /\ n \in 1..n /\ calls \in Seq(CallRecord)
      /\ Current \in CallRecord /\ Current = calls[n]
      /\ Base(n) \in 0..Capacity /\ Current.sp = SpAt(Base(n))
  BY TopOfStack DEF CallsInv, MachineTyped, Current
<1>2. modes' = modes /\ Bottom' = Bottom /\ modes \in ModePairs
  BY SameModes DEF CallsInv, MachineTyped
<1>3. c \in Nat /\ Base(n) + c \in 0..Capacity /\ c \in Int
  BY <1>1, ListsAreFinite, ListsOfPrograms, Sizes
<1>4. /\ Len(calls') = n /\ DOMAIN calls' = 1..n
      /\ calls'[n] = [Current EXCEPT !.list = list]
      /\ \A i \in 1..(n - 1) : calls'[i] = calls[i]
  BY <1>1 DEF Stores
<1>5. /\ calls'[n] \in CallRecord
      /\ calls'[n].list = list
      /\ calls'[n].sp = Current.sp /\ calls'[n].back = Current.back
      /\ calls'[n].thumb = Current.thumb /\ calls'[n].saved = Current.saved
  BY <1>1, <1>4 DEF CallRecord
<1>6. ASSUME NEW i \in 1..n
       PROVE  /\ calls'[i].sp = calls[i].sp /\ calls'[i].back = calls[i].back
              /\ calls'[i].thumb = calls[i].thumb /\ calls'[i].saved = calls[i].saved
  <2>1. CASE i = n
    BY <1>1, <1>5, <2>1
  <2>2. CASE i # n
    <3>1. i \in 1..(n - 1)
      BY <2>2
    <3>2. QED
      BY <1>4, <3>1
  <2>3. QED
    BY <2>1, <2>2
<1>7. calls' \in Seq(CallRecord)
  <2>1. \A i \in 1..n : calls[i] \in CallRecord
    BY <1>1
  <2>2. \A i \in 1..n : calls'[i] \in CallRecord
    BY <1>1, <1>4, <1>5, <2>1
  <2>3. calls' = [i \in 1..n |-> calls'[i]]
    BY <1>1, <1>4 DEF Stores
  <2>4. QED
    BY <2>2, <2>3
<1> HIDE DEF c
<1>8. (\A i \in 1..n : Base(i)' = Base(i)) /\ Base(n + 1)' = Base(n) + c
  <2>1. ASSUME NEW i \in 1..n
        PROVE  Base(i)' = Base(i)
    <3>1. i <= Len(calls) /\ i <= Len(calls') /\ calls'[i].sp = calls[i].sp
      BY <1>1, <1>4, <1>6
    <3>2. QED
      BY <1>2, <3>1 DEF Base, DepthOf
  <2>2. Base(n + 1)' = Base(n) + c
    <3>1. ~(n + 1 <= Len(calls'))
      BY <1>4
    <3>2. Base(n + 1)' = DepthOf(registers'[Sp])
      BY <1>2, <3>1 DEF Base, DepthOf
    <3>3. DepthOf(SpAt(Base(n) + c)) = Base(n) + c
      BY <1>2, <1>3, DepthIsOfSp
    <3>4. QED
      BY <1>1, <3>2, <3>3 DEF c
  <2>3. QED
    BY <2>1, <2>2
<1>9. MachineTyped'
  <2>1. \A i \in 1..Len(calls') : calls'[i].back % (IF calls'[i].thumb THEN 2 ELSE 4) = 0
    BY <1>1, <1>4, <1>6 DEF CallsInv, MachineTyped
  <2>2. QED
    BY <1>2, <1>7, <2>1 DEF CallsInv, MachineTyped
<1>10. Nested'
  <2>1. ASSUME NEW i \in 1..n
        PROVE  Base(i + 1)' = Base(i)' + Cardinality(calls'[i].list)
    <3>1. CASE i = n
      BY <1>5, <1>8, <3>1 DEF c
    <3>2. CASE i # n
      <4>1. i \in 1..Len(calls) /\ i \in 1..(n - 1) /\ i + 1 \in 1..n
        BY <1>1, <3>2
      <4>2. Base(i + 1) = Base(i) + Cardinality(calls[i].list)
        BY <4>1 DEF CallsInv, Nested
      <4>3. QED
        BY <1>4, <1>8, <4>1, <4>2
    <3>3. QED
      BY <3>1, <3>2
  <2>2. ASSUME NEW i \in 1..(n + 1)
        PROVE  /\ Base(i)' \in 0..Capacity
               /\ SpAt(Base(i))' = IF i <= Len(calls') THEN calls'[i].sp ELSE registers'[Sp]
    <3>1. SpAt(Base(i))' = SpAt(Base(i)')
      BY <1>2 DEF SpAt
    <3>2. CASE i = n + 1
      <4>1. ~(i <= Len(calls'))
        BY <1>4, <3>2
      <4>2. QED
        BY <1>1, <1>3, <1>8, <3>1, <3>2, <4>1 DEF c
    <3>3. CASE i # n + 1
      <4>1. i \in 1..n /\ i <= Len(calls') /\ i <= Len(calls) /\ i \in 1..(Len(calls) + 1)
        BY <1>1, <1>4, <3>3
      <4>2. calls'[i].sp = calls[i].sp
        BY <1>1, <1>6, <4>1
      <4>3. Base(i) \in 0..Capacity /\ SpAt(Base(i)) = calls[i].sp
        BY <4>1 DEF CallsInv, Nested
      <4>4. QED
        BY <1>8, <3>1, <4>1, <4>2, <4>3
    <3>4. QED
      BY <3>2, <3>3
  <2>3. ASSUME NEW i \in 1..(n + 1), NEW j \in 1..(n + 1), i <= j
        PROVE  Base(i)' <= Base(j)'
    <3>1. \A k, l \in 1..n : k <= l => Base(k) <= Base(l)
      <4>1. \A k \in 1..n : k \in 1..(Len(calls) + 1)
        BY <1>1
      <4>2. QED
        BY <4>1 DEF CallsInv, Nested
    <3>2. \A k \in 1..n : Base(k) <= Base(n) /\ Base(k) \in Int
      BY <1>1, <3>1 DEF CallsInv, Nested
    <3>3. CASE j = n + 1 /\ i = n + 1
      BY <1>3, <1>8, <3>3
    <3>4. CASE j = n + 1 /\ i # n + 1
      <4>1. i \in 1..n
        BY <3>4
      <4>2. QED
        BY <1>1, <1>3, <1>8, <3>2, <3>4, <4>1
    <3>5. CASE j # n + 1
      <4>1. i \in 1..n /\ j \in 1..n
        BY <2>3, <3>5
      <4>2. QED
        BY <1>8, <2>3, <3>1, <4>1
    <3>6. QED
      BY <3>3, <3>4, <3>5
  <2>4. QED
    BY <1>4, <2>1, <2>2, <2>3 DEF Nested
<1>11. WordsKept'
  <2>1. SUFFICES ASSUME NEW i \in 1..n, NEW r \in calls'[i].list
                 PROVE  memory'[WordOf(Base(i + 1), r, calls[i].list)'] = Given(calls[i], r)'
    BY <1>4 DEF WordsKept
  <2>2. \A top, q, part : WordOf(top, q, part)' = WordOf(top, q, part)
    BY <1>2, SameModes
  <2>3. \A call, q : Given(call, q)' = Given(call, q)
    BY DEF Given
  <2>4. CASE i = n
    <3>1. /\ WordOf(Base(i + 1), r, calls[i].list)' = WordOf(Base(n) + c, r, list)
          /\ r \in list
      BY <1>5, <1>8, <2>2, <2>4
    <3>2. Given(calls[i], r)' = Given(Current, r)
      BY <1>5, <2>3, <2>4 DEF Given
    <3>3. QED
      BY <1>1, <3>1, <3>2 DEF c
  <2>5. CASE i # n
    <3>1. /\ i \in 1..Len(calls) /\ i \in 1..(n - 1) /\ i + 1 \in 1..n /\ i \in 1..n
          /\ calls'[i] = calls[i]
      BY <1>1, <1>4, <2>5
    <3>2. memory[WordOf(Base(i + 1), r, calls[i].list)] = Given(calls[i], r)
      BY <3>1 DEF CallsInv, WordsKept
    <3>3. calls[i].list \in Lists
      <4>1. calls[i] \in CallRecord
        BY <1>1, <3>1
      <4>2. QED
        BY <4>1, ListsOfPrograms DEF CallRecord
    <3>4. /\ Stack!Place(r, calls[i].list) \in 1..Cardinality(calls[i].list)
          /\ Cardinality(calls[i].list) \in Nat
      BY <3>1, <3>3, PlaceInList, ListsAreFinite
    <3>5. Base(i + 1) + 1 - Stack!Place(r, calls[i].list) \in 1..Base(n)
      <4>1. /\ Base(i + 1) = Base(i) + Cardinality(calls[i].list)
            /\ Base(i) \in 0..Capacity /\ Base(i + 1) \in 0..Capacity
            /\ Base(i + 1) <= Base(n)
        BY <1>1, <3>1 DEF CallsInv, Nested
      <4>2. QED
        BY <1>1, <3>4, <4>1, Sizes
    <3>6. memory'[WordOf(Base(i + 1), r, calls[i].list)] = Given(calls[i], r)
      BY <1>1, <3>2, <3>5 DEF WordOf
    <3>7. WordOf(Base(i + 1), r, calls[i].list)' = WordOf(Base(i + 1), r, calls[i].list)
      BY <1>8, <2>2, <3>1
    <3>8. Given(calls[i], r)' = Given(calls[i], r)
      BY <2>3, <3>1
    <3>9. QED
      BY <3>6, <3>7, <3>8
  <2>6. QED
    BY <2>4, <2>5
<1>12. RegistersKept'
  <2>1. Current' = calls'[n]
    BY <1>4 DEF Current
  <2>2. \A r : Given(Current, r)' = Given(Current, r)
    BY <1>5, <2>1 DEF Given
  <2>3. \A r \in (Saved \cup {Lr}) \ Current'.list : registers'[r] = Given(Current, r)'
    BY <1>5, <2>1, <2>2
  <2>4. ASSUME NEW i \in 1..(n - 1)
        PROVE  /\ Lr \in calls'[i].list
               /\ \A r \in Saved \ calls'[i].list : calls'[i + 1].saved[r] = calls'[i].saved[r]
    <3>1. /\ calls'[i] = calls[i] /\ i + 1 \in 1..n /\ i \in 1..(Len(calls) - 1)
          /\ calls'[i + 1].saved = calls[i + 1].saved
      <4>1. calls'[i] = calls[i] /\ i + 1 \in 1..n /\ i \in 1..(Len(calls) - 1)
        BY <1>1, <1>4
      <4>2. QED
        BY <1>6, <4>1
    <3>2. QED
      BY <3>1 DEF CallsInv, RegistersKept
  <2>5. QED
    BY <1>4, <2>3, <2>4 DEF RegistersKept
<1>13. QED
  BY <1>9, <1>10, <1>11, <1>12 DEF CallsInv

\* A call, made by who has stored its own link register, keeps what calls rest on.
LEMMA CallingKeeps ==
  ASSUME CallsInv, UNCHANGED <<memory, modes>>,
         calls # <<>> => Lr \in Current.list,
         NEW call \in CallRecord, calls' = Append(calls, call),
         call.sp = registers[Sp], call.list = {},
         call.back % (IF call.thumb THEN 2 ELSE 4) = 0,
         \A r \in Saved : call.saved[r] = registers[r],
         thumb' \in BOOLEAN, registers' \in [Saved \cup {Sp, Lr, Ip} -> Word],
         registers'[Ip] % (IF thumb' THEN 2 ELSE 4) = 0,
         registers'[Sp] = registers[Sp], registers'[Lr] = Given(call, Lr),
         \A r \in Saved : registers'[r] = registers[r]
  PROVE  CallsInv'
<1> PICK n \in Nat : n = Len(calls)
  BY TopOfStack
<1>1. /\ calls \in Seq(CallRecord)
      /\ Depth = Base(n + 1) /\ Depth \in 0..Capacity /\ registers[Sp] = SpAt(Depth)
  BY TopOfStack DEF CallsInv, MachineTyped
<1>2. modes' = modes /\ memory' = memory /\ Bottom' = Bottom
  BY SameModes
<1>3. /\ calls' \in Seq(CallRecord) /\ Len(calls') = n + 1 /\ calls'[n + 1] = call
      /\ \A i \in 1..n : calls'[i] = calls[i]
  BY <1>1
<1>4. (\A i \in 1..(n + 1) : Base(i)' = Base(i)) /\ Base(n + 2)' = Base(n + 1)
  <2>1. ASSUME NEW i \in 1..n
        PROVE  Base(i)' = Base(i)
    <3>1. i <= Len(calls) /\ i <= Len(calls')
      BY <1>3
    <3>2. QED
      BY <1>2, <1>3, <3>1 DEF Base, DepthOf
  <2>2. Base(n + 1)' = Base(n + 1) /\ Base(n + 2)' = Base(n + 1)
    <3>1. ~(n + 1 <= Len(calls)) /\ n + 1 <= Len(calls') /\ ~(n + 2 <= Len(calls'))
      BY <1>3
    <3>2. QED
      BY <1>2, <1>3, <3>1 DEF Base, DepthOf
  <2>3. \A i \in 1..(n + 1) : i = n + 1 \/ i \in 1..n
    OBVIOUS
  <2>4. QED
    BY <2>1, <2>2, <2>3
<1>5. MachineTyped'
  <2>1. ASSUME NEW i \in 1..(n + 1)
        PROVE  calls'[i].back % (IF calls'[i].thumb THEN 2 ELSE 4) = 0
    <3>1. CASE i = n + 1
      BY <1>3, <3>1
    <3>2. CASE i # n + 1
      <4>1. i \in 1..n /\ i \in 1..Len(calls)
        BY <3>2
      <4>2. QED
        BY <1>3, <4>1 DEF CallsInv, MachineTyped
    <3>3. QED
      BY <3>1, <3>2
  <2>2. QED
    BY <1>2, <1>3, <2>1 DEF CallsInv, MachineTyped
<1>6. Nested'
  <2>1. ASSUME NEW i \in 1..(n + 1)
        PROVE  Base(i + 1)' = Base(i)' + Cardinality(calls'[i].list)
    <3>1. CASE i = n + 1
      <4>1. Cardinality(calls'[i].list) = 0
        BY <1>3, <3>1, FS_EmptySet
      <4>2. i + 1 = n + 2 /\ n + 1 \in 1..(n + 1)
        BY <3>1
      <4>3. QED
        BY <1>1, <1>4, <3>1, <4>1, <4>2, Sizes
    <3>2. CASE i # n + 1
      <4>1. i \in 1..Len(calls) /\ i \in 1..n /\ i + 1 \in 1..(n + 1)
        BY <3>2
      <4>2. QED
        BY <1>3, <1>4, <4>1 DEF CallsInv, Nested
    <3>3. QED
      BY <3>1, <3>2
  <2>2. ASSUME NEW i \in 1..(n + 2)
        PROVE  /\ Base(i)' \in 0..Capacity
               /\ SpAt(Base(i))' = IF i <= Len(calls') THEN calls'[i].sp ELSE registers'[Sp]
    <3>1. SpAt(Base(i))' = SpAt(Base(i)')
      BY <1>2 DEF SpAt
    <3>2. CASE i = n + 2
      <4>1. ~(i <= Len(calls'))
        BY <1>3, <3>2
      <4>2. QED
        BY <1>1, <1>4, <3>1, <3>2, <4>1
    <3>3. CASE i = n + 1
      <4>1. i <= Len(calls') /\ n + 1 \in 1..(n + 1)
        BY <1>3, <3>3
      <4>2. QED
        BY <1>1, <1>3, <1>4, <3>1, <3>3, <4>1
    <3>4. CASE i # n + 1 /\ i # n + 2
      <4>1. /\ i \in 1..n /\ i <= Len(calls') /\ i <= Len(calls)
            /\ i \in 1..(Len(calls) + 1) /\ i \in 1..(n + 1)
        BY <1>3, <3>4
      <4>2. Base(i) \in 0..Capacity /\ SpAt(Base(i)) = calls[i].sp
        BY <4>1 DEF CallsInv, Nested
      <4>3. QED
        BY <1>3, <1>4, <3>1, <4>1, <4>2
    <3>5. QED
      BY <3>2, <3>3, <3>4
  <2>3. ASSUME NEW i \in 1..(n + 2), NEW j \in 1..(n + 2), i <= j
        PROVE  Base(i)' <= Base(j)'
    <3>1. /\ \A k, l \in 1..(n + 1) : k <= l => Base(k) <= Base(l)
          /\ \A k \in 1..(n + 1) : Base(k) <= Base(n + 1)
      BY DEF CallsInv, Nested
    <3>2. CASE j = n + 2 /\ i = n + 2
      BY <1>1, <1>4, <3>2, Sizes
    <3>3. CASE j = n + 2 /\ i # n + 2
      <4>1. i \in 1..(n + 1)
        BY <3>3
      <4>2. QED
        BY <1>4, <3>1, <3>3, <4>1
    <3>4. CASE j # n + 2
      <4>1. i \in 1..(n + 1) /\ j \in 1..(n + 1)
        BY <2>3, <3>4
      <4>2. QED
        BY <1>4, <2>3, <3>1, <4>1
    <3>5. QED
      BY <3>2, <3>3, <3>4
  <2>4. Len(calls') + 1 = n + 2
    BY <1>3
  <2>5. QED
    BY <1>3, <2>1, <2>2, <2>3, <2>4 DEF Nested
<1>7. WordsKept'
  <2>1. SUFFICES ASSUME NEW i \in 1..(n + 1), NEW r \in calls'[i].list
                 PROVE  memory'[WordOf(Base(i + 1), r, calls[i].list)'] = Given(calls[i], r)'
    BY <1>3 DEF WordsKept
  <2>2. \A top, q, part : WordOf(top, q, part)' = WordOf(top, q, part)
    BY <1>2, SameModes
  <2>3. \A c, q : Given(c, q)' = Given(c, q)
    BY DEF Given
  <2>4. i \in 1..n
    BY <1>3, <2>1
  <2>5. calls'[i] = calls[i] /\ i \in 1..Len(calls) /\ i + 1 \in 1..(n + 1)
    BY <1>3, <2>4
  <2>6. memory[WordOf(Base(i + 1), r, calls[i].list)] = Given(calls[i], r)
    BY <2>5 DEF CallsInv, WordsKept
  <2>7. /\ WordOf(Base(i + 1), r, calls[i].list)' = WordOf(Base(i + 1), r, calls[i].list)
        /\ Given(calls[i], r)' = Given(calls[i], r)
    BY <1>4, <2>2, <2>3, <2>5
  <2>8. QED
    BY <1>2, <2>6, <2>7
<1>8. RegistersKept'
  <2>1. Current' = call
    BY <1>3 DEF Current
  <2>2. \A r \in Saved : r # Lr
    BY BlockTransferAssumption DEF Lr
  <2>3. \A r \in (Saved \cup {Lr}) \ Current'.list : registers'[r] = Given(Current, r)'
    BY <2>1, <2>2 DEF Given
  <2>4. ASSUME NEW i \in 1..n
        PROVE  /\ Lr \in calls'[i].list
               /\ \A r \in Saved \ calls'[i].list : calls'[i + 1].saved[r] = calls'[i].saved[r]
    <3>1. CASE i = n
      <4>1. calls # <<>> /\ Current = calls[n] /\ calls'[i] = Current /\ calls'[i + 1] = call
        BY <1>3, <3>1 DEF Current
      <4>2. \A r \in Saved \ Current.list : registers[r] = Given(Current, r)
        BY <4>1 DEF CallsInv, RegistersKept
      <4>3. QED
        BY <2>2, <4>1, <4>2 DEF Given
    <3>2. CASE i # n
      <4>1. i \in 1..(Len(calls) - 1) /\ i \in 1..n /\ i + 1 \in 1..n
        BY <3>2
      <4>2. QED
        BY <1>3, <4>1 DEF CallsInv, RegistersKept
    <3>3. QED
      BY <3>1, <3>2
  <2>5. Len(calls') - 1 = n
    BY <1>3
  <2>6. QED
    BY <2>3, <2>4, <2>5 DEF RegistersKept
<1>9. QED
  BY <1>5, <1>6, <1>7, <1>8 DEF CallsInv

-----------------------------------------------------------------------------
(* Every step keeps the invariant. *)

\* Sp, Lr and Ip are none of the registers functions save.
LEMMA Numbers ==
  /\ Sp \notin Saved /\ Lr \notin Saved /\ Ip \notin Saved
  /\ Sp # Lr /\ Sp # Ip /\ Lr # Ip
  /\ \A r \in Saved \cup {Lr} : r \in Int /\ r <= 14 /\ (r = Lr \/ r < Lr)
BY BlockTransferAssumption DEF Sp, Lr, Ip

LEMMA InitCalls == Init => CallsInv
<1> SUFFICES ASSUME Init
             PROVE  CallsInv
  OBVIOUS
<1>1. /\ modes \in ModePairs /\ thumb \in BOOLEAN /\ calls = <<>> /\ Len(calls) = 0
      /\ registers[Sp] = Bottom
  BY DEF Init
<1>2. SpAt(0) = Bottom
  BY <1>1, Pairs, Sizes DEF SpAt
<1>3. DepthOf(Bottom) = 0 /\ Bottom \in Word
  BY <1>1, <1>2, DepthIsOfSp, Sizes
<1>4. MachineTyped
  <2>1. 0 \in Word
    BY Sizes DEF Word
  <2>2. memory \in [StackWords -> Word]
    BY <2>1 DEF Init
  <2>3. registers \in [Saved \cup {Sp, Lr, Ip} -> Word] /\ registers[Ip] = 0
    BY <1>3, <2>1, Numbers DEF Init
  <2>4. calls \in Seq(CallRecord)
    BY <1>1
  <2>5. QED
    BY <1>1, <2>2, <2>3, <2>4 DEF MachineTyped
<1>5. Nested
  <2>1. Base(1) = 0
    BY <1>1, <1>3 DEF Base
  <2>2. QED
    BY <1>1, <1>2, <2>1, Sizes DEF Nested
<1>6. WordsKept /\ RegistersKept
  BY <1>1 DEF WordsKept, RegistersKept
<1>7. QED
  BY <1>4, <1>5, <1>6 DEF CallsInv

LEMMA ComputesKeeps == CallsInv /\ Computes => CallsInv'
<1> SUFFICES ASSUME CallsInv, Computes
             PROVE  CallsInv'
  OBVIOUS
<1>1. PICK r \in Saved, v \in Values, a \in CallSites :
        /\ calls # <<>> => r \in Current.list
        /\ thumb \/ a % 4 = 0
        /\ registers' = [registers EXCEPT ![r] = v, ![Ip] = a]
  BY DEF Computes
<1>2. UNCHANGED <<thumb, memory, modes, calls>>
  BY DEF Computes
<1>3. /\ registers \in [Saved \cup {Sp, Lr, Ip} -> Word] /\ v \in Word /\ a \in Word
      /\ a % 2 = 0 /\ calls \in Seq(CallRecord)
  BY BlockTransferAssumption DEF CallsInv, MachineTyped, Word
<1>4. /\ registers' \in [Saved \cup {Sp, Lr, Ip} -> Word]
      /\ registers'[Ip] = a /\ registers'[Sp] = registers[Sp]
      /\ \A q \in (Saved \cup {Lr}) \ {r} : registers'[q] = registers[q]
  BY <1>1, <1>3, Numbers
<1>5. MachineTyped'
  BY <1>1, <1>2, <1>3, <1>4 DEF CallsInv, MachineTyped
<1>6. \A i : Base(i)' = Base(i)
  BY <1>2, <1>4 DEF Base, DepthOf, Bottom
<1>7. \A d : SpAt(d)' = SpAt(d)
  BY <1>2, SameModes
<1>8. Nested'
  BY <1>2, <1>4, <1>6, <1>7 DEF CallsInv, Nested
<1>9. WordsKept'
  <2>1. \A top, q, list : WordOf(top, q, list)' = WordOf(top, q, list)
    BY <1>2, SameModes
  <2>2. \A call, q : Given(call, q)' = Given(call, q)
    BY DEF Given
  <2>3. QED
    BY <1>2, <1>6, <2>1, <2>2 DEF CallsInv, WordsKept
<1>10. RegistersKept'
  <2>1. ASSUME calls # <<>>
        PROVE  \A q \in (Saved \cup {Lr}) \ Current.list : registers'[q] = Given(Current, q)
    BY <1>1, <1>4, <2>1 DEF CallsInv, RegistersKept
  <2>2. Current' = Current /\ calls' = calls
    BY <1>2 DEF Current
  <2>3. \A call, q : Given(call, q)' = Given(call, q)
    BY DEF Given
  <2>4. QED
    BY <2>1, <2>2, <2>3 DEF CallsInv, RegistersKept
<1>11. QED
  BY <1>5, <1>8, <1>9, <1>10 DEF CallsInv

LEMMA CallsKeeps ==
  ASSUME CallsInv, NEW size \in {2, 4}, NEW switch \in BOOLEAN, Calls(size, switch)
  PROVE  CallsInv'
<1> DEFINE next == Wrapped(registers[Ip] + size)
           call == [back |-> next, thumb |-> thumb, sp |-> registers[Sp], list |-> {},
                    saved |-> [r \in Saved |-> registers[r]]]
<1>1. /\ registers \in [Saved \cup {Sp, Lr, Ip} -> Word] /\ thumb \in BOOLEAN
      /\ registers[Ip] \in Int /\ registers[Ip] % (IF thumb THEN 2 ELSE 4) = 0
      /\ calls \in Seq(CallRecord)
  <2>1. registers[Ip] \in Word /\ Word \subseteq Int
    BY Sizes DEF CallsInv, MachineTyped, Word
  <2>2. QED
    BY <2>1 DEF CallsInv, MachineTyped
<1>2. /\ ~thumb => size = 4 /\ ~switch
      /\ calls # <<>> => Lr \in Current.list
      /\ calls' = Append(calls, call) /\ UNCHANGED <<memory, modes>>
  BY DEF Calls
<1>3. next \in Word /\ next % (IF thumb THEN 2 ELSE 4) = 0
  <2>1. registers[Ip] + size \in Int
    BY <1>1
  <2>2. (registers[Ip] + size) % (IF thumb THEN 2 ELSE 4) = 0
    BY <1>1, <1>2
  <2>3. QED
    BY <2>1, <2>2, WrappedTyped, WrappedInStep DEF Word
<1> HIDE DEF next
<1>4. call \in CallRecord
  <2>1. {} \in Stored /\ registers[Sp] \in Word /\ [r \in Saved |-> registers[r]] \in [Saved -> Word]
    BY <1>1 DEF Stored
  <2>2. QED
    BY <1>1, <1>3, <2>1 DEF CallRecord
<1>5. ReturnAddress(size) = Given(call, Lr) /\ ReturnAddress(size) \in Word
  <2>1. next % 2 = 0 /\ next \in Nat /\ next < AddressSpace
    BY <1>1, <1>3, Sizes DEF Word
  <2>2. AddressSpace % 2 = 0
    BY BlockTransferAssumption
  <2>3. next + 1 \in Word
    BY <2>1, <2>2, Sizes DEF Word
  <2>4. QED
    BY <1>3, <2>1, <2>3 DEF ReturnAddress, Given, next
<1>6. /\ registers' = [[registers EXCEPT ![Lr] = ReturnAddress(size)] EXCEPT ![Ip] = Entry]
      /\ thumb' \in BOOLEAN
      /\ Entry \in Word /\ Entry % (IF thumb' THEN 2 ELSE 4) = 0
  <2>1. Entry \in Nat /\ Entry % 4 = 0 /\ Entry % 2 = 0 /\ Entry \in Word
    BY BlockTransferAssumption DEF Word
  <2>2. BranchTo(Entry, switch, [registers EXCEPT ![Lr] = ReturnAddress(size)])
    BY DEF Calls
  <2>3. CASE switch
    <3>1. ~(Entry % 2 = 1) /\ Entry - (Entry % 2) = Entry
      BY <2>1
    <3>2. thumb' = FALSE
      <4>1. thumb' = (Entry % 2 = 1)
        BY <2>2, <2>3 DEF BranchTo
      <4>2. QED
        BY <3>1, <4>1, Zenon
    <3>3. QED
      BY <2>1, <2>2, <2>3, <3>1, <3>2 DEF BranchTo
  <2>4. CASE ~switch
    BY <1>1, <2>1, <2>2, <2>4 DEF BranchTo
  <2>5. QED
    BY <2>3, <2>4
<1>7. /\ registers' \in [Saved \cup {Sp, Lr, Ip} -> Word]
      /\ registers'[Ip] = Entry /\ registers'[Sp] = registers[Sp]
      /\ registers'[Lr] = ReturnAddress(size)
      /\ \A r \in Saved : registers'[r] = registers[r]
  BY <1>1, <1>5, <1>6, Numbers
<1>8. QED
  <2>1. /\ call.sp = registers[Sp] /\ call.list = {} /\ call.back = next /\ call.thumb = thumb
        /\ \A r \in Saved : call.saved[r] = registers[r]
    OBVIOUS
  <2> HIDE DEF call
  <2>2. QED
    BY <1>2, <1>3, <1>4, <1>5, <1>6, <1>7, <2>1, CallingKeeps

\* What a store changes: the words of its list, and Sp.
LEMMA StoringWrites ==
  ASSUME CallsInv, NEW list \in Stored, list # {},
         Depth + Cardinality(list) <= Capacity, StoreMany(list)
  PROVE  /\ memory' \in [StackWords -> Word]
         /\ \A r \in list : memory'[WordOf(Depth + Cardinality(list), r, list)] = registers[r]
         /\ \A k \in 1..Depth : memory'[Slot(k)] = memory[Slot(k)]
         /\ registers' = [registers EXCEPT ![Sp] = SpAt(Depth + Cardinality(list))]
<1> DEFINE c == Cardinality(list)
           At(r) == AddressOf(r, modes[1], registers[Sp], list)
<1>1. /\ list \in Lists /\ c \in Nat
      /\ Depth \in Nat /\ Depth <= Capacity /\ registers[Sp] = SpAt(Depth)
      /\ modes \in ModePairs
      /\ registers \in [Saved \cup {Sp, Lr, Ip} -> Word] /\ memory \in [StackWords -> Word]
  BY TopOfStack, ListsOfPrograms, ListsAreFinite, Sizes DEF CallsInv, MachineTyped
<1>2. /\ memory' = [a \in StackWords |->
                      IF \E r \in list : a = At(r)
                      THEN registers[CHOOSE r \in list : a = At(r)] ELSE memory[a]]
      /\ registers' = [registers EXCEPT ![Sp] = write_back(modes[1], registers[Sp], list)]
  BY DEF StoreMany
<1> HIDE DEF c
<1>3. /\ write_back(modes[1], registers[Sp], list) = SpAt(Depth + c)
      /\ \A r \in list : At(r) = Slot(Depth + c + 1 - Stack!Place(r, list))
  BY <1>1, StoresOnTop DEF c
<1> HIDE DEF At
<1>4. ASSUME NEW r \in list
      PROVE  Depth + c + 1 - Stack!Place(r, list) \in (Depth + 1)..(Depth + c)
  <2>1. Stack!Place(r, list) \in 1..c
    BY <1>1, PlaceInList DEF c
  <2>2. QED
    BY <1>1, <2>1
<1>5. ASSUME NEW q \in list, NEW r \in list, At(q) = At(r)
      PROVE  q = r
  <2>1. /\ Depth + c + 1 - Stack!Place(q, list) \in 1..Capacity
        /\ Depth + c + 1 - Stack!Place(r, list) \in 1..Capacity
    BY <1>1, <1>4, Sizes DEF c
  <2>2. Depth + c + 1 - Stack!Place(q, list) = Depth + c + 1 - Stack!Place(r, list)
    BY <1>3, <1>5, <2>1, SlotsDiffer
  <2>3. Stack!Place(q, list) \in 1..c /\ Stack!Place(r, list) \in 1..c
    BY <1>1, PlaceInList DEF c
  <2>4. Stack!Place(q, list) = Stack!Place(r, list)
    BY <1>1, <2>2, <2>3
  <2>5. QED
    BY <1>1, <2>4, PlaceInList
<1>6. \A r \in list : registers[r] \in Word
  BY <1>1 DEF Stored
<1>7. memory' \in [StackWords -> Word]
  <2>1. ASSUME NEW a \in StackWords
        PROVE  memory'[a] \in Word
    <3>1. CASE \E r \in list : a = At(r)
      <4>1. (CHOOSE r \in list : a = At(r)) \in list
        BY <3>1
      <4>2. QED
        BY <1>2, <1>6, <3>1, <4>1
    <3>2. CASE ~\E r \in list : a = At(r)
      BY <1>1, <1>2, <3>2
    <3>3. QED
      BY <3>1, <3>2
  <2>2. QED
    BY <1>2, <2>1
<1>8. ASSUME NEW r \in list
      PROVE  memory'[WordOf(Depth + c, r, list)] = registers[r]
  <2>1. WordOf(Depth + c, r, list) = At(r)
    BY <1>3 DEF WordOf
  <2>2. At(r) \in StackWords
    <3>1. Depth + c + 1 - Stack!Place(r, list) \in 1..Capacity
      BY <1>1, <1>4, Sizes DEF c
    <3>2. QED
      BY <1>3, <3>1, SlotsDiffer
  <2>3. (CHOOSE q \in list : At(r) = At(q)) = r
    BY <1>5
  <2>4. QED
    BY <1>2, <2>1, <2>2, <2>3
<1>9. ASSUME NEW k \in 1..Depth
      PROVE  memory'[Slot(k)] = memory[Slot(k)]
  <2>1. k \in 1..Capacity
    BY <1>1, Sizes
  <2>2. ASSUME NEW r \in list, Slot(k) = At(r)
        PROVE  FALSE
    <3>1. /\ Depth + c + 1 - Stack!Place(r, list) \in 1..Capacity
          /\ Depth + c + 1 - Stack!Place(r, list) \in (Depth + 1)..(Depth + c)
      BY <1>1, <1>4, Sizes DEF c
    <3>2. k = Depth + c + 1 - Stack!Place(r, list)
      BY <1>3, <2>1, <2>2, <3>1, SlotsDiffer
    <3>3. QED
      BY <1>1, <3>1, <3>2
  <2>3. QED
    BY <1>2, <2>1, <2>2, SlotsDiffer
<1>10. QED
  BY <1>2, <1>3, <1>7, <1>8, <1>9 DEF c

LEMMA PushesKeeps ==
  ASSUME CallsInv, NEW list \in Stored, Pushes(list)
  PROVE  CallsInv'
<1> DEFINE c == Cardinality(list)
<1>1. /\ calls # <<>> /\ Current.list = {} /\ list # {} /\ Depth + c <= Capacity
      /\ StoreMany(list) /\ Stores(list) /\ UNCHANGED <<thumb, modes>>
  BY DEF Pushes
<1>2. /\ Depth \in Nat /\ Base(Len(calls)) \in Nat
      /\ Depth = Base(Len(calls)) + Cardinality(Current.list)
  BY <1>1, TopOfStack, Sizes
<1>3. Depth = Base(Len(calls))
  BY <1>1, <1>2, FS_EmptySet
<1>4. /\ memory' \in [StackWords -> Word]
      /\ \A r \in list : memory'[WordOf(Depth + c, r, list)] = registers[r]
      /\ \A k \in 1..Depth : memory'[Slot(k)] = memory[Slot(k)]
      /\ registers' = [registers EXCEPT ![Sp] = SpAt(Depth + c)]
  BY <1>1, StoringWrites
<1>5. \A r \in Saved \cup {Lr} : registers[r] = Given(Current, r)
  BY <1>1 DEF CallsInv, RegistersKept
<1>6. /\ registers' \in [Saved \cup {Sp, Lr, Ip} -> Word]
      /\ registers'[Ip] = registers[Ip] /\ registers'[Sp] = SpAt(Depth + c)
      /\ \A r \in Saved \cup {Lr} : registers'[r] = registers[r]
  <2>1. c \in Nat
    BY ListsOfPrograms, ListsAreFinite
  <2>2. Depth + c \in 0..Capacity
    BY <1>1, <1>2, <2>1, Sizes
  <2>3. SpAt(Depth + c) \in Word
    BY <2>2, DepthIsOfSp DEF CallsInv, MachineTyped
  <2>4. QED
    BY <1>4, <2>3, Numbers DEF CallsInv, MachineTyped
<1>7. \A r \in list : r \in Saved \cup {Lr}
  BY DEF Stored
<1> HIDE DEF c
<1>8. QED
  BY <1>1, <1>3, <1>4, <1>5, <1>6, <1>7, ListingKeeps DEF c

\* What was given to a function are words.
LEMMA GivenIsAWord ==
  ASSUME CallsInv, calls # <<>>, NEW r \in Saved \cup {Lr}
  PROVE  Given(Current, r) \in Word
<1>1. /\ Current.back \in Word /\ Current.thumb \in BOOLEAN /\ Current.saved \in [Saved -> Word]
      /\ Current.back % (IF Current.thumb THEN 2 ELSE 4) = 0
  BY TopOfStack DEF CallRecord, CallsInv, MachineTyped, Current
<1>2. Current.thumb => Current.back + 1 \in Word
  <2>1. AddressSpace % 2 = 0
    BY BlockTransferAssumption
  <2>2. QED
    BY <1>1, <2>1, Sizes DEF Word
<1>3. QED
  BY <1>1, <1>2 DEF Given

\* A load of what was stored, to where it was.
LEMMA PopsKeeps == CallsInv /\ Pops => CallsInv'
<1> SUFFICES ASSUME CallsInv, Pops
             PROVE  CallsInv'
  OBVIOUS
<1> DEFINE list == Current.list
<1>1. /\ calls # <<>> /\ list # {} /\ LoadMany(list) /\ Stores({})
      /\ UNCHANGED <<thumb, modes>>
  BY DEF Pops
<1>2. /\ list \subseteq Saved \cup {Lr} /\ Current \in CallRecord
      /\ Base(Len(calls)) \in 0..Capacity /\ Current.sp = SpAt(Base(Len(calls)))
  BY <1>1, TopOfStack
<1>3. /\ registers' = [r \in DOMAIN registers |->
                         IF r = Sp THEN write_back(modes[2], registers[Sp], list)
                         ELSE IF r \in list
                         THEN Loaded(r, memory[AddressOf(r, modes[2], registers[Sp], list)])
                         ELSE registers[r]]
      /\ memory' = memory
      /\ registers \in [Saved \cup {Sp, Lr, Ip} -> Word]
  BY <1>1 DEF LoadMany, CallsInv, MachineTyped
<1>4. /\ write_back(modes[2], registers[Sp], list) = Current.sp
      /\ \A r \in list :
           memory[AddressOf(r, modes[2], registers[Sp], list)] = Given(Current, r)
  BY <1>1, LoadsWhatWasGiven
<1>5. \A r \in (Saved \cup {Lr}) \ list : registers[r] = Given(Current, r)
  BY <1>1 DEF CallsInv, RegistersKept
<1>6. /\ registers'[Sp] = Current.sp /\ registers'[Ip] = registers[Ip]
      /\ \A r \in Saved \cup {Lr} : registers'[r] = Given(Current, r)
  BY <1>2, <1>3, <1>4, <1>5, Numbers DEF Loaded
<1>7. registers' \in [Saved \cup {Sp, Lr, Ip} -> Word]
  <2>1. \A r \in Saved \cup {Lr} : Given(Current, r) \in Word
    BY <1>1, <1>2, GivenIsAWord
  <2>2. Current.sp \in Word
    BY <1>2 DEF CallRecord
  <2>3. \A r \in Saved \cup {Sp, Lr, Ip} : registers'[r] \in Word
    BY <1>3, <1>6, <2>1, <2>2
  <2>4. DOMAIN registers = Saved \cup {Sp, Lr, Ip}
    BY <1>3
  <2>5. QED
    BY <1>3, <2>3, <2>4
<1>8. {} \in Stored /\ Cardinality({}) = 0
  BY FS_EmptySet DEF Stored
<1>9. /\ Base(Len(calls)) + Cardinality({}) <= Capacity
      /\ registers'[Sp] = SpAt(Base(Len(calls)) + Cardinality({}))
  <2>1. Base(Len(calls)) + 0 = Base(Len(calls)) /\ Base(Len(calls)) <= Capacity
    BY <1>2, Sizes
  <2>2. QED
    BY <1>2, <1>6, <1>8, <2>1
<1>10. memory' \in [StackWords -> Word]
  BY <1>3 DEF CallsInv, MachineTyped
<1> HIDE DEF list
<1>11. QED
  BY <1>1, <1>3, <1>6, <1>7, <1>8, <1>9, <1>10, ListingKeeps

\* Loading Lr's word to Ip takes as many words.
LEMMA SameLength ==
  ASSUME NEW list \in Stored, Lr \in list
  PROVE  Cardinality((list \ {Lr}) \cup {Ip}) = Cardinality(list)
<1>1. IsFiniteSet(list) /\ Cardinality(list) \in Nat
  BY ListsOfPrograms, ListsAreFinite
<1>2. /\ IsFiniteSet(list \ {Lr}) /\ Cardinality(list \ {Lr}) = Cardinality(list) - 1
  BY <1>1, FS_RemoveElement
<1>3. Ip \notin list \ {Lr}
  BY Numbers DEF Stored
<1>4. Cardinality((list \ {Lr}) \cup {Ip}) = Cardinality(list \ {Lr}) + 1
  BY <1>2, <1>3, FS_AddElement
<1>5. QED
  BY <1>1, <1>2, <1>4

\* The list that loads Lr's word to Ip has Ip where the other one has Lr.
LEMMA IpTakesThePlaceOfLr ==
  ASSUME NEW list \in Stored, Lr \in list, NEW mode, NEW base
  PROVE  LET other == (list \ {Lr}) \cup {Ip}
         IN  /\ write_back(mode, base, other) = write_back(mode, base, list)
             /\ \A r \in list \ {Lr} :
                  AddressOf(r, mode, base, other) = AddressOf(r, mode, base, list)
             /\ AddressOf(Ip, mode, base, other) = AddressOf(Lr, mode, base, list)
<1> DEFINE other == (list \ {Lr}) \cup {Ip}
<1>1. list \in Lists /\ \A r \in list : r \in Saved \cup {Lr}
  BY ListsOfPrograms DEF Stored
<1>2. Cardinality(other) = Cardinality(list)
  BY SameLength
<1>3. byte_len(other) = byte_len(list)
  BY <1>2 DEF byte_len
<1>4. start_address(mode, base, other) = start_address(mode, base, list)
  BY <1>3 DEF start_address
<1>5. \A r \in list \ {Lr} : {q \in other : q < r} = {q \in list : q < r}
  <2>1. ASSUME NEW r \in list \ {Lr}
        PROVE  ~(Lr < r) /\ ~(Ip < r)
    BY <1>1, Numbers DEF Lr, Ip
  <2>2. QED
    BY <2>1
<1>6. {q \in other : q < Ip} = {q \in list : q < Lr}
  <2>1. \A q \in list \ {Lr} : q < Ip /\ q < Lr
    BY <1>1, Numbers DEF Lr, Ip
  <2>2. ~(Ip < Ip) /\ ~(Lr < Lr)
    BY DEF Lr, Ip
  <2>3. QED
    BY <2>1, <2>2
<1> HIDE DEF other
<1>7. \A r \in list \ {Lr} : AddressOf(r, mode, base, other) = AddressOf(r, mode, base, list)
  BY <1>4, <1>5 DEF AddressOf
<1>8. AddressOf(Ip, mode, base, other) = AddressOf(Lr, mode, base, list)
  BY <1>4, <1>6 DEF AddressOf
<1>9. write_back(mode, base, other) = write_back(mode, base, list)
  BY <1>3 DEF write_back
<1>10. QED
  BY <1>7, <1>8, <1>9 DEF other

\* What a function leaves to its caller.
ReturnsThere ==
  /\ registers' \in [Saved \cup {Sp, Lr, Ip} -> Word]
  /\ registers'[Ip] = Current.back /\ thumb' = Current.thumb
  /\ registers'[Sp] = Current.sp
  /\ \A r \in Saved : registers'[r] = Current.saved[r]

\* A link register loaded to Ip loses the bit of the mode, and no other.
LEMMA PopsAndReturnsThere == CallsInv /\ PopsAndReturns => ReturnsThere
<1> SUFFICES ASSUME CallsInv, PopsAndReturns
             PROVE  ReturnsThere
  OBVIOUS
<1> DEFINE list == Current.list
           other == (list \ {Lr}) \cup {Ip}
<1>1. /\ calls # <<>> /\ Lr \in list /\ thumb' = thumb /\ thumb = Current.thumb
      /\ LoadMany(other)
  BY DEF PopsAndReturns
<1>2. /\ list \in Stored /\ list # {} /\ Current \in CallRecord
      /\ Current.back % (IF Current.thumb THEN 2 ELSE 4) = 0
  BY <1>1, TopOfStack DEF Stored, CallsInv, MachineTyped, Current
<1>3. /\ registers' = [r \in DOMAIN registers |->
                         IF r = Sp THEN write_back(modes[2], registers[Sp], other)
                         ELSE IF r \in other
                         THEN Loaded(r, memory[AddressOf(r, modes[2], registers[Sp], other)])
                         ELSE registers[r]]
      /\ registers \in [Saved \cup {Sp, Lr, Ip} -> Word]
  BY <1>1 DEF LoadMany, CallsInv, MachineTyped
<1>4. /\ write_back(modes[2], registers[Sp], list) = Current.sp
      /\ \A r \in list :
           memory[AddressOf(r, modes[2], registers[Sp], list)] = Given(Current, r)
  BY <1>1, <1>2, LoadsWhatWasGiven
<1>5. /\ write_back(modes[2], registers[Sp], other) = Current.sp
      /\ \A r \in list \ {Lr} :
           memory[AddressOf(r, modes[2], registers[Sp], other)] = Given(Current, r)
      /\ memory[AddressOf(Ip, modes[2], registers[Sp], other)] = Given(Current, Lr)
  BY <1>1, <1>2, <1>4, IpTakesThePlaceOfLr
<1>6. \A r \in Saved \ list : registers[r] = Given(Current, r)
  BY <1>1 DEF CallsInv, RegistersKept
<1> HIDE DEF list
<1>7. registers'[Sp] = Current.sp
  BY <1>3, <1>5
<1>8. \A r \in Saved : registers'[r] = Current.saved[r]
  <2>1. ASSUME NEW r \in Saved
        PROVE  registers'[r] = Current.saved[r]
    <3>1. r # Sp /\ r # Lr /\ r # Ip
      BY Numbers
    <3>2. registers'[r] = Given(Current, r)
      BY <1>3, <1>5, <1>6, <3>1 DEF Loaded
    <3>3. QED
      BY <3>1, <3>2 DEF Given
  <2>2. QED
    BY <2>1
<1>9. registers'[Ip] = Current.back
  <2>1. registers'[Ip] = Loaded(Ip, Given(Current, Lr))
    BY <1>3, <1>5, Numbers
  <2>2. Current.back \in Int
    BY <1>2, Sizes DEF CallRecord, Word
  <2>3. CASE thumb
    <3>1. Current.back % 2 = 0 /\ Given(Current, Lr) = Current.back + 1
      BY <1>1, <1>2, <2>3 DEF Given
    <3>2. Current.back + 1 - ((Current.back + 1) % 2) = Current.back
      BY <2>2, <3>1
    <3>3. Loaded(Ip, Current.back + 1) = Current.back + 1 - ((Current.back + 1) % 2)
      <4>1. \A value \in Int : Loaded(Ip, value) = value - (value % 2)
        BY <2>3 DEF Loaded
      <4>2. QED
        BY <2>2, <4>1
    <3>4. QED
      BY <2>1, <2>2, <3>1, <3>2, <3>3
  <2>4. CASE ~thumb
    <3>1. Current.back % 4 = 0 /\ Given(Current, Lr) = Current.back
      BY <1>1, <1>2, <2>4 DEF Given
    <3>2. Current.back - (Current.back % 4) = Current.back
      BY <2>2, <3>1
    <3>3. QED
      BY <2>1, <2>4, <3>1, <3>2 DEF Loaded
  <2>5. QED
    BY <2>3, <2>4
<1>10. registers' \in [Saved \cup {Sp, Lr, Ip} -> Word]
  <2>1. Current.saved \in [Saved -> Word] /\ Current.sp \in Word /\ Current.back \in Word
    BY <1>2 DEF CallRecord
  <2>2. registers'[Lr] = registers[Lr]
    BY <1>3, Numbers
  <2>3. \A r \in Saved \cup {Sp, Lr, Ip} : registers'[r] \in Word
    BY <1>3, <1>7, <1>8, <1>9, <2>1, <2>2
  <2>4. DOMAIN registers = Saved \cup {Sp, Lr, Ip}
    BY <1>3
  <2>5. QED
    BY <1>3, <2>3, <2>4
<1>11. QED
  BY <1>1, <1>7, <1>8, <1>9, <1>10 DEF ReturnsThere

\* A branch to the link register takes the mode from its lowest bit.
LEMMA BranchReturnsThere == CallsInv /\ Returns => ReturnsThere
<1> SUFFICES ASSUME CallsInv, Returns
             PROVE  ReturnsThere
  OBVIOUS
<1> DEFINE target == registers[Lr]
<1>1. /\ calls # <<>> /\ Current.list = {}
      /\ thumb' = (target % 2 = 1)
      /\ registers' = [registers EXCEPT ![Ip] = target - (target % 2)]
  BY DEF Returns, BranchTo
<1>2. /\ Current \in CallRecord /\ Current.thumb \in BOOLEAN
      /\ Current.back \in Word /\ Current.back \in Int
      /\ Current.back % (IF Current.thumb THEN 2 ELSE 4) = 0
      /\ Current.sp = SpAt(Base(Len(calls))) /\ Base(Len(calls)) \in Nat
      /\ Depth = Base(Len(calls)) + Cardinality(Current.list)
      /\ registers[Sp] = SpAt(Depth)
  BY <1>1, TopOfStack, Sizes DEF CallRecord, CallsInv, MachineTyped, Current, Word
<1>3. registers[Sp] = Current.sp
  BY <1>1, <1>2, FS_EmptySet
<1>4. /\ target = Given(Current, Lr)
      /\ \A r \in Saved : registers[r] = Current.saved[r]
  BY <1>1, Numbers DEF CallsInv, RegistersKept, Given
<1>5. /\ target - (target % 2) = Current.back
      /\ target % 2 = 1 <=> Current.thumb
  <2>1. CASE Current.thumb
    <3>1. target = Current.back + 1 /\ Current.back % 2 = 0
      BY <1>2, <1>4, <2>1 DEF Given
    <3>2. QED
      BY <1>2, <2>1, <3>1
  <2>2. CASE ~Current.thumb
    <3>1. target = Current.back /\ Current.back % 4 = 0
      BY <1>2, <1>4, <2>2 DEF Given
    <3>2. target - (target % 2) = Current.back /\ ~(target % 2 = 1)
      BY <1>2, <3>1
    <3>3. QED
      BY <2>2, <3>2
  <2>3. QED
    BY <2>1, <2>2
<1> HIDE DEF target
<1>6. thumb' = Current.thumb
  <2>1. Current.thumb = TRUE \/ Current.thumb = FALSE
    BY <1>2
  <2>2. QED
    BY <1>1, <1>5, <2>1, Zenon
<1>7. /\ registers' \in [Saved \cup {Sp, Lr, Ip} -> Word]
      /\ registers'[Ip] = Current.back /\ registers'[Sp] = registers[Sp]
      /\ \A r \in Saved : registers'[r] = registers[r]
  BY <1>1, <1>2, <1>5, Numbers DEF CallsInv, MachineTyped
<1>8. QED
  BY <1>3, <1>4, <1>6, <1>7 DEF ReturnsThere

LEMMA ReturnsKeep ==
  ASSUME CallsInv, calls # <<>>, calls' = Callers, UNCHANGED <<memory, modes>>, ReturnsThere
  PROVE  CallsInv'
BY ReturningKeeps DEF ReturnsThere

\* What nothing changes is kept.
LEMMA StutterKeeps == CallsInv /\ UNCHANGED vars => CallsInv'
<1> SUFFICES ASSUME CallsInv, UNCHANGED vars
             PROVE  CallsInv'
  OBVIOUS
<1>1. UNCHANGED <<registers, thumb, memory, modes, calls>>
  BY DEF vars
<1>2. \A i : Base(i)' = Base(i)
  BY <1>1 DEF Base, DepthOf, Bottom
<1>3. /\ \A d : SpAt(d)' = SpAt(d)
      /\ \A top, r, list : WordOf(top, r, list)' = WordOf(top, r, list)
  BY <1>1, SameModes
<1>4. \A call, r : Given(call, r)' = Given(call, r)
  BY DEF Given
<1>5. MachineTyped' /\ Nested' /\ WordsKept' /\ RegistersKept'
  BY <1>1, <1>2, <1>3, <1>4 DEF CallsInv, MachineTyped, Nested, WordsKept, RegistersKept, Current
<1>6. QED
  BY <1>5 DEF CallsInv

\* The invariant is inductive.
LEMMA CallsInductive == CallsInv /\ [Next]_vars => CallsInv'
<1> SUFFICES ASSUME CallsInv, [Next]_vars
             PROVE  CallsInv'
  OBVIOUS
<1>1. CASE Computes
  BY <1>1, ComputesKeeps
<1>2. ASSUME NEW size \in {2, 4}, NEW switch \in BOOLEAN, Calls(size, switch)
      PROVE  CallsInv'
  BY <1>2, CallsKeeps
<1>3. ASSUME NEW list \in SUBSET (Saved \cup {Lr}), Pushes(list)
      PROVE  CallsInv'
  BY <1>3, PushesKeeps DEF Stored
<1>4. CASE PopsAndReturns
  BY <1>4, PopsAndReturnsThere, ReturnsKeep DEF PopsAndReturns, LoadMany
<1>5. CASE Pops
  BY <1>5, PopsKeeps
<1>6. CASE Returns
  BY <1>6, BranchReturnsThere, ReturnsKeep DEF Returns
<1>7. CASE UNCHANGED vars
  BY <1>7, StutterKeeps
<1>8. QED
  BY <1>1, <1>2, <1>3, <1>4, <1>5, <1>6, <1>7 DEF Next

LEMMA CallsInvariant == Spec => []CallsInv
BY InitCalls, CallsInductive, PTL DEF Spec

-----------------------------------------------------------------------------
(* The theorems. *)

\* Sp stays within the stack and on a word, Ip in step with the code, and the
\* words in memory are words: of every program that keeps to the convention,
\* whichever way it nests calls and switches between ARM and Thumb code.
THEOREM TypeCorrect == Spec => []TypeOK
<1>1. CallsInv => TypeOK
  <2> SUFFICES ASSUME CallsInv
               PROVE  TypeOK
    OBVIOUS
  <2>1. registers[Sp] = SpAt(Depth) /\ Depth \in 0..Capacity
    BY TopOfStack
  <2>2. /\ registers[Sp] \in (StackStart - 4)..(StackStart + 4 * Capacity)
        /\ registers[Sp] % 4 = 0
    BY <2>1, DepthIsOfSp DEF CallsInv, MachineTyped
  <2>3. DOMAIN registers = Saved \cup {Sp, Lr, Ip}
    BY DEF CallsInv, MachineTyped
  <2>4. QED
    BY <2>2, <2>3 DEF TypeOK, CallsInv, MachineTyped, Word
<1>2. QED
  BY <1>1, CallsInvariant, PTL

\* The last word of a store or a load is where start and length say, for every list
\* of registers, every mode and every stack pointer a program comes to, and with
\* the increasing modes the debugger looks at exactly the words that are written.
THEOREM StoresAreAnnounced == Spec => []TransfersAreAnnounced
BY TypeCorrect, AnnouncedFromTypes, PTL

\* A function that stores what it changes and loads what it has stored comes back
\* behind its call, with the caller's mode, stack pointer and registers, at every
\* depth of calls and on a stack of any size and direction.
THEOREM FunctionsReturn == Spec => CallsReturn
<1>1. ASSUME CallsInv, [Next]_vars, Len(calls') < Len(calls)
      PROVE  ReturnsThere
  <2>1. Len(calls) \in Nat /\ calls \in Seq(CallRecord)
    BY <1>1, TopOfStack DEF CallsInv, MachineTyped
  <2>2. CASE Computes
    BY <1>1, <2>1, <2>2 DEF Computes
  <2>3. ASSUME NEW size \in {2, 4}, NEW switch \in BOOLEAN, Calls(size, switch)
        PROVE  FALSE
    BY <1>1, <2>1, <2>3 DEF Calls
  <2>4. ASSUME NEW list, Stores(list)
        PROVE  FALSE
    BY <1>1, <2>1, <2>4 DEF Stores
  <2>5. CASE PopsAndReturns
    BY <1>1, <2>5, PopsAndReturnsThere
  <2>6. CASE Returns
    BY <1>1, <2>6, BranchReturnsThere
  <2>7. CASE UNCHANGED vars
    BY <1>1, <2>1, <2>7 DEF vars
  <2>8. QED
    BY <1>1, <2>2, <2>3, <2>4, <2>5, <2>6, <2>7 DEF Next, Pushes, Pops
<1>2. CallsInv /\ [Next]_vars =>
        [Len(calls') < Len(calls) =>
           /\ registers'[Ip] = Current.back
           /\ thumb' = Current.thumb
           /\ registers'[Sp] = Current.sp
           /\ \A r \in Saved : registers'[r] = Current.saved[r]]_vars
  BY <1>1 DEF ReturnsThere
<1>3. QED
  BY <1>2, CallsInvariant, PTL DEF Spec, CallsReturn

\* What the abstract stack consists of.
StackOf == [n \in 1..Depth |-> Below(n)]
FileOf == [r \in Saved \cup {Lr} |-> registers[r]]

\* The words on the stack, from the top.
StackFrom(depth) == [n \in 1..depth |-> memory[Slot(depth + 1 - n)]]

StackThere == StackOf = StackFrom(Depth) /\ Depth \in 0..Capacity

LEMMA StackIsThere == CallsInv => StackThere
<1> SUFFICES ASSUME CallsInv
             PROVE  StackThere
  OBVIOUS
<1>1. /\ Depth \in Nat /\ Depth \in 0..Capacity /\ registers[Sp] = SpAt(Depth)
      /\ modes \in ModePairs
  BY TopOfStack, Sizes DEF CallsInv, MachineTyped
<1>2. ASSUME NEW n \in 1..Depth
      PROVE  Below(n) = memory[Slot(Depth + 1 - n)]
  <2> DEFINE d == Depth
  <2>1. d \in Nat /\ n \in Nat
    BY <1>1
  <2>2. registers[Sp] = IF modes[1] \in Descending THEN Bottom - 4 * d ELSE Bottom + 4 * d
    BY <1>1 DEF SpAt
  <2> HIDE DEF d
  <2>3. CASE modes[1] = "DecrementBefore"
    <3>1. registers[Sp] + 4 * (n - 1) = StackStart + 4 * (Capacity - (d + 1 - n))
      BY <1>1, <2>1, <2>2, <2>3, Pairs, Sizes
    <3>2. QED
      BY <1>1, <2>3, <3>1, Pairs DEF Below, Slot, d
  <2>4. CASE modes[1] = "DecrementAfter"
    <3>1. registers[Sp] + 4 * n = StackStart + 4 * (Capacity - (d + 1 - n))
      BY <1>1, <2>1, <2>2, <2>4, Pairs, Sizes
    <3>2. QED
      BY <1>1, <2>4, <3>1, Pairs DEF Below, Slot, d
  <2>5. CASE modes[1] = "IncrementBefore"
    <3>1. registers[Sp] - 4 * (n - 1) = StackStart + 4 * (d + 1 - n - 1)
      BY <1>1, <2>1, <2>2, <2>5, Pairs, Sizes
    <3>2. QED
      BY <1>1, <2>5, <3>1, Pairs DEF Below, Slot, d
  <2>6. CASE modes[1] = "IncrementAfter"
    <3>1. registers[Sp] - 4 * n = StackStart + 4 * (d + 1 - n - 1)
      BY <1>1, <2>1, <2>2, <2>6, Pairs, Sizes
    <3>2. QED
      BY <1>1, <2>6, <3>1, Pairs DEF Below, Slot, d
  <2>7. QED
    BY <1>1, <2>3, <2>4, <2>5, <2>6, Pairs
<1>3. QED
  BY <1>1, <1>2 DEF StackThere, StackOf, StackFrom

\* It is there in the next state, too.
LEMMA StackIsThereNext == CallsInv' => StackThere'
BY StackIsThere, PTL

\* The depth is what the stack pointer says, also after a step.
LEMMA NextDepth ==
  ASSUME CallsInv, UNCHANGED modes, NEW d \in 0..Capacity, registers'[Sp] = SpAt(d)
  PROVE  Depth' = d
<1>1. DepthOf(SpAt(d)) = d
  BY DepthIsOfSp DEF CallsInv, MachineTyped
<1>2. Bottom' = Bottom
  BY SameModes
<1>3. QED
  BY <1>1, <1>2 DEF Depth, DepthOf

\* Steps that leave the memory and the stack pointer alone leave the stack alone.
LEMMA StackUntouched ==
  ASSUME registers'[Sp] = registers[Sp], UNCHANGED <<memory, modes>>
  PROVE  StackOf' = StackOf
BY DEF StackOf, Depth, Below, Bottom

\* The stack of the next state, whose depth is d.
LEMMA NextStack ==
  ASSUME CallsInv, CallsInv', UNCHANGED modes, NEW d \in 0..Capacity, registers'[Sp] = SpAt(d)
  PROVE  StackOf' = [n \in 1..d |-> memory'[Slot(d + 1 - n)]]
<1>1. Depth' = d
  BY NextDepth
<1>2. StackOf' = StackFrom(Depth)'
  BY StackIsThereNext DEF StackThere
<1>3. \A k : Slot(k)' = Slot(k)
  BY SameModes
<1>4. QED
  BY <1>1, <1>2, <1>3 DEF StackFrom

LEMMA PushesPush ==
  ASSUME CallsInv, CallsInv', NEW list \in Stored, Pushes(list)
  PROVE  Stack!Push(list)
<1> DEFINE c == Cardinality(list)
<1>1. /\ list # {} /\ Depth + c <= Capacity /\ StoreMany(list) /\ UNCHANGED <<thumb, modes>>
  BY DEF Pushes
<1>2. /\ Depth \in 0..Capacity /\ Depth \in Nat
      /\ registers \in [Saved \cup {Sp, Lr, Ip} -> Word]
      /\ StackOf = [n \in 1..Depth |-> memory[Slot(Depth + 1 - n)]]
  BY TopOfStack, StackIsThere, Sizes DEF CallsInv, MachineTyped, StackFrom, StackThere
<1>3. list \in Lists /\ c \in Nat
  BY ListsOfPrograms, ListsAreFinite
<1>4. /\ \A r \in list : memory'[WordOf(Depth + c, r, list)] = registers[r]
      /\ \A k \in 1..Depth : memory'[Slot(k)] = memory[Slot(k)]
      /\ registers' = [registers EXCEPT ![Sp] = SpAt(Depth + c)]
  BY <1>1, StoringWrites
<1> HIDE DEF c
<1>5. Depth + c \in 0..Capacity /\ registers'[Sp] = SpAt(Depth + c)
  BY <1>1, <1>2, <1>3, <1>4, Sizes DEF c
<1>6. StackOf' = [n \in 1..(Depth + c) |-> memory'[Slot(Depth + c + 1 - n)]]
  BY <1>1, <1>5, NextStack
<1>7. Len(StackOf) = Depth /\ Len(StackOf') = Depth + c
  BY <1>2, <1>3, <1>6
<1>8. ASSUME NEW i \in 1..Depth
      PROVE  StackOf'[c + i] = StackOf[i]
  <2>1. /\ c + i \in 1..(Depth + c) /\ Depth + 1 - i \in 1..Depth
        /\ Depth + c + 1 - (c + i) = Depth + 1 - i
    BY <1>2, <1>3
  <2>2. QED
    BY <1>2, <1>4, <1>6, <2>1
<1>9. ASSUME NEW r \in list
      PROVE  StackOf'[Stack!Place(r, list)] = FileOf[r]
  <2>1. Stack!Place(r, list) \in 1..c
    BY <1>3, PlaceInList DEF c
  <2>2. Stack!Place(r, list) \in 1..(Depth + c)
    BY <1>2, <1>3, <2>1
  <2>3. r \in Saved \cup {Lr}
    BY DEF Stored
  <2>4. QED
    BY <1>4, <1>6, <2>2, <2>3 DEF WordOf, FileOf
<1>10. FileOf' = FileOf /\ modes' = modes
  BY <1>1, <1>2, <1>4, Numbers DEF FileOf
<1>11. Stack!Cardinality(list) = c
  BY StackCounts DEF c
<1>12. QED
  BY <1>7, <1>8, <1>9, <1>10, <1>11 DEF Stack!Push, StackOf, FileOf

LEMMA LoadsPop ==
  ASSUME CallsInv, CallsInv', NEW list \in Loadable, list # {}, Cardinality(list) <= Depth,
         LoadMany(list), UNCHANGED modes
  PROVE  Stack!Pop(list)
<1> DEFINE c == Cardinality(list)
<1>1. /\ Depth \in 0..Capacity /\ Depth \in Nat /\ Depth <= Capacity
      /\ registers[Sp] = SpAt(Depth) /\ modes \in ModePairs
      /\ registers \in [Saved \cup {Sp, Lr, Ip} -> Word]
      /\ StackOf = [n \in 1..Depth |-> memory[Slot(Depth + 1 - n)]]
  BY TopOfStack, StackIsThere, Sizes DEF CallsInv, MachineTyped, StackFrom, StackThere
<1>2. list \in Lists /\ c \in Nat
  BY ListsOfPrograms, ListsAreFinite
<1>3. /\ write_back(modes[2], registers[Sp], list) = SpAt(Depth - c)
      /\ \A r \in list :
           AddressOf(r, modes[2], registers[Sp], list) = Slot(Depth + 1 - Stack!Place(r, list))
  BY <1>1, <1>2, LoadsFromTop
<1>4. /\ registers' = [r \in DOMAIN registers |->
                         IF r = Sp THEN write_back(modes[2], registers[Sp], list)
                         ELSE IF r \in list
                         THEN Loaded(r, memory[AddressOf(r, modes[2], registers[Sp], list)])
                         ELSE registers[r]]
      /\ memory' = memory
  BY DEF LoadMany
<1> HIDE DEF c
<1>5. Depth - c \in 0..Capacity /\ registers'[Sp] = SpAt(Depth - c)
  BY <1>1, <1>2, <1>3, <1>4, Sizes DEF c
<1>6. StackOf' = [n \in 1..(Depth - c) |-> memory[Slot(Depth - c + 1 - n)]]
  BY <1>4, <1>5, NextStack
<1>7. StackOf' = SubSeq(StackOf, c + 1, Len(StackOf)) /\ c <= Len(StackOf)
  <2>1. Len(StackOf) = Depth /\ c <= Depth
    BY <1>1 DEF c
  <2>2. SubSeq(StackOf, c + 1, Depth) = [n \in 1..(Depth - c) |-> StackOf[c + n]]
    BY <1>1, <1>2, <2>1
  <2>3. ASSUME NEW n \in 1..(Depth - c)
        PROVE  StackOf[c + n] = memory[Slot(Depth - c + 1 - n)]
    <3>1. c + n \in 1..Depth /\ Depth + 1 - (c + n) = Depth - c + 1 - n
      BY <1>1, <1>2
    <3>2. QED
      BY <1>1, <3>1
  <2>4. QED
    BY <1>6, <2>1, <2>2, <2>3
<1>8. FileOf' = [r \in Saved \cup {Lr} |->
                   IF r \in list THEN StackOf[Stack!Place(r, list)] ELSE FileOf[r]]
  <2>1. ASSUME NEW r \in Saved \cup {Lr}
        PROVE  registers'[r] =
                 IF r \in list THEN StackOf[Stack!Place(r, list)] ELSE registers[r]
    <3>1. r # Sp /\ r # Ip /\ r \in DOMAIN registers
      BY <1>1, Numbers
    <3>2. CASE r \in list
      <4>1. Stack!Place(r, list) \in 1..Depth
        <5>1. Stack!Place(r, list) \in 1..c
          BY <1>2, <3>2, PlaceInList DEF c
        <5>2. QED
          BY <1>1, <1>2, <5>1 DEF c
      <4>2. registers'[r] = memory[Slot(Depth + 1 - Stack!Place(r, list))]
        BY <1>3, <1>4, <3>1, <3>2 DEF Loaded
      <4>3. QED
        BY <1>1, <3>2, <4>1, <4>2
    <3>3. CASE r \notin list
      BY <1>4, <3>1, <3>3
    <3>4. QED
      BY <3>2, <3>3
  <2>2. QED
    BY <2>1 DEF FileOf
<1>9. Stack!Cardinality(list) = c
  BY StackCounts DEF c
<1>10. QED
  BY <1>7, <1>8, <1>9 DEF Stack!Pop, StackOf, FileOf

\* Stores and loads of lists, with any pair of addressing modes, do what a stack of
\* words does, for every list of registers, and nothing else touches it.
THEOREM ImplementsStack == Spec => StackSpec
<1>1. Init => Stack!Init
  <2> SUFFICES ASSUME Init
               PROVE  Stack!Init
    OBVIOUS
  <2>1. CallsInv
    BY InitCalls
  <2>2. Depth = 0
    <3>1. Depth = DepthOf(SpAt(0))
      BY Pairs, Sizes DEF Init, Depth, DepthOf, SpAt
    <3>2. QED
      BY <2>1, <3>1, DepthIsOfSp, Sizes DEF CallsInv, MachineTyped
  <2>3. [n \in 1..Depth |-> Below(n)] = <<>>
    BY <2>2
  <2>4. QED
    BY <2>3 DEF Stack!Init
<1>2. ASSUME CallsInv, CallsInv', [Next]_vars
      PROVE  [Stack!Next]_(Stack!stackVars)
  <2>1. CASE Computes
    <3>1. StackOf' = StackOf /\ modes' = modes
      <4>1. registers'[Sp] = registers[Sp]
        BY <1>2, <2>1, Numbers DEF Computes, CallsInv, MachineTyped
      <4>2. QED
        BY <2>1, <4>1, StackUntouched DEF Computes
    <3>2. QED
      BY <3>1 DEF Stack!Next, Stack!Computes, StackOf
  <2>2. ASSUME NEW size \in {2, 4}, NEW switch \in BOOLEAN, Calls(size, switch)
        PROVE  Stack!Next
    <3>1. StackOf' = StackOf /\ modes' = modes
      <4>1. registers'[Sp] = registers[Sp]
        BY <1>2, <2>2, Numbers DEF Calls, BranchTo, CallsInv, MachineTyped
      <4>2. QED
        BY <2>2, <4>1, StackUntouched DEF Calls
    <3>2. QED
      BY <3>1 DEF Stack!Next, Stack!Computes, StackOf
  <2>3. ASSUME NEW list \in SUBSET (Saved \cup {Lr}), Pushes(list)
        PROVE  Stack!Next
    BY <1>2, <2>3, PushesPush DEF Stored, Stack!Next
  <2>4. CASE PopsAndReturns
    <3>1. /\ calls # <<>> /\ Lr \in Current.list /\ UNCHANGED modes
          /\ LoadMany((Current.list \ {Lr}) \cup {Ip})
      BY <2>4 DEF PopsAndReturns
    <3>2. PICK list \in Stored : list = Current.list
      BY <1>2, <3>1, TopOfStack DEF Stored
    <3>3. PICK other \in Loadable : other = (list \ {Lr}) \cup {Ip}
      BY DEF Stored, Loadable
    <3>4. Cardinality(other) = Cardinality(list) /\ Cardinality(list) \in Nat
      BY <3>1, <3>2, <3>3, SameLength, ListsAreFinite, ListsOfPrograms
    <3>5. Cardinality(other) <= Depth
      BY <1>2, <3>1, <3>2, <3>4, TopOfStack, Sizes
    <3>6. LoadMany(other) /\ other # {}
      BY <3>1, <3>2, <3>3
    <3>7. Stack!Pop(other)
      BY <1>2, <3>1, <3>5, <3>6, LoadsPop
    <3>8. QED
      BY <3>7 DEF Stack!Next, Loadable
  <2>5. CASE Pops
    <3>1. /\ calls # <<>> /\ Current.list # {} /\ LoadMany(Current.list) /\ UNCHANGED modes
      BY <2>5 DEF Pops
    <3>2. PICK list \in Loadable : list = Current.list
      BY <1>2, <3>1, TopOfStack DEF Loadable
    <3>3. Cardinality(list) \in Nat
      BY ListsAreFinite, ListsOfPrograms
    <3>4. Cardinality(list) <= Depth
      BY <1>2, <3>1, <3>2, <3>3, TopOfStack, Sizes
    <3>5. LoadMany(list) /\ list # {}
      BY <3>1, <3>2
    <3>6. Stack!Pop(list)
      BY <1>2, <3>1, <3>4, <3>5, LoadsPop
    <3>7. QED
      BY <3>6 DEF Stack!Next, Loadable
  <2>6. CASE Returns
    <3>1. StackOf' = StackOf /\ modes' = modes
      <4>1. registers'[Sp] = registers[Sp]
        BY <1>2, <2>6, Numbers DEF Returns, BranchTo, CallsInv, MachineTyped
      <4>2. QED
        BY <2>6, <4>1, StackUntouched DEF Returns
    <3>2. QED
      BY <3>1 DEF Stack!Next, Stack!Computes, StackOf
  <2>7. CASE UNCHANGED vars
    BY <2>7 DEF vars, Stack!stackVars, Below, Depth, Bottom
  <2>8. QED
    BY <1>2, <2>1, <2>2, <2>3, <2>4, <2>5, <2>6, <2>7 DEF Next
<1>3. QED
  BY <1>1, <1>2, CallsInvariant, PTL DEF Spec, StackSpec, Stack!Spec

=============================================================================
