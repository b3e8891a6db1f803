---------------------------- MODULE ProcessorProofs --------------------------
(***************************************************************************)
(* Interrupts are invisible to the program, for every handler that is      *)
(* shorter than the cooldown, every instruction timing and every size of   *)
(* the address space (IrqEntry), and the data-processing instructions do   *)
(* what their conditions, carries and shifts promise, for words of every   *)
(* width (ShifterOperand).                                                 *)
(***************************************************************************)
EXTENDS IrqEntry, ShifterOperand, WellFoundedInduction, TLAPS

-----------------------------------------------------------------------------
(* Quotients and remainders. *)

\* Quotient and remainder.
LEMMA Division ==
  ASSUME NEW n \in Nat \ {0}, NEW a \in Int
  PROVE  /\ a % n \in 0..(n - 1)
         /\ a \div n \in Int
         /\ a = n * (a \div n) + (a % n)
OBVIOUS

\* A remainder is unique.
LEMMA RemainderUnique ==
  ASSUME NEW n \in Nat \ {0}, NEW q \in Int, NEW p \in Int,
         NEW r \in 0..(n - 1), NEW s \in 0..(n - 1),
         n * q + r = n * p + s
  PROVE  r = s
<1>1. CASE q > p
  <2>1. PICK k \in Nat : q = p + 1 + k
    BY <1>1
  <2>2. n * q = n * p + n + n * k
    BY <2>1
  <2>3. n * k >= 0
    BY <2>1
  <2>4. QED
    BY <2>2, <2>3
<1>2. CASE p > q
  <2>1. PICK k \in Nat : p = q + 1 + k
    BY <1>2
  <2>2. n * p = n * q + n + n * k
    BY <2>1
  <2>3. n * k >= 0
    BY <2>1
  <2>4. QED
    BY <2>2, <2>3
<1>3. QED
  BY <1>1, <1>2

LEMMA Quotient ==
  ASSUME NEW n \in Nat \ {0}, NEW q \in Int, NEW r \in 0..(n - 1)
  PROVE  (n * q + r) \div n = q /\ (n * q + r) % n = r
<1> DEFINE x == n * q + r
           p == x \div n
           s == x % n
<1>1. x \in Int
  OBVIOUS
<1>2. s \in 0..(n - 1) /\ p \in Int /\ x = n * p + s
  <2> HIDE DEF x
  <2> QED
    BY <1>1, Division
<1>3. n * q + r = n * p + s
  BY <1>2
<1> HIDE DEF p, s
<1>4. r = s
  BY <1>2, <1>3, RemainderUnique
<1>5. n * (q - p) = 0
  <2>1. n * q = n * p
    BY <1>2, <1>3, <1>4
  <2> QED
    BY <1>2, <2>1
<1>6. q = p
  <2> DEFINE k == q - p
  <2>1. k \in Int /\ n * k = 0
    BY <1>2, <1>5
  <2>2. k = 0
    <3> HIDE DEF k
    <3>1. CASE k > 0
      <4>1. PICK j \in Nat : k = j + 1
        BY <2>1, <3>1, k - 1 \in Nat
      <4>2. n * k = n * j + n /\ n * j >= 0
        BY <4>1
      <4> QED
        BY <2>1, <4>2
    <3>2. CASE k < 0
      <4>1. PICK j \in Nat : -k = j + 1
        BY <2>1, <3>2, -k - 1 \in Nat
      <4>2. n * (-k) = n * j + n /\ n * j >= 0 /\ n * (-k) = -(n * k)
        BY <2>1, <4>1
      <4> QED
        BY <2>1, <4>2
    <3> QED
      BY <2>1, <3>1, <3>2
  <2> QED
    BY <1>2, <2>2
<1> QED
  BY <1>4, <1>6 DEF p, s

\* Multiples of the divisor move to the quotient.
LEMMA Multiples ==
  ASSUME NEW n \in Nat \ {0}, NEW x \in Int, NEW k \in Int
  PROVE  /\ (x + n * k) \div n = x \div n + k
         /\ (x + n * k) % n = x % n
<1> DEFINE q == x \div n
           r == x % n
<1>1. q \in Int /\ r \in 0..(n - 1) /\ x = n * q + r
  BY Division
<1> HIDE DEF q, r
<1>2. x + n * k = n * (q + k) + r
  BY <1>1
<1>3. (n * (q + k) + r) \div n = q + k /\ (n * (q + k) + r) % n = r
  BY <1>1, q + k \in Int, Quotient
<1> QED
  BY <1>2, <1>3 DEF q, r

\* Dividing twice.
LEMMA Twice ==
  ASSUME NEW p \in Nat \ {0}, NEW q \in Nat \ {0}, NEW x \in Int
  PROVE  /\ x \div (p * q) = (x \div p) \div q
         /\ x % (p * q) = (x % p) + p * ((x \div p) % q)
<1> DEFINE y == x \div p
           r == x % p
           z == y \div q
           d == y % q
<1>1. y \in Int /\ r \in 0..(p - 1) /\ x = p * y + r
  BY Division
<1> HIDE DEF y, r
<1>2. z \in Int /\ d \in 0..(q - 1) /\ y = q * z + d
  BY <1>1, Division
<1> HIDE DEF z, d
<1>3. p * q \in Nat \ {0}
  <2>1. PICK i \in Nat : p = i + 1
    BY p - 1 \in Nat
  <2>2. PICK j \in Nat : q = j + 1
    BY q - 1 \in Nat
  <2>3. p * q = i * j + i + j + 1 /\ i * j \in Nat
    BY <2>1, <2>2
  <2> QED
    BY <2>3
<1>4. x = (p * q) * z + (p * d + r)
  <2>1. p * y = p * (q * z) + p * d
    BY <1>2
  <2>2. p * (q * z) = (p * q) * z
    BY <1>2
  <2>3. p * (q * z) \in Int /\ p * d \in Int
    BY <1>2
  <2> QED
    BY <1>1, <2>1, <2>2, <2>3
<1>5. p * d + r \in 0..(p * q - 1)
  <2>1. PICK e \in Nat : q = d + e + 1
    BY <1>2, q - d - 1 \in Nat
  <2>2. p * q = p * d + p * e + p /\ p * e \in Nat /\ p * d \in Nat
    BY <1>2, <2>1
  <2> QED
    BY <1>1, <2>2
<1>6. ((p * q) * z + (p * d + r)) \div (p * q) = z
      /\ ((p * q) * z + (p * d + r)) % (p * q) = p * d + r
  BY <1>2, <1>3, <1>5, Quotient
<1>7. p * d \in Int /\ r \in Int
  BY <1>1, <1>2
<1> QED
  BY <1>4, <1>6, <1>7 DEF y, r, z, d

\* A quotient is between the number and 0, or -1.
LEMMA QuotientShrinks ==
  ASSUME NEW p \in Nat \ {0}, NEW x \in Int
  PROVE  /\ x >= 0 => x \div p \in 0..x
         /\ x < 0 => x \div p \in x..(-1)
<1> DEFINE m == x \div p
           r == x % p
<1>1. m \in Int /\ r \in 0..(p - 1) /\ x = p * m + r
  BY Division
<1> HIDE DEF m, r
<1>2. PICK e \in Nat : p = e + 1
  BY p - 1 \in Nat
<1>3. p * m = e * m + m
  BY <1>1, <1>2
<1>4. CASE m >= 0
  <2>1. e * m \in Nat
    BY <1>1, <1>2, <1>4
  <2> QED
    BY <1>1, <1>3, <1>4, <2>1 DEF m
<1>5. CASE m < 0
  <2>1. PICK k \in Nat : m = -1 - k
    BY <1>1, <1>5, -1 - m \in Nat
  <2>2. p * m = -p - p * k /\ p * k \in Nat /\ e * m = -e - e * k /\ e * k \in Nat
    BY <1>2, <2>1
  <2> QED
    BY <1>1, <1>2, <1>3, <1>5, <2>2 DEF m
<1> QED
  BY <1>1, <1>4, <1>5

LEMMA QuotientBound ==
  ASSUME NEW p \in Nat \ {0}, NEW q \in Nat \ {0}, NEW x \in Nat, x < p * q
  PROVE  x \div p \in 0..(q - 1)
<1> DEFINE m == x \div p
           r == x % p
<1>1. m \in Int /\ r \in 0..(p - 1) /\ x = p * m + r /\ m \in 0..x
  <2>1. x \in Int /\ x >= 0
    OBVIOUS
  <2>2. m \in 0..x
    BY <2>1, QuotientShrinks
  <2> QED
    BY <2>1, <2>2, Division
<1> HIDE DEF m, r
<1>2. SUFFICES ASSUME m >= q PROVE FALSE
  BY <1>1 DEF m
<1>3. PICK e \in Nat : m = q + e
  BY <1>1, <1>2, m - q \in Nat
<1>4. p * m = p * q + p * e /\ p * e \in Nat /\ p * q \in Nat
  BY <1>3
<1> QED
  BY <1>1, <1>4

-----------------------------------------------------------------------------
(* Addresses wrap. *)

\* Wrapping an address gives an address, and does nothing to one.
LEMMA WrapTyped ==
  /\ \A a \in Int : Wrap(a) \in Addresses
  /\ \A a \in Addresses : Wrap(a) = a
<1>1. Space \in Nat \ {0}
  BY IrqEntryAssumption
<1>2. ASSUME NEW a \in Int PROVE Wrap(a) \in Addresses
  BY <1>1, Division DEF Wrap, Addresses
<1>3. ASSUME NEW a \in Addresses PROVE Wrap(a) = a
  <2>1. a \in Int /\ a \in 0..(Space - 1)
    BY <1>1 DEF Addresses
  <2>2. Space * (a \div Space) + (a % Space) = Space * 0 + a
    BY <1>1, <2>1, Division
  <2>3. /\ a % Space \in 0..(Space - 1)
        /\ a \div Space \in Int
    BY <1>1, <2>1, Division
  <2>4. QED
    BY <1>1, <2>1, <2>2, <2>3, RemainderUnique DEF Wrap
<1>4. QED
  BY <1>2, <1>3

\* Wrapping once is enough.
LEMMA WrapTwice ==
  ASSUME NEW a \in Int, NEW b \in Int
  PROVE  Wrap(Wrap(a) + b) = Wrap(a + b)
<1> DEFINE n == Space
           q == a \div n
           p == ((a % n) + b) \div n
           t == (a + b) \div n
           r == ((a % n) + b) % n
           s == (a + b) % n
<1>1. n \in Nat \ {0}
  BY IrqEntryAssumption
<1>2. a = n * q + (a % n) /\ q \in Int /\ a % n \in Int
  BY <1>1, Division
<1>3. (a % n) + b = n * p + r /\ p \in Int /\ r \in 0..(n - 1)
  <2>1. (a % n) + b \in Int
    BY <1>2
  <2>2. QED
    BY <1>1, <2>1, Division
<1>4. a + b = n * t + s /\ t \in Int /\ s \in 0..(n - 1)
  BY <1>1, Division
<1>5. n * (q + p) + r = n * t + s
  <2>1. n * (q + p) = n * q + n * p
    BY <1>1, <1>2, <1>3
  <2>2. n * q \in Int /\ n * p \in Int /\ n * t \in Int /\ r \in Int /\ s \in Int
    BY <1>1, <1>2, <1>3, <1>4
  <2> HIDE DEF n, q, p, t, r, s
  <2>3. QED
    BY <1>2, <1>3, <1>4, <2>1, <2>2
<1>6. r = s
  <2>1. q + p \in Int
    BY <1>2, <1>3
  <2> HIDE DEF n, q, p, t, r, s
  <2>2. QED
    BY <1>1, <1>3, <1>4, <1>5, <2>1, RemainderUnique
<1>7. QED
  BY <1>6 DEF Wrap

-----------------------------------------------------------------------------
(* Types. *)

\* A cap keeps a tick count in its range and never raises it.
LEMMA CappedTyped ==
  ASSUME NEW n \in Nat
  PROVE  Capped(n) \in 0..(GeneralCooldown + 1) /\ Capped(n) <= n
BY IrqEntryAssumption DEF Capped

\* What the program's instructions leave of the types.
LEMMA ExecutesTyped ==
  ASSUME TypeOK, Machine!Executes
  PROVE  /\ cpsr' \in Psrs
         /\ cpsr'.mode \in ProgramModes \cup {cpsr.mode}
         /\ ip' \in Addresses
         /\ lr' \in [Modes -> Addresses]
<1>1. /\ cpsr \in Psrs /\ lr \in [Modes -> Addresses] /\ ip \in Int
  BY IrqEntryAssumption DEF TypeOK, Addresses, Psrs, Modes
<1>2. /\ Machine!NextIp \in Addresses
      /\ \A n \in {1, 2} : Machine!Wrap(ip + n) \in Addresses
      /\ Machine!Addresses = Addresses
  BY <1>1, WrapTyped DEF Machine!NextIp, Machine!Wrap, Machine!Size, Wrap,
                         Machine!Addresses, Addresses
<1>3. ASSUME NEW z \in BOOLEAN, Machine!WritesFlag(z)
      PROVE  cpsr' \in Psrs /\ cpsr'.mode = cpsr.mode /\ ip' \in Addresses /\ lr' = lr
  BY <1>1, <1>2, <1>3 DEF Machine!WritesFlag, Psrs
<1>4. ASSUME NEW a \in Addresses, Machine!WritesLink(a)
      PROVE  cpsr' = cpsr /\ ip' \in Addresses /\ lr' \in [Modes -> Addresses]
  BY <1>1, <1>2, <1>4 DEF Machine!WritesLink
<1>5. ASSUME NEW target \in Addresses, NEW thumb \in BOOLEAN,
             Machine!Branches(target, thumb) \/ Machine!Calls(target, thumb)
      PROVE  cpsr' \in Psrs /\ cpsr'.mode = cpsr.mode /\ ip' \in Addresses
             /\ lr' \in [Modes -> Addresses]
  BY <1>1, <1>2, <1>5 DEF Machine!Branches, Machine!Calls, Psrs
<1>6. ASSUME NEW m \in ProgramModes, Machine!ChangesMode(m)
      PROVE  cpsr' \in Psrs /\ cpsr'.mode = m /\ ip' \in Addresses /\ lr' = lr
  BY <1>1, <1>2, <1>6 DEF Machine!ChangesMode, Psrs, Modes
<1>7. QED
  BY <1>1, <1>2, <1>3, <1>4, <1>5, <1>6 DEF Machine!Executes

\* The registers of the machine, the time since an interrupt and the place in
\* the handler have their types.
THEOREM TypeCorrect == Spec => []TypeOK
<1>1. Init => TypeOK
  BY IrqEntryAssumption DEF Init, TypeOK, Psrs, Modes, Addresses
<1>2. TypeOK /\ [Next]_vars => TypeOK'
  <2> SUFFICES ASSUME TypeOK, [Next]_vars PROVE TypeOK'
    OBVIOUS
  <2>0. /\ since \in Nat /\ ip \in Int /\ Irq \in Modes
        /\ lr \in [Modes -> Addresses] /\ lr[Irq] \in Int
        /\ \A d \in Durations : d \in Nat
    BY IrqEntryAssumption DEF TypeOK, Addresses, Modes
  <2>1. ASSUME NEW d \in Durations, Interrupted(d) PROVE TypeOK'
    <3>1. cpsr' \in Psrs /\ handled' \in 0..(HandlerLength - 1)
      BY <2>1, IrqEntryAssumption DEF Interrupted, Psrs, Modes
    <3>2. spsr' \in [Modes -> Psrs]
      BY <2>1 DEF Interrupted, SpsrAtEntry, TypeOK
    <3>3. lr' \in [Modes -> Addresses]
      <4>1. IpAsRead \in Addresses
        BY <2>0, WrapTyped DEF IpAsRead
      <4>2. QED
        BY <2>0, <2>1, <4>1 DEF Interrupted
    <3>4. ip' \in Addresses
      BY <2>1, WrapTyped, IrqEntryAssumption DEF Interrupted
    <3>5. since' \in 0..(GeneralCooldown + 1)
      BY <2>0, <2>1, CappedTyped DEF Interrupted
    <3>6. QED
      BY <3>1, <3>2, <3>3, <3>4, <3>5 DEF TypeOK
  <2>2. ASSUME NEW d \in Durations, ProgramExecutes(d) PROVE TypeOK'
    BY <2>0, <2>2, CappedTyped, ExecutesTyped, IrqEntryAssumption
       DEF ProgramExecutes, TypeOK
  <2>3. ASSUME NEW d \in Durations, HandlerExecutes(d) PROVE TypeOK'
    BY <2>0, <2>3, CappedTyped, ExecutesTyped, IrqEntryAssumption
       DEF HandlerExecutes, TypeOK, Machine!Executes
  <2>4. ASSUME NEW d \in Durations, HandlerReturns(d) PROVE TypeOK'
    BY <2>0, <2>4, CappedTyped, WrapTyped, IrqEntryAssumption
       DEF HandlerReturns, TypeOK, Modes, Addresses
  <2>5. CASE UNCHANGED vars
    BY <2>5 DEF vars, TypeOK
  <2>6. QED
    BY <2>1, <2>2, <2>3, <2>4, <2>5 DEF Next
<1>3. QED
  BY <1>1, <1>2, PTL DEF Spec

-----------------------------------------------------------------------------
(* Handlers do not nest. *)

\* A part of a handler takes no longer than the whole.
LEMMA PartOfHandler ==
  ASSUME HandlersAreShort, NEW h \in 0..HandlerLength
  PROVE  h * (MaxDuration + 1) <= GeneralCooldown
<1> DEFINE m == MaxDuration + 1
<1>1. m \in Nat /\ h \in Nat /\ HandlerLength - h \in Nat /\ HandlerLength \in Nat
  BY IrqEntryAssumption
<1>2. HandlerLength * m = h * m + (HandlerLength - h) * m
  <2> HIDE DEF m
  <2>1. QED
    BY <1>1
<1>3. (HandlerLength - h) * m >= 0 /\ h * m \in Nat
  <2> HIDE DEF m
  <2>1. QED
    BY <1>1
<1>4. QED
  BY <1>2, <1>3, IrqEntryAssumption DEF HandlersAreShort

\* The invariant beneath the refinement: the latest interrupt is no longer ago
\* than the instructions of its handler that were executed can take, so the next
\* one is still held back and Spsr keeps the mode of the program.
LEMMA HandlerInvariant ==
  ASSUME HandlersAreShort
  PROVE  Spec => []HandlerInv
<1>1. Init => HandlerInv
  BY IrqEntryAssumption DEF Init, HandlerInv, Handling, Modes
<1>2. TypeOK /\ HandlerInv /\ [Next]_vars => HandlerInv'
  <2> SUFFICES ASSUME TypeOK, HandlerInv, [Next]_vars PROVE HandlerInv'
    OBVIOUS
  <2>0. /\ since \in Nat /\ handled \in Nat /\ MaxDuration \in Nat
        /\ handled * (MaxDuration + 1) \in Nat
        /\ \A d \in Durations : d \in Nat /\ d <= MaxDuration
    BY IrqEntryAssumption DEF TypeOK
  <2>1. ASSUME NEW d \in Durations, Interrupted(d) PROVE HandlerInv'
    <3>1. ~Handling
      <4>1. since > GeneralCooldown
        BY <2>1 DEF Interrupted, MayFire
      <4>2. handled * (MaxDuration + 1) <= GeneralCooldown
        <5>1. handled \in 0..HandlerLength
          BY IrqEntryAssumption DEF TypeOK
        <5>2. QED
          BY <5>1, PartOfHandler
      <4>3. QED
        BY <2>0, <4>1, <4>2, IrqEntryAssumption DEF HandlerInv
    <3>2. cpsr.mode \in ProgramModes
      BY <3>1 DEF HandlerInv, Handling, Modes
    <3>3. cpsr'.mode = Irq /\ handled' = 1 /\ spsr'[Irq] = cpsr
      BY <2>1 DEF Interrupted, SpsrAtEntry, TypeOK, Modes
    <3>4. since' <= handled' * (MaxDuration + 1)
      <4>1. since' <= d + 1
        BY <2>0, <2>1, CappedTyped DEF Interrupted
      <4>2. since' \in Int
        BY <2>0, <2>1, CappedTyped, IrqEntryAssumption DEF Interrupted
      <4>3. QED
        BY <2>0, <3>3, <4>1, <4>2
    <3>5. QED
      BY <3>2, <3>3, <3>4 DEF HandlerInv, Handling, Modes
  <2>2. ASSUME NEW d \in Durations, ProgramExecutes(d) PROVE HandlerInv'
    <3>1. cpsr'.mode \in ProgramModes /\ handled' = handled /\ ~Handling
      BY <2>2, ExecutesTyped DEF ProgramExecutes, HandlerInv, Handling, Modes
    <3>2. QED
      BY <3>1, IrqEntryAssumption DEF HandlerInv, Handling, Modes
  <2>3. ASSUME NEW d \in Durations, HandlerExecutes(d) PROVE HandlerInv'
    <3>1. cpsr'.mode = Irq /\ handled' = handled + 1 /\ spsr' = spsr /\ Handling
      BY <2>3 DEF HandlerExecutes, Machine!WritesFlag, TypeOK, Psrs, Handling
    <3>2. since' <= handled' * (MaxDuration + 1)
      <4>1. since' <= since + d + 1 /\ since' \in Int
        BY <2>0, <2>3, CappedTyped, IrqEntryAssumption DEF HandlerExecutes
      <4>2. since <= handled * (MaxDuration + 1)
        BY <3>1 DEF HandlerInv
      <4>3. (handled + 1) * (MaxDuration + 1) = handled * (MaxDuration + 1) + MaxDuration + 1
        BY <2>0
      <4>4. QED
        BY <2>0, <3>1, <4>1, <4>2, <4>3
    <3>3. QED
      BY <2>0, <3>1, <3>2 DEF HandlerInv, Handling, Modes
  <2>4. ASSUME NEW d \in Durations, HandlerReturns(d) PROVE HandlerInv'
    <3>1. cpsr'.mode \in ProgramModes /\ handled' = 0
      BY <2>4 DEF HandlerReturns, HandlerInv, Handling
    <3>2. QED
      BY <3>1, IrqEntryAssumption DEF HandlerInv, Handling, Modes
  <2>5. CASE UNCHANGED vars
    BY <2>5 DEF vars, HandlerInv, Handling
  <2>6. QED
    BY <2>1, <2>2, <2>3, <2>4, <2>5 DEF Next
<1>3. QED
  BY <1>1, <1>2, TypeCorrect, PTL DEF Spec

-----------------------------------------------------------------------------

\* The machine with its interrupts implements the program without them: an entry
\* is a stutter of a Thumb program and leaves out one instruction of an ARM
\* program, the handler and its return are stutters.
THEOREM ImplementsProgram ==
  ASSUME HandlersAreShort
  PROVE  Spec => ProgramSpec
<1> DEFINE p == IF Handling THEN spsr[Irq] ELSE cpsr
           a == IF Handling THEN Wrap(lr[Irq] - 2) ELSE ip
           l == [m \in ProgramModes |-> lr[m]]
<1>1. Init => Own!Init
  BY IrqEntryAssumption DEF Init, Own!Init, Handling, Modes
<1>2. TypeOK /\ HandlerInv /\ HandlerInv' /\ [Next]_vars => [Own!Next]_<<p, a, l>>
  <2> SUFFICES ASSUME TypeOK, HandlerInv, HandlerInv', [Next]_vars
               PROVE  [Own!Next]_<<p, a, l>>
    OBVIOUS
  <2>0. /\ ip \in Int /\ ip \in Addresses
        /\ lr \in [Modes -> Addresses] /\ Irq \in Modes
        /\ spsr \in [Modes -> Psrs] /\ cpsr \in Psrs
        /\ Irq \notin ProgramModes /\ ProgramModes \subseteq Modes
    BY IrqEntryAssumption DEF TypeOK, Addresses, Modes
  <2>1. ASSUME NEW d \in Durations, Interrupted(d) PROVE [Own!Next]_<<p, a, l>>
    <3>1. ~Handling /\ Handling'
      <4>1. spsr'[Irq] = cpsr /\ cpsr'.mode = Irq
        BY <2>0, <2>1 DEF Interrupted, SpsrAtEntry
      <4>2. QED
        BY <2>0, <4>1 DEF HandlerInv, Handling
    <3>2. p' = p /\ l' = l
      BY <2>0, <2>1, <3>1 DEF Interrupted, SpsrAtEntry
    <3>3. a' = Wrap(IpAsRead - 2)
      BY <2>0, <2>1, <3>1 DEF Interrupted
    <3>4. CASE cpsr.thumb
      <4>1. Wrap(Wrap(ip + 2) + (-2)) = Wrap((ip + 2) + (-2))
        BY <2>0, WrapTwice
      <4>2. Wrap(ip) = ip /\ (ip + 2) + (-2) = ip /\ Wrap(ip + 2) \in Int
        BY <2>0, WrapTyped DEF Addresses
      <4>3. IpAsRead = Wrap(ip + 2)
        BY <3>4 DEF IpAsRead
      <4>4. a' = a
        BY <3>1, <3>3, <4>1, <4>2, <4>3
      <4>5. QED
        BY <3>2, <4>4
    <3>5. CASE ~cpsr.thumb
      <4>1. Wrap(Wrap(ip + 4) + (-2)) = Wrap((ip + 4) + (-2))
        BY <2>0, WrapTwice
      <4>2. (ip + 4) + (-2) = ip + 2 /\ Wrap(ip + 4) \in Int
        BY <2>0, WrapTyped DEF Addresses
      <4>3. IpAsRead = Wrap(ip + 4)
        BY <3>5 DEF IpAsRead
      <4>4. a' = Wrap(ip + 2)
        BY <3>3, <4>1, <4>2, <4>3
      <4>5. Own!LeavesOut
        BY <3>1, <3>2, <3>5, <4>4
           DEF Own!LeavesOut, Own!NextIp, Own!Size, Own!Wrap, Wrap
      <4>6. QED
        BY <4>5 DEF Own!Next
    <3>6. QED
      BY <3>4, <3>5
  <2>2. ASSUME NEW d \in Durations, ProgramExecutes(d) PROVE [Own!Next]_<<p, a, l>>
    <3>1. ~Handling /\ ~Handling' /\ cpsr.mode \in ProgramModes
      BY <2>2, <2>0, ExecutesTyped DEF ProgramExecutes, Handling, HandlerInv, Modes
    <3>2. Machine!Executes
      BY <2>2 DEF ProgramExecutes
    <3>3. p = cpsr /\ p' = cpsr' /\ a = ip /\ a' = ip'
      BY <3>1
    <3>4. Machine!NextIp = Own!NextIp /\ Own!Addresses = Machine!Addresses
      BY <3>1 DEF Machine!NextIp, Own!NextIp, Machine!Size, Own!Size, Machine!Wrap, Own!Wrap,
                  Machine!Addresses, Own!Addresses
    <3>5. Own!Executes
      <4>1. ASSUME NEW z \in BOOLEAN, Machine!WritesFlag(z) PROVE Own!WritesFlag(z)
        BY <3>3, <3>4, <4>1 DEF Machine!WritesFlag, Own!WritesFlag
      <4>2. ASSUME NEW b \in Machine!Addresses, Machine!WritesLink(b)
            PROVE  Own!WritesLink(b)
        <5>1. l' = [l EXCEPT ![p.mode] = b]
          BY <2>0, <3>1, <3>3, <4>2 DEF Machine!WritesLink
        <5>2. QED
          BY <3>3, <3>4, <4>2, <5>1 DEF Machine!WritesLink, Own!WritesLink
      <4>3. ASSUME NEW b \in Machine!Addresses, NEW t \in BOOLEAN, Machine!Branches(b, t)
            PROVE  Own!Branches(b, t)
        BY <3>3, <4>3 DEF Machine!Branches, Own!Branches
      <4>4. ASSUME NEW b \in Machine!Addresses, NEW t \in BOOLEAN, Machine!Calls(b, t)
            PROVE  Own!Calls(b, t)
        <5>1. PICK n \in (IF cpsr.thumb THEN {1, 2} ELSE {2}) :
                lr' = [lr EXCEPT ![cpsr.mode] = Machine!Wrap(ip + n)]
          BY <4>4 DEF Machine!Calls
        <5>2. l' = [l EXCEPT ![p.mode] = Own!Wrap(a + n)]
          BY <2>0, <3>1, <3>3, <5>1 DEF Machine!Wrap, Own!Wrap
        <5>3. QED
          BY <3>3, <4>4, <5>2 DEF Machine!Calls, Own!Calls
      <4>5. ASSUME NEW m \in ProgramModes, Machine!ChangesMode(m) PROVE Own!ChangesMode(m)
        BY <3>3, <3>4, <4>5 DEF Machine!ChangesMode, Own!ChangesMode
      <4>6. QED
        BY <3>2, <3>4, <4>1, <4>2, <4>3, <4>4, <4>5 DEF Machine!Executes, Own!Executes
    <3>6. QED
      BY <3>5 DEF Own!Next
  <2>3. ASSUME NEW d \in Durations, HandlerExecutes(d) PROVE [Own!Next]_<<p, a, l>>
    <3>1. Handling /\ Handling' /\ spsr' = spsr /\ lr' = lr
      BY <2>0, <2>3 DEF HandlerExecutes, Machine!WritesFlag, Handling, Psrs
    <3>2. QED
      BY <3>1
  <2>4. ASSUME NEW d \in Durations, HandlerReturns(d) PROVE [Own!Next]_<<p, a, l>>
    <3>1. Handling /\ ~Handling'
      BY <2>4, <2>0 DEF HandlerReturns, Handling, HandlerInv
    <3>2. QED
      BY <2>4, <3>1 DEF HandlerReturns
  <2>5. CASE UNCHANGED vars
    BY <2>5 DEF vars, Handling
  <2>6. QED
    BY <2>1, <2>2, <2>3, <2>4, <2>5 DEF Next
<1>3. QED
  BY <1>1, <1>2, TypeCorrect, HandlerInvariant, PTL
     DEF Spec, ProgramSpec, Own!Spec, Own!programVars

-----------------------------------------------------------------------------
(* Recursive functions. *)

\* A set of numbers that is not all of Nat misses a smallest one.
LEMMA Induction ==
  ASSUME NEW T \in SUBSET Nat, 0 \in T, \A n \in T : n + 1 \in T
  PROVE  T = Nat
<1> DEFINE Missed == Nat \ T
<1> SUFFICES ASSUME Missed # {} PROVE FALSE
  OBVIOUS
<1>1. PICK n \in Missed : \A m \in Missed : <<m, n>> \notin OpToRel(<, Nat)
  BY NatLessThanWellFounded, WFMin, Zenon
<1>2. n \in Nat /\ n # 0 /\ n - 1 \in Nat
  OBVIOUS
<1>3. <<n - 1, n>> \in OpToRel(<, Nat)
  BY <1>2, n - 1 < n, Zenon DEF OpToRel
<1>4. n - 1 \in T
  BY <1>1, <1>2, <1>3
<1> QED
  BY <1>2, <1>4

\* The first n steps of a recursion.
Follows(g, a, h, n) == g[0] = a /\ \A i \in Nat : i < n => g[i + 1] = h[i][g[i]]

LEMMA RecursionUnique ==
  ASSUME NEW a, NEW h, NEW n \in Nat, NEW f, NEW g, Follows(f, a, h, n), Follows(g, a, h, n)
  PROVE  \A i \in 0..n : f[i] = g[i]
<1> DEFINE T == {i \in Nat : i <= n => f[i] = g[i]}
<1>1. 0 \in T
  BY DEF Follows
<1>2. ASSUME NEW i \in T PROVE i + 1 \in T
  BY DEF Follows
<1>3. T = Nat
  <2>1. T \in SUBSET Nat
    OBVIOUS
  <2> HIDE DEF T
  <2> QED
    BY <1>1, <1>2, <2>1, Induction
<1> QED
  BY <1>3

Steps(S) == [Nat -> [S -> S]]

Runs(f, S, a, h) ==
  f \in [Nat -> S] /\ f[0] = a /\ \A n \in Nat : f[n + 1] = h[n][f[n]]

LEMMA RecursionExists ==
  ASSUME NEW S, NEW a \in S, NEW h \in Steps(S)
  PROVE  \E f : Runs(f, S, a, h)
<1> USE DEF Steps
<1> DEFINE T == {n \in Nat : \E g \in [Nat -> S] : Follows(g, a, h, n)}
<1>1. 0 \in T
  <2>1. Follows([i \in Nat |-> a], a, h, 0)
    BY DEF Follows
  <2> QED
    BY <2>1
<1>2. ASSUME NEW n \in T PROVE n + 1 \in T
  <2>1. PICK g \in [Nat -> S] : Follows(g, a, h, n)
    OBVIOUS
  <2> DEFINE longer == [g EXCEPT ![n + 1] = h[n][g[n]]]
  <2>2. longer \in [Nat -> S]
    OBVIOUS
  <2>3. Follows(longer, a, h, n + 1)
    BY <2>1 DEF Follows
  <2> HIDE DEF longer
  <2> QED
    BY <2>2, <2>3, n + 1 \in Nat
<1>3. T = Nat
  <2>1. T \in SUBSET Nat
    OBVIOUS
  <2> HIDE DEF T
  <2> QED
    BY <1>1, <1>2, <2>1, Induction
<1> DEFINE G(n) == CHOOSE g \in [Nat -> S] : Follows(g, a, h, n)
           f == [n \in Nat |-> G(n)[n]]
<1>4. \A n \in Nat : G(n) \in [Nat -> S] /\ Follows(G(n), a, h, n)
  BY <1>3, Zenon
<1> HIDE DEF G
<1>5. f \in [Nat -> S]
  BY <1>4
<1>6. f[0] = a
  BY <1>4 DEF Follows
<1>7. ASSUME NEW n \in Nat PROVE f[n + 1] = h[n][f[n]]
  <2>1. G(n + 1)[n + 1] = h[n][G(n + 1)[n]]
    BY <1>4 DEF Follows
  <2>2. Follows(G(n + 1), a, h, n)
    BY <1>4 DEF Follows
  <2>3. G(n + 1)[n] = G(n)[n]
    BY <1>4, <2>2, RecursionUnique
  <2> QED
    BY <2>1, <2>3
<1> QED
  BY <1>5, <1>6, <1>7 DEF Runs

LEMMA Powers ==
  /\ TwoTo[0] = 1
  /\ \A n \in Nat : TwoTo[n] \in Nat \ {0} /\ TwoTo[n + 1] = 2 * TwoTo[n]
<1> DEFINE Positive == Nat \ {0}
           double == [n \in Nat |-> [x \in Positive |-> 2 * x]]
<1>1. double \in Steps(Positive) /\ 1 \in Positive
  BY DEF Steps
<1>2. PICK f : Runs(f, Positive, 1, double)
  <2> HIDE DEF double, Positive
  <2> QED
    BY <1>1, RecursionExists
<1>3. f \in [Nat -> Positive] /\ f[0] = 1 /\ \A n \in Nat : f[n + 1] = 2 * f[n]
  BY <1>2 DEF Runs
<1>4. f = [n \in Nat |-> IF n = 0 THEN 1 ELSE 2 * f[n - 1]]
  <2>1. ASSUME NEW n \in Nat, n # 0 PROVE f[n] = 2 * f[n - 1]
    BY <1>3, <2>1, n - 1 \in Nat, (n - 1) + 1 = n
  <2> QED
    BY <1>3, <2>1
<1>5. TwoTo = [n \in Nat |-> IF n = 0 THEN 1 ELSE 2 * TwoTo[n - 1]]
  BY <1>4, Zenon DEF TwoTo
<1>6. TwoTo[0] = 1 /\ \A n \in Nat : TwoTo[n + 1] = 2 * TwoTo[n]
  BY <1>5
<1> DEFINE T == {n \in Nat : TwoTo[n] \in Positive}
<1>7. T = Nat
  <2>1. T \in SUBSET Nat /\ 0 \in T /\ \A n \in T : n + 1 \in T
    BY <1>6
  <2> HIDE DEF T
  <2> QED
    BY <2>1, Induction
<1>8. \A n \in Nat : TwoTo[n] \in Nat \ {0}
  BY <1>7
<1> QED
  BY <1>6, <1>8

LEMMA PowersMultiply ==
  ASSUME NEW m \in Nat
  PROVE  \A n \in Nat : TwoTo[m + n] = TwoTo[m] * TwoTo[n]
<1> DEFINE T == {n \in Nat : TwoTo[m + n] = TwoTo[m] * TwoTo[n]}
<1>1. 0 \in T
  BY Powers
<1>2. ASSUME NEW n \in T PROVE n + 1 \in T
  <2>1. TwoTo[(m + n) + 1] = 2 * (TwoTo[m] * TwoTo[n])
    BY Powers, m + n \in Nat
  <2>2. TwoTo[n + 1] = 2 * TwoTo[n]
    BY Powers
  <2>3. TwoTo[m] \in Nat /\ TwoTo[n] \in Nat
    BY Powers
  <2>4. 2 * (TwoTo[m] * TwoTo[n]) = TwoTo[m] * (2 * TwoTo[n])
    BY <2>3
  <2> QED
    BY <2>1, <2>2, <2>4, m + (n + 1) = (m + n) + 1
<1>3. T = Nat
  <2>1. T \in SUBSET Nat
    OBVIOUS
  <2> HIDE DEF T
  <2> QED
    BY <1>1, <1>2, <2>1, Induction
<1> QED
  BY <1>3

\* The digit of a word at a place, and the digit of a number.
Bit01(w, b) == IF b \in w THEN 1 ELSE 0
Digit(n, b) == (n \div TwoTo[b]) % 2

LEMMA Sums ==
  ASSUME NEW w
  PROVE  /\ SumsOf(w)[0] = 0
         /\ \A n \in Nat : /\ SumsOf(w)[n] \in 0..(TwoTo[n] - 1)
                           /\ SumsOf(w)[n + 1] = SumsOf(w)[n] + Bit01(w, n) * TwoTo[n]
<1> DEFINE add == [n \in Nat |-> [x \in Nat |-> x + Bit01(w, n) * TwoTo[n]]]
<1>1. add \in Steps(Nat) /\ 0 \in Nat
  BY Powers DEF Steps, Bit01
<1>2. PICK f : Runs(f, Nat, 0, add)
  <2> HIDE DEF add
  <2> QED
    BY <1>1, RecursionExists
<1>3. f \in [Nat -> Nat] /\ f[0] = 0 /\ \A n \in Nat : f[n + 1] = f[n] + Bit01(w, n) * TwoTo[n]
  BY <1>2 DEF Runs
<1>4. f = [n \in Nat |->
             IF n = 0 THEN 0 ELSE f[n - 1] + IF n - 1 \in w THEN TwoTo[n - 1] ELSE 0]
  <2>1. ASSUME NEW n \in Nat, n # 0
        PROVE  f[n] = f[n - 1] + IF n - 1 \in w THEN TwoTo[n - 1] ELSE 0
    <3>1. n - 1 \in Nat /\ (n - 1) + 1 = n
      BY <2>1
    <3>2. f[n] = f[n - 1] + Bit01(w, n - 1) * TwoTo[n - 1]
      BY <1>3, <3>1
    <3>3. TwoTo[n - 1] \in Nat
      BY <3>1, Powers
    <3> QED
      BY <3>2, <3>3 DEF Bit01
  <2> QED
    BY <1>3, <2>1
<1>5. SumsOf(w) = [n \in Nat |->
                     IF n = 0 THEN 0
                     ELSE SumsOf(w)[n - 1] + IF n - 1 \in w THEN TwoTo[n - 1] ELSE 0]
  BY <1>4, Zenon DEF SumsOf
<1> DEFINE s == SumsOf(w)
<1> HIDE DEF s
<1>6. s[0] = 0 /\ \A n \in Nat : s[n + 1] = s[n] + IF n \in w THEN TwoTo[n] ELSE 0
  BY <1>5 DEF s
<1> DEFINE T == {n \in Nat : s[n] \in 0..(TwoTo[n] - 1)}
<1>7. 0 \in T
  BY <1>6, Powers
<1>8. ASSUME NEW n \in T PROVE n + 1 \in T
  <2>1. TwoTo[n] \in Nat \ {0} /\ TwoTo[n + 1] = 2 * TwoTo[n]
    BY Powers
  <2>2. s[n + 1] = s[n] + IF n \in w THEN TwoTo[n] ELSE 0
    BY <1>6
  <2> QED
    BY <2>1, <2>2
<1>9. T = Nat
  <2>1. T \in SUBSET Nat
    OBVIOUS
  <2> HIDE DEF T
  <2> QED
    BY <1>7, <1>8, <2>1, Induction
<1>10. ASSUME NEW n \in Nat
       PROVE  s[n] \in 0..(TwoTo[n] - 1) /\ s[n + 1] = s[n] + Bit01(w, n) * TwoTo[n]
  <2>1. TwoTo[n] \in Nat
    BY Powers
  <2> QED
    BY <1>6, <1>9, <2>1 DEF Bit01
<1> QED
  BY <1>6, <1>10 DEF s

-----------------------------------------------------------------------------
(* Digits. *)

LEMMA DigitTyped == ASSUME NEW n \in Int, NEW b \in Nat PROVE Digit(n, b) \in {0, 1}
<1>1. TwoTo[b] \in Nat \ {0}
  BY Powers
<1>2. n \div TwoTo[b] \in Int
  BY <1>1, Division
<1> QED
  BY <1>2 DEF Digit

LEMMA NextDigit ==
  ASSUME NEW n \in Int, NEW k \in Nat
  PROVE  n % TwoTo[k + 1] = (n % TwoTo[k]) + TwoTo[k] * Digit(n, k)
<1>1. TwoTo[k] \in Nat \ {0} /\ TwoTo[k + 1] = TwoTo[k] * 2
  BY Powers
<1> QED
  BY <1>1, Twice, 2 \in Nat \ {0} DEF Digit

\* A shift to the right.
LEMMA DigitOfQuotient ==
  ASSUME NEW n \in Int, NEW j \in Nat, NEW b \in Nat
  PROVE  Digit(n \div TwoTo[j], b) = Digit(n, j + b)
<1>1. TwoTo[j] \in Nat \ {0} /\ TwoTo[b] \in Nat \ {0}
  BY Powers
<1>2. TwoTo[j + b] = TwoTo[j] * TwoTo[b]
  BY PowersMultiply
<1>3. n \div (TwoTo[j] * TwoTo[b]) = (n \div TwoTo[j]) \div TwoTo[b]
  BY <1>1, Twice
<1> QED
  BY <1>2, <1>3 DEF Digit

\* A shift to the left.
LEMMA DigitOfProduct ==
  ASSUME NEW n \in Int, NEW j \in Nat, NEW b \in Nat
  PROVE  Digit(n * TwoTo[j], j + b) = Digit(n, b)
<1>1. TwoTo[j] \in Nat \ {0}
  BY Powers
<1>2. (n * TwoTo[j]) \div TwoTo[j] = n
  <2>1. n * TwoTo[j] = TwoTo[j] * n + 0
    BY <1>1
  <2>2. (TwoTo[j] * n + 0) \div TwoTo[j] = n
    BY <1>1, Quotient, 0 \in 0..(TwoTo[j] - 1)
  <2> QED
    BY <2>1, <2>2
<1>3. n * TwoTo[j] \in Int
  BY <1>1
<1> QED
  BY <1>2, <1>3, DigitOfQuotient

\* What is added at the digit j and above does not reach the digits below.
LEMMA DigitOfSum ==
  ASSUME NEW n \in Int, NEW m \in Int, NEW j \in Nat, NEW b \in Nat, b < j
  PROVE  Digit(n + TwoTo[j] * m, b) = Digit(n, b)
<1> DEFINE i == j - b - 1
           p == TwoTo[b]
           q == TwoTo[i]
           k == n \div p
<1>1. i \in Nat /\ j = b + (i + 1)
  OBVIOUS
<1>2. p \in Nat \ {0} /\ q \in Nat /\ TwoTo[i + 1] = 2 * q
  BY <1>1, Powers
<1>3. TwoTo[j] = p * (2 * q)
  BY <1>1, <1>2, PowersMultiply, i + 1 \in Nat
<1> HIDE DEF i, p, q
<1>4. TwoTo[j] * m = p * (2 * (q * m)) /\ 2 * (q * m) \in Int
  BY <1>2, <1>3
<1>5. (n + p * (2 * (q * m))) \div p = k + 2 * (q * m)
  BY <1>2, <1>4, Multiples
<1>6. k \in Int /\ q * m \in Int
  BY <1>2, Division
<1> HIDE DEF k
<1>7. (k + 2 * (q * m)) % 2 = k % 2
  BY <1>6
<1> QED
  BY <1>4, <1>5, <1>7 DEF Digit, k, p

LEMMA DigitOfRemainder ==
  ASSUME NEW n \in Int, NEW j \in Nat, NEW b \in Nat, b < j
  PROVE  Digit(n % TwoTo[j], b) = Digit(n, b)
<1> DEFINE r == n % TwoTo[j]
           k == n \div TwoTo[j]
<1>1. TwoTo[j] \in Nat \ {0}
  BY Powers
<1>2. r \in Int /\ k \in Int /\ n = r + TwoTo[j] * k
  <2>1. r \in 0..(TwoTo[j] - 1) /\ k \in Int /\ n = TwoTo[j] * k + r
    BY <1>1, Division
  <2> HIDE DEF r, k
  <2> QED
    BY <1>1, <2>1
<1> HIDE DEF r, k
<1>3. Digit(r + TwoTo[j] * k, b) = Digit(r, b)
  BY <1>2, DigitOfSum
<1> QED
  BY <1>2, <1>3 DEF r

\* Above the digits of a small number there are only zeros, and above those of a
\* small negative number only ones.
LEMMA SmallNumber ==
  ASSUME NEW j \in Nat, NEW b \in Nat, j <= b, NEW n \in (-TwoTo[j])..(TwoTo[j] - 1)
  PROVE  n \div TwoTo[b] = (IF n < 0 THEN -1 ELSE 0) /\ Digit(n, b) = IF n < 0 THEN 1 ELSE 0
<1> DEFINE i == b - j
           p == TwoTo[j]
           q == TwoTo[b]
<1>1. p \in Nat \ {0} /\ q \in Nat \ {0}
  BY Powers
<1>2. p <= q
  <2>1. i \in Nat /\ b = j + i
    OBVIOUS
  <2> HIDE DEF i
  <2>2. TwoTo[i] \in Nat \ {0} /\ q = p * TwoTo[i]
    BY <2>1, Powers, PowersMultiply
  <2>3. PICK e \in Nat : TwoTo[i] = e + 1
    BY <2>2, TwoTo[i] - 1 \in Nat
  <2> HIDE DEF p, q
  <2>4. q = p * (e + 1)
    BY <2>2, <2>3
  <2>5. p * (e + 1) = p * e + p /\ p * e \in Nat
    BY <1>1
  <2> QED
    BY <1>1, <2>4, <2>5
<1>3. n \in Int /\ -q <= n /\ n < q
  BY <1>1, <1>2
<1> HIDE DEF p, q
<1>4. CASE n < 0
  <2>1. n = q * (-1) + (n + q) /\ n + q \in 0..(q - 1)
    BY <1>1, <1>3, <1>4
  <2>2. (q * (-1) + (n + q)) \div q = -1
    BY <1>1, <2>1, Quotient, -1 \in Int
  <2>3. n \div q = -1
    BY <2>1, <2>2
  <2> QED
    BY <1>4, <2>3 DEF Digit, q
<1>5. CASE n >= 0
  <2>1. n = q * 0 + n /\ n \in 0..(q - 1)
    BY <1>1, <1>3, <1>5
  <2>2. (q * 0 + n) \div q = 0
    BY <1>1, <2>1, Quotient, 0 \in Int
  <2>3. n \div q = 0 /\ ~(n < 0)
    BY <1>3, <1>5, <2>1, <2>2
  <2> QED
    BY <2>3 DEF Digit, q
<1> QED
  BY <1>3, <1>4, <1>5

-----------------------------------------------------------------------------
(* Words and their numbers. *)

LEMMA WidthTyped ==
  /\ Width \in Nat /\ Sign \in Nat /\ Width = Sign + 1 /\ Sign \in Bits
  /\ TwoTo[Sign] \in Nat \ {0} /\ TwoTo[Width] \in Nat \ {0}
  /\ TwoTo[Width] = 2 * TwoTo[Sign]
<1>1. Width \in Nat /\ Sign \in Nat /\ Width = Sign + 1 /\ Sign \in Bits
  BY ShifterOperandAssumption DEF Sign, Bits
<1>2. /\ TwoTo[Sign] \in Nat \ {0} /\ TwoTo[Sign + 1] \in Nat \ {0}
      /\ TwoTo[Sign + 1] = 2 * TwoTo[Sign]
  BY <1>1, Powers
<1> QED
  BY <1>1, <1>2

LEMMA BitsTyped ==
  /\ Bits \subseteq Nat
  /\ \A b \in Nat : b \in Bits <=> b < Width
  /\ \A w \in Words : w \subseteq Nat
BY WidthTyped DEF Bits, Words

LEMMA WordOfTyped == ASSUME NEW n PROVE WordOf(n) \in Words
BY DEF WordOf, Words

\* The bits of a number are its digits.
LEMMA BitsOfNumber ==
  ASSUME NEW n, NEW b \in Bits
  PROVE  b \in WordOf(n) <=> Digit(n, b) = 1
BY DEF WordOf, Digit

\* The word of a number is the number, except for what does not fit.
LEMMA NumberOfWord ==
  ASSUME NEW n \in Int
  PROVE  Number[WordOf(n)] = n % TwoTo[Width]
<1> DEFINE s == SumsOf(WordOf(n))
           T == {k \in Nat : k <= Width => s[k] = n % TwoTo[k]}
<1>1. 0 \in T
  BY Powers, Sums
<1>2. ASSUME NEW k \in T PROVE k + 1 \in T
  <2>1. SUFFICES ASSUME k + 1 <= Width PROVE s[k + 1] = n % TwoTo[k + 1]
    OBVIOUS
  <2>2. s[k] = n % TwoTo[k] /\ k \in Bits
    BY <2>1, WidthTyped, BitsTyped
  <2>3. s[k + 1] = s[k] + Bit01(WordOf(n), k) * TwoTo[k]
    BY Sums
  <2>4. Bit01(WordOf(n), k) = Digit(n, k)
    BY <2>2, BitsOfNumber, DigitTyped DEF Bit01
  <2>5. n % TwoTo[k + 1] = (n % TwoTo[k]) + TwoTo[k] * Digit(n, k)
    BY NextDigit
  <2>6. Digit(n, k) \in Int /\ TwoTo[k] \in Int
    BY DigitTyped, Powers
  <2>7. Digit(n, k) * TwoTo[k] = TwoTo[k] * Digit(n, k)
    BY <2>6
  <2> QED
    BY <2>2, <2>3, <2>4, <2>5, <2>7
<1>3. T = Nat
  <2>1. T \in SUBSET Nat
    OBVIOUS
  <2> HIDE DEF T
  <2> QED
    BY <1>1, <1>2, <2>1, Induction
<1>4. s[Width] = n % TwoTo[Width]
  BY <1>3, WidthTyped
<1> QED
  BY <1>4, WordOfTyped DEF Number

LEMMA NumberTyped ==
  ASSUME NEW w \in Words
  PROVE  /\ Number[w] \in 0..(TwoTo[Width] - 1)
         /\ Number[w] = SumsOf(w)[Sign] + Bit01(w, Sign) * TwoTo[Sign]
         /\ SumsOf(w)[Sign] \in 0..(TwoTo[Sign] - 1)
BY Sums, WidthTyped DEF Number

\* The digits of the number of a word are its bits.
LEMMA DigitOfWord ==
  ASSUME NEW w \in Words, NEW b \in Bits
  PROVE  Digit(Number[w], b) = Bit01(w, b)
<1> DEFINE s == SumsOf(w)
           T == {i \in Nat : Digit(s[(b + 1) + i], b) = Bit01(w, b)}
<1>1. b \in Nat /\ b + 1 <= Width
  BY WidthTyped, BitsTyped
<1>2. \A c : Bit01(w, c) \in {0, 1}
  BY DEF Bit01
<1>3. 0 \in T
  <2>1. s[b + 1] = TwoTo[b] * Bit01(w, b) + s[b]
    <3>1. s[b + 1] = s[b] + Bit01(w, b) * TwoTo[b] /\ s[b] \in Int /\ TwoTo[b] \in Int
      BY <1>1, Sums, Powers
    <3> QED
      BY <3>1, <1>2
  <2>2. s[b] \in 0..(TwoTo[b] - 1) /\ TwoTo[b] \in Nat \ {0}
    BY <1>1, Sums, Powers
  <2>3. s[b + 1] \div TwoTo[b] = Bit01(w, b)
    BY <1>2, <2>1, <2>2, Quotient, Bit01(w, b) \in Int
  <2>4. Bit01(w, b) % 2 = Bit01(w, b)
    BY <1>2
  <2>5. (b + 1) + 0 = b + 1
    BY <1>1
  <2> QED
    BY <2>3, <2>4, <2>5 DEF Digit
<1>4. ASSUME NEW i \in T PROVE i + 1 \in T
  <2> DEFINE k == (b + 1) + i
  <2>1. k \in Nat /\ b < k /\ k + 1 = (b + 1) + (i + 1) /\ Digit(s[k], b) = Bit01(w, b)
    BY <1>1
  <2> HIDE DEF k
  <2>2. s[k + 1] = s[k] + TwoTo[k] * Bit01(w, k) /\ s[k] \in Int
    <3>1. s[k + 1] = s[k] + Bit01(w, k) * TwoTo[k] /\ s[k] \in Int /\ TwoTo[k] \in Int
      BY <2>1, Sums, Powers
    <3>2. Bit01(w, k) * TwoTo[k] = TwoTo[k] * Bit01(w, k)
      BY <1>2, <3>1
    <3> QED
      BY <3>1, <3>2
  <2>3. Digit(s[k + 1], b) = Digit(s[k], b)
    BY <1>1, <1>2, <2>1, <2>2, DigitOfSum, Bit01(w, k) \in Int
  <2> QED
    BY <2>1, <2>3
<1>5. T = Nat
  <2>1. T \in SUBSET Nat
    OBVIOUS
  <2> HIDE DEF T
  <2> QED
    BY <1>3, <1>4, <2>1, Induction
<1>6. Width - (b + 1) \in T /\ (b + 1) + (Width - (b + 1)) = Width
  <2>1. Width - (b + 1) \in Nat /\ (b + 1) + (Width - (b + 1)) = Width
    BY <1>1, WidthTyped
  <2> HIDE DEF T
  <2> QED
    BY <1>5, <2>1
<1>7. Digit(s[Width], b) = Bit01(w, b)
  BY <1>6
<1> QED
  BY <1>7 DEF Number

\* A word is the word of any number that has its digits.
LEMMA WordIs ==
  ASSUME NEW w \in Words, NEW n, \A b \in Bits : b \in w <=> Digit(n, b) = 1
  PROVE  w = WordOf(n)
BY BitsOfNumber DEF WordOf, Words

LEMMA WordOfItsNumber == ASSUME NEW w \in Words PROVE WordOf(Number[w]) = w
<1>1. \A b \in Bits : b \in w <=> Digit(Number[w], b) = 1
  BY DigitOfWord DEF Bit01
<1> QED
  BY <1>1, WordIs

\* Numbers that differ by a multiple of 2^Width have the same word.
LEMMA SameWord ==
  ASSUME NEW n \in Int, NEW k \in Int
  PROVE  /\ WordOf(n + TwoTo[Width] * k) = WordOf(n)
         /\ (n + TwoTo[Width] * k) % TwoTo[Width] = n % TwoTo[Width]
<1>1. ASSUME NEW b \in Bits PROVE Digit(n + TwoTo[Width] * k, b) = Digit(n, b)
  <2>1. Width \in Nat /\ b \in Nat /\ b < Width
    BY WidthTyped, BitsTyped
  <2> QED
    BY <2>1, DigitOfSum
<1>2. \A b \in Bits : b \in WordOf(n + TwoTo[Width] * k) <=> b \in WordOf(n)
  BY <1>1, BitsOfNumber
<1>3. WordOf(n + TwoTo[Width] * k) \subseteq Bits /\ WordOf(n) \subseteq Bits
  BY DEF WordOf
<1>4. (n + TwoTo[Width] * k) % TwoTo[Width] = n % TwoTo[Width]
  BY WidthTyped, Multiples
<1> QED
  BY <1>2, <1>3, <1>4

\* The words as signed numbers: in two's complement.
LEMMA SignedTyped ==
  ASSUME NEW w \in Words
  PROVE  /\ Signed(w) \in (-TwoTo[Sign])..(TwoTo[Sign] - 1)
         /\ Signed(w) = Number[w] + TwoTo[Width] * (-Bit01(w, Sign))
         /\ WordOf(Signed(w)) = w
<1>1. Bit01(w, Sign) \in {0, 1} /\ (Bit01(w, Sign) = 1 <=> Sign \in w)
  BY DEF Bit01
<1>2. Number[w] \in Int /\ TwoTo[Width] \in Int
  BY NumberTyped, WidthTyped
<1>3. Signed(w) = Number[w] + TwoTo[Width] * (-Bit01(w, Sign))
  BY <1>1, <1>2 DEF Signed
<1>4. Signed(w) \in (-TwoTo[Sign])..(TwoTo[Sign] - 1)
  BY <1>1, NumberTyped, WidthTyped DEF Signed
<1>5. WordOf(Signed(w)) = w
  <2> DEFINE k == -Bit01(w, Sign)
  <2>1. k \in Int
    BY <1>1
  <2> HIDE DEF k
  <2>2. WordOf(Number[w] + TwoTo[Width] * k) = WordOf(Number[w])
    BY <1>2, <2>1, SameWord
  <2> QED
    BY <1>3, <2>2, WordOfItsNumber DEF k
<1> QED
  BY <1>3, <1>4, <1>5

LEMMA SignedOfWord ==
  ASSUME NEW n \in (-TwoTo[Sign])..(TwoTo[Sign] - 1)
  PROVE  Signed(WordOf(n)) = n
<1>1. n \in Int /\ Number[WordOf(n)] = n % TwoTo[Width]
  BY NumberOfWord, WidthTyped
<1>2. Sign \in WordOf(n) <=> n < 0
  BY <1>1, WidthTyped, SmallNumber, BitsOfNumber
<1>3. CASE n < 0
  <2>1. n = TwoTo[Width] * (-1) + (n + TwoTo[Width]) /\ n + TwoTo[Width] \in 0..(TwoTo[Width] - 1)
    BY <1>1, <1>3, WidthTyped
  <2>2. (TwoTo[Width] * (-1) + (n + TwoTo[Width])) % TwoTo[Width] = n + TwoTo[Width]
    BY <2>1, Quotient, WidthTyped, -1 \in Int
  <2>3. n % TwoTo[Width] = n + TwoTo[Width]
    BY <2>1, <2>2
  <2> QED
    BY <1>1, <1>2, <1>3, <2>3, WidthTyped DEF Signed
<1>4. CASE n >= 0
  <2>1. n = TwoTo[Width] * 0 + n /\ n \in 0..(TwoTo[Width] - 1)
    BY <1>1, <1>4, WidthTyped
  <2>2. (TwoTo[Width] * 0 + n) % TwoTo[Width] = n
    BY <2>1, Quotient, WidthTyped, 0 \in Int
  <2>3. n % TwoTo[Width] = n
    BY <2>1, <2>2
  <2> QED
    BY <1>1, <1>2, <1>4, <2>3 DEF Signed
<1> QED
  BY <1>1, <1>3, <1>4

-----------------------------------------------------------------------------
(* The shifts. *)

LEMMA ShiftedSets ==
  ASSUME NEW x, NEW n, NEW carry, n # 0
  PROVE  /\ Shifted("LeftShift", x, n, carry) = {b + n : b \in x} \cap Bits
         /\ Shifted("RightShift", x, n, carry) = {b - n : b \in x} \cap Bits
         /\ Shifted("ArithmeticRightShift", x, n, carry)
              = ({b - n : b \in x} \cap Bits)
                  \cup {b \in IF Sign \in x THEN Bits ELSE {} : b > Sign - n}
         /\ Shifted("RotateRight", x, n, carry) = {(b - n) % Width : b \in x}
BY Zenon DEF Shifted

LEMMA UnshiftedSets ==
  ASSUME NEW x, NEW carry
  PROVE  /\ Shifted("LeftShift", x, 0, carry) = {b + 0 : b \in x} \cap Bits
         /\ Shifted("RightShift", x, 0, carry) = WordOf(Width)
         /\ Shifted("ArithmeticRightShift", x, 0, carry) = IF Sign \in x THEN Bits ELSE {}
         /\ Shifted("RotateRight", x, 0, carry)
              = ({b - 1 : b \in x} \cap Bits) \cup IF carry THEN {Sign} ELSE {}
BY Zenon DEF Shifted

LEMMA ShiftedTyped ==
  ASSUME NEW shift \in Shifts, NEW x \in Words, NEW n \in Nat, NEW carry
  PROVE  Shifted(shift, x, n, carry) \in Words
<1>1. \A b \in x : (b - n) % Width \in Bits
  <2>1. ASSUME NEW b \in x PROVE (b - n) % Width \in Bits
    <3>1. b - n \in Int /\ Width \in Nat \ {0}
      BY WidthTyped, BitsTyped DEF Words
    <3> QED
      BY <3>1, Division DEF Bits
  <2> QED
    BY <2>1
<1>2. WordOf(Width) \in Words /\ Sign \in Bits
  BY WordOfTyped, WidthTyped
<1>3. CASE n = 0
  BY <1>2, <1>3, UnshiftedSets DEF Shifts, Words
<1>4. CASE n # 0
  <2>1. Shifted("RotateRight", x, n, carry) \in Words
    BY <1>1, <1>4, ShiftedSets DEF Words
  <2> QED
    BY <1>4, <2>1, ShiftedSets DEF Shifts, Words
<1> QED
  BY <1>3, <1>4

LEMMA ShiftCarries ==
  ASSUME NEW x, NEW n, NEW carry, n # 0
  PROVE  /\ ShiftCarry("LeftShift", x, n, carry) <=> (Width - n) \in x
         /\ ShiftCarry("RightShift", x, n, carry) <=> (n - 1) \in x
         /\ ShiftCarry("ArithmeticRightShift", x, n, carry) <=> (n - 1) \in x
         /\ ShiftCarry("RotateRight", x, n, carry) <=> (n - 1) \in x
BY Zenon DEF ShiftCarry

LEMMA SmallFits == ASSUME NEW m \in 0..(TwoTo[Width] - 1) PROVE m % TwoTo[Width] = m
<1>1. m \in Int /\ TwoTo[Width] * 0 + m = m
  BY WidthTyped
<1>2. (TwoTo[Width] * 0 + m) % TwoTo[Width] = m
  BY WidthTyped, Quotient, 0 \in Int
<1> QED
  BY <1>1, <1>2

\* A bit of a word is a digit of its number.
LEMMA BitIsDigit ==
  ASSUME NEW x \in Words, NEW b \in Bits
  PROVE  b \in x <=> Digit(Number[x], b) = 1
BY DigitOfWord DEF Bit01

LEMMA LeftShiftMultiplies ==
  ASSUME NEW x \in Words, NEW n \in 1..(Width - 1), NEW carry
  PROVE  Number[Shifted("LeftShift", x, n, carry)] = (Number[x] * TwoTo[n]) % TwoTo[Width]
<1> DEFINE u == Number[x]
           y == Shifted("LeftShift", x, n, carry)
<1>1. n \in Nat /\ n # 0 /\ n < Width
  BY WidthTyped
<1>2. y = {b + n : b \in x} \cap Bits /\ y \in Words
  BY <1>1, ShiftedSets, ShiftedTyped DEF Shifts
<1>3. u \in Nat /\ TwoTo[n] \in Nat \ {0} /\ u * TwoTo[n] \in Int
  BY <1>1, NumberTyped, WidthTyped, Powers
<1>bits. \A b \in Bits : b \in x <=> Digit(u, b) = 1
  BY BitIsDigit
<1> HIDE DEF u, y
<1>4. ASSUME NEW b \in Bits PROVE b \in y <=> Digit(u * TwoTo[n], b) = 1
  <2>1. b \in Nat
    BY BitsTyped
  <2>2. CASE b < n
    <3>1. b \notin y
      BY <1>1, <1>2, <2>1, <2>2, BitsTyped DEF Words
    <3>2. Digit(0 + TwoTo[n] * u, b) = Digit(0, b)
      BY <1>1, <1>3, <2>1, <2>2, DigitOfSum, 0 \in Int, u \in Int
    <3>3. 0 + TwoTo[n] * u = u * TwoTo[n]
      BY <1>3
    <3>4. Digit(0, b) = 0
      <4>1. 0 \in (-TwoTo[0])..(TwoTo[0] - 1)
        BY Powers
      <4> QED
        BY <2>1, <4>1, SmallNumber
    <3> QED
      BY <3>1, <3>2, <3>3, <3>4
  <2>3. CASE b >= n
    <3> DEFINE a == b - n
    <3>1. a \in Nat /\ b = n + a /\ a \in Bits
      BY <1>1, <2>1, <2>3, BitsTyped, WidthTyped
    <3>2. b \in y <=> a \in x
      <4>1. \A c \in x : b = c + n <=> c = a
        BY <1>1, <3>1, BitsTyped
      <4> QED
        BY <1>2, <4>1
    <3> HIDE DEF a
    <3>3. Digit(u * TwoTo[n], b) = Digit(u, a)
      BY <1>1, <1>3, <3>1, DigitOfProduct, u \in Int
    <3> QED
      BY <1>bits, <3>1, <3>2, <3>3
  <2> QED
    BY <1>1, <2>1, <2>2, <2>3
<1>5. y = WordOf(u * TwoTo[n])
  BY <1>2, <1>4, WordIs
<1> QED
  BY <1>3, <1>5, NumberOfWord DEF u, y

LEMMA RightShiftDivides ==
  ASSUME NEW x \in Words, NEW n \in 1..(Width - 1), NEW carry
  PROVE  Number[Shifted("RightShift", x, n, carry)] = Number[x] \div TwoTo[n]
<1> DEFINE u == Number[x]
           m == u \div TwoTo[n]
           y == Shifted("RightShift", x, n, carry)
<1>1. n \in Nat /\ n # 0 /\ n < Width
  BY WidthTyped
<1>2. y = {b - n : b \in x} \cap Bits /\ y \in Words
  BY <1>1, ShiftedSets, ShiftedTyped DEF Shifts
<1>3. u \in 0..(TwoTo[Width] - 1) /\ u \in Nat
  BY NumberTyped, WidthTyped
<1>bits. \A b \in Bits : b \in x <=> Digit(u, b) = 1
  BY BitIsDigit
<1>power. TwoTo[n] \in Nat \ {0}
  BY <1>1, Powers
<1> HIDE DEF u, y
<1>4. ASSUME NEW b \in Bits PROVE b \in y <=> Digit(m, b) = 1
  <2>1. b \in Nat /\ n + b \in Nat
    BY <1>1, BitsTyped
  <2>2. Digit(m, b) = Digit(u, n + b)
    BY <1>1, <1>3, <2>1, DigitOfQuotient, u \in Int
  <2>3. b \in y <=> n + b \in x
    <3>1. \A c \in x : b = c - n <=> c = n + b
      BY <1>1, <2>1, BitsTyped
    <3> QED
      BY <1>2, <3>1
  <2>4. CASE n + b \in Bits
    BY <1>bits, <2>2, <2>3, <2>4
  <2>5. CASE n + b \notin Bits
    <3>1. Width <= n + b /\ Width \in Nat
      BY <2>1, <2>5, BitsTyped, WidthTyped
    <3>2. u \in (-TwoTo[Width])..(TwoTo[Width] - 1) /\ ~(u < 0)
      BY <1>3, WidthTyped
    <3>3. Digit(u, n + b) = 0
      BY <2>1, <3>1, <3>2, SmallNumber
    <3>4. n + b \notin x
      BY <2>5 DEF Words
    <3> QED
      BY <2>2, <2>3, <3>3, <3>4
  <2> QED
    BY <2>4, <2>5
<1>5. m \in Int /\ Number[WordOf(m)] = m % TwoTo[Width]
  <2>1. m \in Int
    BY <1>3, <1>power, Division, u \in Int
  <2> QED
    BY <2>1, NumberOfWord
<1>6. y = WordOf(m)
  <2> HIDE DEF m
  <2> QED
    BY <1>2, <1>4, WordIs
<1>7. m \in 0..(TwoTo[Width] - 1)
  <2>1. m \in 0..u
    BY <1>3, <1>power, QuotientShrinks, u \in Int
  <2> HIDE DEF m
  <2> QED
    BY <1>3, <2>1, WidthTyped
<1>8. m % TwoTo[Width] = m
  BY <1>7, SmallFits
<1> QED
  BY <1>5, <1>6, <1>8 DEF u, y

LEMMA ArithmeticRightShiftDivides ==
  ASSUME NEW x \in Words, NEW n \in 1..(Width - 1), NEW carry
  PROVE  Signed(Shifted("ArithmeticRightShift", x, n, carry)) = Signed(x) \div TwoTo[n]
<1> DEFINE v == Signed(x)
           m == v \div TwoTo[n]
           y == Shifted("ArithmeticRightShift", x, n, carry)
<1>1. n \in Nat /\ n # 0 /\ n < Width /\ TwoTo[n] \in Nat \ {0}
  BY WidthTyped, Powers
<1>2. /\ y = ({b - n : b \in x} \cap Bits)
               \cup {b \in IF Sign \in x THEN Bits ELSE {} : b > Sign - n}
      /\ y \in Words
  BY <1>1, ShiftedSets, ShiftedTyped DEF Shifts
<1>3. v \in (-TwoTo[Sign])..(TwoTo[Sign] - 1) /\ v \in Int
  BY SignedTyped, WidthTyped
<1>bits. \A b \in Bits : b \in x <=> Digit(v, b) = 1
  BY SignedTyped, BitsOfNumber
<1> HIDE DEF v, y
<1>sign. Sign \in x <=> v < 0
  BY <1>3, <1>bits, SmallNumber, WidthTyped
<1>4. ASSUME NEW b \in Bits PROVE b \in y <=> Digit(m, b) = 1
  <2>1. b \in Nat /\ n + b \in Nat /\ Sign \in Nat /\ Width = Sign + 1
    BY <1>1, BitsTyped, WidthTyped
  <2>2. Digit(m, b) = Digit(v, n + b)
    BY <1>1, <1>3, <2>1, DigitOfQuotient
  <2>3. n + b \in x <=> b \in {c - n : c \in x}
    <3>1. \A c \in x : b = c - n <=> c = n + b
      BY <1>1, <2>1, BitsTyped
    <3> QED
      BY <3>1
  <2>4. CASE n + b \in Bits
    <3>1. ~(b > Sign - n)
      BY <1>1, <2>1, <2>4, BitsTyped
    <3> QED
      BY <1>2, <1>bits, <2>2, <2>3, <2>4, <3>1
  <2>5. CASE n + b \notin Bits
    <3>1. Sign <= n + b /\ b > Sign - n
      BY <1>1, <2>1, <2>5, BitsTyped
    <3>2. Digit(v, n + b) = IF v < 0 THEN 1 ELSE 0
      BY <1>3, <2>1, <3>1, SmallNumber
    <3>3. n + b \notin x
      BY <2>5 DEF Words
    <3>4. b \in y <=> Sign \in x
      BY <1>2, <2>3, <3>1, <3>3
    <3> QED
      BY <1>sign, <2>2, <3>2, <3>4
  <2> QED
    BY <2>4, <2>5
<1>5. y = WordOf(m)
  <2> HIDE DEF m
  <2> QED
    BY <1>2, <1>4, WordIs
<1>6. m \in (-TwoTo[Sign])..(TwoTo[Sign] - 1)
  <2>1. (v >= 0 => m \in 0..v) /\ (v < 0 => m \in v..(-1))
    BY <1>1, <1>3, QuotientShrinks
  <2> HIDE DEF m
  <2> QED
    BY <1>3, <2>1, WidthTyped
<1> QED
  BY <1>5, <1>6, SignedOfWord DEF v, y

\* The bits of a rotated word.
LEMMA RotatedBits ==
  ASSUME NEW x \in Words, NEW n \in 1..(Width - 1), NEW b \in Bits
  PROVE  b \in {(a - n) % Width : a \in x} <=> IF n + b < Width THEN n + b \in x
                                               ELSE b - (Width - n) \in x
<1>1. Width \in Nat \ {0} /\ n \in Nat /\ n # 0 /\ n < Width /\ b \in Nat /\ b < Width
  BY WidthTyped, BitsTyped
<1>2. ASSUME NEW a \in Bits PROVE (a - n) % Width = IF a >= n THEN a - n ELSE a - n + Width
  <2>1. a \in Nat /\ a < Width
    BY BitsTyped
  <2>2. CASE a >= n
    <3>1. Width * 0 + (a - n) = a - n /\ a - n \in 0..(Width - 1)
      BY <1>1, <2>1, <2>2
    <3>2. (Width * 0 + (a - n)) % Width = a - n
      BY <1>1, <3>1, Quotient, 0 \in Int
    <3> QED
      BY <2>2, <3>1, <3>2
  <2>3. CASE a < n
    <3>1. Width * (-1) + (a - n + Width) = a - n /\ a - n + Width \in 0..(Width - 1)
      BY <1>1, <2>1, <2>3
    <3>2. (Width * (-1) + (a - n + Width)) % Width = a - n + Width
      BY <1>1, <3>1, Quotient, -1 \in Int
    <3> QED
      BY <1>1, <2>1, <2>3, <3>1, <3>2
  <2> QED
    BY <1>1, <2>1, <2>2, <2>3
<1>3. \A a \in x : a \in Bits /\ a \in Nat /\ a < Width
  BY BitsTyped DEF Words
<1>4. ASSUME NEW a \in x
      PROVE  (a - n) % Width = b <=> IF n + b < Width THEN a = n + b ELSE a = b - (Width - n)
  <2>1. a \in Nat /\ a < Width /\ (a - n) % Width = IF a >= n THEN a - n ELSE a - n + Width
    BY <1>2, <1>3
  <2> QED
    BY <1>1, <2>1
<1> QED
  BY <1>4

LEMMA RotateRightRotates ==
  ASSUME NEW x \in Words, NEW n \in 1..(Width - 1), NEW carry
  PROVE  Number[Shifted("RotateRight", x, n, carry)]
           = Number[x] \div TwoTo[n] + (Number[x] % TwoTo[n]) * TwoTo[Width - n]
<1> DEFINE i == Width - n
           u == Number[x]
           high == u \div TwoTo[n]
           low == u % TwoTo[n]
           m == high + low * TwoTo[i]
           y == Shifted("RotateRight", x, n, carry)
<1>1. /\ n \in Nat /\ n # 0 /\ n < Width /\ i \in Nat /\ n + i = Width /\ Width \in Nat
      /\ TwoTo[n] \in Nat \ {0} /\ TwoTo[i] \in Nat \ {0}
  BY WidthTyped, Powers
<1>2. y = {(b - n) % Width : b \in x} /\ y \in Words
  BY <1>1, ShiftedSets, ShiftedTyped DEF Shifts
<1>3. u \in 0..(TwoTo[Width] - 1) /\ u \in Nat
  BY NumberTyped, WidthTyped
<1>4. \A b \in Bits : b \in x <=> Digit(u, b) = 1
  BY BitIsDigit
<1>5. \A b \in Bits : b \in y <=> IF n + b < Width THEN n + b \in x ELSE b - i \in x
  BY <1>2, RotatedBits
<1> HIDE DEF i, u, y
<1>6. TwoTo[Width] = TwoTo[n] * TwoTo[i]
  BY <1>1, PowersMultiply
<1>7. high \in 0..(TwoTo[i] - 1) /\ low \in 0..(TwoTo[n] - 1)
  <2>1. u < TwoTo[n] * TwoTo[i]
    BY <1>3, <1>6, WidthTyped
  <2> QED
    BY <1>1, <1>3, <2>1, QuotientBound, Division, u \in Int
<1>8. ASSUME NEW b \in Bits PROVE b \in y <=> Digit(m, b) = 1
  <2>1. b \in Nat /\ b < Width /\ high \in Int /\ low \in Int
    BY <1>1, <1>7, BitsTyped
  <2>2. CASE n + b < Width
    <3>1. n + b \in Nat /\ n + b \in Bits /\ b < i
      BY <1>1, <2>1, <2>2, BitsTyped
    <3>2. Digit(high, b) = Digit(u, n + b)
      BY <1>1, <1>3, <2>1, DigitOfQuotient, u \in Int
    <3> HIDE DEF high, low
    <3>3. m = high + TwoTo[i] * low
      BY <1>1, <2>1
    <3>4. Digit(high + TwoTo[i] * low, b) = Digit(high, b)
      BY <1>1, <2>1, <3>1, DigitOfSum
    <3> QED
      BY <1>4, <1>5, <2>2, <3>1, <3>2, <3>3, <3>4
  <2>3. CASE ~(n + b < Width)
    <3> DEFINE c == b - i
    <3>1. c \in Nat /\ c < n /\ c \in Bits /\ b = i + c
      BY <1>1, <2>1, <2>3, BitsTyped
    <3> HIDE DEF c
    <3>2. Digit(low, c) = Digit(u, c)
      BY <1>1, <1>3, <3>1, DigitOfRemainder, u \in Int
    <3> HIDE DEF high, low
    <3>3. m = TwoTo[i] * low + high /\ m \in Int
      BY <1>1, <2>1
    <3>4. (TwoTo[i] * low + high) \div TwoTo[i] = low
      BY <1>1, <1>7, <2>1, Quotient
    <3> HIDE DEF m
    <3>5. Digit(low, c) = Digit(m, i + c)
      <4>1. m \div TwoTo[i] = low
        BY <3>3, <3>4
      <4>2. Digit(m \div TwoTo[i], c) = Digit(m, i + c)
        BY <1>1, <3>1, <3>3, DigitOfQuotient
      <4> QED
        BY <4>1, <4>2
    <3> QED
      BY <1>4, <1>5, <2>3, <3>1, <3>2, <3>5 DEF c
  <2> QED
    BY <2>2, <2>3
<1> HIDE DEF high, low
<1>9. m \in 0..(TwoTo[Width] - 1) /\ m \in Int
  <2> DEFINE p == TwoTo[n]
             q == TwoTo[i]
  <2>1. p \in Nat /\ q \in Nat /\ high \in Nat /\ high <= q - 1 /\ low \in Nat /\ low <= p - 1
    BY <1>1, <1>7
  <2> HIDE DEF p, q
  <2>2. PICK e \in Nat : p = low + 1 + e
    BY <2>1, p - low - 1 \in Nat
  <2>3. p * q = low * q + q + e * q /\ e * q \in Nat /\ low * q \in Nat
    BY <2>1, <2>2
  <2>4. high + low * q \in 0..(p * q - 1)
    BY <2>1, <2>3
  <2> QED
    BY <1>6, <2>4 DEF p, q
<1> HIDE DEF m
<1>10. y = WordOf(m)
  BY <1>2, <1>8, WordIs
<1>11. Number[y] = m
  BY <1>9, <1>10, NumberOfWord, SmallFits
<1> QED
  BY <1>11 DEF m, high, low, u, y, i

\* The carry of a shift is the last bit that left the word.
LEMMA CarryLeftTheWord ==
  ASSUME NEW x \in Words, NEW n \in 1..(Width - 1), NEW carry
  PROVE  /\ ShiftCarry("LeftShift", x, n, carry) <=> (Number[x] \div TwoTo[Width - n]) % 2 = 1
         /\ \A s \in {"RightShift", "ArithmeticRightShift", "RotateRight"} :
              ShiftCarry(s, x, n, carry) <=> (Number[x] \div TwoTo[n - 1]) % 2 = 1
<1>1. n # 0 /\ Width - n \in Bits /\ n - 1 \in Bits
  BY WidthTyped DEF Bits
<1>2. /\ Width - n \in x <=> (Number[x] \div TwoTo[Width - n]) % 2 = 1
      /\ n - 1 \in x <=> (Number[x] \div TwoTo[n - 1]) % 2 = 1
  BY <1>1, BitIsDigit DEF Digit
<1> QED
  BY <1>1, <1>2, ShiftCarries

\* Rotated by no bits: by one bit, with the carry in front of the word.
LEMMA RotatedWithCarry ==
  ASSUME NEW x \in Words, NEW carry \in BOOLEAN
  PROVE  Number[Shifted("RotateRight", x, 0, carry)]
           = (Number[x] + (IF carry THEN TwoTo[Width] ELSE 0)) \div 2
<1> DEFINE u == Number[x]
           c == IF carry THEN 1 ELSE 0
           w == u + TwoTo[Width] * c
           m == w \div 2
           y == Shifted("RotateRight", x, 0, carry)
<1>1. y = ({b - 1 : b \in x} \cap Bits) \cup IF carry THEN {Sign} ELSE {}
  BY UnshiftedSets
<1>2. y \in Words
  BY ShiftedTyped, 0 \in Nat DEF Shifts
<1>3. u \in 0..(TwoTo[Width] - 1) /\ u \in Nat /\ c \in {0, 1} /\ (c = 1 <=> carry)
  BY NumberTyped, WidthTyped
<1>4. \A b \in Bits : b \in x <=> Digit(u, b) = 1
  BY BitIsDigit
<1>5. TwoTo[1] = 2
  BY Powers, 0 \in Nat
<1>6. w = u + IF carry THEN TwoTo[Width] ELSE 0
  BY WidthTyped
<1> HIDE DEF u, c, y
<1>7. w \in Nat /\ w < 2 * TwoTo[Width]
  BY <1>3, WidthTyped
<1>8. ASSUME NEW b \in Bits PROVE b \in y <=> Digit(m, b) = 1
  <2>1. b \in Nat /\ b < Width /\ Sign \in Nat /\ Width = Sign + 1 /\ Width \in Nat
    BY BitsTyped, WidthTyped
  <2>2. Digit(m, b) = Digit(w, 1 + b)
    <3>1. w \in Int /\ 1 \in Nat /\ b \in Nat
      BY <1>7, <2>1
    <3> HIDE DEF w
    <3>2. Digit(w \div TwoTo[1], b) = Digit(w, 1 + b)
      BY <3>1, DigitOfQuotient
    <3>3. m = w \div TwoTo[1]
      BY <1>5
    <3> QED
      BY <3>2, <3>3
  <2>3. CASE b < Sign
    <3>1. 1 + b \in Bits /\ 1 + b < Width /\ 1 + b \in Nat
      BY <2>1, <2>3, BitsTyped
    <3>2. Digit(w, 1 + b) = Digit(u, 1 + b)
      BY <1>3, <2>1, <3>1, DigitOfSum
    <3>3. b \in y <=> 1 + b \in x
      <4>1. \A a \in x : b = a - 1 <=> a = 1 + b
        BY <2>1, BitsTyped
      <4> QED
        BY <1>1, <2>1, <2>3, <4>1
    <3> QED
      BY <1>4, <2>2, <3>1, <3>2, <3>3
  <2>4. CASE b = Sign
    <3>1. b \in y <=> c = 1
      <4>1. \A a \in x : a < Width /\ a \in Nat
        BY BitsTyped DEF Words
      <4>2. \A a \in x : b # a - 1
        BY <2>1, <2>4, <4>1
      <4> QED
        BY <1>1, <1>3, <2>4, <4>2
    <3>2. w = TwoTo[Width] * c + u
      BY <1>3, WidthTyped
    <3>3. (TwoTo[Width] * c + u) \div TwoTo[Width] = c
      BY <1>3, Quotient, WidthTyped, c \in Int
    <3>4. Digit(w, Width) = c % 2
      BY <3>2, <3>3 DEF Digit
    <3>5. 1 + b = Width /\ c % 2 = c
      BY <1>3, <2>1, <2>4
    <3> QED
      BY <2>2, <3>1, <3>4, <3>5
  <2> QED
    BY <2>1, <2>3, <2>4
<1>9. m \in 0..(TwoTo[Width] - 1) /\ m \in Int
  <2>1. \A k \in Nat : k \div 2 \in Nat /\ 2 * (k \div 2) <= k
    OBVIOUS
  <2>2. m \in Nat /\ 2 * m <= w
    BY <1>7, <2>1
  <2> HIDE DEF m
  <2> QED
    BY <1>7, <2>2, WidthTyped
<1> HIDE DEF m
<1>10. y = WordOf(m)
  BY <1>2, <1>8, WordIs
<1>11. Number[y] = m
  BY <1>9, <1>10, NumberOfWord, SmallFits
<1> QED
  BY <1>6, <1>11 DEF m, u, y

\* The fill of the arithmetic shift by no bits is what a shift by the whole word leaves.
LEMMA FilledWithSign ==
  ASSUME NEW x \in Words, NEW carry
  PROVE  Signed(Shifted("ArithmeticRightShift", x, 0, carry)) = Signed(x) \div TwoTo[Width]
<1> DEFINE v == Signed(x)
           m == IF v < 0 THEN -1 ELSE 0
           y == Shifted("ArithmeticRightShift", x, 0, carry)
<1>1. v \in (-TwoTo[Sign])..(TwoTo[Sign] - 1) /\ v \in Int
  BY SignedTyped, WidthTyped
<1>2. y = (IF Sign \in x THEN Bits ELSE {}) /\ y \in Words
  BY UnshiftedSets, ShiftedTyped, 0 \in Nat DEF Shifts
<1>3. \A b \in Bits : b \in x <=> Digit(v, b) = 1
  BY SignedTyped, BitsOfNumber
<1> HIDE DEF v, y
<1>4. Sign \in x <=> v < 0
  BY <1>1, <1>3, SmallNumber, WidthTyped
<1>5. v \div TwoTo[Width] = m
  BY <1>1, SmallNumber, WidthTyped
<1>6. m \in (-TwoTo[0])..(TwoTo[0] - 1) /\ m \in (-TwoTo[Sign])..(TwoTo[Sign] - 1)
  BY Powers, WidthTyped
<1>7. ASSUME NEW b \in Bits PROVE b \in y <=> Digit(m, b) = 1
  <2>1. b \in Nat /\ 0 <= b
    BY BitsTyped
  <2>2. Digit(m, b) = IF m < 0 THEN 1 ELSE 0
    BY <1>6, <2>1, SmallNumber, 0 \in Nat
  <2>3. m < 0 <=> v < 0
    BY <1>1
  <2> QED
    BY <1>2, <1>4, <2>2, <2>3
<1> HIDE DEF m
<1>8. y = WordOf(m)
  BY <1>2, <1>7, WordIs
<1> QED
  BY <1>5, <1>6, <1>8, SignedOfWord DEF v, y

LEMMA UnshiftedCarries ==
  ASSUME NEW x, NEW carry
  PROVE  /\ ShiftCarry("LeftShift", x, 0, carry) <=> carry
         /\ ShiftCarry("RightShift", x, 0, carry) <=> Sign \in x
         /\ ShiftCarry("ArithmeticRightShift", x, 0, carry) <=> Sign \in x
         /\ ShiftCarry("RotateRight", x, 0, carry) <=> 0 \in x
BY Zenon DEF ShiftCarry

\* Shifting a register does what the reference says, for words of every width.
LEMMA ShiftsOfWords == ASSUME registers \in [Registers -> Words] PROVE ShiftsAreArithmetic
<1>1. \A r \in Registers : registers[r] \in Words
  OBVIOUS
<1>2. ShiftsByBits
  BY <1>1, LeftShiftMultiplies, RightShiftDivides, ArithmeticRightShiftDivides,
     RotateRightRotates, CarryLeftTheWord DEF ShiftsByBits
<1>3. ASSUME NEW r \in Registers
      PROVE  LET x == registers[r]
                 u == Number[x]
             IN  /\ Shifted("LeftShift", x, 0, Carry) = x
                 /\ ShiftCarry("LeftShift", x, 0, Carry) <=> Carry
                 /\ \A s \in {"RightShift", "ArithmeticRightShift"} :
                      ShiftCarry(s, x, 0, Carry) <=> (u \div TwoTo[Width - 1]) % 2 = 1
                 /\ ShiftCarry("RotateRight", x, 0, Carry) <=> u % 2 = 1
  <2> DEFINE x == registers[r]
             u == Number[x]
  <2>1. x \in Words
    BY <1>1
  <2> HIDE DEF x
  <2>2. Shifted("LeftShift", x, 0, Carry) = x
    <3>1. x \subseteq Bits /\ \A b \in x : b + 0 = b
      BY <2>1, BitsTyped DEF Words
    <3>2. {b + 0 : b \in x} \cap Bits = x
      BY <3>1
    <3> QED
      BY <3>2, UnshiftedSets
  <2>3. Sign \in x <=> (u \div TwoTo[Width - 1]) % 2 = 1
    BY <2>1, BitIsDigit, WidthTyped DEF Digit, Sign
  <2>4. 0 \in x <=> u % 2 = 1
    <3>1. 0 \in Bits /\ TwoTo[0] = 1
      BY BitsTyped, WidthTyped, Powers
    <3>2. u \in Nat /\ u \div 1 = u
      BY <2>1, NumberTyped, WidthTyped
    <3> QED
      BY <2>1, <3>1, <3>2, BitIsDigit DEF Digit
  <2> QED
    BY <2>2, <2>3, <2>4, UnshiftedCarries DEF x
<1>4. ShiftsByNothing
  <2>1. Carry \in BOOLEAN
    BY DEF Carry
  <2> QED
    BY <1>1, <1>3, <2>1, RotatedWithCarry, FilledWithSign DEF ShiftsByNothing
<1> QED
  BY <1>2, <1>4 DEF ShiftsAreArithmetic

-----------------------------------------------------------------------------
(* What an instruction computes. *)

LEMMA OperationNames ==
  /\ \A op \in Logical \cup Arithmetic : op \notin Logical => op \in Arithmetic
  /\ \A op \in Logical : op # "Add" /\ op \notin Subtracting
BY DEF Logical, Arithmetic, Subtracting

LEMMA LogicalTyped ==
  ASSUME NEW op \in Logical, NEW a \in Words, NEW b \in Words
  PROVE  LogicalResult(op, a, b) \in Words
<1>1. /\ LogicalResult("Move", a, b) = b
      /\ LogicalResult("MoveNegate", a, b) = Bits \ b
      /\ LogicalResult("BitClear", a, b) = a \ b
      /\ LogicalResult("InclusiveOr", a, b) = a \cup b
      /\ LogicalResult("And", a, b) = a \cap b
      /\ LogicalResult("Test", a, b) = a \cap b
      /\ LogicalResult("ExclusiveOr", a, b) = (a \ b) \cup (b \ a)
      /\ LogicalResult("TestEquals", a, b) = (a \ b) \cup (b \ a)
  BY Zenon DEF LogicalResult
<1> QED
  BY <1>1 DEF Logical, Words

LEMMA AmountTyped ==
  ASSUME registers \in [Registers -> Words], NEW o \in Operands,
         o.kind \in {"RegisterImmediate", "RegisterRegister"}
  PROVE  Amount(o) \in Nat /\ o.shift \in Shifts /\ o.register \in Registers
<1>1. \A w \in Words : Number[w] \in Nat
  BY NumberTyped, WidthTyped
<1>2. CASE o.kind = "RegisterRegister"
  <2>1. o.by \in Registers /\ o.shift \in Shifts /\ o.register \in Registers
    BY <1>2 DEF Operands
  <2> QED
    BY <1>1, <1>2, <2>1 DEF Amount
<1>3. CASE o.kind = "RegisterImmediate"
  <2>1. o.by \in Nat /\ o.shift \in Shifts /\ o.register \in Registers
    BY <1>3 DEF Operands
  <2> QED
    BY <1>3, <2>1 DEF Amount
<1> QED
  BY <1>2, <1>3

LEMMA ValueTyped ==
  ASSUME registers \in [Registers -> Words], NEW o \in Operands
  PROVE  Value(o) \in Words
<1>1. CASE o.kind = "Immediate"
  <2>1. o.value \in Words
    BY <1>1 DEF Operands
  <2>2. Value(o) = o.value
    BY <1>1, Zenon DEF Value
  <2> QED
    BY <2>1, <2>2
<1>2. CASE o.kind = "Register"
  <2>1. o.register \in Registers
    BY <1>2 DEF Operands
  <2>2. Value(o) = registers[o.register]
    BY <1>2, Zenon DEF Value
  <2> QED
    BY <2>1, <2>2
<1>3. CASE o.kind \in {"RegisterImmediate", "RegisterRegister"}
  <2>1. Value(o) = Shifted(o.shift, registers[o.register], Amount(o), Carry)
    <3>1. o.kind # "Immediate" /\ o.kind # "Register"
      BY <1>3
    <3> QED
      BY <3>1, Zenon DEF Value
  <2> QED
    BY <1>3, <2>1, AmountTyped, ShiftedTyped
<1> QED
  BY <1>1, <1>2, <1>3 DEF Operands

\* The flags are those of the result, the carry and the overflow.
LEMMA FlagsOfResult ==
  ASSUME NEW result, NEW carry, NEW overflow
  PROVE  /\ FlagsOf(result, carry, overflow) \subseteq {"N", "Z", "C", "V"}
         /\ "N" \in FlagsOf(result, carry, overflow) <=> Sign \in result
         /\ "Z" \in FlagsOf(result, carry, overflow) <=> result = {}
         /\ "C" \in FlagsOf(result, carry, overflow) <=> carry
         /\ "V" \in FlagsOf(result, carry, overflow) <=> overflow
BY DEF FlagsOf

\* What an addition or a subtraction computes.
LEMMA Computed ==
  ASSUME NEW a, NEW b, NEW carry
  PROVE  /\ \A op \in Subtracting :
              /\ Exact(op, a, b, carry) = a - b
              /\ OverflowOut(op, a, b, carry) <=> Overflows(Signed(a) - Signed(b))
         /\ Exact("AddWithCarry", a, b, carry) = a + (IF carry THEN 1 ELSE 0) + b
         /\ CarryOut("Add", a, b, carry) <=> Number[a] + Number[b] >= TwoTo[Width]
<1>1. \A x, y : Exact("Subtract", x, y, carry) = x - y /\ Exact("Compare", x, y, carry) = x - y
  BY Zenon DEF Exact, Subtracting
<1>2. Exact("AddWithCarry", a, b, carry) = a + (IF carry THEN 1 ELSE 0) + b
  BY Zenon DEF Exact, Subtracting
<1>3. CarryOut("Add", a, b, carry) = (Number[a] + Number[b] >= TwoTo[Width])
  BY Zenon DEF CarryOut, Subtracting
<1>4. \A op \in Subtracting : op # "AddWithCarry" /\ (op = "Subtract" \/ op = "Compare")
  BY DEF Subtracting
<1> QED
  BY <1>1, <1>2, <1>3, <1>4 DEF OverflowOut

-----------------------------------------------------------------------------
(* What the flags say. *)

\* The flags are of the two words that were compared, or added.
FlagsAreOfSource ==
  /\ Compared =>
       LET d == Signed(source.lhs) - Signed(source.value)
       IN  /\ "N" \in flags <=> Sign \in WordOf(d)
           /\ "Z" \in flags <=> WordOf(d) = {}
           /\ "V" \in flags <=> Overflows(d)
  /\ source.op = "sum" =>
       ("C" \in flags <=> Number[source.lhs] + Number[source.value] >= TwoTo[Width])

OperandInv ==
  /\ OperandTypeOK
  /\ source.lhs \in Words /\ source.value \in Words
  /\ FlagsAreOfSource

LEMMA Sources ==
  ASSUME NEW a, NEW b
  PROVE  /\ Source("Add", a, b) = [op |-> "sum", lhs |-> a, value |-> b]
         /\ \A op \in Subtracting : Source(op, a, b) = [op |-> "difference", lhs |-> a, value |-> b]
         /\ \A op : op # "Add" /\ op \notin Subtracting => Source(op, a, b) = NoSource
<1>1. \A op \in Subtracting : op # "Add"
  BY DEF Subtracting
<1> QED
  BY <1>1, Zenon DEF Source

\* An instruction that updates the flags sets them for its own operands.
LEMMA UpdateMatches ==
  ASSUME NEW op \in Logical \cup Arithmetic, NEW a \in Words, NEW b \in Words, NEW carry,
         source' = Source(op, a, b),
         op \notin Logical =>
           flags' = FlagsOf(WordOf(Exact(op, Signed(a), Signed(b), carry)),
                            CarryOut(op, a, b, carry), OverflowOut(op, a, b, carry))
  PROVE  source'.lhs \in Words /\ source'.value \in Words /\ FlagsAreOfSource'
<1>1. CASE op = "Add"
  <2>1. source' = [op |-> "sum", lhs |-> a, value |-> b]
    BY <1>1, Sources
  <2>2. "C" \in flags' <=> Number[a] + Number[b] >= TwoTo[Width]
    BY <1>1, OperationNames, FlagsOfResult, Computed
  <2> QED
    BY <2>1, <2>2 DEF FlagsAreOfSource, Compared
<1>2. CASE op \in Subtracting
  <2>1. source' = [op |-> "difference", lhs |-> a, value |-> b]
    BY <1>2, Sources
  <2> DEFINE d == Signed(a) - Signed(b)
  <2>2. /\ "N" \in flags' <=> Sign \in WordOf(d)
        /\ "Z" \in flags' <=> WordOf(d) = {}
        /\ "V" \in flags' <=> Overflows(d)
    <3>1. op \notin Logical
      BY <1>2, OperationNames
    <3>2. flags' = FlagsOf(WordOf(d), CarryOut(op, a, b, carry), OverflowOut(op, a, b, carry))
      BY <1>2, <3>1, Computed
    <3>3. OverflowOut(op, a, b, carry) <=> Overflows(d)
      BY <1>2, Computed
    <3> HIDE DEF d
    <3> QED
      BY <3>2, <3>3, FlagsOfResult
  <2> QED
    BY <2>1, <2>2 DEF FlagsAreOfSource, Compared
<1>3. CASE op # "Add" /\ op \notin Subtracting
  BY <1>3, Sources DEF NoSource, FlagsAreOfSource, Compared, Words
<1> QED
  BY <1>1, <1>2, <1>3

LEMMA ExecuteTyped ==
  ASSUME OperandTypeOK, NEW i \in Instructions, Execute(i)
  PROVE  OperandTypeOK'
<1> DEFINE a     == registers[i.base]
           b     == Value(i.operand)
           carry == IF i.updates THEN OperandCarry(i.operand) ELSE Carry
           result == IF i.op \in Logical THEN LogicalResult(i.op, a, b)
                     ELSE WordOf(Exact(i.op, Signed(a), Signed(b), carry))
<1>1. /\ i.op \in Logical \cup Arithmetic /\ i.base \in Registers
      /\ i.destination \in Registers /\ i.operand \in Operands
  BY OperandInstructionsAssumption
<1>2. a \in Words /\ b \in Words
  BY <1>1, ValueTyped DEF OperandTypeOK
<1> HIDE DEF a, b
<1>3. result \in Words
  BY <1>1, <1>2, LogicalTyped, WordOfTyped
<1>4. /\ registers' = IF i.op \in Comparing THEN registers
                      ELSE [registers EXCEPT ![i.destination] = result]
      /\ \/ flags' = FlagsOf(result, carry, "V" \in flags)
         \/ flags' = FlagsOf(result, CarryOut(i.op, a, b, carry), OverflowOut(i.op, a, b, carry))
         \/ flags' = flags
  BY DEF Execute, a, b
<1> HIDE DEF carry, result
<1> QED
  BY <1>1, <1>3, <1>4, FlagsOfResult DEF OperandTypeOK

LEMMA OperandInvInit == OperandInit => OperandInv
BY DEF OperandInit, OperandInv, OperandTypeOK, NoSource, FlagsAreOfSource, Compared, Words

LEMMA OperandInvStep == OperandInv /\ [OperandNext]_operandVars => OperandInv'
<1> SUFFICES ASSUME OperandInv, [OperandNext]_operandVars PROVE OperandInv'
  OBVIOUS
<1>1. CASE UNCHANGED operandVars
  BY <1>1 DEF OperandInv, OperandTypeOK, FlagsAreOfSource, Compared, operandVars
<1>2. ASSUME NEW i \in Instructions, Execute(i) PROVE OperandInv'
  <2>1. OperandTypeOK'
    BY <1>2, ExecuteTyped DEF OperandInv
  <2>2. CASE i.updates = FALSE
    <3>1. UNCHANGED <<flags, source>>
      BY <1>2, <2>2 DEF Execute
    <3> QED
      BY <2>1, <3>1 DEF OperandInv, FlagsAreOfSource, Compared
  <2>3. CASE i.updates = TRUE
    <3> DEFINE a     == registers[i.base]
               b     == Value(i.operand)
               carry == OperandCarry(i.operand)
    <3>1. i.op \in Logical \cup Arithmetic /\ i.base \in Registers /\ i.operand \in Operands
      BY OperandInstructionsAssumption
    <3>2. a \in Words /\ b \in Words
      BY <3>1, ValueTyped DEF OperandInv, OperandTypeOK
    <3>3. /\ source' = Source(i.op, a, b)
          /\ i.op \notin Logical =>
               flags' = FlagsOf(WordOf(Exact(i.op, Signed(a), Signed(b), carry)),
                                CarryOut(i.op, a, b, carry), OverflowOut(i.op, a, b, carry))
      BY <1>2, <2>3 DEF Execute
    <3> HIDE DEF a, b, carry
    <3>4. source'.lhs \in Words /\ source'.value \in Words /\ FlagsAreOfSource'
      BY <3>1, <3>2, <3>3, UpdateMatches
    <3> QED
      BY <2>1, <3>4 DEF OperandInv
  <2>4. i.updates \in BOOLEAN
    BY OperandInstructionsAssumption
  <2> QED
    BY <2>2, <2>3, <2>4
<1> QED
  BY <1>1, <1>2 DEF OperandNext

LEMMA OperandInvHolds == OperandSpec => []OperandInv
BY OperandInvInit, OperandInvStep, PTL DEF OperandSpec

-----------------------------------------------------------------------------
(* What the conditions tell. *)

\* The conditions of an instruction.
LEMMA Conditions ==
  /\ can_execute("Equal") <=> "Z" \in flags
  /\ can_execute("GreaterThanEquals") <=> ("N" \in flags <=> "V" \in flags)
  /\ can_execute("LessThan") <=> ~("N" \in flags <=> "V" \in flags)
  /\ can_execute("GreaterThan") <=> "Z" \notin flags /\ ("N" \in flags <=> "V" \in flags)
  /\ can_execute("LessThanEquals") <=> "Z" \in flags \/ ~("N" \in flags <=> "V" \in flags)
<1> DEFINE n == "N" \in flags
           z == "Z" \in flags
           v == "V" \in flags
<1>1. /\ can_execute("Equal") = z
      /\ can_execute("GreaterThanEquals") = (n = v)
      /\ can_execute("LessThan") = (n # v)
      /\ can_execute("GreaterThan") = (~z /\ n = v)
      /\ can_execute("LessThanEquals") = (z \/ n # v)
  BY Zenon DEF can_execute
<1>2. (n = v) <=> ("N" \in flags <=> "V" \in flags)
  OBVIOUS
<1>3. (n # v) <=> ~("N" \in flags <=> "V" \in flags)
  OBVIOUS
<1>4. can_execute("Equal") <=> "Z" \in flags
  BY <1>1
<1>5. can_execute("GreaterThanEquals") <=> n = v
  BY <1>1
<1>6. can_execute("LessThan") <=> n # v
  BY <1>1
<1>7. can_execute("GreaterThan") <=> "Z" \notin flags /\ n = v
  BY <1>1
<1>8. can_execute("LessThanEquals") <=> "Z" \in flags \/ n # v
  BY <1>1
<1> HIDE DEF n, z, v
<1> QED
  BY <1>2, <1>3, <1>4, <1>5, <1>6, <1>7, <1>8, Zenon

\* Only the number 0 has the word of no bits.
LEMMA EmptyWord ==
  ASSUME NEW d \in (1 - TwoTo[Width])..(TwoTo[Width] - 1)
  PROVE  WordOf(d) = {} <=> d = 0
<1>1. d \in Int /\ TwoTo[Width] \in Nat \ {0} /\ TwoTo[Width] \in Int
  BY WidthTyped
<1>2. WordOf(d) = {} <=> d % TwoTo[Width] = 0
  <2>1. Number[WordOf(d)] = d % TwoTo[Width] /\ Number[WordOf(0)] = 0 % TwoTo[Width]
    BY <1>1, NumberOfWord, 0 \in Int
  <2>2. 0 % TwoTo[Width] = 0
    BY <1>1, SmallFits, 0 \in 0..(TwoTo[Width] - 1)
  <2>3. WordOf(0) = {}
    <3>1. ASSUME NEW b \in Bits PROVE Digit(0, b) = 0
      <4>1. 0 \in (-TwoTo[0])..(TwoTo[0] - 1) /\ b \in Nat
        BY Powers, BitsTyped
      <4> QED
        BY <4>1, SmallNumber
    <3> QED
      BY <3>1 DEF WordOf, Digit
  <2>4. WordOf(Number[WordOf(d)]) = WordOf(d)
    BY WordOfTyped, WordOfItsNumber
  <2> QED
    BY <2>1, <2>2, <2>3, <2>4
<1>3. CASE d >= 0
  BY <1>1, <1>2, <1>3, SmallFits, d \in 0..(TwoTo[Width] - 1)
<1>4. CASE d < 0
  <2>1. TwoTo[Width] * (-1) + (d + TwoTo[Width]) = d /\ d + TwoTo[Width] \in 0..(TwoTo[Width] - 1)
    BY <1>1, <1>4
  <2>2. (TwoTo[Width] * (-1) + (d + TwoTo[Width])) % TwoTo[Width] = d + TwoTo[Width]
    BY <1>1, <2>1, Quotient, -1 \in Int
  <2> QED
    BY <1>1, <1>2, <1>4, <2>1, <2>2
<1> QED
  BY <1>1, <1>3, <1>4

\* The sign of the word of a difference is its sign, unless it does not fit.
LEMMA SignOfDifference ==
  ASSUME NEW d \in (1 - TwoTo[Width])..(TwoTo[Width] - 1)
  PROVE  (Sign \in WordOf(d) <=> Overflows(d)) <=> d >= 0
<1> DEFINE p == TwoTo[Sign]
           k == d \div p
<1>1. /\ p \in Nat \ {0} /\ TwoTo[Width] = 2 * p /\ d \in Int
      /\ 1 - 2 * p <= d /\ d <= 2 * p - 1
  BY WidthTyped
<1>2. Sign \in WordOf(d) <=> k % 2 = 1
  BY WidthTyped, BitsOfNumber DEF Digit
<1>3. Overflows(d) <=> d < -p \/ d >= p
  BY DEF Overflows
<1>4. \A q \in Int : d - p * q \in 0..(p - 1) => k = q
  <2>1. ASSUME NEW q \in Int, d - p * q \in 0..(p - 1) PROVE k = q
    <3> DEFINE r == d - p * q
    <3>1. p * q \in Int /\ p * q + r = d
      BY <1>1
    <3>2. (p * q + r) \div p = q
      BY <1>1, <2>1, Quotient
    <3> QED
      BY <3>1, <3>2
  <2> QED
    BY <2>1
<1> HIDE DEF p, k
<1>5. k = IF d < -p THEN -2 ELSE IF d < 0 THEN -1 ELSE IF d < p THEN 0 ELSE 1
  <2>1. CASE d < -p
    BY <1>1, <1>4, <2>1, d - p * (-2) \in 0..(p - 1)
  <2>2. CASE d >= -p /\ d < 0
    BY <1>1, <1>4, <2>2, d - p * (-1) \in 0..(p - 1)
  <2>3. CASE d >= 0 /\ d < p
    BY <1>1, <1>4, <2>3, d - p * 0 \in 0..(p - 1)
  <2>4. CASE d >= p
    BY <1>1, <1>4, <2>4, d - p * 1 \in 0..(p - 1)
  <2> QED
    BY <1>1, <2>1, <2>2, <2>3, <2>4
<1> QED
  BY <1>1, <1>2, <1>3, <1>5

LEMMA ConditionsOfDifference == OperandInv => SignedConditionsTell
<1> SUFFICES ASSUME OperandInv, Compared PROVE SignedConditionsTell
  BY DEF SignedConditionsTell
<1> DEFINE a == Signed(source.lhs)
           b == Signed(source.value)
           d == a - b
<1>1. /\ "N" \in flags <=> Sign \in WordOf(d)
      /\ "Z" \in flags <=> WordOf(d) = {}
      /\ "V" \in flags <=> Overflows(d)
  BY DEF OperandInv, FlagsAreOfSource
<1>2. /\ a \in (-TwoTo[Sign])..(TwoTo[Sign] - 1)
      /\ b \in (-TwoTo[Sign])..(TwoTo[Sign] - 1)
  BY SignedTyped DEF OperandInv
<1> HIDE DEF a, b
<1>3. d \in (1 - TwoTo[Width])..(TwoTo[Width] - 1) /\ a \in Int /\ b \in Int
  BY <1>2, WidthTyped
<1>4. "Z" \in flags <=> a = b
  <2>1. d = 0 <=> a = b
    BY <1>3
  <2> HIDE DEF d
  <2> QED
    BY <1>1, <1>3, <2>1, EmptyWord
<1>5. ("N" \in flags <=> "V" \in flags) <=> a >= b
  <2>1. d >= 0 <=> a >= b
    BY <1>3
  <2> HIDE DEF d
  <2> QED
    BY <1>1, <1>3, <2>1, SignOfDifference
<1>6. (a < b <=> ~(a >= b)) /\ (a > b <=> a # b /\ a >= b) /\ (a <= b <=> a = b \/ ~(a >= b))
  BY <1>3
<1>7. /\ can_execute("Equal") <=> a = b
      /\ can_execute("GreaterThanEquals") <=> a >= b
      /\ can_execute("LessThan") <=> a < b
      /\ can_execute("GreaterThan") <=> a > b
      /\ can_execute("LessThanEquals") <=> a <= b
  BY <1>4, <1>5, <1>6, Conditions
<1> QED
  BY <1>7 DEF SignedConditionsTell, a, b

\* A sum of words, one bit at most carried in, carries out one bit at most.
LEMMA CarryIsQuotient ==
  ASSUME NEW n \in 0..(2 * TwoTo[Width] - 1)
  PROVE  n \div TwoTo[Width] = IF n >= TwoTo[Width] THEN 1 ELSE 0
<1>1. TwoTo[Width] \in Nat \ {0} /\ n \in Int
  BY WidthTyped
<1>2. CASE n >= TwoTo[Width]
  <2>1. TwoTo[Width] * 1 + (n - TwoTo[Width]) = n /\ n - TwoTo[Width] \in 0..(TwoTo[Width] - 1)
    BY <1>1, <1>2
  <2>2. (TwoTo[Width] * 1 + (n - TwoTo[Width])) \div TwoTo[Width] = 1
    BY <1>1, <2>1, Quotient, 1 \in Int
  <2> QED
    BY <1>2, <2>1, <2>2
<1>3. CASE ~(n >= TwoTo[Width])
  <2>1. TwoTo[Width] * 0 + n = n /\ n \in 0..(TwoTo[Width] - 1)
    BY <1>1, <1>3
  <2>2. (TwoTo[Width] * 0 + n) \div TwoTo[Width] = 0
    BY <1>1, <2>1, Quotient, 0 \in Int
  <2> QED
    BY <1>3, <2>1, <2>2
<1> QED
  BY <1>2, <1>3

LEMMA CarryOfSum == OperandInv => SumsCarryOver
<1> SUFFICES ASSUME OperandInv, source.op = "sum", NEW a \in Words, NEW b \in Words
             PROVE  LET low  == Number[source.lhs] + Number[source.value]
                        high == Exact("AddWithCarry", Signed(a), Signed(b), Carry)
                    IN  Number[WordOf(high)]
                          = (Number[a] + Number[b] + low \div TwoTo[Width]) % TwoTo[Width]
  BY DEF SumsCarryOver
<1> DEFINE low  == Number[source.lhs] + Number[source.value]
           c    == IF Carry THEN 1 ELSE 0
           high == Exact("AddWithCarry", Signed(a), Signed(b), Carry)
           sum  == Number[a] + Number[b] + c
           k    == -Bit01(a, Sign) - Bit01(b, Sign)
<1>1. low \in 0..(2 * TwoTo[Width] - 1) /\ low \div TwoTo[Width] = c
  <2>1. low \in 0..(2 * TwoTo[Width] - 1)
    <3>1. /\ Number[source.lhs] \in 0..(TwoTo[Width] - 1)
          /\ Number[source.value] \in 0..(TwoTo[Width] - 1)
      BY NumberTyped DEF OperandInv
    <3> QED
      BY <3>1, WidthTyped
  <2>2. Carry <=> low >= TwoTo[Width]
    BY DEF OperandInv, FlagsAreOfSource, Carry
  <2> HIDE DEF low
  <2> QED
    BY <2>1, <2>2, CarryIsQuotient
<1>2. c \in {0, 1} /\ k \in Int
  BY DEF Bit01
<1>3. Number[a] \in Int /\ Number[b] \in Int /\ TwoTo[Width] \in Int
  BY NumberTyped, WidthTyped
<1>4. high = sum + TwoTo[Width] * k
  <2>1. high = Signed(a) + c + Signed(b)
    BY Computed
  <2>2. /\ Signed(a) = Number[a] + TwoTo[Width] * (-Bit01(a, Sign))
        /\ Signed(b) = Number[b] + TwoTo[Width] * (-Bit01(b, Sign))
        /\ Bit01(a, Sign) \in {0, 1} /\ Bit01(b, Sign) \in {0, 1}
    BY SignedTyped DEF Bit01
  <2> DEFINE w == TwoTo[Width]
             x == -Bit01(a, Sign)
             y == -Bit01(b, Sign)
  <2>3. x \in Int /\ y \in Int /\ w \in Int /\ k = x + y
    BY <1>3, <2>2
  <2> HIDE DEF high, c, w, x, y, k
  <2>4. w * (x + y) = w * x + w * y /\ w * x \in Int /\ w * y \in Int
    BY <2>3
  <2>5. Signed(a) = Number[a] + w * x /\ Signed(b) = Number[b] + w * y
    BY <2>2 DEF w, x, y
  <2>6. high = sum + w * (x + y)
    BY <1>2, <1>3, <2>1, <2>4, <2>5
  <2> QED
    BY <2>3, <2>6 DEF w
<1> HIDE DEF low, c, high, k
<1>5. sum \in Int /\ high \in Int
  BY <1>2, <1>3, <1>4
<1>6. Number[WordOf(high)] = sum % TwoTo[Width]
  <2> HIDE DEF sum
  <2> QED
    BY <1>2, <1>4, <1>5, SameWord, NumberOfWord
<1> QED
  BY <1>1, <1>6 DEF low, high

-----------------------------------------------------------------------------

\* Registers hold words, whatever an instruction shifts and computes.
THEOREM RegistersHoldWords == OperandSpec => []OperandTypeOK
<1>1. OperandInv => OperandTypeOK
  BY DEF OperandInv
<1> QED
  BY <1>1, OperandInvHolds, PTL

\* The signed conditions tell how the compared words relate, for words of every
\* width, and with every instruction that leaves the flags in between.
THEOREM ComparisonsTell == OperandSpec => []SignedConditionsTell
BY OperandInvHolds, ConditionsOfDifference, PTL

\* Additions carry from the low words to the high ones, for words of every width.
THEOREM AdditionsCarry == OperandSpec => []SumsCarryOver
BY OperandInvHolds, CarryOfSum, PTL

\* The shifts multiply, divide and rotate, and the carry is the bit that left last,
\* also when a shift by 0 bits stands for one by the whole word or through the
\* carry, for words of every width.
THEOREM ShiftsAreOfNumbers == OperandSpec => []ShiftsAreArithmetic
<1>1. OperandInv => ShiftsAreArithmetic
  BY ShiftsOfWords DEF OperandInv, OperandTypeOK
<1> QED
  BY <1>1, OperandInvHolds, PTL

=============================================================================
