--------------------------- MODULE MemoryMapProofs ---------------------------
(***************************************************************************)
(* Proofs about the memory, for every address there is: the run visits two *)
(* repetitions of each memory.  From the mirrors over the registers of the *)
(* devices to the refinement of FlatMemory.  Zenon cannot read numbers of  *)
(* this size: leaves with addresses name the SMT solver.                   *)
(***************************************************************************)
EXTENDS MemoryMap, SequenceTheorems, TLAPS

-----------------------------------------------------------------------------
(* The video memory. *)

\* The mask of an offset in 256 KB: the first 96 KB are there, and what comes
\* behind them leads to the first or the last 32 KB.
LEMMA VramMirrorCases ==
  ASSUME NEW offset \in Nat, offset < 262144
  PROVE  /\ offset < 98304 => VramMirror(offset) = offset
         /\ 98304 <= offset /\ offset < 131072  => VramMirror(offset) = 65536 + (offset % 32768)
         /\ 131072 <= offset /\ offset < 196608 => VramMirror(offset) = offset % 32768
         /\ 196608 <= offset /\ offset < 262144 => VramMirror(offset) = 65536 + (offset % 32768)
<1>1. CASE offset < 98303
  BY <1>1, SMT DEF VramMirror
<1>2. CASE offset >= 98303
  <2>1. VramMirror(offset) = (offset % 32768) + 65536 * ((offset \div 65536) % 2)
    BY <1>2, SMT DEF VramMirror
  <2>2. offset = 98303 => VramMirror(offset) = offset
    BY <2>1, SMT
  <2>3. /\ 98304 <= offset /\ offset < 131072  => offset \div 65536 = 1
        /\ 131072 <= offset /\ offset < 196608 => offset \div 65536 = 2
        /\ 196608 <= offset /\ offset < 262144 => offset \div 65536 = 3
    BY SMT
  <2>4. offset % 32768 \in Nat /\ offset % 32768 < 32768
    BY SMT
  <2>5. 1 % 2 = 1 /\ 2 % 2 = 0 /\ 3 % 2 = 1
    BY SMT
  <2>6. QED
    BY <1>2, <2>1, <2>2, <2>3, <2>4, <2>5, SMT
<1>3. QED
  BY <1>1, <1>2, SMT

\* A mirror of the video memory lies in its 96 KB.
LEMMA VramMirrorInside ==
  ASSUME NEW offset \in Nat, offset < 262144
  PROVE  VramMirror(offset) \in Nat /\ VramMirror(offset) < 98304
<1>1. offset % 32768 \in Nat /\ offset % 32768 < 32768
  BY SMT
<1>2. QED
  BY <1>1, VramMirrorCases, SMT

\* The 32 KB that the byte of an offset lies in, for offsets in 256 KB.
LEMMA PartCases ==
  ASSUME NEW offset \in Nat, offset < 262144
  PROVE  Part(offset) = IF offset < 32768 THEN 0
                        ELSE IF offset < 65536 THEN 1
                        ELSE IF offset < 131072 THEN 2
                        ELSE IF offset < 196608 THEN 0 ELSE 2
<1> DEFINE q == offset \div 32768
<1>1. /\ q \in 0..7 /\ q % 8 = q /\ 32 * 1024 = 32768
      /\ 32768 * q <= offset /\ offset < 32768 * q + 32768
  BY SMT
<1>2. Part(offset) = CASE q \in {0, 4, 5}    -> 0
                       [] q = 1              -> 1
                       [] OTHER              -> 2
  BY <1>1, SMT DEF Part, KB
<1> HIDE DEF q
<1>3. QED
  BY <1>1, <1>2, SMT

\* A mirror of the video memory has the home of its offset.
LEMMA VramMirrorsShareHomes ==
  ASSUME NEW offset \in Nat, offset < 262144
  PROVE  VramHome(VramMirror(offset)) = VramHome(offset)
<1> DEFINE r == offset % 32768
           v == VramMirror(offset)
<1>1. r \in Nat /\ r < 32768 /\ r % 32768 = r /\ (65536 + r) % 32768 = r
  BY SMT
<1>2. v \in Nat /\ v < 98304
  BY VramMirrorInside, SMT
<1>3. v % 32768 = r
  BY <1>1, VramMirrorCases, SMT
<1> HIDE DEF r
<1>4. Part(v) = Part(offset)
  <2>1. Part(v) = IF v < 32768 THEN 0 ELSE IF v < 65536 THEN 1 ELSE 2
    BY <1>2, PartCases, SMT
  <2>2. QED
    BY <1>1, <1>2, <2>1, VramMirrorCases, PartCases, SMT DEF r
<1>5. 32 * KB = 32768
  BY SMT DEF KB
<1>6. QED
  BY <1>3, <1>4, <1>5, SMT DEF VramHome, r

-----------------------------------------------------------------------------

(* All addresses. *)

\* A memory that repeats in its page.
LEMMA RepeatsOnce ==
  ASSUME NEW size \in Nat \ {0}, NEW offset \in Nat
  PROVE  offset % size \in Nat /\ offset % size < size /\ (offset % size) % size = offset % size
OBVIOUS

\* What each page is a mirror of.
LEMMA MirrorOfPage ==
  ASSUME NEW page \in Nat, NEW offset \in Nat
  PROVE  LET p == page % 16
             m == handle_mirrors(<<page, offset>>)
         IN  /\ p = 0 /\ offset < 16384 => m = <<0, offset>>
             /\ (p = 0 /\ ~(offset < 16384)) \/ p = 1 => m = Unmapped
             /\ p = 2 => m = <<2, offset % 262144>>
             /\ p = 3 => m = <<3, offset % 32768>>
             /\ p = 5 \/ p = 7 => m = <<p, offset % 1024>>
             /\ p = 6 => m = <<6, VramMirror(offset % 262144)>>
             /\ p = 14 \/ p = 15 => m = <<14, offset % 65536>>
             /\ p = 4 \/ (8 <= p /\ p < 14) => m = <<p, offset>>
<1> DEFINE p == page % 16
<1>1. p \in Nat /\ p < 16
  BY SMT
<1>2. handle_mirrors(<<page, offset>>) =
        CASE p = 0 /\ offset >= 16384 -> Unmapped
          [] p = 1 -> Unmapped
          [] p = 2 -> <<2, offset % 262144>>
          [] p = 3 -> <<3, offset % 32768>>
          [] p \in {5, 7} -> <<p, offset % 1024>>
          [] p = 6 -> <<6, VramMirror(offset % 262144)>>
          [] p \in {14, 15} -> <<14, offset % 65536>>
          [] OTHER -> <<p, offset>>
  BY SMT DEF handle_mirrors
<1> HIDE DEF p
<1>3. QED
  BY <1>1, <1>2, SMT DEF p

\* And where each page has its home.
LEMMA HomeOfPage ==
  ASSUME NEW page \in Nat, NEW offset \in Nat
  PROVE  LET p == page % 16
             h == Home(<<page, offset>>)
         IN  /\ (p < 2 \/ p = 4) => h = <<p, offset>>
             /\ p = 2 => h = <<2, offset % 262144>>
             /\ p = 3 => h = <<3, offset % 32768>>
             /\ p = 5 \/ p = 7 => h = <<p, offset % 1024>>
             /\ p = 6 => h = VramHome(offset)
             /\ p = 14 \/ p = 15 => h = <<14, offset % 65536>>
             /\ 8 <= p /\ p < 14 => h = <<8 + (p % 2), offset>>
<1> DEFINE p == page % 16
<1>1. p \in Nat /\ p < 16
  BY SMT
<1>2. /\ p = 2 => Home(<<page, offset>>) = <<2, offset % (256 * KB)>>
      /\ p = 3 => Home(<<page, offset>>) = <<3, offset % (32 * KB)>>
      /\ p = 5 \/ p = 7 => Home(<<page, offset>>) = <<p, offset % KB>>
      /\ 8 <= p /\ p < 14 => Home(<<page, offset>>) = <<8 + (p % 2), offset>>
      /\ p = 14 \/ p = 15 => Home(<<page, offset>>) = <<14, offset % (64 * KB)>>
      /\ (p < 2 \/ p = 4) => Home(<<page, offset>>) = <<p, offset>>
  BY <1>1, SMT DEF Home
<1>3. KB = 1024 /\ 256 * KB = 262144 /\ 32 * KB = 32768 /\ 64 * KB = 65536
  BY SMT DEF KB
<1>4. p = 6 => Home(<<page, offset>>) = VramHome(offset)
  BY SMT DEF Home
<1> HIDE DEF p
<1>5. QED
  BY <1>1, <1>2, <1>3, <1>4, SMT DEF p

\* The video memory repeats every 128 KB, so its home is that of the offset in 256 KB.
LEMMA VramHomeRepeats ==
  ASSUME NEW offset \in Nat
  PROVE  VramHome(offset) = VramHome(offset % 262144)
<1>1. 32 * KB = 32768
  BY SMT DEF KB
<1>2. (offset % 262144) % 32768 = offset % 32768
  BY SMT
<1>3. ((offset % 262144) \div 32768) % 8 = (offset \div 32768) % 8
  BY SMT
<1>4. Part(offset % 262144) = Part(offset)
  BY <1>1, <1>3, SMT DEF Part
<1> HIDE DEF KB
<1>5. QED
  BY <1>1, <1>2, <1>4, SMT DEF VramHome

\* A mirror is its own mirror, and the byte it leads to is the home of the address:
\* every address, not only the ones the runs visit, reaches the byte that the sizes
\* of the memories say it reaches.
THEOREM MirrorsLeadHome ==
  ASSUME NEW page \in Nat, NEW offset \in Nat,
         handle_mirrors(<<page, offset>>) # Unmapped
  PROVE  LET m == handle_mirrors(<<page, offset>>)
         IN  handle_mirrors(m) = m /\ Home(m) = Home(<<page, offset>>)
<1> DEFINE p == page % 16
<1>1. p \in Nat /\ p < 16 /\ p % 16 = p
  BY SMT
<1> HIDE DEF p
<1>2. CASE p < 2
  BY <1>1, <1>2, MirrorOfPage, HomeOfPage, SMT DEF p
<1>3. CASE p = 2
  <2> DEFINE o == offset % 262144
  <2>1. o \in Nat /\ o % 262144 = o /\ 2 % 16 = 2
    BY RepeatsOnce, SMT
  <2>2. handle_mirrors(<<page, offset>>) = <<2, o>> /\ Home(<<page, offset>>) = <<2, o>>
    BY <1>3, MirrorOfPage, HomeOfPage, SMT DEF p
  <2> HIDE DEF o
  <2>3. handle_mirrors(<<2, o>>) = <<2, o>> /\ Home(<<2, o>>) = <<2, o>>
    BY <2>1, MirrorOfPage, HomeOfPage, SMT
  <2>4. QED
    BY <2>2, <2>3, SMT
<1>4. CASE p = 3
  <2> DEFINE o == offset % 32768
  <2>1. o \in Nat /\ o % 32768 = o /\ 3 % 16 = 3
    BY RepeatsOnce, SMT
  <2>2. handle_mirrors(<<page, offset>>) = <<3, o>> /\ Home(<<page, offset>>) = <<3, o>>
    BY <1>4, MirrorOfPage, HomeOfPage, SMT DEF p
  <2> HIDE DEF o
  <2>3. handle_mirrors(<<3, o>>) = <<3, o>> /\ Home(<<3, o>>) = <<3, o>>
    BY <2>1, MirrorOfPage, HomeOfPage, SMT
  <2>4. QED
    BY <2>2, <2>3, SMT
<1>5. CASE p = 5 \/ p = 7
  <2> DEFINE o == offset % 1024
  <2>1. o \in Nat /\ o % 1024 = o
    BY RepeatsOnce, SMT
  <2>2. handle_mirrors(<<page, offset>>) = <<p, o>> /\ Home(<<page, offset>>) = <<p, o>>
    BY <1>5, MirrorOfPage, HomeOfPage, SMT DEF p
  <2> HIDE DEF o
  <2>3. handle_mirrors(<<p, o>>) = <<p, o>> /\ Home(<<p, o>>) = <<p, o>>
    BY <1>1, <1>5, <2>1, MirrorOfPage, HomeOfPage, SMT
  <2>4. QED
    BY <2>2, <2>3, SMT
<1>6. CASE p = 6
  <2> DEFINE o == offset % 262144
             v == VramMirror(o)
  <2>1. o \in Nat /\ o < 262144 /\ 6 % 16 = 6
    BY SMT
  <2>2. handle_mirrors(<<page, offset>>) = <<6, v>> /\ Home(<<page, offset>>) = VramHome(o)
    BY <1>6, MirrorOfPage, HomeOfPage, VramHomeRepeats, SMT DEF p
  <2> HIDE DEF o
  <2>3. v \in Nat /\ v < 98304 /\ VramHome(v) = VramHome(o)
    BY <2>1, VramMirrorInside, VramMirrorsShareHomes, SMT
  <2> HIDE DEF v
  <2>4. v % 262144 = v /\ VramMirror(v) = v
    BY <2>3, VramMirrorCases, SMT
  <2>5. handle_mirrors(<<6, v>>) = <<6, v>> /\ Home(<<6, v>>) = VramHome(v)
    BY <2>1, <2>3, <2>4, MirrorOfPage, HomeOfPage, SMT
  <2>6. QED
    BY <2>2, <2>3, <2>5, SMT
<1>7. CASE p = 14 \/ p = 15
  <2> DEFINE o == offset % 65536
  <2>1. o \in Nat /\ o % 65536 = o /\ 14 % 16 = 14
    BY RepeatsOnce, SMT
  <2>2. handle_mirrors(<<page, offset>>) = <<14, o>> /\ Home(<<page, offset>>) = <<14, o>>
    BY <1>7, MirrorOfPage, HomeOfPage, SMT DEF p
  <2> HIDE DEF o
  <2>3. handle_mirrors(<<14, o>>) = <<14, o>> /\ Home(<<14, o>>) = <<14, o>>
    BY <2>1, MirrorOfPage, HomeOfPage, SMT
  <2>4. QED
    BY <2>2, <2>3, SMT
<1>8. CASE p = 4 \/ (8 <= p /\ p < 14)
  <2>1. handle_mirrors(<<page, offset>>) = <<p, offset>>
    BY <1>1, <1>8, MirrorOfPage, SMT DEF p
  <2>2. handle_mirrors(<<p, offset>>) = <<p, offset>>
    BY <1>1, <1>8, MirrorOfPage, SMT
  <2>3. Home(<<p, offset>>) = Home(<<page, offset>>)
    BY <1>1, <1>8, HomeOfPage, SMT DEF p
  <2>4. QED
    BY <2>1, <2>2, <2>3, SMT
<1>9. QED
  BY <1>1, <1>2, <1>3, <1>4, <1>5, <1>6, <1>7, <1>8, SMT

-----------------------------------------------------------------------------
(* Cells: the addresses that are mirrors of themselves. *)

Pages == (0..14) \ {1}

\* How much of a page there is.
Size(page) ==
  CASE page = 0        -> 16384
    [] page = 2        -> 262144
    [] page = 3        -> 32768
    [] page \in {5, 7} -> 1024
    [] page = 6        -> 98304
    [] page = 14       -> 65536
    [] OTHER           -> 16777216

Cells == {at \in Pages \X Nat : at[2] < Size(at[1])}

LEMMA CellParts ==
  ASSUME NEW c \in Cells
  PROVE  /\ c[1] \in Pages /\ c[2] \in Nat /\ c[2] < Size(c[1])
         /\ c = <<c[1], c[2]>> /\ At(c, 0) = c
<1>1. c \in Pages \X Nat /\ c[2] < Size(c[1])
  BY SMT DEF Cells
<1>2. QED
  BY <1>1, SMT DEF At

LEMMA CellOf ==
  ASSUME NEW page \in Pages, NEW offset \in Nat, offset < Size(page)
  PROVE  <<page, offset>> \in Cells
BY SMT DEF Cells

LEMMA PageNumbers == \A page \in Pages : page \in Nat /\ page < 15 /\ page # 1 /\ page % 16 = page
BY SMT DEF Pages

\* What is no mirror leads to a cell.
LEMMA MirrorIsCell ==
  ASSUME NEW page \in Nat, NEW offset \in Nat, offset < 16777216,
         handle_mirrors(<<page, offset>>) # Unmapped
  PROVE  handle_mirrors(<<page, offset>>) \in Cells
<1> DEFINE p == page % 16
<1>1. p \in Nat /\ p < 16
  BY SMT
<1>2. /\ offset % 262144 \in Nat /\ offset % 262144 < 262144
      /\ offset % 32768 \in Nat /\ offset % 32768 < 32768
      /\ offset % 1024 \in Nat /\ offset % 1024 < 1024
      /\ offset % 65536 \in Nat /\ offset % 65536 < 65536
  BY SMT
<1> HIDE DEF p
<1>3. PICK q \in Nat, o \in Nat :
        /\ handle_mirrors(<<page, offset>>) = <<q, o>>
        /\ \/ q = 0 /\ o < 16384
           \/ q = 2 /\ o < 262144
           \/ q = 3 /\ o < 32768
           \/ (q = 5 \/ q = 7) /\ o < 1024
           \/ q = 6 /\ o < 98304
           \/ q = 14 /\ o < 65536
           \/ (q = 4 \/ (8 <= q /\ q < 14)) /\ o < 16777216
  <2>1. CASE p = 6
    <3>1. VramMirror(offset % 262144) \in Nat /\ VramMirror(offset % 262144) < 98304
      BY <1>2, VramMirrorInside, SMT
    <3>2. handle_mirrors(<<page, offset>>) = <<6, VramMirror(offset % 262144)>>
      BY <2>1, MirrorOfPage, SMT DEF p
    <3>3. QED
      BY <3>1, <3>2, SMT
  <2>2. CASE p # 6
    <3>1. /\ p = 0 /\ offset < 16384 => handle_mirrors(<<page, offset>>) = <<0, offset>>
          /\ ~(p = 0 /\ ~(offset < 16384)) /\ p # 1
          /\ p = 2 => handle_mirrors(<<page, offset>>) = <<2, offset % 262144>>
          /\ p = 3 => handle_mirrors(<<page, offset>>) = <<3, offset % 32768>>
          /\ p = 5 \/ p = 7 => handle_mirrors(<<page, offset>>) = <<p, offset % 1024>>
          /\ p = 14 \/ p = 15 => handle_mirrors(<<page, offset>>) = <<14, offset % 65536>>
          /\ p = 4 \/ (8 <= p /\ p < 14) => handle_mirrors(<<page, offset>>) = <<p, offset>>
      BY MirrorOfPage, SMT DEF p
    <3>2. QED
      BY <1>1, <1>2, <2>2, <3>1, SMT
  <2>3. QED
    BY <2>1, <2>2, SMT
<1>4. q \in Pages /\ o < Size(q)
  BY <1>3, SMT DEF Pages, Size
<1>5. QED
  BY <1>3, <1>4, CellOf, SMT

\* A cell is no mirror; it is its own home, except in the repetitions of a cartridge.
LEMMA CellIsNormal ==
  ASSUME NEW c \in Cells
  PROVE  /\ handle_mirrors(c) = c
         /\ c # Unmapped
         /\ Home(c) = IF c[1] \in 8..13 THEN normalize_address(c) ELSE c
         /\ Home(c) \in Cells
<1> DEFINE p == c[1]
           o == c[2]
<1>1. p \in Pages /\ o \in Nat /\ o < Size(p) /\ c = <<p, o>>
  BY CellParts, SMT
<1>2. p \in Nat /\ p < 15 /\ p # 1 /\ p % 16 = p
  BY <1>1, PageNumbers, SMT
<1>3. Unmapped[2] = -1
  BY SMT DEF Unmapped
<1>4. c # Unmapped
  BY <1>1, <1>3, SMT
<1> HIDE DEF p, o
<1>5. /\ p = 0 => o < 16384
      /\ p = 2 => o < 262144
      /\ p = 3 => o < 32768
      /\ p = 5 \/ p = 7 => o < 1024
      /\ p = 6 => o < 98304
      /\ p = 14 => o < 65536
  BY <1>1, SMT DEF Size
<1>6. /\ p = 2 => o % 262144 = o
      /\ p = 3 => o % 32768 = o
      /\ p = 5 \/ p = 7 => o % 1024 = o
      /\ p = 6 => o % 262144 = o /\ VramMirror(o % 262144) = o
      /\ p = 14 => o % 65536 = o
  <2>1. p = 6 => o % 262144 = o /\ VramMirror(o) = o
    BY <1>1, <1>5, VramMirrorCases, SMT
  <2>2. QED
    BY <1>1, <1>5, <2>1, SMT
<1>7. handle_mirrors(<<p, o>>) = <<p, o>>
  <2>1. /\ p = 0 /\ o < 16384 => handle_mirrors(<<p, o>>) = <<0, o>>
        /\ p = 2 => handle_mirrors(<<p, o>>) = <<2, o % 262144>>
        /\ p = 3 => handle_mirrors(<<p, o>>) = <<3, o % 32768>>
        /\ p = 5 \/ p = 7 => handle_mirrors(<<p, o>>) = <<p, o % 1024>>
        /\ p = 6 => handle_mirrors(<<p, o>>) = <<6, VramMirror(o % 262144)>>
        /\ p = 14 => handle_mirrors(<<p, o>>) = <<14, o % 65536>>
        /\ p = 4 \/ (8 <= p /\ p < 14) => handle_mirrors(<<p, o>>) = <<p, o>>
    BY <1>1, <1>2, MirrorOfPage, SMT
  <2>2. QED
    BY <1>2, <1>5, <1>6, <2>1, SMT
<1>8. p = 6 => VramHome(o) = <<6, o>>
  <2> SUFFICES ASSUME p = 6 PROVE VramHome(o) = <<6, o>>
    OBVIOUS
  <2>1. Part(o) = IF o < 32768 THEN 0 ELSE IF o < 65536 THEN 1 ELSE 2
    BY <1>1, <1>5, PartCases, SMT
  <2>2. (o % 32768) + 32768 * (IF o < 32768 THEN 0 ELSE IF o < 65536 THEN 1 ELSE 2) = o
    BY <1>1, <1>5, SMT
  <2>3. 32 * KB = 32768
    BY SMT DEF KB
  <2>4. QED
    BY <2>1, <2>2, <2>3, SMT DEF VramHome
<1>9. Home(<<p, o>>) = IF p \in 8..13 THEN <<8 + (p % 2), o>> ELSE <<p, o>>
  <2>1. /\ (p < 2 \/ p = 4) => Home(<<p, o>>) = <<p, o>>
        /\ p = 2 => Home(<<p, o>>) = <<2, o % 262144>>
        /\ p = 3 => Home(<<p, o>>) = <<3, o % 32768>>
        /\ p = 5 \/ p = 7 => Home(<<p, o>>) = <<p, o % 1024>>
        /\ p = 6 => Home(<<p, o>>) = VramHome(o)
        /\ p = 14 \/ p = 15 => Home(<<p, o>>) = <<14, o % 65536>>
        /\ 8 <= p /\ p < 14 => Home(<<p, o>>) = <<8 + (p % 2), o>>
    BY <1>1, <1>2, HomeOfPage, SMT
  <2>2. QED
    BY <1>2, <1>6, <1>8, <2>1, SMT
<1>10. 8 + (p % 2) \in Pages /\ Size(8 + (p % 2)) = 16777216 /\ (p \in 8..13 => Size(p) = 16777216)
  <2>1. 8 + (p % 2) = 8 \/ 8 + (p % 2) = 9
    BY <1>2, SMT
  <2>2. QED
    BY <2>1, SMT DEF Pages, Size
<1>11. Home(<<p, o>>) \in Cells
  BY <1>1, <1>9, <1>10, CellOf, SMT
<1>12. c[1] = p /\ c[2] = o
  BY SMT DEF p, o
<1>13. QED
  BY <1>1, <1>4, <1>7, <1>9, <1>11, <1>12, SMT DEF normalize_address

\* The home of a cell of a cartridge is one, and its own.
LEMMA HomeOfCartridge ==
  ASSUME NEW c \in Cells, c[1] \in 8..13
  PROVE  LET h == normalize_address(c)
         IN  /\ h \in Cells /\ h[1] \in {8, 9} /\ h[2] = c[2]
             /\ Home(c) = h /\ Home(h) = h /\ normalize_address(h) = h
<1>1. c[1] \in Pages /\ c[2] \in Nat /\ c = <<c[1], c[2]>>
  BY CellParts, SMT
<1>2. Home(c) = normalize_address(c) /\ Home(c) \in Cells
  BY CellIsNormal, SMT
<1>3. normalize_address(c) = <<8 + (c[1] % 2), c[2]>>
  BY SMT DEF normalize_address
<1>4. 8 + (c[1] % 2) = 8 \/ 8 + (c[1] % 2) = 9
  BY <1>1, PageNumbers, SMT
<1>5. PICK q \in {8, 9}, o \in Nat : normalize_address(c) = <<q, o>> /\ o = c[2]
  BY <1>1, <1>3, <1>4, SMT
<1>6. normalize_address(<<q, o>>) = <<q, o>>
  <2>1. 8 + (q % 2) = q
    BY <1>5, SMT
  <2>2. QED
    BY <2>1, SMT DEF normalize_address
<1>7. Home(<<q, o>>) = <<q, o>>
  <2>1. <<q, o>> \in Cells /\ <<q, o>>[1] \in 8..13
    BY <1>2, <1>5, SMT
  <2>2. QED
    BY <2>1, <1>6, CellIsNormal, SMT
<1>8. QED
  BY <1>2, <1>5, <1>6, <1>7, SMT

LEMMA HomeOfOther ==
  ASSUME NEW c \in Cells, c[1] \notin 8..13
  PROVE  Home(c) = c
BY CellIsNormal, SMT

LEMMA HomeOfHome == \A c \in Cells : Home(c) \in Cells /\ Home(Home(c)) = Home(c)
<1> SUFFICES ASSUME NEW c \in Cells PROVE Home(c) \in Cells /\ Home(Home(c)) = Home(c)
  OBVIOUS
<1>1. CASE c[1] \in 8..13
  BY <1>1, HomeOfCartridge, SMT
<1>2. CASE c[1] \notin 8..13
  BY <1>2, HomeOfOther, SMT
<1>3. QED
  BY <1>1, <1>2, SMT

\* The devices claim the first 7 MB of their page.
LEMMA Claimed ==
  ASSUME NEW b \in Int
  PROVE  claims_address(b) <=> 0 <= b /\ b <= 7340032
<1>1. /\ Lcd(b) <=> 0 <= b /\ b <= 95
      /\ Sound(b) <=> 96 <= b /\ b <= 175
      /\ Dma(b) <=> 176 <= b /\ b <= 255
      /\ Timer(b) <=> 256 <= b /\ b <= 287
  BY SMT DEF Lcd, Sound, Dma, Timer
<1>2. InterruptWaitstate(b) <=> 512 <= b /\ b <= 7340032
  BY SMT DEF InterruptWaitstate
<1>3. SerialCommunication(b) <=> (288 <= b /\ b <= 303) \/ (308 <= b /\ b <= 511)
  BY SMT DEF SerialCommunication
<1>4. KeypadInput(b) <=> 304 <= b /\ b <= 307
  BY SMT DEF KeypadInput
<1>5. QED
  BY <1>1, <1>2, <1>3, <1>4, SMT DEF claims_address

LEMMA PluginOfCell ==
  ASSUME NEW c \in Cells
  PROVE  get_plugin_for(c) = CASE c[1] \in 8..13                 -> "cartridge"
                               [] c[1] = 5                       -> "color_ram"
                               [] c[1] = 6                       -> "vram"
                               [] c[1] = 7                       -> "obj_ram"
                               [] c[1] = 4 /\ c[2] <= 7340032    -> "gba_io"
                               [] OTHER                          -> "raw"
<1>1. c[1] \in Pages /\ c[2] \in Nat /\ c[2] < Size(c[1])
  BY CellParts, SMT
<1>2. handle_mirrors(c) = c
  BY CellIsNormal, SMT
<1>3. claims_address(c[2]) <=> c[2] <= 7340032
  BY <1>1, Claimed, SMT
<1>4. (c[1] = 5 => c[2] < 1024) /\ (c[1] = 6 => c[2] < 98304) /\ (c[1] = 7 => c[2] < 1024)
  BY <1>1, SMT DEF Size
<1> DEFINE p == c[1]
           o == c[2]
<1>5. get_plugin_for(c) = CASE p \in 8..13 -> "cartridge"
        [] p = 5 /\ o < 1024           -> "color_ram"
        [] p = 6 /\ o < 98304          -> "vram"
        [] p = 7 /\ o < 1024           -> "obj_ram"
        [] p = 4 /\ claims_address(o)  -> "gba_io"
        [] OTHER                       -> "raw"
  BY <1>2, SMT DEF get_plugin_for
<1> HIDE DEF p, o
<1>6. p \in Nat /\ o \in Nat
  BY <1>1, PageNumbers, SMT DEF p, o
<1>7. get_plugin_for(c) = CASE p \in 8..13 -> "cartridge"
        [] p = 5                       -> "color_ram"
        [] p = 6                       -> "vram"
        [] p = 7                       -> "obj_ram"
        [] p = 4 /\ o <= 7340032       -> "gba_io"
        [] OTHER                       -> "raw"
  BY <1>3, <1>4, <1>5, <1>6, SMT DEF p, o
<1>8. QED
  BY <1>7, SMT DEF p, o

Aligned(offset, n) == offset % n = 0

LEMMA AlignedQuotient ==
  ASSUME NEW n \in {1, 2, 4}, NEW offset \in Nat, Aligned(offset, n)
  PROVE  \E q \in Nat : offset = n * q
<1>1. offset = n * (offset \div n) /\ offset \div n \in Nat
  BY SMT DEF Aligned
<1>2. QED
  BY <1>1, Zenon

RepeatsBy(size, offset, k, n) ==
  (offset + k) % size = (offset % size) + k /\ Aligned(offset % size, n)

\* A memory that repeats does so for the bytes of an aligned access at once.
LEMMA RepeatsTogether ==
  ASSUME NEW n \in {1, 2, 4}, NEW k \in 0..(n - 1), NEW offset \in Nat, Aligned(offset, n),
         NEW size \in {1024, 32768, 65536, 262144}
  PROVE  RepeatsBy(size, offset, k, n)
<1>1. PICK q \in Nat : offset = n * q
  BY AlignedQuotient, SMT
<1>2. CASE n = 1
  BY <1>1, <1>2, SMT DEF Aligned, RepeatsBy
<1>3. CASE n = 2
  BY <1>1, <1>3, SMT DEF Aligned, RepeatsBy
<1>4. CASE n = 4
  BY <1>1, <1>4, SMT DEF Aligned, RepeatsBy
<1>5. QED
  BY <1>2, <1>3, <1>4, SMT

LEMMA VramMirrorsTogether ==
  ASSUME NEW n \in {1, 2, 4}, NEW k \in 0..(n - 1), NEW offset \in Nat, Aligned(offset, n),
         offset < 262144
  PROVE  VramMirror(offset + k) = VramMirror(offset) + k /\ Aligned(VramMirror(offset), n)
<1>1. offset + k \in Nat /\ offset + k < 262144
  BY SMT DEF Aligned
<1>2. (offset + k) % 32768 = (offset % 32768) + k /\ Aligned(offset % 32768, n)
  <2>1. PICK size \in {1024, 32768, 65536, 262144} : size = 32768
    BY SMT
  <2>2. RepeatsBy(size, offset, k, n)
    BY RepeatsTogether, SMT
  <2>3. QED
    BY <2>1, <2>2, SMT DEF RepeatsBy
<1>3. \A limit \in {98304, 131072, 196608, 262144} : offset < limit <=> offset + k < limit
  BY SMT DEF Aligned
<1> DEFINE r == offset % 32768
<1>4. r \in Nat /\ r = offset % 32768
  BY SMT
<1> HIDE DEF r
<1>5. Aligned(65536 + r, n)
  BY <1>2, <1>4, SMT DEF Aligned
<1>6. QED
  BY <1>1, <1>2, <1>3, <1>4, <1>5, VramMirrorCases, SMT

LEMMA AlignedBelow ==
  ASSUME NEW n \in {1, 2, 4}, NEW k \in 0..(n - 1), NEW offset \in Nat, Aligned(offset, n),
         NEW limit \in {16384, 16777216}
  PROVE  offset < limit <=> offset + k < limit
BY SMT DEF Aligned

\* The bytes of an aligned access are mirrored together.
LEMMA MirrorsTogether ==
  ASSUME NEW n \in {1, 2, 4}, NEW k \in 0..(n - 1), NEW page \in Nat, NEW offset \in Nat,
         Aligned(offset, n),
         handle_mirrors(<<page, offset>>) # Unmapped
  PROVE  handle_mirrors(<<page, offset + k>>) = At(handle_mirrors(<<page, offset>>), k)
<1> DEFINE p == page % 16
<1>1. p \in Nat /\ p < 16 /\ offset + k \in Nat /\ k \in Nat
  BY SMT
<1> HIDE DEF p
<1>2. PICK s1, s2, s3, s4 \in {1024, 32768, 65536, 262144} :
        s1 = 1024 /\ s2 = 32768 /\ s3 = 65536 /\ s4 = 262144
  BY SMT
<1>3. /\ RepeatsBy(s1, offset, k, n) /\ RepeatsBy(s2, offset, k, n)
      /\ RepeatsBy(s3, offset, k, n) /\ RepeatsBy(s4, offset, k, n)
  BY RepeatsTogether, SMT
<1>4. /\ (offset + k) % 1024 = (offset % 1024) + k
      /\ (offset + k) % 32768 = (offset % 32768) + k
      /\ (offset + k) % 65536 = (offset % 65536) + k
      /\ (offset + k) % 262144 = (offset % 262144) + k
      /\ Aligned(offset % 262144, n)
  BY <1>2, <1>3, SMT DEF RepeatsBy
<1>5. offset % 262144 \in Nat /\ offset % 262144 < 262144
  BY SMT
<1>6. VramMirror((offset % 262144) + k) = VramMirror(offset % 262144) + k
  <2> DEFINE o == offset % 262144
  <2>1. o \in Nat /\ o < 262144 /\ Aligned(o, n)
    BY <1>4, <1>5, SMT
  <2> HIDE DEF o
  <2>2. VramMirror(o + k) = VramMirror(o) + k
    BY <2>1, VramMirrorsTogether, SMT
  <2>3. QED
    BY <2>2, SMT DEF o
<1>7. offset < 16384 <=> offset + k < 16384
  <2>1. PICK limit \in {16384, 16777216} : limit = 16384
    BY SMT
  <2>2. offset < limit <=> offset + k < limit
    BY AlignedBelow, SMT
  <2>3. QED
    BY <2>1, <2>2, SMT
<1> DEFINE m == handle_mirrors(<<page, offset>>)
           l == handle_mirrors(<<page, offset + k>>)
<1>8. /\ ~(p = 0 /\ ~(offset < 16384)) /\ p # 1
      /\ p = 0 => m = <<0, offset>>
      /\ p = 2 => m = <<2, offset % 262144>>
      /\ p = 3 => m = <<3, offset % 32768>>
      /\ p = 5 \/ p = 7 => m = <<p, offset % 1024>>
      /\ p = 6 => m = <<6, VramMirror(offset % 262144)>>
      /\ p = 14 \/ p = 15 => m = <<14, offset % 65536>>
      /\ p = 4 \/ (8 <= p /\ p < 14) => m = <<p, offset>>
  BY MirrorOfPage, SMT DEF p
<1>9. PICK up \in Nat : up = offset + k
  BY <1>1, SMT
<1>10. LET up_m == handle_mirrors(<<page, up>>)
       IN  /\ p = 0 /\ up < 16384 => up_m = <<0, up>>
           /\ p = 2 => up_m = <<2, up % 262144>>
           /\ p = 3 => up_m = <<3, up % 32768>>
           /\ p = 5 \/ p = 7 => up_m = <<p, up % 1024>>
           /\ p = 6 => up_m = <<6, VramMirror(up % 262144)>>
           /\ p = 14 \/ p = 15 => up_m = <<14, up % 65536>>
           /\ p = 4 \/ (8 <= p /\ p < 14) => up_m = <<p, up>>
  BY MirrorOfPage, SMT DEF p
<1>11. /\ p = 0 => l = <<0, offset + k>>
       /\ p = 2 => l = <<2, (offset % 262144) + k>>
       /\ p = 3 => l = <<3, (offset % 32768) + k>>
       /\ p = 5 \/ p = 7 => l = <<p, (offset % 1024) + k>>
       /\ p = 6 => l = <<6, VramMirror(offset % 262144) + k>>
       /\ p = 14 \/ p = 15 => l = <<14, (offset % 65536) + k>>
       /\ p = 4 \/ (8 <= p /\ p < 14) => l = <<p, offset + k>>
  BY <1>4, <1>6, <1>7, <1>8, <1>9, <1>10, SMT
<1> HIDE DEF m, l
<1>12. l = At(m, k)
  BY <1>1, <1>8, <1>11, SMT DEF At
<1>13. QED
  BY <1>12, SMT DEF m, l

\* So each byte of an aligned access has a cell of its own, in the same page, and
\* the home that its address has.
LEMMA CellsOfAccess ==
  ASSUME NEW n \in {1, 2, 4}, NEW k \in 0..(n - 1), NEW page \in Nat, NEW offset \in Nat,
         Aligned(offset, n), offset < 16777216,
         handle_mirrors(<<page, offset>>) # Unmapped
  PROVE  LET m == handle_mirrors(<<page, offset>>)
         IN  /\ m \in Cells /\ At(m, k) \in Cells
             /\ At(m, k) = <<m[1], m[2] + k>>
             /\ Home(At(m, k)) = Home(<<page, offset + k>>)
<1> DEFINE m == handle_mirrors(<<page, offset>>)
<1>1. m \in Cells
  BY MirrorIsCell, SMT
<1>2. PICK up \in Nat : up = offset + k
  BY SMT
<1>3. up < 16777216
  <2>1. PICK limit \in {16384, 16777216} : limit = 16777216
    BY SMT
  <2>2. offset < limit <=> offset + k < limit
    BY AlignedBelow, SMT
  <2>3. QED
    BY <1>2, <2>1, <2>2, SMT
<1>4. handle_mirrors(<<page, up>>) = At(m, k)
  BY <1>2, MirrorsTogether, SMT
<1>5. m[2] \in Nat /\ k \in Nat /\ Unmapped[2] = -1
  BY <1>1, CellParts, SMT DEF Unmapped
<1>6. At(m, k) = <<m[1], m[2] + k>>
  BY SMT DEF At
<1>7. At(m, k) # Unmapped
  BY <1>5, <1>6, SMT
<1>8. At(m, k) \in Cells
  BY <1>3, <1>4, <1>7, MirrorIsCell, SMT
<1>9. Home(handle_mirrors(<<page, up>>)) = Home(<<page, up>>)
  BY <1>4, <1>7, MirrorsLeadHome, SMT
<1>10. QED
  BY <1>1, <1>2, <1>4, <1>6, <1>8, <1>9, SMT

-----------------------------------------------------------------------------
(* The registers of the devices: what reading a byte gives. *)

Between(b, first, last) == first <= b /\ b <= last

LEMMA Devices ==
  ASSUME NEW b \in Int
  PROVE  /\ Lcd(b)                 <=> Between(b, \h0, \h5f)
         /\ Sound(b)               <=> Between(b, \h60, \haf)
         /\ Dma(b)                 <=> Between(b, \hb0, \hff)
         /\ Timer(b)               <=> Between(b, \h100, \h11f)
         /\ SerialCommunication(b) <=> Between(b, \h120, \h12f) \/ Between(b, \h134, \h1ff)
         /\ KeypadInput(b)         <=> Between(b, \h130, \h133)
         /\ InterruptWaitstate(b)  <=> Between(b, \h200, \h700000)
<1>1. (Lcd(b) <=> Between(b, \h0, \h5f)) /\ (Sound(b) <=> Between(b, \h60, \haf))
  BY SMT DEF Lcd, Sound, Between
<1>2. (Dma(b) <=> Between(b, \hb0, \hff)) /\ (Timer(b) <=> Between(b, \h100, \h11f))
  BY SMT DEF Dma, Timer, Between
<1>3. SerialCommunication(b) <=> Between(b, \h120, \h12f) \/ Between(b, \h134, \h1ff)
  BY SMT DEF SerialCommunication, Between
<1>4. KeypadInput(b) <=> Between(b, \h130, \h133)
  BY SMT DEF KeypadInput, Between
<1>5. InterruptWaitstate(b) <=> Between(b, \h200, \h700000)
  BY SMT DEF InterruptWaitstate, Between
<1>6. QED
  BY <1>1, <1>2, <1>3, <1>4, <1>5, SMT

\* Half words that are not there.
Absent(b) ==
  \/ Between(b, \h66, \h67) \/ Between(b, \h6a, \h6b) \/ Between(b, \h6e, \h6f)
  \/ Between(b, \h76, \h77) \/ Between(b, \h7a, \h7b) \/ Between(b, \h7e, \h7f)
  \/ Between(b, \h86, \h87) \/ Between(b, \h8a, \h8f)

LEMMA AbsentUnimplemented ==
  ASSUME NEW b \in Int
  PROVE  b \in Unimplemented <=> Absent(b)
BY SMT DEF Unimplemented, Absent, Between

OfInterruptUnit(b) ==
  Between(b, \h200, \h205) \/ Between(b, \h208, \h209) \/ Between(b, \h300, \h301)

LEMMA InterruptUnitRegisters ==
  ASSUME NEW b \in Int
  PROVE  b \in InterruptRegisters <=> OfInterruptUnit(b)
BY SMT DEF InterruptRegisters, OfInterruptUnit, Between

OfSerial(b) ==
  \/ Between(b, \h120, \h12b) \/ Between(b, \h134, \h135) \/ Between(b, \h140, \h141)
  \/ Between(b, \h150, \h157)

LEMMA SerialOnes ==
  ASSUME NEW b \in Int
  PROVE  b \in SerialRegisters <=> OfSerial(b)
BY SMT DEF SerialRegisters, OfSerial, Between

\* The reads that panic, those that give 0, and those of the wave pattern; all
\* others give what is kept.
ReadsTodo(b) ==
  \/ ~Between(b, 0, \h700000)
  \/ Absent(b) \/ Between(b, \h136, \h137)
  \/ /\ Between(b, \h200, \h700000) /\ ~OfInterruptUnit(b)
     /\ ~Between(b, \h206, \h207) /\ ~Between(b, \h20a, \h2ff) /\ b # \h410

ReadsZero(b) ==
  \/ Between(b, \h10, \h47) \/ Between(b, \h4c, \h4f) \/ Between(b, \h54, \h5f)
  \/ Between(b, \ha8, \haf)
  \/ Between(b, \hb0, \hff) /\ ~DmaControl(b)
  \/ Between(b, \h110, \h11f)
  \/ Between(b, \h12c, \h131) \/ Between(b, \h138, \h13f) \/ Between(b, \h142, \h14f)
  \/ Between(b, \h158, \h1ff)
  \/ Between(b, \h206, \h207) \/ Between(b, \h20a, \h2ff) \/ b = \h410

ReadsWave(b) == Between(b, \h90, \h9f)

LEMMA ReadCases ==
  ASSUME NEW io, NEW b \in Int
  PROVE  /\ ReadsTodo(b) => read_byte(io, b) = Todo
         /\ ReadsZero(b) => read_byte(io, b) = 0
         /\ ReadsWave(b) => read_byte(io, b) = Kept(io, inactive_channel_3_wave_pattern(io, b))
         /\ ~ReadsTodo(b) /\ ~ReadsZero(b) /\ ~ReadsWave(b) => read_byte(io, b) = Kept(io, b)
<1> USE Devices DEF read_byte, ReadsTodo, ReadsZero, ReadsWave
<1>1. CASE Lcd(b)
  <2>1. read_byte(io, b) = Lcd_read_byte(io, b)
    BY <1>1, SMT DEF Between
  <2>2. Lcd_read_byte(io, b) =
          IF Between(b, \h10, \h47) \/ Between(b, \h4c, \h4f) \/ Between(b, \h54, \h5f)
          THEN 0 ELSE Kept(io, b)
    BY SMT DEF Lcd_read_byte, Between
  <2>3. QED
    BY <1>1, <2>1, <2>2, SMT DEF Between, Absent
<1>2. CASE Sound(b)
  <2>1. read_byte(io, b) = Sound_read_byte(io, b)
    BY <1>2, SMT DEF Between
  <2>2. b \in \h90..\h9f <=> Between(b, \h90, \h9f)
    BY SMT DEF Between
  <2>3. b \in \ha8..\haf <=> Between(b, \ha8, \haf)
    BY SMT DEF Between
  <2>4. Absent(b) => ~Between(b, \h90, \h9f) /\ ~Between(b, \ha8, \haf)
    BY SMT DEF Absent, Between
  <2>5. Sound_read_byte(io, b) =
          IF Absent(b) THEN Todo
          ELSE IF Between(b, \h90, \h9f) THEN Kept(io, inactive_channel_3_wave_pattern(io, b))
          ELSE IF Between(b, \ha8, \haf) THEN 0
          ELSE Kept(io, b)
    BY <2>2, <2>3, <2>4, AbsentUnimplemented, SMT DEF Sound_read_byte, Between
  <2>6. QED
    BY <1>2, <2>1, <2>4, <2>5, SMT DEF Between
<1>3. CASE Dma(b)
  <2>1. read_byte(io, b) = Dma_read_byte(io, b)
    BY <1>3, SMT DEF Between
  <2>2. QED
    BY <1>3, <2>1, SMT DEF Between, Absent, Dma_read_byte
<1>4. CASE Timer(b)
  <2>1. read_byte(io, b) = Timer_read_byte(io, b)
    BY <1>4, SMT DEF Between
  <2>2. QED
    BY <1>4, <2>1, SMT DEF Between, Absent, Timer_read_byte
<1>5. CASE SerialCommunication(b)
  <2>1. read_byte(io, b) = SerialCommunication_read_byte(io, b)
    BY <1>5, SMT DEF Between
  <2>2. b \in \h136..\h137 <=> Between(b, \h136, \h137)
    BY SMT DEF Between
  <2>3. SerialCommunication_read_byte(io, b) =
          IF Between(b, \h136, \h137) THEN Todo ELSE IF OfSerial(b) THEN Kept(io, b) ELSE 0
    BY <2>2, SerialOnes, SMT DEF SerialCommunication_read_byte, OfSerial, Between
  <2>4. QED
    BY <1>5, <2>1, <2>3, SMT DEF Between, Absent, OfSerial
<1>6. CASE KeypadInput(b)
  <2>1. read_byte(io, b) = KeypadInput_read_byte(io, b)
    BY <1>6, SMT DEF Between
  <2>2. QED
    BY <1>6, <2>1, SMT DEF Between, Absent, KeypadInput_read_byte
<1>7. CASE InterruptWaitstate(b)
  <2>1. read_byte(io, b) = InterruptWaitstate_read_byte(io, b)
    BY <1>7, SMT DEF Between
  <2>2. b \in (\h206..\h207) \cup (\h20a..\h2ff) \cup {\h410}
          <=> Between(b, \h206, \h207) \/ Between(b, \h20a, \h2ff) \/ b = \h410
    BY SMT DEF Between
  <2>3. InterruptWaitstate_read_byte(io, b) =
          IF OfInterruptUnit(b) THEN Kept(io, b)
          ELSE IF Between(b, \h206, \h207) \/ Between(b, \h20a, \h2ff) \/ b = \h410 THEN 0
          ELSE Todo
    BY <2>2, InterruptUnitRegisters, SMT DEF InterruptWaitstate_read_byte, OfInterruptUnit, Between
  <2>4. QED
    BY <1>7, <2>1, <2>3, SMT DEF Between, Absent, OfInterruptUnit
<1>8. CASE ~claims_address(b)
  <2>1. read_byte(io, b) = Todo
    BY <1>8, SMT DEF Between, claims_address
  <2>2. QED
    BY <1>8, <2>1, Claimed, SMT DEF Between, Absent, OfInterruptUnit
<1>9. QED
  BY <1>1, <1>2, <1>3, <1>4, <1>5, <1>6, <1>7, <1>8, SMT DEF claims_address

-----------------------------------------------------------------------------
(* What storing a byte in a register does. *)

\* The stores that are not kept.
NotStored(b) ==
  \/ Between(b, \h06, \h07) \/ Between(b, \h4e, \h4f) \/ Between(b, \h56, \h5f)
  \/ Absent(b) \/ Between(b, \ha8, \haf)
  \/ Between(b, \he0, \hff)
  \/ Between(b, \h110, \h11f)
  \/ Between(b, \h12c, \h131) \/ Between(b, \h136, \h13f) \/ Between(b, \h142, \h14f)
  \/ Between(b, \h158, \h1ff)
  \/ Between(b, \h200, \h700000) /\ ~OfInterruptUnit(b)

\* The high byte of a control register of a DMA channel, and the one of the serial port.
Enables(b) == Between(b, \hb0, \hdf) /\ (b - \hb0) % 12 = 11
SerialControl(b) == Between(b, \h128, \h129)

LEMMA ControlBytes ==
  ASSUME NEW b \in Int, Between(b, \hb0, \hdf)
  PROVE  DmaControl(b) /\ b % 2 = 1 <=> Enables(b)
<1>1. DmaControl(b) <=> (b - 176) % 12 >= 10
  BY SMT DEF DmaControl, Between
<1> DEFINE q == (b - 176) \div 12
           r == (b - 176) % 12
<1>2. q \in Int /\ r \in Int /\ b = 176 + 12 * q + r /\ 0 <= r /\ r < 12
  BY SMT
<1>3. (b - 176) % 12 = r
  OBVIOUS
<1> HIDE DEF q, r
<1>4. b % 2 = r % 2
  BY <1>2, SMT
<1>5. QED
  BY <1>1, <1>2, <1>3, <1>4, SMT DEF Enables

LEMMA SerialControlBytes ==
  ASSUME NEW b \in Int
  PROVE  b \in \h128..\h129 <=> SerialControl(b)
BY SMT DEF SerialControl, Between

LEMMA WriteCases ==
  ASSUME NEW io, NEW byte, NEW b \in Int, Between(b, 0, \h700000)
  PROVE  /\ NotStored(b) => write_byte(io, b, byte) = io
         /\ ReadsWave(b) => write_byte(io, b, byte)
                              = Put(io, inactive_channel_3_wave_pattern(io, b), byte)
         /\ Enables(b) => write_byte(io, b, byte) = Put(io, b, byte % 128)
         /\ SerialControl(b) => write_byte(io, b, byte) = SetsReady(Put(io, b, byte))
         /\ ~NotStored(b) /\ ~ReadsWave(b) /\ ~Enables(b) /\ ~SerialControl(b)
              => write_byte(io, b, byte) = Put(io, b, byte)
<1> USE Devices DEF NotStored, ReadsWave, Enables, SerialControl
<1>1. CASE Lcd(b)
  <2>1. write_byte(io, b, byte) = Lcd_write_byte(io, b, byte)
    BY <1>1, SMT DEF Between, write_byte
  <2>2. Lcd_write_byte(io, b, byte) =
          IF Between(b, \h06, \h07) \/ Between(b, \h4e, \h4f) \/ Between(b, \h56, \h5f)
          THEN io ELSE Put(io, b, byte)
    BY SMT DEF Lcd_write_byte, Between
  <2>3. QED
    BY <1>1, <2>1, <2>2, SMT DEF Between, Absent
<1>2. CASE Sound(b)
  <2>1. write_byte(io, b, byte) = Sound_write_byte(io, b, byte)
    BY <1>2, SMT DEF Between, write_byte
  <2>2. b \in \h90..\h9f <=> Between(b, \h90, \h9f)
    BY SMT DEF Between
  <2>3. b \in \ha8..\haf <=> Between(b, \ha8, \haf)
    BY SMT DEF Between
  <2>4. Absent(b) => ~Between(b, \h90, \h9f) /\ ~Between(b, \ha8, \haf)
    BY SMT DEF Absent, Between
  <2>5. Sound_write_byte(io, b, byte) =
          IF Absent(b) \/ Between(b, \ha8, \haf) THEN io
          ELSE IF Between(b, \h90, \h9f)
          THEN Put(io, inactive_channel_3_wave_pattern(io, b), byte)
          ELSE Put(io, b, byte)
    BY <2>2, <2>3, <2>4, AbsentUnimplemented, SMT DEF Sound_write_byte, Between
  <2>6. QED
    BY <1>2, <2>1, <2>4, <2>5, SMT DEF Between
<1>3. CASE Dma(b)
  <2>1. write_byte(io, b, byte) = Dma_write_byte(io, b, byte)
    BY <1>3, SMT DEF Between, write_byte
  <2>2. Between(b, \he0, \hff) => Dma_write_byte(io, b, byte) = io
    BY SMT DEF Between, Dma_write_byte, DmaControl
  <2>3. Between(b, \hb0, \hdf) =>
          Dma_write_byte(io, b, byte) = IF Enables(b) THEN Put(io, b, byte % 128) ELSE Put(io, b, byte)
    BY ControlBytes, SMT DEF Between, Dma_write_byte
  <2>4. QED
    BY <1>3, <2>1, <2>2, <2>3, SMT DEF Between, Absent
<1>4. CASE Timer(b)
  <2>1. write_byte(io, b, byte) = Timer_write_byte(io, b, byte)
    BY <1>4, SMT DEF Between, write_byte
  <2>2. QED
    BY <1>4, <2>1, SMT DEF Between, Absent, Timer_write_byte
<1>5. CASE SerialCommunication(b)
  <2>1. write_byte(io, b, byte) = SerialCommunication_write_byte(io, b, byte)
    BY <1>5, SMT DEF Between, write_byte
  <2>2. b \in \h128..\h129 <=> SerialControl(b)
    BY SerialControlBytes
  <2>3. SerialControl(b) => SerialCommunication_write_byte(io, b, byte) = SetsReady(Put(io, b, byte))
    BY <2>2, SMT DEF SerialCommunication_write_byte, SerialRegisters, Between
  <2>4. ~SerialControl(b) => SerialCommunication_write_byte(io, b, byte) =
          IF OfSerial(b) THEN Put(io, b, byte) ELSE io
    BY <2>2, SerialOnes, SMT DEF SerialCommunication_write_byte
  <2>5. QED
    BY <1>5, <2>1, <2>3, <2>4, SMT DEF Between, Absent, OfSerial
<1>6. CASE KeypadInput(b)
  <2>1. write_byte(io, b, byte) = KeypadInput_write_byte(io, b, byte)
    BY <1>6, SMT DEF Between, write_byte
  <2>2. QED
    BY <1>6, <2>1, SMT DEF Between, Absent, KeypadInput_write_byte
<1>7. CASE InterruptWaitstate(b)
  <2>1. write_byte(io, b, byte) = InterruptWaitstate_write_byte(io, b, byte)
    BY <1>7, SMT DEF Between, write_byte
  <2>2. InterruptWaitstate_write_byte(io, b, byte) = IF OfInterruptUnit(b) THEN Put(io, b, byte) ELSE io
    BY InterruptUnitRegisters, SMT DEF InterruptWaitstate_write_byte
  <2>3. QED
    BY <1>7, <2>1, <2>2, SMT DEF Between, Absent
<1>8. claims_address(b)
  BY Claimed, SMT DEF Between
<1>9. QED
  BY <1>1, <1>2, <1>3, <1>4, <1>5, <1>6, <1>7, <1>8, SMT DEF claims_address

LEMMA ByteIs == \A x : x \in Byte <=> x \in Int /\ Between(x, 0, 255)
<1>1. PICK n \in Int : n = 255
  BY SMT
<1>2. \A x : x \in 0..n <=> x \in Int /\ 0 <= x /\ x <= n
  BY SMT
<1>3. QED
  BY <1>1, <1>2, SMT DEF Byte, Between

\* The places of stored bytes: the registers, and the second bank of the wave pattern.
IoPlaces ==
  {b \in Int : Between(b, 0, \h700000) \/ Between(b - \h1000000, \h90, \h9f)}

IoTyped(io) == \A b \in DOMAIN io : b \in IoPlaces /\ io[b] \in Byte

LEMMA KeptAfterPut ==
  ASSUME NEW io, NEW b, NEW x, NEW c
  PROVE  Kept(Put(io, b, x), c) = IF c = b THEN x ELSE Kept(io, c)
BY SMT DEF Kept, Put

LEMMA InitialBytes ==
  ASSUME NEW b \in Int
  PROVE  InitialByte(b) = IF Between(b, \h120, \h127) \/ Between(b, \h12a, \h12b) THEN 255 ELSE 0
BY SMT DEF InitialByte, Between

LEMMA KeptIsByte ==
  ASSUME NEW io, IoTyped(io), NEW b \in Int
  PROVE  Kept(io, b) \in Byte
<1>1. InitialByte(b) \in Byte
  BY InitialBytes, ByteIs, SMT DEF Between
<1>2. QED
  BY <1>1, SMT DEF Kept, IoTyped

LEMMA WavePlaces ==
  ASSUME NEW io, NEW b \in Int, ReadsWave(b)
  PROVE  inactive_channel_3_wave_pattern(io, b) \in {b, b + \h1000000}
BY SMT DEF inactive_channel_3_wave_pattern

LEMMA ReadIsByte ==
  ASSUME NEW io, IoTyped(io), NEW b \in Int, ~ReadsTodo(b)
  PROVE  read_byte(io, b) \in Byte /\ read_byte(io, b) # Todo
<1>1. 0 \in Byte /\ Todo \notin Byte
  BY ByteIs, SMT DEF Todo, Between
<1>2. ReadsWave(b) => inactive_channel_3_wave_pattern(io, b) \in Int
  BY WavePlaces, SMT
<1>3. /\ Kept(io, b) \in Byte
      /\ ReadsWave(b) => Kept(io, inactive_channel_3_wave_pattern(io, b)) \in Byte
  BY <1>2, KeptIsByte, SMT
<1>4. QED
  BY <1>1, <1>3, ReadCases, SMT

\* Where the byte comes from that is read.
Source(io, b) == IF ReadsWave(b) THEN inactive_channel_3_wave_pattern(io, b) ELSE b

LEMMA ReadAfterPut ==
  ASSUME NEW io, NEW d \in Int, NEW x, NEW c \in Int, d # Source(io, c),
         ReadsWave(c) => d # \h70
  PROVE  read_byte(Put(io, d, x), c) = read_byte(io, c) /\ Source(Put(io, d, x), c) = Source(io, c)
<1>1. ReadsWave(c) => inactive_channel_3_wave_pattern(Put(io, d, x), c)
                        = inactive_channel_3_wave_pattern(io, c)
  BY KeptAfterPut, SMT DEF inactive_channel_3_wave_pattern
<1>2. Kept(Put(io, d, x), Source(io, c)) = Kept(io, Source(io, c))
  BY KeptAfterPut, SMT
<1>3. ReadsWave(c) => ~ReadsTodo(c) /\ ~ReadsZero(c)
  BY SMT DEF ReadsWave, ReadsTodo, ReadsZero, Between, Absent, OfInterruptUnit
<1>4. QED
  BY <1>1, <1>2, <1>3, ReadCases, SMT DEF Source

\* A bit of a byte that is clear can be set.
SetsBit3(x) == IF (x \div 8) % 2 = 0 THEN {x, x + 8} ELSE {x}

LEMMA ReadyBit ==
  ASSUME NEW x \in Byte
  PROVE  /\ \A y \in SetsBit3(x) : y \in Byte
         /\ (x \div 8) % 2 = 0 => ((x + 8) \div 8) % 2 = 1
<1>1. x \in Int /\ 0 <= x /\ x <= 255
  BY ByteIs, SMT DEF Between
<1>2. (x \div 8) % 2 = 0 => x + 8 <= 255
  BY <1>1, SMT
<1>3. (x \div 8) % 2 = 0 => ((x + 8) \div 8) % 2 = 1
  BY <1>1, SMT
<1>4. \A y \in SetsBit3(x) : y \in Byte
  BY <1>1, <1>2, ByteIs, SMT DEF SetsBit3, Between
<1>5. QED
  BY <1>3, <1>4

LEMMA SetsReadyCases ==
  ASSUME NEW io
  PROVE  \/ SetsReady(io) = io
         \/ /\ SetsReady(io) = Put(io, \h128, Kept(io, \h128) + 8)
            /\ (Kept(io, \h128) \div 8) % 2 = 0
BY SMT DEF SetsReady

\* A store to one register changes no other one, but for the serial port and the
\* banks of the wave pattern.
LEMMA StoreToOther ==
  ASSUME NEW io, NEW b \in Int, Between(b, 0, \h700000), NEW byte,
         NEW c \in Int, c # b,
         ~(b = \h129 /\ c = \h128), ~(b = \h70 /\ ReadsWave(c))
  PROVE  read_byte(write_byte(io, b, byte), c) = read_byte(io, c)
<1> DEFINE new == write_byte(io, b, byte)
<1>1. CASE ReadsTodo(c)
  BY <1>1, ReadCases, SMT
<1>2. CASE ~ReadsTodo(c)
  <2>1. Between(c, 0, \h700000)
    BY <1>2, SMT DEF ReadsTodo
  <2>2. CASE ReadsWave(b)
    <3>1. new = Put(io, inactive_channel_3_wave_pattern(io, b), byte)
      BY <2>2, WriteCases, SMT
    <3>2. PICK d \in Int : d = inactive_channel_3_wave_pattern(io, b) /\ d \in {b, b + \h1000000}
      BY <2>2, WavePlaces, SMT
    <3>3. d # Source(io, c)
      BY <2>1, <2>2, <3>2, SMT DEF Source, ReadsWave, Between, inactive_channel_3_wave_pattern
    <3>4. d # \h70
      BY <2>2, <3>2, SMT DEF ReadsWave, Between
    <3>5. read_byte(Put(io, d, byte), c) = read_byte(io, c)
      BY <3>3, <3>4, ReadAfterPut, SMT
    <3>6. QED
      BY <3>1, <3>2, <3>5, SMT
  <2>3. CASE ~ReadsWave(b)
    <3>1. b # Source(io, c) /\ (ReadsWave(c) => b # \h70)
      <4>1. CASE ReadsWave(c)
        <5>1. Source(io, c) = c \/ Source(io, c) = c + \h1000000
          BY <4>1, WavePlaces, SMT DEF Source
        <5>2. QED
          BY <4>1, <5>1, SMT DEF ReadsWave, Between
      <4>2. CASE ~ReadsWave(c)
        BY <4>2, SMT DEF Source
      <4>3. QED
        BY <4>1, <4>2
    <3>2. \A x : read_byte(Put(io, b, x), c) = read_byte(io, c)
                 /\ Source(Put(io, b, x), c) = Source(io, c)
      BY <3>1, ReadAfterPut, SMT
    <3>3. CASE SerialControl(b)
      <4>1. new = SetsReady(Put(io, b, byte))
        BY <3>3, WriteCases, SMT
      <4>2. c # \h128
        BY <3>3, SMT DEF SerialControl, Between
      <4>3. \h128 # Source(io, c)
        <5>1. ReadsWave(c) => Source(io, c) = c \/ Source(io, c) = c + \h1000000
          BY WavePlaces, SMT DEF Source
        <5>2. QED
          BY <4>2, <5>1, SMT DEF Source, ReadsWave, Between
      <4>4. PICK d \in Int : d = \h128
        BY SMT
      <4>5. \A i, x : d # Source(i, c) => read_byte(Put(i, d, x), c) = read_byte(i, c)
        BY <4>4, ReadAfterPut, SMT
      <4>6. QED
        BY <3>2, <4>1, <4>3, <4>4, <4>5, SetsReadyCases, SMT
    <3>4. CASE ~SerialControl(b)
      <4>1. \/ new = io \/ new = Put(io, b, byte) \/ new = Put(io, b, byte % 128)
        BY <2>3, <3>4, WriteCases, SMT
      <4>2. QED
        BY <3>2, <4>1, SMT
    <3>5. QED
      BY <3>3, <3>4
  <2>4. QED
    BY <2>2, <2>3
<1>3. QED
  BY <1>1, <1>2

\* The registers that no store changes.
KeepsOld(b) ==
  \/ Between(b, \h06, \h07) \/ Between(b, \h10, \h47) \/ Between(b, \h4c, \h4f)
  \/ Between(b, \h54, \h5f) \/ Between(b, \ha8, \haf)
  \/ Between(b, \hb0, \hdf) /\ (b - \hb0) % 12 < 10
  \/ Between(b, \he0, \hff) \/ Between(b, \h110, \h11f) \/ Between(b, \h12c, \h131)
  \/ Between(b, \h136, \h13f) \/ Between(b, \h142, \h14f) \/ Between(b, \h158, \h1ff)
  \/ Between(b, \h206, \h207) \/ Between(b, \h20a, \h2ff) \/ b = \h410

\* What a register reads as after a store to it.
Outcomes(b, old, byte) ==
  IF KeepsOld(b) THEN {old}
  ELSE IF Enables(b) THEN {byte % 128}
  ELSE IF b = \h128 THEN SetsBit3(byte) ELSE {byte}

LEMMA OldIsKept ==
  ASSUME NEW b \in Int, ~ReadsTodo(b)
  PROVE  /\ ReadsZero(b) => KeepsOld(b)
         /\ NotStored(b) => KeepsOld(b)
         /\ KeepsOld(b) => ReadsZero(b) \/ NotStored(b)
         /\ KeepsOld(b) => ~Enables(b) /\ ~SerialControl(b) /\ ~ReadsWave(b)
<1>1. Between(b, \hb0, \hff) =>
        (DmaControl(b) <=> Between(b, \hb0, \hdf) /\ (b - \hb0) % 12 >= 10)
  BY SMT DEF DmaControl, Between
<1>2. (b - \hb0) % 12 \in Int
  BY SMT
<1>3. ReadsZero(b) => KeepsOld(b)
  BY <1>1, <1>2, SMT DEF ReadsZero, KeepsOld, Between
<1>4. NotStored(b) => KeepsOld(b)
  BY SMT DEF NotStored, KeepsOld, Between, ReadsTodo
<1>5. KeepsOld(b) => ReadsZero(b) \/ NotStored(b)
  BY <1>1, <1>2, SMT DEF ReadsZero, NotStored, KeepsOld, Between
<1>6. KeepsOld(b) => ~Enables(b) /\ ~SerialControl(b) /\ ~ReadsWave(b)
  BY SMT DEF KeepsOld, Enables, SerialControl, ReadsWave, Between
<1>7. QED
  BY <1>3, <1>4, <1>5, <1>6

LEMMA StoreToSelf ==
  ASSUME NEW io, IoTyped(io), NEW b \in Int, ~ReadsTodo(b), NEW byte \in Byte
  PROVE  read_byte(write_byte(io, b, byte), b) \in Outcomes(b, read_byte(io, b), byte)
<1> DEFINE new == write_byte(io, b, byte)
<1>1. Between(b, 0, \h700000)
  BY SMT DEF ReadsTodo
<1>2. CASE KeepsOld(b)
  <2>1. CASE ReadsZero(b)
    BY <1>2, <2>1, ReadCases, SMT DEF Outcomes
  <2>2. CASE NotStored(b)
    BY <1>1, <1>2, <2>2, WriteCases, SMT DEF Outcomes
  <2>3. QED
    BY <1>2, <2>1, <2>2, OldIsKept
<1>3. CASE ~KeepsOld(b)
  <2>1. ~ReadsZero(b) /\ ~NotStored(b)
    BY <1>3, OldIsKept
  <2>2. CASE ReadsWave(b)
    <3>1. PICK d \in Int : d = inactive_channel_3_wave_pattern(io, b) /\ d # \h70
      BY <2>2, WavePlaces, SMT DEF ReadsWave, Between
    <3>2. new = Put(io, d, byte)
      BY <1>1, <2>2, <3>1, WriteCases, SMT
    <3>3. inactive_channel_3_wave_pattern(new, b) = d
      BY <3>1, <3>2, KeptAfterPut, SMT DEF inactive_channel_3_wave_pattern
    <3>4. Kept(new, d) = byte
      BY <3>2, KeptAfterPut, SMT
    <3>5. read_byte(new, b) = byte
      BY <2>2, <3>3, <3>4, ReadCases, SMT
    <3>6. ~Enables(b) /\ b # \h128
      BY <2>2, SMT DEF ReadsWave, Enables, Between
    <3>7. QED
      BY <1>3, <3>5, <3>6, SMT DEF Outcomes
  <2>3. CASE ~ReadsWave(b)
    <3>1. read_byte(new, b) = Kept(new, b)
      BY <2>1, <2>3, ReadCases, SMT
    <3>2. CASE Enables(b)
      BY <1>1, <1>3, <3>1, <3>2, WriteCases, KeptAfterPut, SMT DEF Outcomes
    <3>3. CASE SerialControl(b)
      <4>1. new = SetsReady(Put(io, b, byte))
        BY <1>1, <3>3, WriteCases, SMT
      <4>2. Kept(Put(io, b, byte), b) = byte
        BY KeptAfterPut, SMT
      <4>3. b = \h128 => Kept(new, b) \in SetsBit3(byte)
        BY <4>1, <4>2, SetsReadyCases, KeptAfterPut, SMT DEF SetsBit3
      <4>4. b # \h128 => Kept(new, b) = byte
        BY <4>1, <4>2, SetsReadyCases, KeptAfterPut, SMT
      <4>5. ~Enables(b)
        BY <3>3, SMT DEF SerialControl, Enables, Between
      <4>6. QED
        BY <1>3, <3>1, <4>3, <4>4, <4>5, SMT DEF Outcomes
    <3>4. CASE ~Enables(b) /\ ~SerialControl(b)
      <4>1. new = Put(io, b, byte)
        BY <1>1, <2>1, <2>3, <3>4, WriteCases, SMT
      <4>2. b # \h128
        BY <3>4, SMT DEF SerialControl, Between
      <4>3. QED
        BY <1>3, <3>1, <3>4, <4>1, <4>2, KeptAfterPut, SMT DEF Outcomes
    <3>5. QED
      BY <3>2, <3>3, <3>4
  <2>4. QED
    BY <2>2, <2>3
<1>4. QED
  BY <1>2, <1>3

\* The other byte of the control register of the serial port.
LEMMA StoreToMode ==
  ASSUME NEW io, NEW byte
  PROVE  read_byte(write_byte(io, \h129, byte), \h128) \in SetsBit3(read_byte(io, \h128))
<1>1. PICK b, c \in Int : b = \h129 /\ c = \h128
  BY SMT
<1>2. /\ Between(b, 0, \h700000) /\ SerialControl(b)
      /\ ~ReadsTodo(c) /\ ~ReadsZero(c) /\ ~ReadsWave(c)
  BY <1>1, SMT DEF Between, SerialControl, ReadsTodo, ReadsZero, ReadsWave, Absent, OfInterruptUnit
<1>3. \A i : read_byte(i, c) = Kept(i, c)
  BY <1>2, ReadCases, SMT
<1>4. write_byte(io, b, byte) = SetsReady(Put(io, b, byte))
  BY <1>2, WriteCases, SMT
<1>5. Kept(Put(io, b, byte), c) = Kept(io, c)
  BY <1>1, KeptAfterPut, SMT
<1>6. Kept(SetsReady(Put(io, b, byte)), c) \in SetsBit3(Kept(io, c))
  BY <1>1, <1>5, SetsReadyCases, KeptAfterPut, SMT DEF SetsBit3
<1>7. QED
  BY <1>1, <1>3, <1>4, <1>6, SMT

\* The places where a store to a register puts bytes.
PlacesOf(b) ==
  {b} \cup (IF b = \h129 THEN {\h128} ELSE {})
      \cup (IF ReadsWave(b) THEN {b + \h1000000} ELSE {})

PutAt(io, d, x) ==
  IoTyped(Put(io, d, x)) /\ DOMAIN Put(io, d, x) = DOMAIN io \cup {d}

LEMMA PutTyped ==
  ASSUME NEW io, IoTyped(io), NEW d \in IoPlaces, NEW x \in Byte
  PROVE  PutAt(io, d, x)
BY SMT DEF PutAt, IoTyped, Put

LEMMA StoreTyped ==
  ASSUME NEW io, IoTyped(io), NEW b \in Int, Between(b, 0, \h700000), NEW byte \in Byte
  PROVE  /\ IoTyped(write_byte(io, b, byte))
         /\ DOMAIN io \subseteq DOMAIN write_byte(io, b, byte)
         /\ DOMAIN write_byte(io, b, byte) \subseteq DOMAIN io \cup PlacesOf(b)
<1> DEFINE new == write_byte(io, b, byte)
<1>1. b \in IoPlaces /\ \h128 \in IoPlaces
  BY SMT DEF IoPlaces, Between
<1>2. byte % 128 \in Byte
  BY ByteIs, SMT DEF Between
<1>3. CASE ReadsWave(b)
  <2>1. PICK d \in Int : d = inactive_channel_3_wave_pattern(io, b) /\ d \in {b, b + \h1000000}
    BY <1>3, WavePlaces, SMT
  <2>2. new = Put(io, d, byte)
    BY <1>3, <2>1, WriteCases, SMT
  <2>3. d \in IoPlaces
    BY <1>1, <1>3, <2>1, SMT DEF IoPlaces, ReadsWave, Between
  <2>4. d \in PlacesOf(b)
    BY <1>3, <2>1, SMT DEF PlacesOf
  <2>5. PutAt(io, d, byte)
    BY <2>3, PutTyped, SMT
  <2>6. QED
    BY <2>2, <2>4, <2>5, SMT DEF PutAt
<1>4. CASE SerialControl(b)
  <2>1. new = SetsReady(Put(io, b, byte))
    BY <1>4, WriteCases, SMT
  <2> DEFINE mid == Put(io, b, byte)
  <2>2. IoTyped(mid) /\ DOMAIN mid = DOMAIN io \cup {b}
    <3>1. PutAt(io, b, byte)
      BY <1>1, PutTyped, SMT
    <3>2. QED
      BY <3>1, SMT DEF PutAt
  <2> HIDE DEF mid
  <2>3. Kept(mid, \h128) \in Byte
    BY <2>2, KeptIsByte, SMT
  <2>4. (Kept(mid, \h128) \div 8) % 2 = 0 => Kept(mid, \h128) + 8 \in Byte
    BY <2>3, ReadyBit, SMT DEF SetsBit3
  <2>5. \h128 \in PlacesOf(b) /\ b \in PlacesOf(b)
    BY <1>4, SMT DEF PlacesOf, SerialControl, Between
  <2>6. CASE SetsReady(mid) = mid
    BY <2>1, <2>2, <2>5, <2>6, SMT DEF mid
  <2>7. CASE SetsReady(mid) # mid
    <3>1. /\ SetsReady(mid) = Put(mid, \h128, Kept(mid, \h128) + 8)
          /\ Kept(mid, \h128) + 8 \in Byte
      BY <2>4, <2>7, SetsReadyCases, SMT
    <3>2. PICK x \in Byte, d \in IoPlaces : x = Kept(mid, \h128) + 8 /\ d = \h128
      BY <1>1, <3>1, SMT
    <3>3. PutAt(mid, d, x)
      BY <2>2, PutTyped, SMT
    <3>4. QED
      BY <2>1, <2>2, <2>5, <3>1, <3>2, <3>3, SMT DEF mid, PutAt
  <2>8. QED
    BY <2>6, <2>7
<1>5. CASE ~ReadsWave(b) /\ ~SerialControl(b)
  <2>1. new = io \/ new = Put(io, b, byte) \/ new = Put(io, b, byte % 128)
    BY <1>5, WriteCases, SMT
  <2>2. b \in PlacesOf(b)
    BY SMT DEF PlacesOf
  <2>3. PutAt(io, b, byte) /\ PutAt(io, b, byte % 128)
    BY <1>1, <1>2, PutTyped, SMT
  <2>4. QED
    BY <2>1, <2>2, <2>3, SMT DEF PutAt
<1>6. QED
  BY <1>3, <1>4, <1>5

-----------------------------------------------------------------------------
(* A store of several bytes to the registers. *)

\* What is kept after each byte: the recursive function of write_bytes.
Steps(io, b, bytes) ==
  CHOOSE after : after = [n \in 0..Len(bytes) |->
    IF n = 0 THEN io ELSE write_byte(after[n - 1], b + n - 1, bytes[n])]

LEMMA StepsOfStore ==
  ASSUME NEW io, NEW b, NEW bytes
  PROVE  write_bytes(io, b, bytes) = Steps(io, b, bytes)[Len(bytes)]
BY Zenon DEF write_bytes, Steps

LEMMA StepsAreThere ==
  ASSUME NEW io, NEW b, NEW bytes, Len(bytes) \in {1, 2, 4}
  PROVE  LET after == Steps(io, b, bytes)
         IN  after = [n \in 0..Len(bytes) |->
               IF n = 0 THEN io ELSE write_byte(after[n - 1], b + n - 1, bytes[n])]
<1> DEFINE Chained(f) == [n \in 0..Len(bytes) |->
             IF n = 0 THEN io ELSE write_byte(f[n - 1], b + n - 1, bytes[n])]
           s1 == write_byte(io, b + 1 - 1, bytes[1])
           s2 == write_byte(s1, b + 2 - 1, bytes[2])
           s3 == write_byte(s2, b + 3 - 1, bytes[3])
           s4 == write_byte(s3, b + 4 - 1, bytes[4])
           reached(n) == CASE n = 0 -> io [] n = 1 -> s1 [] n = 2 -> s2 [] n = 3 -> s3 [] n = 4 -> s4
           all == [n \in 0..Len(bytes) |-> reached(n)]
<1>1. \E f : f = Chained(f)
  <2>1. all = Chained(all)
    <3>1. ASSUME NEW n \in 0..Len(bytes)
          PROVE  all[n] = IF n = 0 THEN io ELSE write_byte(all[n - 1], b + n - 1, bytes[n])
      <4>1. n \in {0, 1, 2, 3, 4}
        BY SMT
      <4>2. n > 0 => n - 1 \in 0..Len(bytes)
        BY SMT
      <4>3. all[n] = reached(n)
        OBVIOUS
      <4>4. n > 0 => all[n - 1] = reached(n - 1)
        BY <4>2
      <4> HIDE DEF all
      <4>5. QED
        BY <4>1, <4>3, <4>4, SMT
    <3> HIDE DEF reached
    <3>2. all = [n \in 0..Len(bytes) |-> all[n]]
      BY SMT
    <3> HIDE DEF all
    <3>3. QED
      BY <3>1, <3>2, Zenon
  <2>2. QED
    BY <2>1, Zenon
<1>2. QED
  BY <1>1, Zenon DEF Steps

LEMMA FirstStep ==
  ASSUME NEW io, NEW b, NEW bytes, Len(bytes) \in {1, 2, 4}
  PROVE  Steps(io, b, bytes)[0] = io
<1>1. 0 \in 0..Len(bytes)
  BY SMT
<1>2. QED
  BY <1>1, StepsAreThere, SMT

LEMMA NextStep ==
  ASSUME NEW io, NEW b \in Int, NEW bytes, Len(bytes) \in {1, 2, 4}, NEW k \in 0..(Len(bytes) - 1)
  PROVE  Steps(io, b, bytes)[k + 1] = write_byte(Steps(io, b, bytes)[k], b + k, bytes[k + 1])
<1>1. k + 1 \in 0..Len(bytes) /\ k + 1 # 0 /\ k + 1 - 1 = k /\ b + (k + 1) - 1 = b + k
  BY SMT
<1> DEFINE after == Steps(io, b, bytes)
<1>2. after = [n \in 0..Len(bytes) |->
               IF n = 0 THEN io ELSE write_byte(after[n - 1], b + n - 1, bytes[n])]
  BY StepsAreThere
<1> HIDE DEF after
<1>3. after[k + 1] = write_byte(after[k + 1 - 1], b + (k + 1) - 1, bytes[k + 1])
  BY <1>1, <1>2, SMT
<1>4. QED
  BY <1>1, <1>3, SMT DEF after

\* The registers that a store to one of them may change.
Touches(b, c) == c = b \/ (b = \h129 /\ c = \h128) \/ (b = \h70 /\ ReadsWave(c))

\* After k of the bytes: what was stored is there, and nothing else has changed.
SoFar(before, io, b, bytes, k) ==
  /\ IoTyped(io)
  /\ DOMAIN before \subseteq DOMAIN io
  /\ \A d \in DOMAIN io : d \in DOMAIN before \/ \E j \in 0..(k - 1) : d \in PlacesOf(b + j)
  /\ \A c \in Int : (\A j \in 0..(k - 1) : ~Touches(b + j, c))
                      => read_byte(io, c) = read_byte(before, c)
  /\ \A j \in 0..(k - 1) :
       read_byte(io, b + j) \in Outcomes(b + j, read_byte(before, b + j), bytes[j + 1])

LEMMA OneByteMore ==
  ASSUME NEW before, NEW io, NEW b \in Int, NEW bytes, NEW k \in 0..3,
         \A j \in 0..k : ~ReadsTodo(b + j) /\ bytes[j + 1] \in Byte,
         SoFar(before, io, b, bytes, k)
  PROVE  SoFar(before, write_byte(io, b + k, bytes[k + 1]), b, bytes, k + 1)
<1> DEFINE e == b + k
           byte == bytes[k + 1]
           new == write_byte(io, e, byte)
<1>1. e \in Int /\ ~ReadsTodo(e) /\ byte \in Byte
  BY SMT
<1>2. Between(e, 0, \h700000)
  BY <1>1, SMT DEF ReadsTodo
<1>3. IoTyped(io)
  BY SMT DEF SoFar
<1>4. e = b + k /\ byte = bytes[k + 1]
  OBVIOUS
<1>5. 0..(k + 1 - 1) = 0..(k - 1) \cup {k}
  BY SMT
<1> HIDE DEF e, byte
<1>6. /\ IoTyped(new) /\ DOMAIN io \subseteq DOMAIN new
      /\ DOMAIN new \subseteq DOMAIN io \cup PlacesOf(e)
  BY <1>1, <1>2, <1>3, StoreTyped, SMT
<1>7. \A c \in Int : ~Touches(e, c) => read_byte(new, c) = read_byte(io, c)
  BY <1>1, <1>2, StoreToOther, SMT DEF Touches
<1>8. \A c \in Int : (\A j \in 0..(k + 1 - 1) : ~Touches(b + j, c))
                      => read_byte(new, c) = read_byte(before, c)
  BY <1>4, <1>5, <1>7, SMT DEF SoFar
<1>9. read_byte(io, e) = read_byte(before, e)
  <2>1. \A j \in 0..(k - 1) : ~Touches(b + j, e)
    BY <1>4, SMT DEF Touches, ReadsWave, Between
  <2>2. QED
    BY <1>1, <2>1, SMT DEF SoFar
<1>10. read_byte(new, e) \in Outcomes(e, read_byte(before, e), byte)
  BY <1>1, <1>3, <1>9, StoreToSelf, SMT
<1>11. ASSUME NEW j \in 0..(k - 1)
       PROVE  read_byte(new, b + j) \in Outcomes(b + j, read_byte(before, b + j), bytes[j + 1])
  <2>1. b + j \in Int /\ b + j < e /\ e < b + j + 4
    BY <1>4, SMT
  <2>2. read_byte(io, b + j) \in Outcomes(b + j, read_byte(before, b + j), bytes[j + 1])
    BY SMT DEF SoFar
  <2>3. CASE ~Touches(e, b + j)
    BY <1>7, <2>1, <2>2, <2>3, SMT
  <2>4. CASE Touches(e, b + j)
    <3>1. e = \h129 /\ b + j = \h128
      BY <2>1, <2>4, SMT DEF Touches, ReadsWave, Between
    <3>2. PICK c \in Int : c = b + j /\ c = \h128
      BY <3>1, SMT
    <3>3. read_byte(new, c) \in SetsBit3(read_byte(io, c))
      BY <3>1, <3>2, StoreToMode, SMT
    <3>4. ~KeepsOld(c) /\ ~Enables(c)
      BY <3>2, SMT DEF KeepsOld, Enables, Between
    <3>5. PICK x \in Int : x = bytes[j + 1]
      <4>1. j \in 0..k
        BY SMT
      <4>2. bytes[j + 1] \in Byte
        BY <4>1
      <4>3. QED
        BY <4>2, ByteIs, SMT
    <3>6. read_byte(io, c) \in SetsBit3(x)
      BY <2>2, <3>2, <3>4, <3>5, SMT DEF Outcomes
    <3>7. read_byte(new, c) \in SetsBit3(x)
      <4>1. CASE (x \div 8) % 2 = 0
        <5>1. ((x + 8) \div 8) % 2 = 1
          BY <4>1, SMT
        <5>2. read_byte(io, c) = x \/ read_byte(io, c) = x + 8
          BY <3>6, <4>1, SMT DEF SetsBit3
        <5>3. QED
          BY <3>3, <4>1, <5>1, <5>2, SMT DEF SetsBit3
      <4>2. CASE (x \div 8) % 2 # 0
        BY <3>3, <3>6, <4>2, SMT DEF SetsBit3
      <4>3. QED
        BY <4>1, <4>2
    <3>8. QED
      BY <3>2, <3>4, <3>5, <3>7, SMT DEF Outcomes
  <2>5. QED
    BY <2>3, <2>4
<1>12. \A j \in 0..(k + 1 - 1) :
         read_byte(new, b + j) \in Outcomes(b + j, read_byte(before, b + j), bytes[j + 1])
  BY <1>4, <1>5, <1>10, <1>11, SMT
<1>13. DOMAIN before \subseteq DOMAIN new
  BY <1>6, SMT DEF SoFar
<1>14. \A d \in DOMAIN new :
         d \in DOMAIN before \/ \E j \in 0..(k + 1 - 1) : d \in PlacesOf(b + j)
  <2>1. \A d \in DOMAIN io :
          d \in DOMAIN before \/ \E j \in 0..(k - 1) : d \in PlacesOf(b + j)
    BY SMT DEF SoFar
  <2>2. QED
    BY <1>4, <1>5, <1>6, <2>1, SMT
<1>15. SoFar(before, new, b, bytes, k + 1)
  BY <1>6, <1>8, <1>12, <1>13, <1>14, SMT DEF SoFar
<1>16. QED
  BY <1>15, SMT DEF e, byte

\* All bytes of an access.
LEMMA StoreOfBytes ==
  ASSUME NEW io, IoTyped(io), NEW b \in Int, NEW bytes, Len(bytes) \in {1, 2, 4},
         \A j \in 0..(Len(bytes) - 1) : ~ReadsTodo(b + j) /\ bytes[j + 1] \in Byte
  PROVE  SoFar(io, write_bytes(io, b, bytes), b, bytes, Len(bytes))
<1> DEFINE after(k) == Steps(io, b, bytes)[k]
<1>1. SoFar(io, after(0), b, bytes, 0)
  <2>1. after(0) = io
    BY FirstStep
  <2>2. 0..(0 - 1) = {}
    BY SMT
  <2> HIDE DEF after
  <2>3. QED
    BY <2>1, <2>2, SMT DEF SoFar
<1>2. ASSUME NEW k \in 0..(Len(bytes) - 1), SoFar(io, after(k), b, bytes, k)
      PROVE  SoFar(io, after(k + 1), b, bytes, k + 1)
  <2>1. after(k + 1) = write_byte(after(k), b + k, bytes[k + 1])
    BY NextStep
  <2>2. k \in 0..3 /\ \A j \in 0..k : ~ReadsTodo(b + j) /\ bytes[j + 1] \in Byte
    BY SMT
  <2> HIDE DEF after
  <2>3. SoFar(io, write_byte(after(k), b + k, bytes[k + 1]), b, bytes, k + 1)
    BY <1>2, <2>2, OneByteMore
  <2>4. QED
    BY <2>1, <2>3
<1> HIDE DEF after
<1>3. SoFar(io, after(Len(bytes)), b, bytes, Len(bytes))
  <2>1. PICK n \in {1, 2, 4} : n = Len(bytes)
    BY SMT
  <2>2. \A k \in 0..(n - 1) : SoFar(io, after(k), b, bytes, k) => SoFar(io, after(k + 1), b, bytes, k + 1)
    BY <1>2, <2>1
  <2>3. SoFar(io, after(1), b, bytes, 1)
    <3>1. 0 \in 0..(n - 1) /\ 0 + 1 = 1
      BY SMT
    <3>2. QED
      BY <1>1, <2>2, <3>1, SMT
  <2>4. n = 2 => SoFar(io, after(2), b, bytes, 2)
    BY <2>2, <2>3, SMT
  <2>5. n = 4 => SoFar(io, after(4), b, bytes, 4)
    BY <2>2, <2>3, SMT
  <2>6. QED
    BY <2>1, <2>3, <2>4, <2>5, SMT
<1>4. QED
  BY <1>3, StepsOfStore DEF after

-----------------------------------------------------------------------------
(* What a program may expect of the registers. *)

LEMMA ChannelBytes ==
  ASSUME NEW b \in Int
  PROVE  /\ b \in {\hb0 + 12 * channel + k : channel \in 0..3, k \in 0..9}
              <=> Between(b, \hb0, \hdf) /\ (b - \hb0) % 12 < 10
         /\ b \in {\hb0 + 12 * channel + 11 : channel \in 0..3} <=> Enables(b)
<1>1. ASSUME NEW channel \in 0..3, NEW k \in 0..11, b = 176 + 12 * channel + k
      PROVE  Between(b, 176, 223) /\ (b - 176) % 12 = k
  BY <1>1, SMT DEF Between
<1>2. ASSUME Between(b, 176, 223)
      PROVE  \E channel \in 0..3, k \in 0..11 : b = 176 + 12 * channel + k /\ (b - 176) % 12 = k
  <2> DEFINE q == (b - 176) \div 12
             r == (b - 176) % 12
  <2>1. q \in Int /\ r \in Int /\ b = 176 + 12 * q + r /\ 0 <= r /\ r < 12
    BY SMT
  <2>2. r = (b - 176) % 12
    OBVIOUS
  <2> HIDE DEF q, r
  <2>3. q \in 0..3 /\ r \in 0..11
    BY <1>2, <2>1, SMT DEF Between
  <2>4. QED
    BY <2>1, <2>2, <2>3, SMT
<1>3. b \in {176 + 12 * channel + k : channel \in 0..3, k \in 0..9}
        <=> \E channel \in 0..3, k \in 0..9 : b = 176 + 12 * channel + k
  BY SMT
<1>4. b \in {176 + 12 * channel + 11 : channel \in 0..3}
        <=> \E channel \in 0..3 : b = 176 + 12 * channel + 11
  BY SMT
<1>5. (\E channel \in 0..3, k \in 0..9 : b = 176 + 12 * channel + k)
        <=> Between(b, 176, 223) /\ (b - 176) % 12 < 10
  <2>1. ASSUME NEW channel \in 0..3, NEW k \in 0..9, b = 176 + 12 * channel + k
        PROVE  Between(b, 176, 223) /\ (b - 176) % 12 < 10
    BY <1>1, <2>1, SMT
  <2>2. ASSUME Between(b, 176, 223), (b - 176) % 12 < 10
        PROVE  \E channel \in 0..3, k \in 0..9 : b = 176 + 12 * channel + k
    BY <1>2, <2>2, SMT
  <2>3. QED
    BY <2>1, <2>2, SMT
<1>6. (\E channel \in 0..3 : b = 176 + 12 * channel + 11) <=> Enables(b)
  <2>1. ASSUME NEW channel \in 0..3, b = 176 + 12 * channel + 11
        PROVE  Enables(b)
    BY <1>1, <2>1, SMT DEF Enables
  <2>2. ASSUME Enables(b)
        PROVE  \E channel \in 0..3 : b = 176 + 12 * channel + 11
    BY <1>2, <2>2, SMT DEF Enables
  <2>3. QED
    BY <2>1, <2>2, SMT
<1>7. QED
  BY <1>3, <1>4, <1>5, <1>6, SMT

LEMMA FixedKeepsOld ==
  ASSUME NEW b \in Int
  PROVE  b \in Fixed <=> KeepsOld(b)
<1> DEFINE fixed == {\hb0 + 12 * channel + k : channel \in 0..3, k \in 0..9}
<1>1. b \in fixed <=> Between(b, \hb0, \hdf) /\ (b - \hb0) % 12 < 10
  BY ChannelBytes, SMT
<1> HIDE DEF fixed
<1>2. \A m, n \in Int : b \in m..n <=> Between(b, m, n)
  BY SMT DEF Between
<1>3. Fixed =
  (\h06..\h07) \cup (\h10..\h47) \cup (\h4c..\h4f) \cup (\h54..\h5f) \cup (\ha8..\haf)
  \cup (\he0..\hff) \cup (\h110..\h11f) \cup (\h12c..\h131) \cup (\h136..\h13f)
  \cup (\h142..\h14f) \cup (\h158..\h1ff) \cup (\h206..\h207) \cup (\h20a..\h2ff) \cup {\h410}
  \cup fixed
  BY SMT DEF Fixed, fixed
<1>4. QED
  BY <1>1, <1>3, SMT DEF KeepsOld, Between

\* The bytes of stores end up as the flat memory has it.
LEMMA OutcomesAllowed ==
  ASSUME NEW b \in Int, NEW old, NEW byte, NEW x \in Outcomes(b, old, byte)
  PROVE  x \in AfterStore(<<4, b>>, old, byte)
<1>1. b \in Fixed <=> KeepsOld(b)
  BY FixedKeepsOld, SMT
<1>2. b \in {\hb0 + 12 * channel + 11 : channel \in 0..3} <=> Enables(b)
  BY ChannelBytes, SMT
<1>3. KeepsOld(b) => claims_address(b) /\ ~Enables(b) /\ b # \h128
  BY Claimed, SMT DEF KeepsOld, Enables, Between
<1>4. Enables(b) => claims_address(b) /\ b # \h128
  BY Claimed, SMT DEF Enables, Between
<1>5. claims_address(\h128)
  BY Claimed, SMT
<1> DEFINE enabling == {\hb0 + 12 * channel + 11 : channel \in 0..3}
<1> HIDE DEF enabling
<1>6. AfterStore(<<4, b>>, old, byte) =
  IF ~claims_address(b) THEN {byte}
  ELSE CASE b \in Fixed -> {old}
         [] b \in enabling -> {byte % 128}
         [] b = \h128 -> {byte, byte + 8}
         [] OTHER -> {byte}
  BY SMT DEF AfterStore, enabling
<1>7. b \in enabling <=> Enables(b)
  BY <1>2 DEF enabling
<1>8. QED
  BY <1>1, <1>3, <1>4, <1>5, <1>6, <1>7, SMT DEF Outcomes, SetsBit3

LEMMA TouchesAllowed ==
  ASSUME NEW b \in Int, NEW c \in Int, Touches(b, c)
  PROVE  c = b \/ <<4, c>> \in ChangesToo(<<4, b>>)
<1>1. CASE b = \h129 /\ c = \h128
  BY <1>1, SMT DEF ChangesToo
<1>2. CASE b = \h70 /\ ReadsWave(c)
  <2>1. c \in \h90..\h9f
    BY <1>2, SMT DEF ReadsWave, Between
  <2>2. ChangesToo(<<4, b>>) = {<<4, d>> : d \in \h90..\h9f}
    BY <1>2, SMT DEF ChangesToo
  <2>3. QED
    BY <2>1, <2>2, SMT
<1>3. QED
  BY <1>1, <1>2, SMT DEF Touches

-----------------------------------------------------------------------------
(* The bytes of the machine. *)

InPage(offset) == offset < 16777216

LEMMA Constants ==
  /\ \A one \in Accesses : /\ one[1] = <<one[1][1], one[1][2]>>
                           /\ one[1][1] \in Nat /\ one[1][2] \in Nat /\ InPage(one[1][2])
                           /\ one[2] \in {1, 2, 4}
  /\ \A word \in Words : DOMAIN word = 1..4 /\ \A i \in 1..4 : word[i] \in Byte
  /\ BiosByte \in Byte /\ RomByte \in Byte
  /\ RomLength \in Nat /\ RomLength % 4 = 0
<1>1. ASSUME NEW one \in Accesses
      PROVE  /\ one[1] = <<one[1][1], one[1][2]>>
             /\ one[1][1] \in Nat /\ one[1][2] \in Nat /\ InPage(one[1][2])
             /\ one[2] \in {1, 2, 4}
  BY MemoryMapAssumption, SMT DEF MemoryMapAssumption, InPage
<1>2. Words \subseteq [1..4 -> Byte] /\ {BiosByte, RomByte} \subseteq Byte
  BY MemoryMapAssumption, SMT DEF MemoryMapAssumption, Byte
<1>3. RomLength \in Nat /\ RomLength % 4 = 0
  BY MemoryMapAssumption, SMT DEF MemoryMapAssumption
<1>4. QED
  BY <1>1, <1>2, <1>3, SMT

\* What a plugin keeps: cells of its own, at their homes.
RamIn(ram, name) ==
  \A at \in DOMAIN ram :
    at \in Cells /\ get_plugin_for(at) = name /\ Home(at) = at /\ ram[at] \in Byte

FileTyped == \A at \in DOMAIN cartridge : InFile(at, 1)

MemoryTyped ==
  /\ RamIn(raw, "raw") /\ RamIn(cartridge, "cartridge") /\ RamIn(color_ram, "color_ram")
  /\ RamIn(vram, "vram") /\ RamIn(obj_ram, "obj_ram")
  /\ FileTyped
  /\ IoTyped(gba_io)

\* The inductive invariant.
MemInv ==
  /\ MemoryTyped
  /\ reads \in Seq(Cells \X Byte)
  /\ writes \in Seq(Cells \X Byte \X Byte)
  /\ panicked \in BOOLEAN /\ stores \in 0..MaxStores

LEMMA InvTypes == MemInv => TypeOK
<1> SUFFICES ASSUME MemInv PROVE TypeOK
  OBVIOUS
<1>1. /\ \A ram \in {raw, cartridge, color_ram, vram, obj_ram} : IsRam(ram)
      /\ \A at \in DOMAIN raw : get_plugin_for(at) = "raw"
      /\ \A at \in DOMAIN cartridge : InFile(at, 1)
      /\ \A at \in DOMAIN color_ram : get_plugin_for(at) = "color_ram"
      /\ \A at \in DOMAIN vram : get_plugin_for(at) = "vram"
      /\ \A at \in DOMAIN obj_ram : get_plugin_for(at) = "obj_ram"
  BY SMT DEF MemInv, MemoryTyped, RamIn, FileTyped, IsRam
<1>2. \A b \in DOMAIN gba_io : gba_io[b] \in Byte
  BY SMT DEF MemInv, MemoryTyped, IoTyped
<1>3. panicked \in BOOLEAN /\ stores \in 0..MaxStores
  BY DEF MemInv
<1>4. QED
  BY <1>1, <1>2, <1>3 DEF TypeOK

RamOf(plugin) ==
  CASE plugin = "raw"       -> raw
    [] plugin = "cartridge" -> cartridge
    [] plugin = "color_ram" -> color_ram
    [] plugin = "vram"      -> vram
    [] plugin = "obj_ram"   -> obj_ram

Rams == {"raw", "cartridge", "color_ram", "vram", "obj_ram"}

LEMMA RamsTyped ==
  ASSUME MemoryTyped, NEW plugin \in Rams
  PROVE  RamIn(RamOf(plugin), plugin)
BY SMT DEF MemoryTyped, Rams, RamOf

CellByte(c) == ByteOf(get_plugin_for(c), c)

LEMMA PluginNames ==
  ASSUME NEW c \in Cells
  PROVE  get_plugin_for(c) \in Rams \cup {"gba_io"}
BY PluginOfCell, SMT DEF Rams

\* A byte of a memory is the one stored at its home.
LEMMA ByteOfRam ==
  ASSUME MemoryTyped, NEW c \in Cells, get_plugin_for(c) # "gba_io"
  PROVE  LET ram == RamOf(get_plugin_for(c))
         IN  CellByte(c) = IF Home(c) \in DOMAIN ram THEN ram[Home(c)] ELSE Unwritten(Home(c))
<1>1. c[1] \in Nat /\ c[2] \in Nat /\ c = <<c[1], c[2]>> /\ c[1] < 15 /\ c[1] # 1
  BY CellParts, PageNumbers, SMT
<1>2. get_plugin_for(c) \in Rams
  BY PluginNames, SMT
<1>3. CASE get_plugin_for(c) = "cartridge"
  <2>1. c[1] \in 8..13
    BY <1>1, <1>3, PluginOfCell, SMT
  <2>2. PICK h : h = normalize_address(c)
    OBVIOUS
  <2>3. h[1] \in {8, 9} /\ h[2] = c[2] /\ Home(c) = h
    BY <2>1, <2>2, HomeOfCartridge, SMT
  <2>4. Unwritten(h) = IF h[1] = 8 /\ h[2] < RomLength THEN RomByte ELSE 0
    BY <2>3, SMT DEF Unwritten
  <2>5. InFile(h, 1) <=> h[1] = 8 /\ h[2] < RomLength
    BY <1>1, <2>3, Constants, SMT DEF InFile
  <2>6. h \in DOMAIN cartridge => InFile(h, 1)
    BY SMT DEF MemoryTyped, FileTyped
  <2>7. CellByte(c) = IF InFile(h, 1) THEN Stored(cartridge, h, RomByte) ELSE 0
    BY <1>3, <2>2, SMT DEF CellByte, ByteOf
  <2>8. QED
    BY <1>3, <2>3, <2>4, <2>5, <2>6, <2>7, SMT DEF Stored, RamOf
<1>4. CASE get_plugin_for(c) # "cartridge"
  <2>1. c[1] \notin 8..13
    BY <1>1, <1>4, PluginOfCell, SMT
  <2>2. Home(c) = c
    BY <2>1, HomeOfOther
  <2>3. CellByte(c) = Stored(RamOf(get_plugin_for(c)), c, IF c[1] = 0 THEN BiosByte ELSE 0)
    <3>1. get_plugin_for(c) # "raw" => c[1] # 0
      BY <1>1, PluginOfCell, SMT
    <3>2. QED
      BY <1>2, <1>4, <3>1, SMT DEF CellByte, ByteOf, RamOf, Rams
  <2>4. c[1] = 4 => InitialByte(c[2]) = 0
    <3>1. c[1] = 4 => c[2] > 7340032
      BY <1>1, PluginOfCell, SMT
    <3>2. QED
      BY <1>1, <3>1, InitialBytes, SMT DEF Between
  <2>5. Unwritten(c) = IF c[1] = 0 THEN BiosByte ELSE 0
    <3>1. c[1] \notin {8, 9}
      BY <2>1, SMT
    <3>2. QED
      BY <2>4, <3>1, SMT DEF Unwritten
  <2>6. QED
    BY <2>2, <2>3, <2>5, SMT DEF Stored
<1>5. QED
  BY <1>3, <1>4

LEMMA RegisterOfCell ==
  ASSUME NEW c \in Cells, get_plugin_for(c) = "gba_io"
  PROVE  /\ c[1] = 4 /\ c[2] \in Nat /\ c = <<4, c[2]>> /\ Between(c[2], 0, \h700000)
         /\ Home(c) = c
         /\ CellByte(c) = read_byte(gba_io, c[2])
<1>1. c[1] \in Nat /\ c[2] \in Nat /\ c = <<c[1], c[2]>>
  BY CellParts, PageNumbers, SMT
<1>2. c[1] = 4 /\ c[2] <= 7340032
  BY <1>1, PluginOfCell, SMT
<1>3. Home(c) = c
  BY <1>2, HomeOfOther, SMT
<1>4. QED
  BY <1>1, <1>2, <1>3, SMT DEF Between, CellByte, ByteOf

\* Every byte of a memory is one, except those that cannot be read.
LEMMA CellByteTyped ==
  ASSUME MemoryTyped, NEW c \in Cells, CellByte(c) # Todo
  PROVE  CellByte(c) \in Byte
<1>1. CASE get_plugin_for(c) = "gba_io"
  <2>1. PICK b \in Int : b = c[2] /\ CellByte(c) = read_byte(gba_io, b)
    BY <1>1, RegisterOfCell, SMT
  <2>2. ~ReadsTodo(b)
    BY <2>1, ReadCases, SMT
  <2>3. PICK io : io = gba_io
    OBVIOUS
  <2>4. IoTyped(io)
    BY <2>3, SMT DEF MemoryTyped
  <2>5. QED
    BY <2>1, <2>2, <2>3, <2>4, ReadIsByte, SMT
<1>2. CASE get_plugin_for(c) # "gba_io"
  <2>1. get_plugin_for(c) \in Rams
    BY <1>2, PluginNames, SMT
  <2>2. RamIn(RamOf(get_plugin_for(c)), get_plugin_for(c))
    BY <2>1, RamsTyped, SMT
  <2>3. PICK h \in Cells : h = Home(c)
    BY CellIsNormal, SMT
  <2>4. Unwritten(h) \in Byte
    <3>1. h[1] \in Nat /\ h[2] \in Nat
      BY CellParts, PageNumbers, SMT
    <3>2. 0 \in Byte /\ InitialByte(h[2]) \in Byte
      BY <3>1, InitialBytes, ByteIs, SMT DEF Between
    <3>3. QED
      BY <3>1, <3>2, Constants, SMT DEF Unwritten
  <2>5. QED
    BY <1>2, <2>2, <2>3, <2>4, ByteOfRam, SMT DEF RamIn
<1>3. QED
  BY <1>1, <1>2

\* The bytes of an access: what its cells hold, all of one plugin.
LEMMA BytesOfAccess ==
  ASSUME MemoryTyped, NEW n \in {1, 2, 4}, NEW page \in Nat, NEW offset \in Nat,
         InPage(offset), ~ReadPanics(<<page, offset>>, n),
         NEW k \in 0..(n - 1)
  PROVE  LET m == handle_mirrors(<<page, offset>>)
         IN  /\ m \in Cells /\ At(m, k) \in Cells /\ At(m, k) = <<m[1], m[2] + k>>
             /\ Home(At(m, k)) = Home(<<page, offset + k>>)
             /\ get_plugin_for(At(m, k)) = get_plugin_for(m)
             /\ Bytes(<<page, offset>>, n)[k + 1] = CellByte(At(m, k))
             /\ CellByte(At(m, k)) # Todo
             /\ get_plugin_for(m) = "gba_io" => ~ReadsTodo(m[2] + k)
<1> DEFINE m == handle_mirrors(<<page, offset>>)
           c == At(m, k)
<1>1. Aligned(offset, n) /\ m # Unmapped
  BY SMT DEF ReadPanics, Aligned
<1>2. /\ m \in Cells /\ c \in Cells /\ c = <<m[1], m[2] + k>>
      /\ Home(c) = Home(<<page, offset + k>>)
  BY <1>1, CellsOfAccess, SMT DEF InPage
<1>3. k + 1 \in 1..n /\ k + 1 - 1 = k
  BY SMT
<1>4. Bytes(<<page, offset>>, n)[k + 1] # Todo
  BY <1>3, SMT DEF ReadPanics
<1>5. Bytes(<<page, offset>>, n)[k + 1] = ByteOf(get_plugin_for(m), c)
  BY <1>3, SMT DEF Bytes
<1> HIDE DEF m
<1>6. m[1] \in Nat /\ m[2] \in Nat /\ c[1] = m[1] /\ c[2] = m[2] + k /\ k \in Nat
  BY <1>2, CellParts, PageNumbers, SMT
<1>7. get_plugin_for(m) = "gba_io" => ~ReadsTodo(m[2] + k)
  <2> SUFFICES ASSUME get_plugin_for(m) = "gba_io" PROVE ~ReadsTodo(m[2] + k)
    OBVIOUS
  <2>1. PICK b \in Int : b = m[2] + k
    BY <1>6, SMT
  <2>2. ByteOf("gba_io", c) = read_byte(gba_io, b)
    BY <1>6, <2>1, SMT DEF ByteOf
  <2>3. QED
    BY <1>4, <1>5, <2>1, <2>2, ReadCases, SMT
<1>8. get_plugin_for(c) = get_plugin_for(m)
  <2>1. CASE get_plugin_for(m) = "gba_io"
    <3>1. m[1] = 4
      BY <1>2, <2>1, RegisterOfCell, SMT
    <3>2. m[2] + k <= 7340032
      BY <1>7, <2>1, SMT DEF ReadsTodo, Between
    <3>3. QED
      BY <1>2, <1>6, <2>1, <3>1, <3>2, PluginOfCell, SMT
  <2>2. CASE get_plugin_for(m) # "gba_io"
    <3>1. m[1] = 4 => m[2] > 7340032
      BY <1>2, <1>6, <2>2, PluginOfCell, SMT
    <3>2. m[1] = 4 => c[2] > 7340032
      BY <1>6, <3>1, SMT
    <3>3. QED
      BY <1>2, <1>6, <3>1, <3>2, PluginOfCell, SMT
  <2>3. QED
    BY <2>1, <2>2
<1>9. Bytes(<<page, offset>>, n)[k + 1] = CellByte(c)
  BY <1>5, <1>8, SMT DEF CellByte
<1> HIDE DEF c
<1>10. QED
  BY <1>2, <1>4, <1>7, <1>8, <1>9, SMT DEF m, c

LEMMA PluginOfHome ==
  ASSUME NEW c \in Cells
  PROVE  Home(c) \in Cells /\ Home(Home(c)) = Home(c) /\ get_plugin_for(Home(c)) = get_plugin_for(c)
<1>1. CASE c[1] \in 8..13
  <2>1. PICK h \in Cells : h = Home(c) /\ Home(h) = h /\ h[1] \in {8, 9}
    BY <1>1, HomeOfCartridge, SMT
  <2>2. get_plugin_for(c) = "cartridge" /\ get_plugin_for(h) = "cartridge"
    BY <1>1, <2>1, PluginOfCell, SMT
  <2>3. QED
    BY <2>1, <2>2, SMT
<1>2. CASE c[1] \notin 8..13
  BY <1>2, HomeOfOther, SMT
<1>3. QED
  BY <1>1, <1>2

\* All mirrors of a byte read the same.
LEMMA ByteOfHome ==
  ASSUME MemoryTyped, NEW c \in Cells
  PROVE  CellByte(Home(c)) = CellByte(c)
<1>1. PICK h \in Cells : h = Home(c) /\ Home(h) = h /\ get_plugin_for(h) = get_plugin_for(c)
  BY PluginOfHome, SMT
<1>2. CASE get_plugin_for(c) = "gba_io"
  BY <1>1, <1>2, RegisterOfCell, SMT
<1>3. CASE get_plugin_for(c) # "gba_io"
  <2>1. LET ram == RamOf(get_plugin_for(h))
        IN  CellByte(h) = IF Home(h) \in DOMAIN ram THEN ram[Home(h)] ELSE Unwritten(Home(h))
    BY <1>1, <1>3, ByteOfRam, SMT
  <2>2. LET ram == RamOf(get_plugin_for(c))
        IN  CellByte(c) = IF Home(c) \in DOMAIN ram THEN ram[Home(c)] ELSE Unwritten(Home(c))
    BY <1>3, ByteOfRam, SMT
  <2>3. QED
    BY <1>1, <2>1, <2>2, SMT
<1>4. QED
  BY <1>2, <1>3

\* The registers, and the home of the place where a register's byte is kept.
LEMMA RegisterCells ==
  ASSUME NEW r \in Int, Between(r, 0, \h700000)
  PROVE  <<4, r>> \in Cells /\ get_plugin_for(<<4, r>>) = "gba_io" /\ Home(<<4, r>>) = <<4, r>>
<1>1. 4 \in Pages /\ r \in Nat /\ r < Size(4)
  BY SMT DEF Pages, Size, Between
<1>2. PICK c \in Cells : c = <<4, r>>
  <2>1. PICK page \in Pages : page = 4
    BY <1>1
  <2>2. <<page, r>> \in Cells
    BY <1>1, <2>1, CellOf, SMT
  <2>3. QED
    BY <2>1, <2>2
<1>3. c[1] = 4 /\ c[2] = r
  BY <1>2, SMT
<1>4. get_plugin_for(c) = "gba_io"
  BY <1>3, PluginOfCell, SMT DEF Between
<1>5. Home(c) = c
  BY <1>3, HomeOfOther, SMT
<1>6. QED
  BY <1>2, <1>4, <1>5, SMT

LEMMA PlaceIsOfRegister ==
  ASSUME NEW b \in IoPlaces
  PROVE  \E r \in Int : /\ Between(r, 0, \h700000) /\ IoAddress(b) = <<4, r>>
                        /\ b = r \/ (b = r + \h1000000 /\ ReadsWave(r))
<1>1. CASE b > 7340032
  <2>1. IoAddress(b) = <<4, b - 16777216>>
    BY <1>1, SMT DEF IoAddress
  <2>2. PICK r \in Int : r = b - 16777216
    BY SMT DEF IoPlaces
  <2>3. Between(r, 144, 159) /\ b = r + 16777216
    BY <1>1, <2>2, SMT DEF IoPlaces, Between
  <2>4. QED
    BY <2>1, <2>2, <2>3, SMT DEF Between, ReadsWave
<1>2. CASE ~(b > 7340032)
  <2>1. IoAddress(b) = <<4, b>>
    BY <1>2, SMT DEF IoAddress
  <2>2. b \in Int /\ Between(b, 0, 7340032)
    BY <1>2, SMT DEF IoPlaces, Between
  <2>3. QED
    BY <2>1, <2>2, SMT
<1>3. QED
  BY <1>1, <1>2

LEMMA AddressOfPlace ==
  ASSUME NEW r \in Int, Between(r, 0, \h700000)
  PROVE  IoAddress(r) = <<4, r>> /\ (ReadsWave(r) => IoAddress(r + \h1000000) = <<4, r>>)
<1>1. IoAddress(r) = <<4, r>>
  BY SMT DEF IoAddress, Between
<1>2. ASSUME ReadsWave(r) PROVE IoAddress(r + 16777216) = <<4, r>>
  <2>1. r + 16777216 > 7340032 /\ (r + 16777216) - 16777216 = r
    BY SMT DEF Between
  <2>2. QED
    BY <2>1, SMT DEF IoAddress
<1>3. QED
  BY <1>1, <1>2, SMT

LEMMA AddressIsCell ==
  ASSUME NEW b \in IoPlaces
  PROVE  /\ IoAddress(b) \in Cells /\ get_plugin_for(IoAddress(b)) = "gba_io"
         /\ Home(IoAddress(b)) = IoAddress(b)
<1>1. PICK r \in Int : Between(r, 0, \h700000) /\ IoAddress(b) = <<4, r>>
  BY PlaceIsOfRegister, SMT
<1>2. QED
  BY <1>1, RegisterCells, SMT

\* What was written are homes.
LEMMA WrittenHomes ==
  ASSUME MemoryTyped
  PROVE  /\ \A h : h \in Written <=> \/ \E plugin \in Rams : h \in DOMAIN RamOf(plugin)
                                     \/ \E b \in DOMAIN gba_io : h = IoAddress(b)
         /\ \A h \in Written : h \in Cells /\ Home(h) = h
<1> DEFINE all == DOMAIN raw \cup DOMAIN cartridge
                  \cup DOMAIN color_ram \cup DOMAIN vram \cup DOMAIN obj_ram
<1>1. \A h : h \in all <=> \E plugin \in Rams : h \in DOMAIN RamOf(plugin)
  BY SMT DEF Rams, RamOf
<1>2. \A h \in all : h \in Cells /\ Home(h) = h
  BY SMT DEF MemoryTyped, RamIn
<1>3. \A b \in DOMAIN gba_io : IoAddress(b) \in Cells /\ Home(IoAddress(b)) = IoAddress(b)
  <2>1. \A b \in DOMAIN gba_io : b \in IoPlaces
    BY SMT DEF MemoryTyped, IoTyped
  <2>2. QED
    BY <2>1, AddressIsCell, SMT
<1>4. \A h : h \in Written <=> \/ \E at \in all : h = Home(at)
                               \/ \E b \in DOMAIN gba_io : h = Home(IoAddress(b))
  BY SMT DEF Written
<1> HIDE DEF all
<1>5. \A h : h \in Written <=> h \in all \/ \E b \in DOMAIN gba_io : h = IoAddress(b)
  BY <1>2, <1>3, <1>4, SMT
<1>6. QED
  BY <1>1, <1>2, <1>3, <1>5, SMT

-----------------------------------------------------------------------------
(* The flat memory. *)

FlatBytes == [home \in Written |-> Bytes(home, 1)[1]]

LEMMA FlatByte ==
  ASSUME MemoryTyped, NEW h, h \in Written
  PROVE  h \in DOMAIN FlatBytes /\ FlatBytes[h] = CellByte(h)
<1>1. PICK c \in Cells : c = h
  BY WrittenHomes, SMT
<1>2. handle_mirrors(c) = c /\ At(c, 1 - 1) = c
  BY CellIsNormal, CellParts, SMT
<1>3. Bytes(c, 1)[1] = CellByte(c)
  BY <1>2, SMT DEF Bytes, CellByte
<1>4. QED
  BY <1>1, <1>3, SMT DEF FlatBytes

\* A register that was not written has its initial value.
LEMMA UnwrittenRegister ==
  ASSUME MemoryTyped, NEW c \in Cells, get_plugin_for(c) = "gba_io", c \notin Written,
         CellByte(c) # Todo
  PROVE  CellByte(c) = Unwritten(c)
<1>1. PICK r \in Int : r = c[2] /\ Between(r, 0, \h700000) /\ c[1] = 4 /\ c = <<4, r>>
                       /\ CellByte(c) = read_byte(gba_io, r)
  BY RegisterOfCell, SMT
<1>2. ~ReadsTodo(r)
  BY <1>1, ReadCases, SMT
<1>3. r \notin DOMAIN gba_io /\ (ReadsWave(r) => r + \h1000000 \notin DOMAIN gba_io)
  BY <1>1, AddressOfPlace, WrittenHomes, SMT
<1>4. Unwritten(c) = InitialByte(r)
  BY <1>1, SMT DEF Unwritten
<1>5. CASE ReadsZero(r)
  <2>1. InitialByte(r) = 0
    BY <1>5, InitialBytes, SMT DEF ReadsZero, Between
  <2>2. QED
    BY <1>1, <1>4, <1>5, <2>1, ReadCases, SMT
<1>6. CASE ReadsWave(r)
  <2>1. PICK d \in Int : d = inactive_channel_3_wave_pattern(gba_io, r) /\ d \in {r, r + \h1000000}
    BY <1>6, SMT DEF inactive_channel_3_wave_pattern
  <2>2. InitialByte(d) = 0 /\ InitialByte(r) = 0
    BY <1>6, <2>1, InitialBytes, SMT DEF ReadsWave, Between
  <2>3. d \notin DOMAIN gba_io
    BY <1>3, <1>6, <2>1, SMT
  <2>4. QED
    BY <1>1, <1>4, <1>6, <2>1, <2>2, <2>3, ReadCases, SMT DEF Kept
<1>7. CASE ~ReadsZero(r) /\ ~ReadsWave(r)
  BY <1>1, <1>2, <1>3, <1>4, <1>7, ReadCases, SMT DEF Kept
<1>8. QED
  BY <1>5, <1>6, <1>7

\* A byte that can be read is what the flat memory has at its home.
LEMMA ValuesAreRead ==
  ASSUME MemoryTyped, NEW c \in Cells, CellByte(c) # Todo
  PROVE  Flat!ValueIn(FlatBytes, Home(c)) = CellByte(c)
<1>1. PICK h \in Cells : h = Home(c) /\ Home(h) = h /\ get_plugin_for(h) = get_plugin_for(c)
  BY PluginOfHome, SMT
<1>2. CellByte(h) = CellByte(c)
  BY <1>1, ByteOfHome, SMT
<1>3. CASE h \in Written
  BY <1>1, <1>2, <1>3, FlatByte, SMT DEF Flat!ValueIn
<1>4. CASE h \notin Written
  <2>1. h \notin DOMAIN FlatBytes
    BY <1>4, SMT DEF FlatBytes
  <2>2. CellByte(h) = Unwritten(h)
    <3>1. CASE get_plugin_for(h) = "gba_io"
      BY <1>2, <1>4, <3>1, UnwrittenRegister, SMT
    <3>2. CASE get_plugin_for(h) # "gba_io"
      <4>1. get_plugin_for(h) \in Rams
        BY <3>2, PluginNames, SMT
      <4>2. h \notin DOMAIN RamOf(get_plugin_for(h))
        BY <1>4, <4>1, WrittenHomes, SMT
      <4>3. QED
        BY <1>1, <3>2, <4>2, ByteOfRam, SMT
    <3>3. QED
      BY <3>1, <3>2
  <2>3. QED
    BY <1>1, <1>2, <2>1, <2>2, SMT DEF Flat!ValueIn
<1>5. QED
  BY <1>3, <1>4

-----------------------------------------------------------------------------
(* Stores. *)

\* The cells of a store are there afterwards, and the others are as they were.
Placed(ram, at, bytes) ==
  LET touched == {At(at, k) : k \in 0..(Len(bytes) - 1)}
      new     == Over(ram, at, bytes)
  IN  /\ DOMAIN new = DOMAIN ram \cup touched
      /\ \A k \in 0..(Len(bytes) - 1) : new[At(at, k)] = bytes[k + 1]
      /\ \A a \in DOMAIN ram : a \notin touched => new[a] = ram[a]

OfCells(ram) == \A a \in DOMAIN ram : a \in Cells

LEMMA OverRam ==
  ASSUME NEW ram, OfCells(ram), NEW at \in Cells, NEW bytes, Len(bytes) \in {1, 2, 4}
  PROVE  Placed(ram, at, bytes)
<1> DEFINE touched == {At(at, k) : k \in 0..(Len(bytes) - 1)}
           new == Over(ram, at, bytes)
<1>1. PICK n \in {1, 2, 4} : n = Len(bytes)
  BY SMT
<1>2. at[1] \in Nat /\ at[2] \in Nat
  BY CellParts, PageNumbers, SMT
<1>3. \A k : At(at, k) = <<at[1], at[2] + k>>
  BY SMT DEF At
<1>4. {At(at, i - 1) : i \in 1..n} = touched
  <2>1. \A i \in 1..n : i - 1 \in 0..(n - 1)
    BY SMT
  <2>2. \A k \in 0..(n - 1) : k + 1 \in 1..n /\ (k + 1) - 1 = k
    BY SMT
  <2>3. QED
    BY <1>1, <2>1, <2>2, SMT
<1>5. new = [a \in DOMAIN ram \cup touched |->
               IF a[1] = at[1] /\ a[2] - at[2] \in 0..(n - 1)
               THEN bytes[a[2] - at[2] + 1] ELSE ram[a]]
  BY <1>1, <1>4 DEF Over
<1>6. \A k \in 0..(n - 1) : At(at, k) \in touched
  BY <1>1
<1>7. ASSUME NEW a \in DOMAIN ram, a[1] = at[1], a[2] - at[2] \in 0..(n - 1)
      PROVE  a \in touched
  <2>1. a = <<a[1], a[2]>> /\ a[2] \in Nat
    BY CellParts, SMT DEF OfCells
  <2>2. PICK k \in 0..(n - 1) : k = a[2] - at[2]
    BY <1>7
  <2>3. at[2] + k = a[2]
    BY <1>2, <2>1, <2>2, SMT
  <2>4. At(at, k) = a
    BY <1>3, <1>7, <2>1, <2>3, SMT
  <2>5. QED
    BY <1>6, <2>4
<1> HIDE DEF touched, new
<1>8. ASSUME NEW k \in 0..(n - 1)
      PROVE  new[At(at, k)] = bytes[k + 1]
  <2>1. PICK a : a = At(at, k)
    OBVIOUS
  <2>2. a[1] = at[1] /\ a[2] = at[2] + k
    BY <1>3, <2>1, SMT
  <2>3. a[2] - at[2] = k
    BY <1>2, <2>2, SMT
  <2>4. a \in touched
    BY <1>6, <2>1
  <2>5. QED
    BY <1>5, <2>1, <2>2, <2>3, <2>4, SMT
<1>9. \A a \in DOMAIN ram : a \notin touched => new[a] = ram[a]
  BY <1>5, <1>7, SMT
<1>10. DOMAIN new = DOMAIN ram \cup touched
  BY <1>5, SMT
<1>11. QED
  BY <1>1, <1>8, <1>9, <1>10 DEF new, touched, Placed

\* A store at an aligned place, of one plugin that takes it.
StoreAt(m, bytes) ==
  /\ m \in Cells /\ Len(bytes) \in {1, 2, 4}
  /\ \A k \in 0..(Len(bytes) - 1) :
       /\ At(m, k) \in Cells /\ At(m, k) = <<m[1], m[2] + k>>
       /\ get_plugin_for(At(m, k)) = get_plugin_for(m)
       /\ get_plugin_for(m) = "gba_io" => ~ReadsTodo(m[2] + k)
       /\ get_plugin_for(m) = "cartridge" => InFile(Home(At(m, k)), 1)
       /\ bytes[k + 1] \in Byte

TouchedBy(m, bytes) == {Home(At(m, k)) : k \in 0..(Len(bytes) - 1)}
LinkedTo(m, bytes) == UNION {ChangesToo(home) : home \in TouchedBy(m, bytes)}

\* The homes of the cells of a store, one behind the other.
LEMMA TouchedHomes ==
  ASSUME NEW m, NEW bytes, StoreAt(m, bytes)
  PROVE  /\ Home(m) \in Cells
         /\ \A k \in 0..(Len(bytes) - 1) : Home(At(m, k)) = At(Home(m), k)
         /\ TouchedBy(m, bytes) = {At(Home(m), k) : k \in 0..(Len(bytes) - 1)}
<1>1. m \in Cells
  BY DEF StoreAt
<1>2. PICK n \in {1, 2, 4} : n = Len(bytes)
  BY SMT DEF StoreAt
<1>3. \A k \in 0..(n - 1) : At(m, k) \in Cells /\ At(m, k) = <<m[1], m[2] + k>>
  BY <1>2 DEF StoreAt
<1>4. Home(m) \in Cells
  BY <1>1, CellIsNormal, SMT
<1>5. ASSUME NEW k \in 0..(n - 1)
      PROVE  Home(At(m, k)) = At(Home(m), k)
  <2>1. PICK c \in Cells : c = At(m, k) /\ c = <<m[1], m[2] + k>>
    BY <1>3
  <2>2. c[1] = m[1] /\ c[2] = m[2] + k
    BY <2>1, SMT
  <2>3. CASE m[1] \in 8..13
    <3>1. /\ Home(m) = normalize_address(m) /\ Home(c) = normalize_address(c)
      BY <1>1, <2>2, <2>3, CellIsNormal, SMT
    <3>2. QED
      BY <2>1, <2>2, <3>1, SMT DEF normalize_address, At
  <2>4. CASE m[1] \notin 8..13
    <3>1. Home(m) = m /\ Home(c) = c
      BY <1>1, <2>2, <2>4, HomeOfOther, SMT
    <3>2. QED
      BY <2>1, <3>1
  <2>5. QED
    BY <2>3, <2>4
<1>6. QED
  BY <1>2, <1>4, <1>5, SMT DEF TouchedBy

\* The facts about a typed memory, of a state and of the next one.
RamBytes ==
  \A c \in Cells : get_plugin_for(c) # "gba_io" =>
    LET ram == RamOf(get_plugin_for(c))
    IN  CellByte(c) = IF Home(c) \in DOMAIN ram THEN ram[Home(c)] ELSE Unwritten(Home(c))

RegisterBytes ==
  \A c \in Cells : get_plugin_for(c) = "gba_io" => CellByte(c) = read_byte(gba_io, c[2])

WrittenAreHomes ==
  /\ \A h : h \in Written <=> \/ \E plugin \in Rams : h \in DOMAIN RamOf(plugin)
                              \/ \E b \in DOMAIN gba_io : h = IoAddress(b)
  /\ \A h \in Written : h \in Cells /\ Home(h) = h /\ h \in DOMAIN FlatBytes
                        /\ FlatBytes[h] = CellByte(h)
  /\ DOMAIN FlatBytes = Written

ValuesRead ==
  \A c \in Cells : CellByte(c) # Todo =>
    CellByte(c) \in Byte /\ Flat!ValueIn(FlatBytes, Home(c)) = CellByte(c)

LEMMA MemoryFacts == MemoryTyped => RamBytes /\ WrittenAreHomes /\ ValuesRead
<1> SUFFICES ASSUME MemoryTyped PROVE RamBytes /\ WrittenAreHomes /\ ValuesRead
  OBVIOUS
<1>1. RamBytes
  BY ByteOfRam, SMT DEF RamBytes
<1>2. ValuesRead
  BY CellByteTyped, ValuesAreRead, SMT DEF ValuesRead
<1>3. WrittenAreHomes
  <2>1. /\ \A h : h \in Written <=> \/ \E plugin \in Rams : h \in DOMAIN RamOf(plugin)
                                    \/ \E b \in DOMAIN gba_io : h = IoAddress(b)
        /\ \A h \in Written : h \in Cells /\ Home(h) = h
    BY WrittenHomes, SMT
  <2>2. \A h \in Written : h \in DOMAIN FlatBytes /\ FlatBytes[h] = CellByte(h)
    BY FlatByte, SMT
  <2>3. DOMAIN FlatBytes = Written
    BY SMT DEF FlatBytes
  <2>4. QED
    BY <2>1, <2>2, <2>3, SMT DEF WrittenAreHomes
<1>4. QED
  BY <1>1, <1>2, <1>3

LEMMA NextMemoryFacts == MemoryTyped' => RamBytes' /\ WrittenAreHomes' /\ ValuesRead'
BY MemoryFacts, PTL

LEMMA RegisterFacts == RegisterBytes
BY RegisterOfCell, SMT DEF RegisterBytes

LEMMA NextRegisterFacts == RegisterBytes'
BY RegisterFacts, PTL

LEMMA RamsAreTyped ==
  MemoryTyped <=> /\ \A plugin \in Rams : RamIn(RamOf(plugin), plugin)
                  /\ FileTyped /\ IoTyped(gba_io)
BY SMT DEF MemoryTyped, Rams, RamOf

LEMMA NextRamsAreTyped ==
  MemoryTyped' <=> /\ \A plugin \in Rams : RamIn(RamOf(plugin)', plugin)
                   /\ FileTyped' /\ IoTyped(gba_io')
BY SMT DEF MemoryTyped, Rams, RamOf, RamIn, IoTyped

\* What a store does to what is read anywhere.
StoreDone(m, bytes) ==
  /\ MemoryTyped'
  /\ \A k \in 0..(Len(bytes) - 1) :
       /\ CellByte(At(m, k))' # Todo
       /\ CellByte(At(m, k))' \in AfterStore(Home(At(m, k)), CellByte(At(m, k)), bytes[k + 1])
  /\ \A c \in Cells : Home(c) \notin TouchedBy(m, bytes) \cup LinkedTo(m, bytes)
                        => CellByte(c)' = CellByte(c)
  /\ Written \subseteq Written'
  /\ Written' \subseteq Written \cup TouchedBy(m, bytes) \cup LinkedTo(m, bytes)

LEMMA StoreInRam ==
  ASSUME MemoryTyped, NEW m, NEW bytes, StoreAt(m, bytes), get_plugin_for(m) # "gba_io",
         StoresIn(get_plugin_for(m), m, bytes)
  PROVE  StoreDone(m, bytes)
<1> DEFINE p == get_plugin_for(m)
<1>1. m \in Cells
  BY DEF StoreAt
<1>2. PICK n \in {1, 2, 4} : n = Len(bytes)
  BY SMT DEF StoreAt
<1>3. p \in Rams
  BY <1>1, PluginNames, SMT
<1>4. /\ Home(m) \in Cells
      /\ \A k \in 0..(n - 1) : Home(At(m, k)) = At(Home(m), k)
      /\ TouchedBy(m, bytes) = {At(Home(m), k) : k \in 0..(n - 1)}
  BY <1>2, TouchedHomes
<1>5. p = "cartridge" => Home(m) = normalize_address(m)
  BY <1>1, PluginOfCell, HomeOfCartridge, SMT
<1>6. p # "cartridge" => Home(m) = m
  BY <1>1, PluginOfCell, HomeOfOther, SMT
<1> HIDE DEF p
<1>7. /\ gba_io' = gba_io
      /\ RamOf(p)' = Over(RamOf(p), Home(m), bytes)
      /\ \A q \in Rams : q # p => RamOf(q)' = RamOf(q)
  <2>1. StoresIn(p, m, bytes)
    BY DEF p
  <2>2. p # "gba_io"
    BY DEF p
  <2>3. QED
    BY <1>3, <1>5, <1>6, <2>1, <2>2, SMT DEF StoresIn, RamOf, Rams
<1>8. PICK old, new : old = RamOf(p) /\ new = RamOf(p)'
  OBVIOUS
<1>9. PICK at \in Cells : at = Home(m)
  BY <1>4
<1>10. RamIn(old, p)
  BY <1>3, <1>8, RamsTyped
<1>11. /\ DOMAIN new = DOMAIN old \cup TouchedBy(m, bytes)
       /\ \A k \in 0..(n - 1) : new[At(at, k)] = bytes[k + 1]
       /\ \A a \in DOMAIN old : a \notin TouchedBy(m, bytes) => new[a] = old[a]
  <2>1. new = Over(old, at, bytes)
    BY <1>7, <1>8, <1>9
  <2>2. OfCells(old)
    BY <1>10 DEF RamIn, OfCells
  <2>3. Placed(old, at, bytes)
    <3>1. Len(bytes) \in {1, 2, 4}
      BY <1>2
    <3>2. QED
      BY <2>2, <3>1, OverRam, SMTT(20)
  <2>4. QED
    BY <1>2, <1>4, <1>9, <2>1, <2>3 DEF Placed
<1>12. ASSUME NEW k \in 0..(n - 1)
       PROVE  /\ At(m, k) \in Cells /\ Home(At(m, k)) = At(at, k) /\ At(at, k) \in TouchedBy(m, bytes)
              /\ get_plugin_for(At(m, k)) = p
              /\ At(at, k) \in Cells /\ Home(At(at, k)) = At(at, k) /\ get_plugin_for(At(at, k)) = p
              /\ p = "cartridge" => InFile(At(at, k), 1)
              /\ bytes[k + 1] \in Byte
  <2>1. PICK c \in Cells : c = At(m, k) /\ get_plugin_for(c) = p
    BY <1>2 DEF StoreAt, p
  <2>2. Home(c) = At(at, k) /\ At(at, k) \in TouchedBy(m, bytes)
    BY <1>4, <1>9, <2>1
  <2>3. Home(c) \in Cells /\ Home(Home(c)) = Home(c) /\ get_plugin_for(Home(c)) = p
    BY <2>1, PluginOfHome
  <2>4. /\ p = "cartridge" => InFile(Home(At(m, k)), 1)
        /\ bytes[k + 1] \in Byte
    BY <1>2 DEF StoreAt, p
  <2>5. QED
    BY <2>1, <2>2, <2>3, <2>4
<1>13. ASSUME NEW a \in TouchedBy(m, bytes)
       PROVE  \E k \in 0..(n - 1) : a = At(at, k)
  BY <1>4, <1>9
<1>14. MemoryTyped'
  <2>1. RamIn(new, p)
    <3>1. ASSUME NEW a \in DOMAIN new
          PROVE  a \in Cells /\ get_plugin_for(a) = p /\ Home(a) = a /\ new[a] \in Byte
      <4>1. CASE a \in TouchedBy(m, bytes)
        BY <1>11, <1>12, <1>13, <4>1, SMT
      <4>2. CASE a \notin TouchedBy(m, bytes)
        BY <1>10, <1>11, <4>2 DEF RamIn
      <4>3. QED
        BY <4>1, <4>2
    <3>2. QED
      BY <3>1 DEF RamIn
  <2>2. ASSUME NEW q \in Rams
        PROVE  RamIn(RamOf(q)', q)
    <3>1. CASE q = p
      BY <1>8, <2>1, <3>1
    <3>2. CASE q # p
      <4>1. PICK ram : ram = RamOf(q) /\ ram = RamOf(q)'
        BY <1>7, <3>2
      <4>2. RamIn(ram, q)
        BY <4>1, RamsTyped
      <4>3. QED
        BY <4>1, <4>2
    <3>3. QED
      BY <3>1, <3>2
  <2>3. FileTyped'
    <3>1. CASE p = "cartridge"
      <4>1. old = cartridge /\ new = cartridge'
        BY <1>8, <3>1, SMT DEF RamOf
      <4>2. \A a \in DOMAIN old : InFile(a, 1)
        BY <4>1, SMT DEF MemoryTyped, FileTyped
      <4>3. \A a \in DOMAIN new : InFile(a, 1)
        BY <1>11, <1>12, <1>13, <3>1, <4>2, SMT
      <4>4. QED
        BY <4>1, <4>3, SMT DEF FileTyped
    <3>2. CASE p # "cartridge"
      <4>1. cartridge' = cartridge
        BY <1>7, <3>2, SMT DEF RamOf, Rams
      <4>2. QED
        BY <4>1, SMT DEF MemoryTyped, FileTyped
    <3>3. QED
      BY <3>1, <3>2
  <2>4. IoTyped(gba_io')
    BY <1>7 DEF MemoryTyped
  <2>5. QED
    BY <2>2, <2>3, <2>4, NextRamsAreTyped
<1>15. RamBytes /\ WrittenAreHomes /\ RamBytes' /\ WrittenAreHomes' /\ ValuesRead'
  BY <1>14, MemoryFacts, NextMemoryFacts
<1>16. ASSUME NEW k \in 0..(n - 1)
       PROVE  /\ CellByte(At(m, k))' # Todo
              /\ CellByte(At(m, k))' \in AfterStore(Home(At(m, k)), CellByte(At(m, k)), bytes[k + 1])
  <2>1. PICK c \in Cells : c = At(m, k)
    BY <1>12
  <2>2. get_plugin_for(c) = p /\ p # "gba_io" /\ Home(c) = At(at, k)
    BY <1>12, <2>1 DEF p
  <2>3. CellByte(c)' = IF Home(c) \in DOMAIN RamOf(p)' THEN RamOf(p)'[Home(c)] ELSE Unwritten(Home(c))
    BY <1>15, <2>2, SMT DEF RamBytes
  <2>4. CellByte(c)' = bytes[k + 1]
    BY <1>8, <1>11, <1>12, <2>2, <2>3, SMT
  <2>5. bytes[k + 1] \in Byte /\ Todo \notin Byte
    BY <1>12, ByteIs, SMT DEF Todo, Between
  <2>6. PICK h \in Cells : h = Home(c) /\ get_plugin_for(h) = p
    BY <1>12, <2>2
  <2>7. h[1] # 4 \/ claims_address(h[2]) = FALSE
    <3>1. h[2] \in Nat
      BY CellParts, SMT
    <3>2. h[1] = 4 => h[2] > 7340032
      BY <2>2, <2>6, <3>1, PluginOfCell, SMT
    <3>3. h[2] > 7340032 => ~claims_address(h[2])
      BY <3>1, Claimed, SMT
    <3>4. QED
      BY <3>2, <3>3, SMT
  <2>8. AfterStore(h, CellByte(c), bytes[k + 1]) = {bytes[k + 1]}
    BY <2>7, SMT DEF AfterStore
  <2>9. QED
    BY <2>1, <2>4, <2>5, <2>6, <2>8, SMT
<1>17. ASSUME NEW c \in Cells, Home(c) \notin TouchedBy(m, bytes)
       PROVE  CellByte(c)' = CellByte(c)
  <2>1. CASE get_plugin_for(c) = "gba_io"
    BY <1>7, <2>1, SMT DEF CellByte, ByteOf
  <2>2. CASE get_plugin_for(c) # "gba_io" /\ get_plugin_for(c) # p
    <3>1. RamOf(get_plugin_for(c))' = RamOf(get_plugin_for(c))
      BY <1>7, <2>2, PluginNames, SMT
    <3>2. QED
      BY <1>15, <2>2, <3>1, SMT DEF RamBytes
  <2>3. CASE get_plugin_for(c) # "gba_io" /\ get_plugin_for(c) = p
    <3>1. /\ CellByte(c) = IF Home(c) \in DOMAIN old THEN old[Home(c)] ELSE Unwritten(Home(c))
          /\ CellByte(c)' = IF Home(c) \in DOMAIN new THEN new[Home(c)] ELSE Unwritten(Home(c))
      BY <1>8, <1>15, <2>3, SMT DEF RamBytes
    <3>2. QED
      BY <1>11, <1>17, <3>1, SMT
  <2>4. QED
    BY <2>1, <2>2, <2>3
<1>18. Written \subseteq Written' /\ Written' \subseteq Written \cup TouchedBy(m, bytes)
  <2>1. /\ \A h : h \in Written <=> \/ \E q \in Rams : h \in DOMAIN RamOf(q)
                                   \/ \E b \in DOMAIN gba_io : h = IoAddress(b)
        /\ \A h : h \in Written' <=> \/ \E q \in Rams : h \in DOMAIN (RamOf(q)')
                                    \/ \E b \in DOMAIN gba_io' : h = IoAddress(b)
    BY <1>15 DEF WrittenAreHomes
  <2>2. ASSUME NEW q \in Rams
        PROVE  /\ DOMAIN RamOf(q) \subseteq DOMAIN (RamOf(q)')
               /\ DOMAIN (RamOf(q)') \subseteq DOMAIN RamOf(q) \cup TouchedBy(m, bytes)
    <3>1. CASE q = p
      BY <1>8, <1>11, <3>1
    <3>2. CASE q # p
      BY <1>7, <3>2
    <3>3. QED
      BY <3>1, <3>2
  <2>3. DOMAIN gba_io' = DOMAIN gba_io
    BY <1>7
  <2>4. QED
    BY <2>1, <2>2, <2>3
<1>19. QED
  BY <1>2, <1>14, <1>16, <1>17, <1>18 DEF StoreDone

LEMMA StoreInRegisters ==
  ASSUME MemoryTyped, NEW m, NEW bytes, StoreAt(m, bytes), get_plugin_for(m) = "gba_io",
         StoresIn(get_plugin_for(m), m, bytes)
  PROVE  StoreDone(m, bytes)
<1>1. PICK n \in {1, 2, 4} : n = Len(bytes)
  BY SMT DEF StoreAt
<1>2. PICK b \in Int : /\ b = m[2] /\ m = <<4, b>> /\ m[1] = 4
  BY RegisterOfCell, SMT DEF StoreAt
<1>3. PICK io, new : io = gba_io /\ new = gba_io'
  OBVIOUS
<1>4. /\ UNCHANGED rams
      /\ new = write_bytes(io, b, bytes)
  BY <1>2, <1>3, SMT DEF StoresIn, rams
<1>5. IoTyped(io)
  BY <1>3 DEF MemoryTyped
<1> DEFINE register(k) ==
             /\ At(m, k) \in Cells /\ At(m, k) = <<4, b + k>> /\ b + k \in Int
             /\ get_plugin_for(At(m, k)) = "gba_io"
             /\ ~ReadsTodo(b + k) /\ Between(b + k, 0, \h700000)
             /\ Home(At(m, k)) = <<4, b + k>> /\ <<4, b + k>> \in TouchedBy(m, bytes)
             /\ bytes[k + 1] \in Byte
<1>6. ASSUME NEW k \in 0..(n - 1)
      PROVE  register(k)
  <2>1. /\ At(m, k) \in Cells /\ At(m, k) = <<m[1], m[2] + k>>
        /\ get_plugin_for(At(m, k)) = "gba_io" /\ ~ReadsTodo(m[2] + k)
        /\ bytes[k + 1] \in Byte
    BY <1>1 DEF StoreAt
  <2>2. PICK c \in Cells : c = At(m, k) /\ c = <<4, b + k>> /\ get_plugin_for(c) = "gba_io"
    BY <1>2, <2>1
  <2>3. Home(c) = c
    BY <2>2, RegisterOfCell, SMT
  <2>4. Home(At(m, k)) \in TouchedBy(m, bytes)
    BY <1>1 DEF TouchedBy
  <2>5. Between(b + k, 0, \h700000)
    BY <1>2, <2>1, SMT DEF ReadsTodo
  <2>6. b + k \in Int
    BY SMT
  <2>7. QED
    BY <1>2, <2>1, <2>2, <2>3, <2>4, <2>5, <2>6
<1> HIDE DEF register
<1>7. SoFar(io, new, b, bytes, n)
  <2>1. Len(bytes) \in {1, 2, 4}
    BY <1>1
  <2>2. \A j \in 0..(Len(bytes) - 1) : ~ReadsTodo(b + j) /\ bytes[j + 1] \in Byte
    <3>1. ASSUME NEW j \in 0..(n - 1)
          PROVE  ~ReadsTodo(b + j) /\ bytes[j + 1] \in Byte
      <4>1. register(j)
        BY <1>6
      <4>2. QED
        BY <4>1 DEF register
    <3>2. QED
      BY <1>1, <3>1
  <2>3. SoFar(io, write_bytes(io, b, bytes), b, bytes, Len(bytes))
    BY <1>5, <2>1, <2>2, StoreOfBytes, SMT
  <2>4. QED
    BY <1>1, <1>4, <2>3
<1>8. \A c \in Cells : get_plugin_for(c) # "gba_io" => CellByte(c)' = CellByte(c)
  <2> SUFFICES ASSUME NEW c \in Cells, get_plugin_for(c) # "gba_io"
               PROVE  CellByte(c)' = CellByte(c)
    OBVIOUS
  <2>1. get_plugin_for(c) \in Rams
    BY PluginNames, SMT
  <2>2. QED
    BY <1>4, <2>1, SMT DEF CellByte, ByteOf, rams, Rams
<1>9. ASSUME NEW c \in Cells, get_plugin_for(c) = "gba_io"
      PROVE  CellByte(c) = read_byte(io, c[2]) /\ CellByte(c)' = read_byte(new, c[2])
             /\ c[2] \in Int /\ c = <<4, c[2]>> /\ Home(c) = c
  <2>1. RegisterBytes /\ RegisterBytes'
    BY RegisterFacts, NextRegisterFacts
  <2>2. CellByte(c) = read_byte(io, c[2]) /\ CellByte(c)' = read_byte(new, c[2])
    BY <1>3, <1>9, <2>1, SMT DEF RegisterBytes
  <2>3. c[2] \in Int /\ c = <<4, c[2]>> /\ Home(c) = c
    BY <1>9, RegisterOfCell, SMT
  <2>4. QED
    BY <2>2, <2>3
<1>10. MemoryTyped'
  <2>1. \A plugin \in Rams : RamIn(RamOf(plugin)', plugin)
    <3>1. ASSUME NEW plugin \in Rams
          PROVE  RamIn(RamOf(plugin)', plugin)
      <4>1. PICK ram : ram = RamOf(plugin)
        OBVIOUS
      <4>2. RamOf(plugin)' = RamOf(plugin)
        BY <1>4, SMT DEF RamOf, rams
      <4>3. RamIn(ram, plugin)
        BY <4>1, RamsTyped
      <4>4. QED
        BY <4>1, <4>2, <4>3
    <3>2. QED
      BY <3>1
  <2>2. FileTyped'
    BY <1>4, SMT DEF MemoryTyped, FileTyped, rams
  <2>3. IoTyped(gba_io')
    BY <1>3, <1>7 DEF SoFar
  <2>4. QED
    BY <2>1, <2>2, <2>3, NextRamsAreTyped
<1>11. WrittenAreHomes /\ WrittenAreHomes'
  BY <1>10, MemoryFacts, NextMemoryFacts
<1>12. ASSUME NEW k \in 0..(n - 1)
       PROVE  /\ CellByte(At(m, k))' # Todo
              /\ CellByte(At(m, k))' \in AfterStore(Home(At(m, k)), CellByte(At(m, k)), bytes[k + 1])
  <2>1. PICK c \in Cells : /\ c = At(m, k) /\ c = <<4, b + k>> /\ get_plugin_for(c) = "gba_io"
                           /\ Home(c) = <<4, b + k>>
    <3>1. register(k)
      BY <1>6
    <3>2. QED
      BY <3>1 DEF register
  <2>2. PICK r \in Int : r = b + k
    BY SMT
  <2>3. c[2] = r
    BY <2>1, <2>2, SMT
  <2>4. CellByte(c) = read_byte(io, r) /\ CellByte(c)' = read_byte(new, r)
    BY <1>9, <2>1, <2>3
  <2>5. read_byte(new, r) \in Outcomes(r, read_byte(io, r), bytes[k + 1])
    BY <1>7, <2>2, SMT DEF SoFar
  <2>6. read_byte(new, r) \in AfterStore(<<4, r>>, read_byte(io, r), bytes[k + 1])
    BY <2>5, OutcomesAllowed, SMT
  <2>7. ~ReadsTodo(r) /\ IoTyped(new)
    <3>1. register(k)
      BY <1>6
    <3>2. QED
      BY <1>7, <2>2, <3>1 DEF SoFar, register
  <2>8. read_byte(new, r) # Todo
    BY <2>7, ReadIsByte, SMT
  <2>9. QED
    BY <2>1, <2>2, <2>4, <2>6, <2>8
<1>13. ASSUME NEW k \in 0..(n - 1), NEW r \in Int, Touches(b + k, r)
       PROVE  <<4, r>> \in TouchedBy(m, bytes) \cup LinkedTo(m, bytes)
  <2>1. PICK e \in Int : e = b + k
    BY SMT
  <2>2. r = e \/ <<4, r>> \in ChangesToo(<<4, e>>)
    BY <1>13, <2>1, TouchesAllowed, SMT
  <2>3. <<4, e>> \in TouchedBy(m, bytes)
    <3>1. register(k)
      BY <1>6
    <3>2. QED
      BY <2>1, <3>1 DEF register
  <2>4. QED
    BY <2>2, <2>3 DEF LinkedTo
<1>14. ASSUME NEW c \in Cells, Home(c) \notin TouchedBy(m, bytes) \cup LinkedTo(m, bytes)
       PROVE  CellByte(c)' = CellByte(c)
  <2>1. CASE get_plugin_for(c) = "gba_io"
    <3>1. PICK r \in Int : r = c[2] /\ Home(c) = <<4, r>>
      BY <1>9, <2>1
    <3>2. \A k \in 0..(n - 1) : ~Touches(b + k, r)
      BY <1>13, <1>14, <3>1
    <3>3. read_byte(new, r) = read_byte(io, r)
      BY <1>7, <3>2, SMT DEF SoFar
    <3>4. QED
      BY <1>9, <2>1, <3>1, <3>3
  <2>2. CASE get_plugin_for(c) # "gba_io"
    BY <1>8, <2>2
  <2>3. QED
    BY <2>1, <2>2
<1>15. ASSUME NEW k \in 0..(n - 1), NEW d \in PlacesOf(b + k)
       PROVE  IoAddress(d) \in TouchedBy(m, bytes) \cup LinkedTo(m, bytes)
  <2>1. PICK e \in Int : e = b + k /\ Between(e, 0, \h700000)
    <3>1. register(k)
      BY <1>6
    <3>2. QED
      BY <3>1 DEF register
  <2>2. IoAddress(e) = <<4, e>> /\ (ReadsWave(e) => IoAddress(e + \h1000000) = <<4, e>>)
    BY <2>1, AddressOfPlace, SMT
  <2>3. IoAddress(\h128) = <<4, \h128>>
    BY SMT DEF IoAddress
  <2>4. Touches(e, e) /\ (e = \h129 => Touches(e, \h128))
    BY SMT DEF Touches
  <2>5. IoAddress(d) = <<4, e>> \/ (e = \h129 /\ IoAddress(d) = <<4, \h128>>)
    BY <2>1, <2>2, <2>3, SMT DEF PlacesOf
  <2>6. PICK r \in Int : Touches(e, r) /\ IoAddress(d) = <<4, r>>
    BY <2>4, <2>5, SMT
  <2>7. QED
    BY <1>13, <2>1, <2>6
<1>16. /\ Written \subseteq Written'
       /\ Written' \subseteq Written \cup TouchedBy(m, bytes) \cup LinkedTo(m, bytes)
  <2>1. /\ \A h : h \in Written <=> \/ \E q \in Rams : h \in DOMAIN RamOf(q)
                                    \/ \E d \in DOMAIN io : h = IoAddress(d)
        /\ \A h : h \in Written' <=> \/ \E q \in Rams : h \in DOMAIN (RamOf(q)')
                                     \/ \E d \in DOMAIN new : h = IoAddress(d)
    BY <1>3, <1>11 DEF WrittenAreHomes
  <2>2. \A q \in Rams : RamOf(q)' = RamOf(q)
    BY <1>4, SMT DEF RamOf, rams
  <2>3. /\ DOMAIN io \subseteq DOMAIN new
        /\ \A d \in DOMAIN new : d \in DOMAIN io \/ \E k \in 0..(n - 1) : d \in PlacesOf(b + k)
    BY <1>7, SMT DEF SoFar
  <2>4. \A d \in DOMAIN new : d \in DOMAIN io
                              \/ IoAddress(d) \in TouchedBy(m, bytes) \cup LinkedTo(m, bytes)
    BY <1>15, <2>3
  <2>5. QED
    BY <2>1, <2>2, <2>3, <2>4
<1>17. QED
  BY <1>1, <1>10, <1>12, <1>14, <1>16 DEF StoreDone

-----------------------------------------------------------------------------
(* The lists of accesses, by homes. *)

ReadHomes(list) == [i \in DOMAIN list |-> <<Home(list[i][1]), list[i][2]>>]
WriteHomes(list) == [i \in DOMAIN list |-> <<Home(list[i][1]), list[i][2], list[i][3]>>]

\* The flat memory has its own copy of where the homes are.
LEMMA SameHome == \A a : Flat!Home(a) = Home(a)
BY SMT DEF Home, VramHome, Part, KB, Flat!Home, Flat!VramHome, Flat!Part, Flat!KB

\* The steps of the flat memory, in terms of what is added to its lists.
LEMMA LoadsWhen ==
  ASSUME NEW added, NEW address, NEW n \in {1, 2, 4},
         access' = <<address, n>>,
         Flat!Added(ReadHomes(reads), ReadHomes(reads')) = added,
         ReadHomes(reads') = ReadHomes(reads) \o added,
         Len(added) = n,
         \A i \in 1..n : /\ added[i][1] = Home(<<address[1], address[2] + i - 1>>)
                         /\ added[i][2] = Flat!ValueIn(FlatBytes, added[i][1]),
         FlatBytes' = FlatBytes,
         writes' = writes
  PROVE  Flat!Loads
<1>1. Flat!Lists(added, access')
  <2>1. <<address, n>> # <<>>
    BY SMT
  <2>2. QED
    BY <2>1, SameHome, SMT DEF Flat!Lists
<1>2. Flat!Loads =
        LET new == Flat!Added(ReadHomes(reads), ReadHomes(reads'))
        IN  /\ Flat!Lists(new, access')
            /\ ReadHomes(reads') = ReadHomes(reads) \o new
            /\ \A i \in 1..Len(new) : new[i][2] = Flat!ValueIn(FlatBytes, new[i][1])
            /\ UNCHANGED <<FlatBytes, WriteHomes(writes)>>
  BY DEF Flat!Loads, FlatBytes, ReadHomes, WriteHomes
<1>3. WriteHomes(writes)' = WriteHomes(writes)
  BY DEF WriteHomes
<1>4. QED
  BY <1>1, <1>2, <1>3

StoresAdding(new) ==
  LET changed == {new[i][1] : i \in 1..Len(new)}
      others  == UNION {ChangesToo(home) : home \in changed}
  IN  /\ Flat!Lists(new, access')
      /\ WriteHomes(writes') = WriteHomes(writes) \o new
      /\ \A i \in 1..Len(new) :
           /\ new[i][2] = Flat!ValueIn(FlatBytes, new[i][1])
           /\ Flat!ValueIn(FlatBytes', new[i][1]) \in AfterStore(new[i][1], new[i][2], new[i][3])
      /\ \A home \in DOMAIN FlatBytes \cup DOMAIN FlatBytes' :
           home \notin changed \cup others
             => Flat!ValueIn(FlatBytes', home) = Flat!ValueIn(FlatBytes, home)
      /\ UNCHANGED ReadHomes(reads)

\* Each new entry is about the byte of one home.
AddsStores(added, address, n) ==
  /\ Len(added) = n
  /\ \A i \in 1..n :
       /\ added[i][1] = Home(<<address[1], address[2] + i - 1>>)
       /\ added[i][2] = Flat!ValueIn(FlatBytes, added[i][1])
       /\ Flat!ValueIn(FlatBytes', added[i][1])
            \in AfterStore(added[i][1], added[i][2], added[i][3])

OthersAreKept(touched) ==
  LET linked == UNION {ChangesToo(home) : home \in touched}
  IN  \A home \in DOMAIN FlatBytes \cup DOMAIN FlatBytes' :
        home \notin touched \cup linked
          => Flat!ValueIn(FlatBytes', home) = Flat!ValueIn(FlatBytes, home)

LEMMA StoresWhen ==
  ASSUME NEW added, NEW address, NEW n \in {1, 2, 4}, NEW touched,
         access' = <<address, n>>,
         Flat!Added(WriteHomes(writes), WriteHomes(writes')) = added,
         WriteHomes(writes') = WriteHomes(writes) \o added,
         AddsStores(added, address, n),
         touched = {added[i][1] : i \in 1..n},
         OthersAreKept(touched),
         reads' = reads
  PROVE  Flat!Stores
<1>1. Flat!Lists(added, access')
  <2>1. <<address, n>> # <<>>
    BY SMT
  <2>2. QED
    BY <2>1, SameHome, SMT DEF Flat!Lists, AddsStores
<1>2. Flat!Stores = StoresAdding(Flat!Added(WriteHomes(writes), WriteHomes(writes')))
  BY DEF Flat!Stores, StoresAdding, FlatBytes, ReadHomes, WriteHomes
<1>3. Flat!Stores = StoresAdding(added)
  BY <1>2
<1>4. ReadHomes(reads)' = ReadHomes(reads)
  BY DEF ReadHomes
<1>5. touched = {added[i][1] : i \in 1..Len(added)}
  BY DEF AddsStores
<1>6. StoresAdding(added)
  <2>1. /\ Flat!Lists(added, access')
        /\ WriteHomes(writes') = WriteHomes(writes) \o added
        /\ UNCHANGED ReadHomes(reads)
    BY <1>1, <1>4
  <2>2. \A i \in 1..Len(added) :
           /\ added[i][2] = Flat!ValueIn(FlatBytes, added[i][1])
           /\ Flat!ValueIn(FlatBytes', added[i][1]) \in AfterStore(added[i][1], added[i][2], added[i][3])
    BY DEF AddsStores
  <2>3. QED
    BY <1>5, <2>1, <2>2 DEF StoresAdding, OthersAreKept
<1>7. QED
  BY <1>3, <1>6

-----------------------------------------------------------------------------
(* What an access adds to the lists. *)

Reading == Cells \X Byte
Writing == Cells \X Byte \X Byte

LEMMA AddedIsTheRest ==
  ASSUME NEW S, NEW l \in Seq(S), NEW a \in Seq(S), Len(a) \in {1, 2, 4}
  PROVE  Flat!Added(l, l \o a) = a
<1>1. Len(l) \in Nat /\ Len(l \o a) = Len(l) + Len(a)
  BY LenProperties, ConcatProperties
<1>2. Len(l) + 1 \in Len(l)+1 .. Len(l)+Len(a) /\ Len(l) + Len(a) \in Len(l)+1 .. Len(l)+Len(a)
  <2>1. PICK p \in Nat, n \in Nat : p = Len(l) /\ n = Len(a) /\ n >= 1
    BY <1>1, SMT
  <2>2. p + 1 \in p + 1 .. p + n /\ p + n \in p + 1 .. p + n
    BY <2>1, SMT
  <2>3. QED
    BY <2>1, <2>2
<1>3. SubSeq(l \o a, Len(l) + 1, Len(l) + Len(a))
        = SubSeq(a, (Len(l) + 1) - Len(l), (Len(l) + Len(a)) - Len(l))
  BY <1>2, SubSeqOfConcat2
<1>4. (Len(l) + 1) - Len(l) = 1 /\ (Len(l) + Len(a)) - Len(l) = Len(a)
  BY <1>1, SMT
<1>5. QED
  BY <1>1, <1>3, <1>4, SubSeqFull, Zenon DEF Flat!Added

LEMMA ReadHomesTyped ==
  ASSUME NEW l \in Seq(Reading)
  PROVE  /\ ReadHomes(l) \in Seq(Reading) /\ Len(ReadHomes(l)) = Len(l)
         /\ \A i \in 1..Len(l) : ReadHomes(l)[i] = <<Home(l[i][1]), l[i][2]>>
<1>1. PICK n \in Nat : n = Len(l) /\ DOMAIN l = 1..n
  BY LenProperties
<1>2. \A i \in 1..n : l[i] \in Reading
  BY <1>1, ElementOfSeq
<1>3. ASSUME NEW i \in 1..n PROVE <<Home(l[i][1]), l[i][2]>> \in Reading
  <2>1. PICK r \in Reading : r = l[i]
    BY <1>2
  <2>2. r[1] \in Cells /\ r[2] \in Byte
    BY SMT DEF Reading
  <2>3. Home(r[1]) \in Cells
    BY <2>2, HomeOfHome, SMT
  <2>4. QED
    BY <2>1, <2>2, <2>3, SMT DEF Reading
<1>4. ReadHomes(l) = [i \in 1..n |-> <<Home(l[i][1]), l[i][2]>>]
  BY <1>1 DEF ReadHomes
<1>5. ReadHomes(l) \in [1..n -> Reading]
  BY <1>3, <1>4, SMT
<1>6. ReadHomes(l) \in Seq(Reading) /\ Len(ReadHomes(l)) = n
  BY <1>5, SMT
<1>7. QED
  BY <1>1, <1>4, <1>6, SMT

LEMMA WriteHomesTyped ==
  ASSUME NEW l \in Seq(Writing)
  PROVE  /\ WriteHomes(l) \in Seq(Writing) /\ Len(WriteHomes(l)) = Len(l)
         /\ \A i \in 1..Len(l) : WriteHomes(l)[i] = <<Home(l[i][1]), l[i][2], l[i][3]>>
<1>1. PICK n \in Nat : n = Len(l) /\ DOMAIN l = 1..n
  BY LenProperties
<1>2. \A i \in 1..n : l[i] \in Writing
  BY <1>1, ElementOfSeq
<1>3. ASSUME NEW i \in 1..n PROVE <<Home(l[i][1]), l[i][2], l[i][3]>> \in Writing
  <2>1. PICK r \in Writing : r = l[i]
    BY <1>2
  <2>2. r[1] \in Cells /\ r[2] \in Byte /\ r[3] \in Byte
    BY SMT DEF Writing
  <2>3. Home(r[1]) \in Cells
    BY <2>2, HomeOfHome, SMT
  <2>4. QED
    BY <2>1, <2>2, <2>3, SMT DEF Writing
<1>4. WriteHomes(l) = [i \in 1..n |-> <<Home(l[i][1]), l[i][2], l[i][3]>>]
  BY <1>1 DEF WriteHomes
<1>5. WriteHomes(l) \in [1..n -> Writing]
  BY <1>3, <1>4, SMT
<1>6. WriteHomes(l) \in Seq(Writing) /\ Len(WriteHomes(l)) = n
  BY <1>5, SMT
<1>7. QED
  BY <1>1, <1>4, <1>6, SMT

\* The homes of a longer list.
LEMMA ReadHomesOfConcat ==
  ASSUME NEW l \in Seq(Reading), NEW a \in Seq(Reading)
  PROVE  ReadHomes(l \o a) = ReadHomes(l) \o ReadHomes(a)
<1>1. PICK whole \in Seq(Reading) : whole = l \o a
  BY ConcatProperties
<1>2. /\ Len(whole) = Len(l) + Len(a) /\ Len(l) \in Nat /\ Len(a) \in Nat
      /\ \A i \in 1..Len(whole) : whole[i] = IF i <= Len(l) THEN l[i] ELSE a[i - Len(l)]
  BY <1>1, ConcatProperties, LenProperties
<1>3. PICK hl \in Seq(Reading), ha \in Seq(Reading), hw \in Seq(Reading) :
        hl = ReadHomes(l) /\ ha = ReadHomes(a) /\ hw = ReadHomes(whole)
  BY ReadHomesTyped
<1>4. /\ Len(hl) = Len(l) /\ Len(ha) = Len(a) /\ Len(hw) = Len(whole)
      /\ \A i \in 1..Len(l) : hl[i] = <<Home(l[i][1]), l[i][2]>>
      /\ \A i \in 1..Len(a) : ha[i] = <<Home(a[i][1]), a[i][2]>>
      /\ \A i \in 1..Len(whole) : hw[i] = <<Home(whole[i][1]), whole[i][2]>>
  BY <1>3, ReadHomesTyped
<1>5. PICK both \in Seq(Reading) : both = hl \o ha
  BY ConcatProperties
<1>6. /\ Len(both) = Len(hl) + Len(ha)
      /\ \A i \in 1..Len(both) : both[i] = IF i <= Len(hl) THEN hl[i] ELSE ha[i - Len(hl)]
  BY <1>5, ConcatProperties
<1>7. ASSUME NEW i \in 1..Len(hw) PROVE hw[i] = both[i]
  <2>1. CASE i <= Len(l)
    <3>1. i \in 1..Len(l)
      BY <1>2, <1>4, <2>1, SMT
    <3>2. hw[i] = <<Home(l[i][1]), l[i][2]>>
      BY <1>2, <1>4, <2>1
    <3>3. QED
      BY <1>2, <1>4, <1>6, <2>1, <3>1, <3>2
  <2>2. CASE ~(i <= Len(l))
    <3>1. i - Len(l) \in 1..Len(a)
      BY <1>2, <1>4, <2>2, SMT
    <3>2. hw[i] = <<Home(a[i - Len(l)][1]), a[i - Len(l)][2]>>
      BY <1>2, <1>4, <2>2
    <3>3. QED
      BY <1>2, <1>4, <1>6, <2>2, <3>1, <3>2
  <2>3. QED
    BY <2>1, <2>2
<1>8. Len(hw) = Len(both)
  BY <1>2, <1>4, <1>6
<1>9. hw = both
  BY <1>7, <1>8, SeqEqual
<1>10. QED
  BY <1>1, <1>3, <1>5, <1>9

LEMMA WriteHomesOfConcat ==
  ASSUME NEW l \in Seq(Writing), NEW a \in Seq(Writing)
  PROVE  WriteHomes(l \o a) = WriteHomes(l) \o WriteHomes(a)
<1>1. PICK whole \in Seq(Writing) : whole = l \o a
  BY ConcatProperties
<1>2. /\ Len(whole) = Len(l) + Len(a) /\ Len(l) \in Nat /\ Len(a) \in Nat
      /\ \A i \in 1..Len(whole) : whole[i] = IF i <= Len(l) THEN l[i] ELSE a[i - Len(l)]
  BY <1>1, ConcatProperties, LenProperties
<1>3. PICK hl \in Seq(Writing), ha \in Seq(Writing), hw \in Seq(Writing) :
        hl = WriteHomes(l) /\ ha = WriteHomes(a) /\ hw = WriteHomes(whole)
  BY WriteHomesTyped
<1>4. /\ Len(hl) = Len(l) /\ Len(ha) = Len(a) /\ Len(hw) = Len(whole)
      /\ \A i \in 1..Len(l) : hl[i] = <<Home(l[i][1]), l[i][2], l[i][3]>>
      /\ \A i \in 1..Len(a) : ha[i] = <<Home(a[i][1]), a[i][2], a[i][3]>>
      /\ \A i \in 1..Len(whole) : hw[i] = <<Home(whole[i][1]), whole[i][2], whole[i][3]>>
  BY <1>3, WriteHomesTyped
<1>5. PICK both \in Seq(Writing) : both = hl \o ha
  BY ConcatProperties
<1>6. /\ Len(both) = Len(hl) + Len(ha)
      /\ \A i \in 1..Len(both) : both[i] = IF i <= Len(hl) THEN hl[i] ELSE ha[i - Len(hl)]
  BY <1>5, ConcatProperties
<1>7. ASSUME NEW i \in 1..Len(hw) PROVE hw[i] = both[i]
  <2>1. CASE i <= Len(l)
    <3>1. i \in 1..Len(l)
      BY <1>2, <1>4, <2>1, SMT
    <3>2. hw[i] = <<Home(l[i][1]), l[i][2], l[i][3]>>
      BY <1>2, <1>4, <2>1
    <3>3. QED
      BY <1>2, <1>4, <1>6, <2>1, <3>1, <3>2
  <2>2. CASE ~(i <= Len(l))
    <3>1. i - Len(l) \in 1..Len(a)
      BY <1>2, <1>4, <2>2, SMT
    <3>2. hw[i] = <<Home(a[i - Len(l)][1]), a[i - Len(l)][2], a[i - Len(l)][3]>>
      BY <1>2, <1>4, <2>2
    <3>3. QED
      BY <1>2, <1>4, <1>6, <2>2, <3>1, <3>2
  <2>3. QED
    BY <2>1, <2>2
<1>8. Len(hw) = Len(both)
  BY <1>2, <1>4, <1>6
<1>9. hw = both
  BY <1>7, <1>8, SeqEqual
<1>10. QED
  BY <1>1, <1>3, <1>5, <1>9

-----------------------------------------------------------------------------
(* The steps. *)

\* A store that does not panic is to cells of one plugin that takes it.
LEMMA AccessStore ==
  ASSUME MemoryTyped, NEW n \in {1, 2, 4}, NEW page \in Nat, NEW offset \in Nat,
         InPage(offset), ~ReadPanics(<<page, offset>>, n), ~WritePanics(<<page, offset>>, n),
         NEW value, Len(value) = n, \A i \in 1..n : value[i] \in Byte
  PROVE  StoreAt(handle_mirrors(<<page, offset>>), value)
<1>1. PICK m : m = handle_mirrors(<<page, offset>>)
  OBVIOUS
<1>2. ASSUME NEW k \in 0..(n - 1)
      PROVE  /\ m \in Cells /\ At(m, k) \in Cells /\ At(m, k) = <<m[1], m[2] + k>>
             /\ get_plugin_for(At(m, k)) = get_plugin_for(m)
             /\ get_plugin_for(m) = "gba_io" => ~ReadsTodo(m[2] + k)
  BY <1>1, BytesOfAccess
<1>3. 0 \in 0..(n - 1)
  BY SMT
<1>4. m \in Cells
  BY <1>2, <1>3
<1>5. ASSUME NEW k \in 0..(n - 1), get_plugin_for(m) = "cartridge"
      PROVE  InFile(Home(At(m, k)), 1)
  <2>1. PICK c \in Cells : c = At(m, k) /\ c[1] = m[1] /\ c[2] = m[2] + k
    BY <1>2, SMT
  <2>2. InFile(normalize_address(m), n)
    BY <1>1, <1>5 DEF WritePanics
  <2>3. m[1] \in 8..13 /\ m[2] \in Nat
    BY <1>4, <1>5, PluginOfCell, CellParts, SMT
  <2>4. Home(c) = normalize_address(c)
    BY <2>1, <2>3, HomeOfCartridge, SMT
  <2>5. 8 + (m[1] % 2) = 8 /\ m[2] + n <= RomLength
    BY <2>2, SMT DEF InFile, normalize_address
  <2>6. m[2] + k + 1 <= RomLength
    BY <2>3, <2>5, Constants, SMT
  <2>7. QED
    BY <2>1, <2>4, <2>5, <2>6, SMT DEF InFile, normalize_address
<1>6. ASSUME NEW k \in 0..(n - 1) PROVE value[k + 1] \in Byte
  BY SMT
<1>7. QED
  BY <1>1, <1>2, <1>4, <1>5, <1>6 DEF StoreAt

\* The first bytes of a word.
LEMMA StoredBytes ==
  ASSUME NEW word \in Words, NEW n \in {1, 2, 4}
  PROVE  /\ Len(SubSeq(word, 1, n)) = n
         /\ \A i \in 1..n : SubSeq(word, 1, n)[i] \in Byte
<1>1. \A i \in 1..4 : word[i] \in Byte
  BY Constants
<1>2. \A i \in 1..n : i \in 1..4
  BY SMT
<1>3. 1 \in Int /\ n \in Int /\ 1 <= n /\ n - 1 + 1 = n
  BY SMT
<1>4. /\ SubSeq(word, 1, n) \in Seq(Byte)
      /\ Len(SubSeq(word, 1, n)) = IF 1 <= n THEN n - 1 + 1 ELSE 0
  BY <1>1, <1>2, <1>3, SubSeqProperties
<1>5. Len(SubSeq(word, 1, n)) = n
  BY <1>3, <1>4
<1>6. QED
  BY <1>4, <1>5, ElementOfSeq

\* A home that was read, as the next value of a cell.
LEMMA FlatBytesKept ==
  ASSUME UNCHANGED <<rams, gba_io>>
  PROVE  FlatBytes' = FlatBytes
BY SMT DEF FlatBytes, Written, Bytes, ByteOf, rams

LEMMA MemoryKept ==
  ASSUME MemoryTyped, UNCHANGED <<rams, gba_io>>
  PROVE  MemoryTyped'
BY SMT DEF MemoryTyped, RamIn, FileTyped, IoTyped, rams

-----------------------------------------------------------------------------
(* A load. *)

Loaded(m, values) == [i \in 1..Len(values) |-> <<At(m, i - 1), values[i]>>]

IsLoad(new, page, offset, n) ==
  /\ new \in Seq(Reading) /\ Len(new) = n
  /\ \A i \in 1..n :
       /\ new[i][2] = Flat!ValueIn(FlatBytes, Home(new[i][1]))
       /\ Home(new[i][1]) = Home(<<page, offset + i - 1>>)

\* What it adds to the list: the cells with the bytes they hold.
LEMMA LoadedBytes ==
  ASSUME MemoryTyped, NEW n \in {1, 2, 4}, NEW page \in Nat, NEW offset \in Nat,
         InPage(offset), ~ReadPanics(<<page, offset>>, n),
         NEW m, m = handle_mirrors(<<page, offset>>),
         NEW values, values = Bytes(<<page, offset>>, n),
         NEW new, new = Loaded(m, values)
  PROVE  IsLoad(new, page, offset, n)
<1>1. Len(values) = n
  BY SMT DEF Bytes
<1>2. ASSUME NEW i \in 1..n
      PROVE  /\ At(m, i - 1) \in Cells /\ values[i] \in Byte
             /\ values[i] = Flat!ValueIn(FlatBytes, Home(At(m, i - 1)))
             /\ Home(At(m, i - 1)) = Home(<<page, offset + i - 1>>)
  <2>1. PICK k \in 0..(n - 1) : k = i - 1 /\ k + 1 = i /\ offset + k = offset + i - 1
    BY SMT
  <2>2. /\ At(m, k) \in Cells
        /\ Home(At(m, k)) = Home(<<page, offset + k>>)
        /\ Bytes(<<page, offset>>, n)[k + 1] = CellByte(At(m, k))
        /\ CellByte(At(m, k)) # Todo
    BY BytesOfAccess
  <2>3. /\ CellByte(At(m, k)) \in Byte
        /\ Flat!ValueIn(FlatBytes, Home(At(m, k))) = CellByte(At(m, k))
    BY <2>2, MemoryFacts DEF ValuesRead
  <2>4. QED
    BY <2>1, <2>2, <2>3
<1>3. new = [i \in 1..n |-> <<At(m, i - 1), values[i]>>]
  BY <1>1 DEF Loaded
<1>4. new \in Seq(Reading) /\ Len(new) = n
  <2>1. \A i \in 1..n : <<At(m, i - 1), values[i]>> \in Reading
    BY <1>2 DEF Reading
  <2>2. new \in [1..n -> Reading]
    BY <1>3, <2>1
  <2>3. QED
    BY <2>2, SMT
<1>5. \A i \in 1..n : new[i][1] = At(m, i - 1) /\ new[i][2] = values[i]
  BY <1>3, SMT
<1>6. QED
  BY <1>2, <1>4, <1>5 DEF IsLoad

LEMMA ReadsStep ==
  ASSUME MemInv, NEW one \in Accesses, Reads(one[1], one[2])
  PROVE  MemInv' /\ Flat!Loads
<1>1. PICK page \in Nat, offset \in Nat, n \in {1, 2, 4} :
        one[1] = <<page, offset>> /\ one[2] = n /\ InPage(offset)
  BY Constants
<1>2. PICK values, m, new :
        /\ values = Bytes(<<page, offset>>, n) /\ m = handle_mirrors(<<page, offset>>)
        /\ new = Loaded(m, values)
  OBVIOUS
<1>3. /\ ~ReadPanics(<<page, offset>>, n)
      /\ access' = <<<<page, offset>>, n>>
      /\ reads' = reads \o new
      /\ UNCHANGED <<rams, gba_io, writes, panicked, stores>>
  BY <1>1, <1>2 DEF Reads, LogReads, Loaded
<1>4. MemoryTyped /\ reads \in Seq(Reading)
  BY DEF MemInv, Reading
<1>5. /\ new \in Seq(Reading) /\ Len(new) = n
      /\ \A i \in 1..n :
           /\ new[i][2] = Flat!ValueIn(FlatBytes, Home(new[i][1]))
           /\ Home(new[i][1]) = Home(<<page, offset + i - 1>>)
  <2>1. IsLoad(new, page, offset, n)
    BY <1>1, <1>2, <1>3, <1>4, LoadedBytes
  <2>2. QED
    BY <2>1 DEF IsLoad
<1>6. FlatBytes' = FlatBytes
  BY <1>3, FlatBytesKept
<1>7. PICK l \in Seq(Reading) : l = reads
  BY <1>4
<1>8. PICK added : added = ReadHomes(new)
  OBVIOUS
<1>9. /\ added \in Seq(Reading) /\ Len(added) = n
      /\ \A i \in 1..n : added[i] = <<Home(new[i][1]), new[i][2]>>
  BY <1>5, <1>8, ReadHomesTyped
<1>10. \A i \in 1..n : added[i][1] = Home(new[i][1]) /\ added[i][2] = new[i][2]
  BY <1>9, SMT
<1>11. ReadHomes(reads') = ReadHomes(reads) \o added
  BY <1>3, <1>5, <1>7, <1>8, ReadHomesOfConcat
<1>12. Flat!Added(ReadHomes(reads), ReadHomes(reads')) = added
  BY <1>7, <1>9, <1>11, ReadHomesTyped, AddedIsTheRest
<1>13. PICK address : address = <<page, offset>>
  OBVIOUS
<1>14. \A i \in 1..n : /\ added[i][1] = Home(<<address[1], address[2] + i - 1>>)
                       /\ added[i][2] = Flat!ValueIn(FlatBytes, added[i][1])
  <2>1. address[1] = page /\ address[2] = offset
    BY <1>13, SMT
  <2>2. QED
    BY <1>5, <1>10, <2>1
<1>15. Flat!Loads
  BY <1>3, <1>6, <1>9, <1>11, <1>12, <1>13, <1>14, LoadsWhen
<1>16. reads' \in Seq(Reading)
  BY <1>3, <1>4, <1>5, ConcatProperties
<1>17. MemInv'
  BY <1>3, <1>4, <1>16, MemoryKept DEF MemInv, Reading
<1>18. QED
  BY <1>15, <1>17

-----------------------------------------------------------------------------
(* A store. *)

Listed(m, old, value) == [i \in 1..Len(value) |-> <<At(m, i - 1), old[i], value[i]>>]

IsStore(new, m, page, offset, n, value) ==
  /\ new \in Seq(Writing) /\ Len(new) = n
  /\ \A i \in 1..n :
       /\ At(m, i - 1) \in Cells
       /\ Home(At(m, i - 1)) = Home(<<page, offset + i - 1>>)
       /\ new[i][1] = At(m, i - 1)
       /\ new[i][2] = CellByte(At(m, i - 1))
       /\ new[i][2] = Flat!ValueIn(FlatBytes, Home(At(m, i - 1)))
       /\ new[i][3] = value[i]

\* What it adds to the list: the cells with the bytes they held and those stored.
LEMMA ListedBytes ==
  ASSUME MemoryTyped, NEW n \in {1, 2, 4}, NEW page \in Nat, NEW offset \in Nat,
         InPage(offset), ~ReadPanics(<<page, offset>>, n),
         NEW m, m = handle_mirrors(<<page, offset>>),
         NEW old, old = Bytes(<<page, offset>>, n),
         NEW value, Len(value) = n, \A i \in 1..n : value[i] \in Byte,
         NEW new, new = Listed(m, old, value)
  PROVE  IsStore(new, m, page, offset, n, value)
<1>1. ASSUME NEW i \in 1..n
      PROVE  /\ At(m, i - 1) \in Cells /\ old[i] \in Byte
             /\ old[i] = CellByte(At(m, i - 1))
             /\ old[i] = Flat!ValueIn(FlatBytes, Home(At(m, i - 1)))
             /\ Home(At(m, i - 1)) = Home(<<page, offset + i - 1>>)
  <2>1. PICK k \in 0..(n - 1) : k = i - 1 /\ k + 1 = i /\ offset + k = offset + i - 1
    BY SMT
  <2>2. /\ At(m, k) \in Cells
        /\ Home(At(m, k)) = Home(<<page, offset + k>>)
        /\ Bytes(<<page, offset>>, n)[k + 1] = CellByte(At(m, k))
        /\ CellByte(At(m, k)) # Todo
    BY BytesOfAccess
  <2>3. /\ CellByte(At(m, k)) \in Byte
        /\ Flat!ValueIn(FlatBytes, Home(At(m, k))) = CellByte(At(m, k))
    BY <2>2, MemoryFacts DEF ValuesRead
  <2>4. QED
    BY <2>1, <2>2, <2>3
<1>2. new = [i \in 1..n |-> <<At(m, i - 1), old[i], value[i]>>]
  BY DEF Listed
<1>3. new \in Seq(Writing) /\ Len(new) = n
  <2>1. \A i \in 1..n : <<At(m, i - 1), old[i], value[i]>> \in Writing
    BY <1>1 DEF Writing
  <2>2. new \in [1..n -> Writing]
    BY <1>2, <2>1
  <2>3. QED
    BY <2>2, SMT
<1>4. \A i \in 1..n : new[i][1] = At(m, i - 1) /\ new[i][2] = old[i] /\ new[i][3] = value[i]
  BY <1>2, SMT
<1>5. QED
  BY <1>1, <1>3, <1>4 DEF IsStore

LEMMA StoresAreDone ==
  ASSUME MemoryTyped, NEW m, NEW value, StoreAt(m, value),
         StoresIn(get_plugin_for(m), m, value)
  PROVE  StoreDone(m, value)
BY StoreInRam, StoreInRegisters

\* What is read of a home, in the next state.
LEMMA NextValuesRead ==
  ASSUME MemoryTyped', NEW c \in Cells, CellByte(c)' # Todo
  PROVE  Flat!ValueIn(FlatBytes', Home(c)) = CellByte(c)'
<1>1. ValuesRead'
  BY NextMemoryFacts
<1>2. QED
  BY <1>1 DEF ValuesRead, Flat!ValueIn

\* The homes that a store leaves alone.
LEMMA OthersKept ==
  ASSUME MemoryTyped, NEW m, NEW value, StoreDone(m, value),
         NEW home \in DOMAIN FlatBytes \cup DOMAIN FlatBytes',
         home \notin TouchedBy(m, value) \cup LinkedTo(m, value)
  PROVE  Flat!ValueIn(FlatBytes', home) = Flat!ValueIn(FlatBytes, home)
<1>1. WrittenAreHomes /\ WrittenAreHomes'
  BY MemoryFacts, NextMemoryFacts DEF StoreDone
<1>2. home \in Written /\ home \in Written'
  BY <1>1 DEF StoreDone, WrittenAreHomes
<1>3. /\ home \in Cells /\ Home(home) = home
      /\ home \in DOMAIN FlatBytes /\ FlatBytes[home] = CellByte(home)
      /\ home \in DOMAIN FlatBytes' /\ FlatBytes'[home] = CellByte(home)'
  BY <1>1, <1>2 DEF WrittenAreHomes
<1>4. CellByte(home)' = CellByte(home)
  BY <1>3 DEF StoreDone
<1>5. QED
  BY <1>3, <1>4 DEF Flat!ValueIn

LEMMA WritesStep ==
  ASSUME MemInv, NEW one \in Accesses, NEW word \in Words,
         Writes(one[1], one[2], SubSeq(word, 1, one[2]))
  PROVE  MemInv' /\ Flat!Stores
<1>1. PICK page \in Nat, offset \in Nat, n \in {1, 2, 4} :
        one[1] = <<page, offset>> /\ one[2] = n /\ InPage(offset)
  BY Constants
<1>2. PICK value : value = SubSeq(word, 1, n)
  OBVIOUS
<1>3. Len(value) = n /\ \A i \in 1..n : value[i] \in Byte
  BY <1>2, StoredBytes
<1>4. PICK old, m, new :
        /\ old = Bytes(<<page, offset>>, n) /\ m = handle_mirrors(<<page, offset>>)
        /\ new = Listed(m, old, value)
  OBVIOUS
<1>5. /\ ~ReadPanics(<<page, offset>>, n) /\ ~WritePanics(<<page, offset>>, n)
      /\ access' = <<<<page, offset>>, n>>
      /\ writes' = writes \o new
      /\ StoresIn(get_plugin_for(m), m, value)
      /\ stores < MaxStores /\ stores' = stores + 1
      /\ UNCHANGED <<reads, panicked>>
  BY <1>1, <1>2, <1>4 DEF Writes, LogWrites, Listed
<1>6. MemoryTyped /\ writes \in Seq(Writing)
  BY DEF MemInv, Writing
<1>7. IsStore(new, m, page, offset, n, value)
  BY <1>1, <1>3, <1>4, <1>5, <1>6, ListedBytes
<1>8. StoreDone(m, value)
  <2>1. StoreAt(m, value)
    BY <1>1, <1>3, <1>4, <1>5, <1>6, AccessStore
  <2>2. QED
    BY <1>5, <1>6, <2>1, StoresAreDone
<1>9. new \in Seq(Writing) /\ Len(new) = n
  BY <1>7 DEF IsStore
<1>10. PICK l \in Seq(Writing) : l = writes
  BY <1>6
<1>11. PICK added : added = WriteHomes(new)
  OBVIOUS
<1>12. /\ added \in Seq(Writing) /\ Len(added) = n
       /\ \A i \in 1..n : added[i] = <<Home(new[i][1]), new[i][2], new[i][3]>>
  BY <1>9, <1>11, WriteHomesTyped
<1>13. \A i \in 1..n : added[i][1] = Home(new[i][1]) /\ added[i][2] = new[i][2]
                       /\ added[i][3] = new[i][3]
  BY <1>12, SMT
<1>14. WriteHomes(writes') = WriteHomes(writes) \o added
  BY <1>5, <1>9, <1>10, <1>11, WriteHomesOfConcat
<1>15. Flat!Added(WriteHomes(writes), WriteHomes(writes')) = added
  BY <1>10, <1>12, <1>14, WriteHomesTyped, AddedIsTheRest
<1>16. PICK address : address = <<page, offset>>
  OBVIOUS
<1>17. ASSUME NEW i \in 1..n
       PROVE  /\ added[i][1] = Home(<<address[1], address[2] + i - 1>>)
              /\ added[i][1] = Home(At(m, i - 1))
              /\ added[i][2] = Flat!ValueIn(FlatBytes, added[i][1])
              /\ Flat!ValueIn(FlatBytes', added[i][1])
                   \in AfterStore(added[i][1], added[i][2], added[i][3])
  <2>1. address[1] = page /\ address[2] = offset
    BY <1>16, SMT
  <2>2. PICK c \in Cells : c = At(m, i - 1)
    BY <1>7 DEF IsStore
  <2>3. /\ Home(c) = Home(<<page, offset + i - 1>>)
        /\ added[i][1] = Home(c) /\ added[i][2] = CellByte(c) /\ added[i][3] = value[i]
        /\ added[i][2] = Flat!ValueIn(FlatBytes, Home(c))
    BY <1>7, <1>13, <2>2 DEF IsStore
  <2>4. PICK k \in 0..(n - 1) : k = i - 1 /\ k + 1 = i
    BY SMT
  <2>5. CellByte(c)' # Todo /\ CellByte(c)' \in AfterStore(Home(c), CellByte(c), value[i])
    BY <1>3, <1>8, <2>2, <2>4 DEF StoreDone
  <2>6. Flat!ValueIn(FlatBytes', Home(c)) = CellByte(c)'
    BY <1>8, <2>5, NextValuesRead DEF StoreDone
  <2>7. QED
    BY <2>1, <2>2, <2>3, <2>5, <2>6
<1>18. PICK touched : touched = {added[i][1] : i \in 1..n}
  OBVIOUS
<1>19. /\ touched = TouchedBy(m, value)
       /\ UNION {ChangesToo(home) : home \in touched} = LinkedTo(m, value)
  <2>1. touched = {Home(At(m, i - 1)) : i \in 1..n}
    BY <1>17, <1>18
  <2>2. \A i \in 1..n : i - 1 \in 0..(n - 1)
    BY SMT
  <2>3. \A k \in 0..(n - 1) : k + 1 \in 1..n /\ (k + 1) - 1 = k
    BY SMT
  <2>4. touched = {Home(At(m, k)) : k \in 0..(n - 1)}
    BY <2>1, <2>2, <2>3
  <2>5. QED
    BY <1>3, <1>18, <2>4 DEF TouchedBy, LinkedTo
<1>20. OthersAreKept(touched)
  BY <1>6, <1>8, <1>19, OthersKept DEF OthersAreKept
<1>21. Flat!Stores
  <2>1. AddsStores(added, address, n)
    BY <1>12, <1>17 DEF AddsStores
  <2>2. reads' = reads /\ access' = <<address, n>>
    BY <1>5, <1>16
  <2>3. QED
    BY <1>14, <1>15, <1>18, <1>20, <2>1, <2>2, StoresWhen
<1>22. MemInv'
  <2>1. writes' \in Seq(Writing)
    BY <1>5, <1>6, <1>9, ConcatProperties
  <2>2. MemoryTyped'
    BY <1>8 DEF StoreDone
  <2>3. stores' \in 0..MaxStores
    BY <1>5, MemoryMapAssumption, SMT DEF MemInv, MemoryMapAssumption
  <2>4. QED
    BY <1>5, <2>1, <2>2, <2>3 DEF MemInv, Writing
<1>23. QED
  BY <1>21, <1>22

-----------------------------------------------------------------------------
(* A reset. *)

LEMMA KeptAfterReset ==
  ASSUME NEW io, NEW b \in Int, ~OfInterruptUnit(b)
  PROVE  Kept(reset(io), b) = Kept(io, b)
BY InterruptUnitRegisters, SMT DEF Kept, reset

\* Registers outside of the interrupt unit read as before.
LEMMA ReadAfterReset ==
  ASSUME NEW io, NEW b \in Int, ~OfInterruptUnit(b)
  PROVE  read_byte(reset(io), b) = read_byte(io, b)
<1>1. PICK new : new = reset(io)
  OBVIOUS
<1>2. Kept(new, b) = Kept(io, b) /\ Kept(new, \h70) = Kept(io, \h70)
  BY <1>1, KeptAfterReset, SMT DEF OfInterruptUnit, Between
<1>3. ASSUME ReadsWave(b)
      PROVE  Kept(new, inactive_channel_3_wave_pattern(new, b))
               = Kept(io, inactive_channel_3_wave_pattern(io, b))
  <2>1. PICK d : d = inactive_channel_3_wave_pattern(io, b)
    OBVIOUS
  <2>2. d = inactive_channel_3_wave_pattern(new, b)
    BY <1>2, <2>1, SMT DEF inactive_channel_3_wave_pattern
  <2>3. d \in {b, b + \h1000000}
    BY <1>3, <2>1, WavePlaces, SMT
  <2>4. d \in Int /\ ~OfInterruptUnit(d)
    BY <1>3, <2>3, SMT DEF ReadsWave, OfInterruptUnit, Between
  <2>5. QED
    BY <1>1, <2>1, <2>2, <2>4, KeptAfterReset
<1>4. ReadsWave(b) => ~ReadsTodo(b) /\ ~ReadsZero(b)
  BY SMT DEF ReadsWave, ReadsTodo, ReadsZero, Between, Absent, OfInterruptUnit
<1>5. QED
  BY <1>1, <1>2, <1>3, <1>4, ReadCases, SMT

\* What is cleared are registers of the interrupt unit, each by its own place.
LEMMA ClearedCells ==
  ASSUME NEW c \in Cells
  PROVE  /\ OfInterrupts(c) => get_plugin_for(c) = "gba_io"
         /\ c[1] = 4 => (OfInterrupts(c) <=> OfInterruptUnit(c[2]))
<1>1. c[1] \in Pages /\ c[2] \in Nat
  BY CellParts, SMT
<1>2. c[1] = 4 => (OfInterrupts(c) <=> OfInterruptUnit(c[2]))
  BY <1>1, InterruptUnitRegisters, SMT DEF OfInterrupts
<1>3. OfInterrupts(c) => c[1] = 4
  BY SMT DEF OfInterrupts
<1>4. OfInterruptUnit(c[2]) => c[2] <= 7340032
  BY <1>1, SMT DEF OfInterruptUnit, Between
<1>5. OfInterrupts(c) => get_plugin_for(c) = "gba_io"
  BY <1>2, <1>3, <1>4, PluginOfCell, SMT
<1>6. QED
  BY <1>2, <1>5

LEMMA ClearedPlace ==
  ASSUME NEW b \in IoPlaces
  PROVE  OfInterrupts(IoAddress(b)) <=> b \in InterruptRegisters
<1>1. PICK r \in Int : /\ Between(r, 0, \h700000) /\ IoAddress(b) = <<4, r>>
                       /\ b = r \/ (b = r + \h1000000 /\ ReadsWave(r))
  BY PlaceIsOfRegister, SMT
<1>2. PICK c \in Cells : c = <<4, r>> /\ c[1] = 4 /\ c[2] = r
  BY <1>1, RegisterCells, SMT
<1>3. OfInterrupts(c) <=> OfInterruptUnit(r)
  BY <1>2, ClearedCells
<1>4. b \in Int /\ (OfInterruptUnit(b) <=> OfInterruptUnit(r))
  BY <1>1, SMT DEF OfInterruptUnit, ReadsWave, Between
<1>5. QED
  BY <1>1, <1>2, <1>3, <1>4, InterruptUnitRegisters

LEMMA ResetsStep ==
  ASSUME MemInv, ResetsGba
  PROVE  MemInv' /\ Flat!Resets
<1>1. PICK io : io = gba_io
  OBVIOUS
<1>2. gba_io' = reset(io) /\ UNCHANGED <<rams, reads, writes, access, panicked, stores>>
  BY <1>1 DEF ResetsGba
<1>3. MemoryTyped /\ IoTyped(io)
  BY <1>1 DEF MemInv, MemoryTyped
<1>4. /\ DOMAIN reset(io) = DOMAIN io \ InterruptRegisters
      /\ \A b \in DOMAIN reset(io) : reset(io)[b] = io[b]
  BY SMT DEF reset
<1>5. MemoryTyped'
  <2>1. IoTyped(reset(io))
    BY <1>3, <1>4 DEF IoTyped
  <2>2. \A q \in Rams : RamOf(q)' = RamOf(q)
    BY <1>2, SMT DEF RamOf, rams
  <2>3. FileTyped'
    BY <1>2, <1>3 DEF MemoryTyped, FileTyped, rams
  <2>4. QED
    BY <1>2, <1>3, <2>1, <2>2, <2>3, RamsAreTyped, NextRamsAreTyped
<1>6. WrittenAreHomes /\ WrittenAreHomes' /\ RamBytes /\ RamBytes' /\ RegisterBytes /\ RegisterBytes'
  BY <1>3, <1>5, MemoryFacts, NextMemoryFacts, RegisterFacts, NextRegisterFacts
<1>7. \A q \in Rams : RamOf(q)' = RamOf(q)
  BY <1>2, SMT DEF RamOf, rams
<1>8. ASSUME NEW b \in DOMAIN io
      PROVE  b \in DOMAIN reset(io) <=> ~OfInterrupts(IoAddress(b))
  <2>1. b \in IoPlaces
    BY <1>3 DEF IoTyped
  <2>2. QED
    BY <1>4, <2>1, ClearedPlace
<1>9. ASSUME NEW h, NEW q \in Rams, h \in DOMAIN RamOf(q)
      PROVE  ~OfInterrupts(h)
  <2>1. h \in Cells /\ get_plugin_for(h) = q
    BY <1>3, <1>9, RamsAreTyped DEF RamIn
  <2>2. q # "gba_io"
    BY SMT DEF Rams
  <2>3. QED
    BY <2>1, <2>2, ClearedCells
<1>10. \A h : h \in Written' <=> h \in Written /\ ~OfInterrupts(h)
  <2>1. \A h : h \in Written <=> \/ \E q \in Rams : h \in DOMAIN RamOf(q)
                                 \/ \E b \in DOMAIN io : h = IoAddress(b)
    BY <1>1, <1>6 DEF WrittenAreHomes
  <2>2. \A h : h \in Written' <=> \/ \E q \in Rams : h \in DOMAIN (RamOf(q)')
                                  \/ \E b \in DOMAIN reset(io) : h = IoAddress(b)
    BY <1>2, <1>6 DEF WrittenAreHomes
  <2>3. QED
    BY <1>4, <1>7, <1>8, <1>9, <2>1, <2>2
<1>11. ASSUME NEW h \in Cells, ~OfInterrupts(h)
       PROVE  CellByte(h)' = CellByte(h)
  <2>1. CASE get_plugin_for(h) = "gba_io"
    <3>1. PICK r \in Int : r = h[2] /\ h[1] = 4
      BY <2>1, RegisterOfCell
    <3>2. ~OfInterruptUnit(r)
      BY <1>11, <3>1, ClearedCells
    <3>3. CellByte(h) = read_byte(io, r) /\ CellByte(h)' = read_byte(reset(io), r)
      BY <1>1, <1>2, <1>6, <2>1, <3>1 DEF RegisterBytes
    <3>4. QED
      BY <3>2, <3>3, ReadAfterReset
  <2>2. CASE get_plugin_for(h) # "gba_io"
    <3>1. get_plugin_for(h) \in Rams
      BY <2>2, PluginNames
    <3>2. PICK ram : ram = RamOf(get_plugin_for(h)) /\ ram = RamOf(get_plugin_for(h))'
      BY <1>7, <3>1
    <3>3. QED
      BY <1>6, <2>2, <3>2 DEF RamBytes
  <2>3. QED
    BY <2>1, <2>2
<1>12. /\ DOMAIN FlatBytes = Written /\ DOMAIN FlatBytes' = Written'
       /\ \A h \in Written : h \in Cells /\ FlatBytes[h] = CellByte(h)
       /\ \A h \in Written' : FlatBytes'[h] = CellByte(h)'
  BY <1>6 DEF WrittenAreHomes
<1>13. FlatBytes' = [home \in {h \in DOMAIN FlatBytes : ~OfInterrupts(h)} |-> FlatBytes[home]]
  <2>1. {h \in DOMAIN FlatBytes : ~OfInterrupts(h)} = Written'
    BY <1>10, <1>12
  <2>2. \A h \in Written' : FlatBytes'[h] = FlatBytes[h]
    BY <1>10, <1>11, <1>12
  <2>3. FlatBytes' = [h \in Written' |-> FlatBytes'[h]]
    BY DEF FlatBytes
  <2>4. QED
    BY <2>1, <2>2, <2>3
<1>14. Flat!Resets
  <2>1. /\ ReadHomes(reads)' = ReadHomes(reads) /\ WriteHomes(writes)' = WriteHomes(writes)
        /\ access' = access
    BY <1>2 DEF ReadHomes, WriteHomes
  <2>2. QED
    BY <1>13, <2>1 DEF Flat!Resets, FlatBytes, ReadHomes, WriteHomes
<1>15. MemInv'
  BY <1>2, <1>5 DEF MemInv
<1>16. QED
  BY <1>14, <1>15

-----------------------------------------------------------------------------
(* The other steps, and the specification. *)

LEMMA TakenStep ==
  ASSUME MemInv, AfterExecuting
  PROVE  MemInv' /\ Flat!Taken
<1>1. /\ reads' = <<>> /\ writes' = <<>> /\ access' = <<>>
      /\ UNCHANGED <<rams, gba_io, panicked, stores>>
  BY DEF AfterExecuting
<1>2. MemoryTyped'
  BY <1>1, MemoryKept DEF MemInv
<1>3. MemInv'
  BY <1>1, <1>2, SMT DEF MemInv
<1>4. Flat!Taken
  BY SMT DEF AfterExecuting, Flat!Taken, rams, Written, Bytes, ByteOf
<1>5. QED
  BY <1>3, <1>4

LEMMA StutterStep ==
  ASSUME MemInv, UNCHANGED <<rams, gba_io, reads, writes, access, stores>>, panicked' \in BOOLEAN
  PROVE  MemInv' /\ UNCHANGED Flat!flatVars
<1>1. MemInv'
  BY MemoryKept DEF MemInv
<1>2. FlatBytes' = FlatBytes
  BY FlatBytesKept
<1>3. ReadHomes(reads)' = ReadHomes(reads) /\ WriteHomes(writes)' = WriteHomes(writes)
  BY DEF ReadHomes, WriteHomes
<1>4. UNCHANGED Flat!flatVars
  BY <1>2, <1>3 DEF Flat!flatVars, FlatBytes, ReadHomes, WriteHomes
<1>5. QED
  BY <1>1, <1>4

LEMMA MemInvInit == Init => MemInv /\ Flat!Init
<1> SUFFICES ASSUME Init PROVE MemInv /\ Flat!Init
  OBVIOUS
<1>1. DOMAIN Nothing = {}
  BY SMT DEF Nothing
<1>2. MemInv
  <2>1. MemoryTyped
    BY <1>1, SMT DEF Init, MemoryTyped, RamIn, FileTyped, IoTyped
  <2>2. MaxStores \in Nat
    BY MemoryMapAssumption DEF MemoryMapAssumption
  <2>3. stores \in 0..MaxStores /\ panicked \in BOOLEAN
    <3>1. stores = 0 /\ panicked = FALSE
      BY DEF Init
    <3>2. 0 \in 0..MaxStores
      BY <2>2, SMT
    <3>3. QED
      BY <3>1, <3>2
  <2>4. reads \in Seq(Cells \X Byte) /\ writes \in Seq(Cells \X Byte \X Byte)
    BY EmptySeq DEF Init
  <2>5. QED
    BY <2>1, <2>3, <2>4 DEF MemInv
<1>3. Flat!Init
  <2>1. Written = {}
    BY <1>1, SMT DEF Init, Written
  <2>2. FlatBytes = <<>>
    BY <2>1, SMT DEF FlatBytes
  <2>3. ReadHomes(reads) = <<>> /\ WriteHomes(writes) = <<>>
    BY SMT DEF Init, ReadHomes, WriteHomes
  <2>4. QED
    BY <2>2, <2>3 DEF Init, Flat!Init, FlatBytes, ReadHomes, WriteHomes
<1>4. QED
  BY <1>2, <1>3

\* A step keeps the invariant, and is one of the flat memory or none.
LEMMA MemInvNext ==
  MemInv /\ [Next]_vars => MemInv' /\ [Flat!Next]_(Flat!flatVars)
<1> SUFFICES ASSUME MemInv, [Next]_vars
             PROVE  MemInv' /\ [Flat!Next]_(Flat!flatVars)
  OBVIOUS
<1>1. ASSUME NEW one \in Accesses, Reads(one[1], one[2])
      PROVE  MemInv' /\ [Flat!Next]_(Flat!flatVars)
  BY <1>1, ReadsStep DEF Flat!Next
<1>2. ASSUME NEW one \in Accesses, NEW word \in Words,
             Writes(one[1], one[2], SubSeq(word, 1, one[2]))
      PROVE  MemInv' /\ [Flat!Next]_(Flat!flatVars)
  BY <1>2, WritesStep DEF Flat!Next
<1>3. ASSUME NEW one \in Accesses, WritesReadOnly(one[1], one[2])
      PROVE  MemInv' /\ [Flat!Next]_(Flat!flatVars)
  <2>1. UNCHANGED <<rams, gba_io, reads, writes, access, stores>> /\ panicked' \in BOOLEAN
    BY <1>3 DEF WritesReadOnly, vars, MemInv
  <2>2. QED
    BY <2>1, StutterStep
<1>4. ASSUME NEW one \in Accesses, Panics(one[1], one[2])
      PROVE  MemInv' /\ [Flat!Next]_(Flat!flatVars)
  <2>1. UNCHANGED <<rams, gba_io, reads, writes, access, stores>> /\ panicked' \in BOOLEAN
    BY <1>4 DEF Panics
  <2>2. QED
    BY <2>1, StutterStep
<1>5. CASE AfterExecuting
  BY <1>5, TakenStep DEF Flat!Next
<1>6. CASE ResetsGba
  BY <1>6, ResetsStep DEF Flat!Next
<1>7. CASE Stopped \/ UNCHANGED vars
  <2>1. UNCHANGED <<rams, gba_io, reads, writes, access, stores>> /\ panicked' \in BOOLEAN
    BY <1>7 DEF Stopped, vars, MemInv
  <2>2. QED
    BY <2>1, StutterStep
<1>8. QED
  BY <1>1, <1>2, <1>3, <1>4, <1>5, <1>6, <1>7 DEF Next

LEMMA MemInvAlways == Spec => []MemInv
<1>1. Init => MemInv
  BY MemInvInit
<1>2. MemInv /\ [Next]_vars => MemInv'
  BY MemInvNext
<1>3. QED
  BY <1>1, <1>2, PTL DEF Spec

\* Every byte is kept by the plugin whose address it has (get_plugin_for of memory.rs),
\* inside what that plugin claims, the cartridge's inside the file that was loaded.
THEOREM TypeCorrect == Spec => []TypeOK
BY MemInvAlways, InvTypes, PTL

\* The memory, with its mirrors, its plugins, its three access widths, the registers
\* of the devices and the lists of the memory_watcher, implements one byte per home.
THEOREM ImplementsFlat == Spec => FlatSpec
<1>1. Init => Flat!Init
  BY MemInvInit
<1>2. MemInv /\ [Next]_vars => [Flat!Next]_(Flat!flatVars)
  BY MemInvNext
<1>3. QED
  BY <1>1, <1>2, MemInvAlways, PTL DEF Spec, FlatSpec, Flat!Spec

=============================================================================
