----------------------------- MODULE MemoryMap -----------------------------
(***************************************************************************)
(* The memory of the machine: one array for all addresses, the plugins     *)
(* that claim some of them for themselves, the mirrors, and the list of    *)
(* accesses that the debugger watches (gbaemu-core/src/memory.rs, the      *)
(* Cartridge of lib.rs).                                                   *)
(*                                                                         *)
(* An address is <<page, offset>>: its highest byte and the other three.   *)
(* Bytes that are not the program's are one byte for each kind of memory.  *)
(* A panic ends the core thread; what is changed before it is left out.    *)
(***************************************************************************)
EXTENDS Integers, Sequences, IoRegisters, Regions

CONSTANTS
  Accesses,    \* of the program: <<address, number of bytes>>
  Words,       \* what is stored: sequences of four bytes
  BiosByte,
  RomByte,
  RomLength,   \* of the file that was loaded, at most one page
  MaxStores,   \* bounds a run
  MaxLogged    \* accesses that may be listed when another one is made

ASSUME MemoryMapAssumption ==
  /\ Accesses \subseteq ((Nat \X Nat) \X {1, 2, 4})
  /\ \A one \in Accesses : one[1][1] <= \hff /\ one[1][2] <= \hffffff
  /\ Words \subseteq [1..4 -> 0..255]
  /\ {BiosByte, RomByte} \subseteq 0..255
  /\ RomLength \in Nat /\ RomLength <= \h1000000 /\ RomLength % 4 = 0
  /\ MaxStores \in Nat /\ MaxLogged \in Nat

VARIABLES
  raw, cartridge, color_ram, vram, obj_ram,   \* what was stored, by addresses
  gba_io,                                     \* see IoRegisters
  reads, writes,                              \* of the memory_watcher
  access,                                     \* the latest one, until the debugger has seen it
  panicked,
  stores                                      \* how many there were

rams == <<raw, cartridge, color_ram, vram, obj_ram>>
vars == <<rams, gba_io, reads, writes, access, panicked, stores>>

Nothing == [a \in {} |-> 0]

Init ==
  /\ raw = Nothing /\ cartridge = Nothing
  /\ color_ram = Nothing /\ vram = Nothing /\ obj_ram = Nothing
  /\ gba_io = Nothing
  /\ reads = <<>> /\ writes = <<>> /\ access = <<>>
  /\ panicked = FALSE
  /\ stores = 0

-----------------------------------------------------------------------------
(* Addresses. *)

Unmapped == <<0, -1>>
At(address, i) == <<address[1], address[2] + i>>

\* offset & 0x17FFF, of an offset below 0x40000
VramMirror(offset) ==
  IF offset < \h17fff THEN offset
  ELSE (offset % \h8000) + \h10000 * ((offset \div \h10000) % 2)

\* The larger work memory with the mask of the smaller one.
handle_mirrors_SmallRam(address) ==
  LET page == address[1] % 16
      offset == address[2]
  IN  CASE page = 0 /\ offset >= \h4000 -> Unmapped
        [] page = 1 -> Unmapped
        [] page \in {2, 3} -> <<page, offset % \h8000>>
        [] page \in {5, 7} -> <<page, offset % \h400>>
        [] page = 6 -> <<6, VramMirror(offset % \h40000)>>
        [] page \in {14, 15} -> <<14, offset % \h10000>>
        [] OTHER -> <<page, offset>>

\* Where an address is a mirror of; the pages from 16 on are taken as the lower ones.
handle_mirrors(address) ==
  LET page == address[1] % 16
      offset == address[2]
  IN  CASE page = 0 /\ offset >= \h4000 -> Unmapped
        [] page = 1 -> Unmapped
        [] page = 2 -> <<2, offset % \h40000>>
        [] page = 3 -> <<3, offset % \h8000>>
        [] page \in {5, 7} -> <<page, offset % \h400>>
        [] page = 6 -> <<6, VramMirror(offset % \h40000)>>
        [] page \in {14, 15} -> <<14, offset % \h10000>>
        [] OTHER -> <<page, offset>>

\* It looks at the address before the mirrors; the end of the last page wraps to
\* the first one.
is_read_only(address, size) ==
  \/ address[1] = 0 /\ address[2] < \h4000
  \/ address[1] = 255 /\ address[2] + size > \hffffff

\* In a build with overflow checks the sum panics instead.
Overflows(address, size) == address[1] = 255 /\ address[2] + size > \hffffff

\* The first plugin that claims the address the given one is a mirror of.
get_plugin_for(address) ==
  LET at == handle_mirrors(address)
  IN  CASE at[1] \in 8..13                      -> "cartridge"
        [] at[1] = 5 /\ at[2] < \h400           -> "color_ram"
        [] at[1] = 6 /\ at[2] < \h18000         -> "vram"
        [] at[1] = 7 /\ at[2] < \h400           -> "obj_ram"
        [] at[1] = 4 /\ claims_address(at[2])   -> "gba_io"
        [] OTHER                                -> "raw"

\* The repetitions of the two pages of a cartridge.
normalize_address(address) ==
  <<8 + (address[1] % 2), address[2]>>

\* The file of the cartridge is shorter than its first page.
InFile(address, n) == address[1] = 8 /\ address[2] + n <= RomLength

-----------------------------------------------------------------------------
(* Bytes of the plugins, and of the array for what none of them claims. *)

Stored(ram, address, initially) == IF address \in DOMAIN ram THEN ram[address] ELSE initially

ByteOf(plugin, address) ==
  CASE plugin = "cartridge" ->
         LET at == normalize_address(address)
         IN  IF InFile(at, 1) THEN Stored(cartridge, at, RomByte) ELSE 0
    [] plugin = "color_ram" -> Stored(color_ram, address, 0)
    [] plugin = "vram"      -> Stored(vram, address, 0)
    [] plugin = "obj_ram"   -> Stored(obj_ram, address, 0)
    [] plugin = "gba_io"    -> read_byte(gba_io, address[2])
    [] plugin = "raw"       -> Stored(raw, address, IF address[1] = 0 THEN BiosByte ELSE 0)

\* What is read, once the mirrors are resolved: of any of the three widths.
Bytes(address, n) ==
  LET at == handle_mirrors(address)
  IN  [i \in 1..n |-> ByteOf(get_plugin_for(at), At(at, i - 1))]

ReadPanics(address, n) ==
  \/ address[2] % n # 0
  \/ handle_mirrors(address) = Unmapped
  \/ \E i \in 1..n : Bytes(address, n)[i] = Todo

\* A file that grows with the stores.
WritePanics_Grows(address, n) == FALSE

\* The file is only as long as it is.
WritePanics(address, n) ==
  LET at == handle_mirrors(address)
  IN  /\ get_plugin_for(at) = "cartridge"
      /\ ~InFile(normalize_address(at), n)

\* A sequence of bytes stored one by one in memory.
Over(ram, at, bytes) ==
  [a \in DOMAIN ram \cup {At(at, i - 1) : i \in 1..Len(bytes)} |->
     IF a[1] = at[1] /\ a[2] - at[2] \in 0..(Len(bytes) - 1)
     THEN bytes[a[2] - at[2] + 1] ELSE ram[a]]

StoresIn(plugin, at, bytes) ==
  LET Into(ram, name) == IF plugin = name THEN Over(ram, at, bytes) ELSE ram
  IN  /\ raw' = Into(raw, "raw")
      /\ color_ram' = Into(color_ram, "color_ram")
      /\ vram' = Into(vram, "vram")
      /\ obj_ram' = Into(obj_ram, "obj_ram")
      /\ cartridge' = IF plugin = "cartridge"
                      THEN Over(cartridge, normalize_address(at), bytes) ELSE cartridge
      /\ gba_io' = IF plugin = "gba_io" THEN write_bytes(gba_io, at[2], bytes) ELSE gba_io

\* log_all, with the address after the mirrors
LogReads(at, values) ==
  reads' = reads \o [i \in 1..Len(values) |-> <<At(at, i - 1), values[i]>>]
LogWrites(at, old, new) ==
  writes' = writes \o [i \in 1..Len(new) |-> <<At(at, i - 1), old[i], new[i]>>]

-----------------------------------------------------------------------------

HasRoom == Len(reads) + Len(writes) <= MaxLogged

\* read_word, read_half_word_at and read_byte_at
Reads(address, n) ==
  /\ ~panicked /\ HasRoom
  /\ ~ReadPanics(address, n)
  /\ access' = <<address, n>>
  /\ LogReads(handle_mirrors(address), Bytes(address, n))
  /\ UNCHANGED <<rams, gba_io, writes, panicked, stores>>

\* write_word_to, write_half_word_to and write_byte_to: what was there is read first.
Writes(address, n, value) ==
  LET at == handle_mirrors(address)
  IN  /\ ~panicked /\ HasRoom /\ stores < MaxStores
      /\ ~is_read_only(address, n)
      /\ ~ReadPanics(address, n) /\ ~WritePanics(address, n)
      /\ access' = <<address, n>>
      /\ LogWrites(at, Bytes(address, n), value)
      /\ StoresIn(get_plugin_for(at), at, value)
      /\ stores' = stores + 1
      /\ UNCHANGED <<reads, panicked>>

\* A store that is not carried out.
WritesReadOnly(address, n) ==
  /\ ~panicked /\ is_read_only(address, n)
  /\ UNCHANGED vars

Panics(address, n) ==
  /\ ~panicked /\ HasRoom /\ stores < MaxStores
  /\ \/ ReadPanics(address, n)
     \/ ~is_read_only(address, n) /\ WritePanics(address, n)
     \/ Overflows(address, n)
  /\ panicked' = TRUE
  /\ UNCHANGED <<rams, gba_io, reads, writes, access, stores>>

\* The debugger, after an instruction, takes all there is on both lists.
AfterExecuting ==
  /\ ~panicked /\ (reads # <<>> \/ writes # <<>>)
  /\ reads' = <<>> /\ writes' = <<>> /\ access' = <<>>
  /\ UNCHANGED <<rams, gba_io, panicked, stores>>

ResetsGba ==
  /\ ~panicked
  /\ gba_io' = reset(gba_io)
  /\ UNCHANGED <<rams, reads, writes, access, panicked, stores>>

Stopped == panicked /\ UNCHANGED vars

Next ==
  \/ \E one \in Accesses : Reads(one[1], one[2])
  \/ \E one \in Accesses, word \in Words :
       Writes(one[1], one[2], SubSeq(word, 1, one[2]))
  \/ \E one \in Accesses : WritesReadOnly(one[1], one[2])
  \/ \E one \in Accesses : Panics(one[1], one[2])
  \/ AfterExecuting
  \/ ResetsGba
  \/ Stopped

Spec == Init /\ [][Next]_vars

-----------------------------------------------------------------------------

Byte == 0..255
IsRam(ram) == \A address \in DOMAIN ram : ram[address] \in Byte

\* Every byte is one, in the memory it belongs to: nothing is stored in the array
\* where a plugin keeps it, nor by a plugin outside of what it claims.
TypeOK ==
  /\ \A ram \in {raw, cartridge, color_ram, vram, obj_ram} : IsRam(ram)
  /\ \A at \in DOMAIN raw : get_plugin_for(at) = "raw"
  /\ \A at \in DOMAIN cartridge : InFile(at, 1)
  /\ \A at \in DOMAIN color_ram : get_plugin_for(at) = "color_ram"
  /\ \A at \in DOMAIN vram : get_plugin_for(at) = "vram"
  /\ \A at \in DOMAIN obj_ram : get_plugin_for(at) = "obj_ram"
  /\ \A b \in DOMAIN gba_io : gba_io[b] \in Byte
  /\ panicked \in BOOLEAN /\ stores \in 0..MaxStores

\* Registers that are written only, read only or not there.
Fixed ==
  (\h06..\h07) \cup (\h10..\h47) \cup (\h4c..\h4f) \cup (\h54..\h5f) \cup (\ha8..\haf)
  \cup (\he0..\hff) \cup (\h110..\h11f) \cup (\h12c..\h131) \cup (\h136..\h13f)
  \cup (\h142..\h14f) \cup (\h158..\h1ff) \cup (\h206..\h207) \cup (\h20a..\h2ff) \cup {\h410}
  \cup {\hb0 + 12 * channel + k : channel \in 0..3, k \in 0..9}

\* What a byte reads as after one was stored in it.
AfterStore(cell, old, byte) ==
  IF cell[1] # 4 \/ ~claims_address(cell[2]) THEN {byte}
  ELSE CASE cell[2] \in Fixed -> {old}
         [] cell[2] \in {\hb0 + 12 * channel + 11 : channel \in 0..3} -> {byte % 128}
         [] cell[2] = \h128 -> {byte, byte + 8}
         [] OTHER -> {byte}

\* The mode of the serial port sets a bit of its other byte, the bank of the
\* wave pattern shows another one.
ChangesToo(cell) ==
  CASE cell = <<4, \h129>> -> {<<4, \h128>>}
    [] cell = <<4, \h70>>  -> {<<4, b>> : b \in \h90..\h9f}
    [] OTHER               -> {}

\* The two banks of the wave pattern have the same addresses.
IoAddress(b) == <<4, IF b > \h700000 THEN b - \h1000000 ELSE b>>

\* The homes of everything that was stored anywhere.
Written ==
  {Home(at) : at \in DOMAIN raw \cup DOMAIN cartridge \cup DOMAIN color_ram
                     \cup DOMAIN vram \cup DOMAIN obj_ram}
  \cup {Home(IoAddress(b)) : b \in DOMAIN gba_io}

Unwritten(home) ==
  CASE home[1] = 0 -> BiosByte
    [] home[1] \in {8, 9} -> IF home[1] = 8 /\ home[2] < RomLength THEN RomByte ELSE 0
    [] home[1] = 4 -> InitialByte(home[2])
    [] OTHER -> 0

OfInterrupts(home) == home[1] = 4 /\ home[2] \in InterruptRegisters

Flat == INSTANCE FlatMemory WITH
  Initially <- Unwritten,
  Settled   <- AfterStore,
  Linked    <- ChangesToo,
  Cleared   <- OfInterrupts,
  bytes     <- [home \in Written |-> Bytes(home, 1)[1]],
  reads     <- [i \in DOMAIN reads |-> <<Home(reads[i][1]), reads[i][2]>>],
  writes    <- [i \in DOMAIN writes |-> <<Home(writes[i][1]), writes[i][2], writes[i][3]>>]

\* Through every mirror and at every width a program reads what was stored last,
\* a store changes nothing else, except where a device does, and what the debugger
\* is told of each byte is what was there, what is there now, and in which order.
FlatSpec == Flat!Spec

=============================================================================
