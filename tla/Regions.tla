------------------------------- MODULE Regions -------------------------------
(***************************************************************************)
(* Where each address of the machine has its byte, said by the sizes of    *)
(* its memories.  An address is <<page, offset>>, of its highest byte and  *)
(* the other three.                                                        *)
(***************************************************************************)
EXTENDS Integers

KB == 1024

\* The video memory repeats every 128 KB: three parts of 32 KB, the last one
\* twice, but in every other repetition the first part again for the second.
Part(offset) ==
  LET part == (offset \div (32 * KB)) % 8
  IN  CASE part \in {0, 4, 5} -> 0
        [] part = 1           -> 1
        [] OTHER              -> 2

VramHome(offset) == <<6, (offset % (32 * KB)) + 32 * KB * Part(offset)>>

\* Every memory repeats over its page.  The upper pages repeat the first sixteen.
Home(address) ==
  LET page   == address[1] % 16
      offset == address[2]
  IN  CASE page = 2        -> <<2, offset % (256 * KB)>>
        [] page = 3        -> <<3, offset % (32 * KB)>>
        [] page \in {5, 7} -> <<page, offset % KB>>
        [] page = 6        -> VramHome(offset)
        [] page \in 8..13  -> <<8 + (page % 2), offset>>
        [] page \in 14..15 -> <<14, offset % (64 * KB)>>
        [] OTHER           -> <<page, offset>>
=============================================================================
