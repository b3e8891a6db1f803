--------------------------- MODULE MCBlockTransfer ---------------------------
(* Two registers to save, calls nested two deep, a stack of five words: the   *)
(* first function may store all three registers, the second one then only two. *)
EXTENDS BlockTransfer

MCCallSites == {2, 8}
=============================================================================
