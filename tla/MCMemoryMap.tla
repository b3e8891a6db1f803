---------------------------- MODULE MCMemoryMap ----------------------------
(* Each memory by two of its mirrors, at their last words where they are cut   *)
(* off; a cartridge of 64 bytes; registers of the devices that do more than to *)
(* keep a value, or cannot be read, and the places around them.                *)
EXTENDS MemoryMap

WordAddresses ==
  {<<0, 0>>, <<16, 0>>, <<0, \h4000>>,
   <<2, \h38000>>, <<18, \hf8000>>,
   <<3, \h7ffc>>,
   <<5, \h7fc>>,
   <<6, \h17ffc>>, <<6, \h68004>>,
   <<7, \h400>>,
   <<8, 0>>, <<12, 0>>, <<8, 64>>,
   <<255, \hfffffc>>}

Registers == {<<4, b>> : b \in {\h4, \h64, \h70, \h9c, \hb8, \h128, \h130, \h208, \h410, \h700004}}

MCAccesses ==
  ((WordAddresses \cup Registers) \X {4})
  \cup ({<<3, \hfffffe>>, <<6, \h1fffd>>, <<5, \h3fe>>, <<15, \hfffc>>, <<4, \h14>>, <<4, \h128>>}
        \X {2})
  \cup ({<<7, 1>>, <<4, \h129>>, <<4, \h410>>} \X {1})

MCWords == {<<225, 32, 64, 192>>}
=============================================================================
