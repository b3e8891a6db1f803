----------------------------- MODULE MCFrontend -----------------------------
(* Each window with and without another one, and with and without the main   *)
(* window.                                                                   *)
EXTENDS Frontend

MCOptions ==
  {{"headless", "tilemaps"}, {"headless", "palette", "memory"},
   {"palette", "tilemaps"}, {"tilemaps", "memory"}}
=============================================================================
