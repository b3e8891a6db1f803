--------------------------- MODULE MCInstructions ----------------------------
(* Every Thumb half word, and as the one behind it a suffix of a call, with and *)
(* without a switch of the mode, and something else.  ARM words with every      *)
(* combination of the bits that tell instructions apart, and few registers.     *)
EXTENDS Instructions

MCThumbCodes ==
  {<<w, 0>> : w \in 0..(2^16 - 1)}
    \cup ((30 * 2^11)..(31 * 2^11 - 1)) \X {31 * 2^11 + 3, 29 * 2^11 + 3}

MCArmWords ==
  {<<condition * 2^12 + op * 2^4 + n, d * 2^12 + s * 2^8 + shift * 2^4 + m>> :
     condition \in {0, 14}, op \in 0..255, n \in {R0, Ip}, d \in {R0, Ip},
     s \in {0, 15}, shift \in 0..15, m \in {0, 15}}
=============================================================================
