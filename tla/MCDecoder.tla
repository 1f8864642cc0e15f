----------------------------- MODULE MCDecoder -----------------------------
(* Every opcode whose two register fields are among the ones below: no mask  *)
(* but those of NOP and RTS looks at them.                                   *)
EXTENDS Decoder

MCOpcodes ==
  { 4096 * line + 512 * upper + 8 * middle + lower :
      line \in 0 .. 15, upper \in {0, 4, 7}, middle \in 0 .. 63, lower \in {0, 1, 5, 7} }
=============================================================================
