---------------------------- MODULE MCComparison ----------------------------
(* Longs whose bytes, words and longs lie on both sides of every sign and    *)
(* wrap boundary, and the register after reset with all or no user flags.    *)
EXTENDS Comparison

MCLow == {0, 1, 127, 128, 255, 256, 32767, 32768, 65535}
MCOperands == { [hi |-> h, lo |-> l] : h \in {0, 32768, 65535}, l \in MCLow }
MCStatusRegisters ==
  { cpu_pulse_reset.sr, cpu_pulse_reset.sr \cup {SR_X, SR_N, SR_Z, SR_V, SR_C} }
=============================================================================
