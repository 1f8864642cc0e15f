------------------------------ MODULE MCMemory ------------------------------
(* A memory of four cells, a buffer of four entries that must grow once, and *)
(* addresses whose words and longs wrap at the top.                          *)
EXTENDS Memory

MCLongs == { [hi |-> 258, lo |-> 772], [hi |-> 0, lo |-> 255] }
=============================================================================
