------------------------------- MODULE Dictionary -------------------------------
(***************************************************************************)
(* What the two hash tables of m68ksim promise: a partial function from keys *)
(* to values.  disassembler.c keeps the latest value of a key, the symbol    *)
(* table of loader.c the first.  Either may fail to enter a value, for want   *)
(* of memory, and then keeps what it had.                                    *)
(***************************************************************************)
CONSTANTS Keys, Values, None

VARIABLE entry

Empty == [k \in Keys |-> None]

Init == entry = Empty

Enter(k, v) == entry' = [entry EXCEPT ![k] = v]

EnterNew(k, v) == entry[k] = None /\ Enter(k, v)

Clear == entry' = Empty

LatestNext == (\E k \in Keys, v \in Values : Enter(k, v)) \/ Clear
FirstNext == (\E k \in Keys, v \in Values : EnterNew(k, v)) \/ Clear

LatestSpec == Init /\ [][LatestNext]_entry
FirstSpec == Init /\ [][FirstNext]_entry
=============================================================================
