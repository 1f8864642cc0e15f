-------------------------------- MODULE MCTables --------------------------------
(***************************************************************************)
(* Both hash tables of a load.  The second pass looks symbols up and maps    *)
(* lines in turn, and a fault of its look-up ends both.  Two buckets: the     *)
(* addresses 0 and 2 collide and 1 is alone; START and LOOP collide, with     *)
(* the nodes whose name was lost.                                            *)
(***************************************************************************)
EXTENDS SourceMap, SymbolTable

MCHash == [name \in Names |-> 2]

(* SourceMapInit and create_symbol_table. *)
TablesInit == hash_table = EmptyTable /\ table = EmptyTable /\ status = "in use"

TablesSpec ==
  /\ TablesInit
  /\ [][ \/ SymbolTableNext /\ UNCHANGED hash_table
         \/ status # "faulted" /\ SourceMapNext /\ UNCHANGED symbols ]_<<hash_table, symbols>>
=============================================================================
