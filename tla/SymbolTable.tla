------------------------------- MODULE SymbolTable -------------------------------
(***************************************************************************)
(* The symbol table of loader.c, from create_symbol_table to                 *)
(* destroy_symbol_table: the first pass adds the labels, the second looks     *)
(* them up.  strdup may fail for the name of a node that malloc gave; the     *)
(* node stays in its chain without a name, and strcmp faults on it.           *)
(***************************************************************************)
EXTENDS Chains

CONSTANTS
  Names,
  Hash,          \* the hash of each name
  NoName,        \* the NULL that strdup returns
  NoSymbol       \* the NULL that find_symbol returns

ASSUME SymbolTableAssumption ==
  /\ Hash \in [Names -> Nat]
  /\ NoName \notin Names
  /\ NoSymbol \notin Nat

VARIABLES
  table,
  status         \* "in use", "destroyed", or "faulted": the process ended

symbols == <<table, status>>

Symbol == [key : Names \cup {NoName}, value : Addresses]

hash_index(name) == Hash[name] % HASH_TABLE_SIZE
ChainOf(name) == table[hash_index(name)]

find_symbol(name) == Found(ChainOf(name), name, NoSymbol)

(* The walk for a name meets a node without one. *)
Faults(name) == \E i \in DOMAIN ChainOf(name) :
                  /\ ChainOf(name)[i].key = NoName
                  /\ \A j \in 1 .. i - 1 : ChainOf(name)[j].key # name

create_symbol_table == table = EmptyTable /\ status = "in use"

Enter(name, stored_name, address) ==
  /\ Len(ChainOf(name)) < MAX_CHAIN
  /\ table' = [table EXCEPT ![hash_index(name)] = Pushed(stored_name, address, @)]

(* Mistake: a name is added again. *)
add_symbol_again(name, address, stored_name) ==
  /\ status = "in use"
  /\ ~ Faults(name)
  /\ Enter(name, stored_name, address)
  /\ UNCHANGED status

(* stored_name is what strdup returns. *)
add_symbol(name, address, stored_name) ==
  /\ status = "in use"
  /\ ~ Faults(name)
  /\ find_symbol(name) = NoSymbol
  /\ Enter(name, stored_name, address)
  /\ UNCHANGED status

(* The walk of add_symbol or of a look-up in the second pass. *)
Fault(name) ==
  /\ status = "in use"
  /\ Faults(name)
  /\ status' = "faulted"
  /\ UNCHANGED table

destroy_symbol_table ==
  /\ status = "in use"
  /\ table' = EmptyTable
  /\ status' = "destroyed"

SymbolTableNext ==
  \/ \E name \in Names, address \in Addresses :
       \E stored_name \in {name, NoName} : add_symbol(name, address, stored_name)
  \/ \E name \in Names : Fault(name)
  \/ destroy_symbol_table

SymbolTableSpec == create_symbol_table /\ [][SymbolTableNext]_symbols

-----------------------------------------------------------------------------
AddressOf == INSTANCE Dictionary
  WITH Keys <- Names, Values <- Addresses, None <- NoSymbol,
       entry <- [name \in Names |-> find_symbol(name)]

(* The label is entered whenever there was memory for it and its name. *)
SymbolIsMade ==
  \A name \in Names, address \in Addresses :
    add_symbol(name, address, name) => AddressOf!EnterNew(name, address)

(* A label means the address it was first given, however often it is defined *)
(* again and whatever else is in its chain, nodes without a name included.    *)
FirstDefinitionIsFound == AddressOf!FirstSpec /\ [][SymbolIsMade]_symbols

(* No name is in the table twice, so the address does not depend on where in *)
(* the chain the walk stops.                                                 *)
OneNodePerName ==
  /\ table \in [Buckets -> Seq(Symbol)]
  /\ \A b \in Buckets : \A i, j \in DOMAIN table[b] :
       table[b][i].key = table[b][j].key /\ table[b][i].key # NoName => i = j
=============================================================================
