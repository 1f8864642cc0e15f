-------------------------------- MODULE SourceMap --------------------------------
(***************************************************************************)
(* disassembler.c: the hash table from addresses to lines of the source that *)
(* the second pass of the loader fills, the loop of the executor asks before *)
(* each instruction and main empties at the end.  The text of a line stands  *)
(* with its number.                                                          *)
(***************************************************************************)
EXTENDS Chains

CONSTANTS
  Lines,
  NoMapping      \* NULL

VARIABLE hash_table

MappingNode == [key : Addresses, value : Lines]

hash(address) == address % HASH_TABLE_SIZE

disassembler_get_mapping(address) == Found(hash_table[hash(address)], address, NoMapping)

SourceMapInit == hash_table = EmptyTable

(* Mistake: the new node becomes the last of its chain. *)
add_mapping_last(address, line, allocated) ==
  /\ Len(hash_table[hash(address)]) < MAX_CHAIN
  /\ IF allocated
     THEN hash_table' = [hash_table EXCEPT
                           ![hash(address)] = @ \o <<[key |-> address, value |-> line]>>]
     ELSE UNCHANGED hash_table

(* Mistake: the chain is that of the line's number. *)
add_mapping_line_chain(address, line, allocated) ==
  /\ Len(hash_table[hash(line)]) < MAX_CHAIN
  /\ IF allocated
     THEN hash_table' = [hash_table EXCEPT ![hash(line)] = Pushed(address, line, @)]
     ELSE UNCHANGED hash_table

disassembler_add_mapping(address, line, allocated) ==
  /\ Len(hash_table[hash(address)]) < MAX_CHAIN
  /\ IF allocated
     THEN hash_table' = [hash_table EXCEPT ![hash(address)] = Pushed(address, line, @)]
     ELSE UNCHANGED hash_table

disassembler_cleanup == hash_table' = EmptyTable

SourceMapNext ==
  \/ \E address \in Addresses, line \in Lines, allocated \in BOOLEAN :
       disassembler_add_mapping(address, line, allocated)
  \/ disassembler_cleanup

SourceMapSpec == SourceMapInit /\ [][SourceMapNext]_hash_table

-----------------------------------------------------------------------------
LineOf == INSTANCE Dictionary
  WITH Keys <- Addresses, Values <- Lines, None <- NoMapping,
       entry <- [address \in Addresses |-> disassembler_get_mapping(address)]

(* The line is entered for its address whenever there was memory for it. *)
MappingIsMade ==
  \A address \in Addresses, line \in Lines :
    disassembler_add_mapping(address, line, TRUE) => LineOf!Enter(address, line)

(* The look-up finds the latest line that was mapped at an address, whatever  *)
(* else shares its chain, and no failed allocation loses an older one.        *)
LatestLineIsFound == LineOf!LatestSpec /\ [][MappingIsMade]_hash_table

(* Every chain holds the addresses that hash to it, so no line is out of     *)
(* reach of its look-up.                                                     *)
NodesAreInTheirChains ==
  /\ hash_table \in [Buckets -> Seq(MappingNode)]
  /\ \A b \in Buckets : \A i \in DOMAIN hash_table[b] : hash(hash_table[b][i].key) = b
=============================================================================
