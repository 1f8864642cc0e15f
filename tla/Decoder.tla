------------------------------ MODULE Decoder ------------------------------
(***************************************************************************)
(* The search of execute_program through the instruction table, one entry   *)
(* at a time.  Executor decodes in one step, by handler_of; that the search  *)
(* computes it is the property SearchFindsHandler.                          *)
(***************************************************************************)
EXTENDS InstructionTable

CONSTANT Opcodes  \* the opcodes that are decoded

ASSUME DecoderAssumption == Opcodes \subseteq Word

VARIABLES
  opcode,
  i,        \* the entry that is tried next
  handled   \* the entry whose handler ran, 0 for none

decoderVars == <<opcode, i, handled>>

(* Mistake: the last entry is never tried. *)
num_opcodes_short == Len(instruction_table) - 1

num_opcodes == Len(instruction_table)

Searching == handled = 0 /\ i <= num_opcodes

DecoderInit == opcode \in Opcodes /\ i = 1 /\ handled = 0

Handle ==
  /\ Searching
  /\ i \in Matches(opcode)
  /\ handled' = i
  /\ UNCHANGED <<opcode, i>>

TryNext ==
  /\ Searching
  /\ i \notin Matches(opcode)
  /\ i' = i + 1
  /\ UNCHANGED <<opcode, handled>>

DecoderNext == Handle \/ TryNext

DecoderSpec == DecoderInit /\ [][DecoderNext]_decoderVars

-----------------------------------------------------------------------------
(* The search ends at the handler of the first matching entry, and without   *)
(* one only if no entry matches.                                             *)
SearchFindsHandler ==
  ~Searching =>
    handler_of(opcode) = IF handled = 0 THEN "none" ELSE instruction_table[handled].handler

(* executor.c:29 warns that the order of the entries is important.  It is    *)
(* not, for these entries: an opcode that one of them handles matches no      *)
(* other, so a new entry's place matters only against entries it overlaps.    *)
OneEntryMatches == handled # 0 => Matches(opcode) = {handled}

=============================================================================
