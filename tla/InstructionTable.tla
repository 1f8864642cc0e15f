-------------------------- MODULE InstructionTable --------------------------
(***************************************************************************)
(* The instruction table of executor.c: an opcode is handled by the first   *)
(* entry whose value it has under the entry's mask.                         *)
(***************************************************************************)
EXTENDS Words, Sequences

Entry(mask, value, handler) == [mask |-> mask, value |-> value, handler |-> handler]

(* Mistake: the entry of ANDI reaches the opcodes of other operations. *)
instruction_table_wide_andi ==
  << Entry(\hFFF8, \h0800, "btst_imm"), Entry(\hFFF8, \h0840, "bchg_imm"),
     Entry(\hFFF8, \h0880, "bclr_imm"), Entry(\hFFF8, \h08C0, "bset_imm"),
     Entry(\hF000, \h0000, "andi"),     Entry(\hFF38, \h0400, "subi"),
     Entry(\hFF38, \h0600, "addi") >>

instruction_table ==
  << Entry(\hFFF8, \h0800, "btst_imm"), Entry(\hFFF8, \h0840, "bchg_imm"),
     Entry(\hFFF8, \h0880, "bclr_imm"), Entry(\hFFF8, \h08C0, "bset_imm"),
     Entry(\hFF38, \h0200, "andi"),     Entry(\hFF38, \h0400, "subi"),
     Entry(\hFF38, \h0600, "addi"),     Entry(\hF138, \h5000, "addq"),
     Entry(\hF138, \h5100, "subq"),     Entry(\hF000, \h1000, "move_b"),
     Entry(\hF000, \h2000, "move_l"),   Entry(\hF000, \h3000, "move_w"),
     Entry(\hF000, \h6000, "bcc"),      Entry(\hF038, \h9000, "sub_reg"),
     Entry(\hF038, \hD000, "add_reg"),  Entry(\hFFFF, \h4E71, "nop"),
     Entry(\hFFFF, \h4E75, "rts") >>

Matches(opcode) ==
  { i \in DOMAIN instruction_table :
      AndWord(opcode, instruction_table[i].mask) = instruction_table[i].value }

handler_of(opcode) ==
  LET matches == Matches(opcode)
  IN  IF matches = {} THEN "none"
      ELSE instruction_table[CHOOSE i \in matches : \A j \in matches : i <= j].handler

(* The opcode that execute_program itself looks for. *)
RTS == \h4E75

=============================================================================
