------------------------------ MODULE MCOperands ------------------------------
(* Two address registers and one data register, a decimal and a hexadecimal  *)
(* number, a name, and a name that begins with a register's.                  *)
EXTENDS OperandNotation

MCAnToken == [x \in {"A0", "A7"} |-> IF x = "A0" THEN 0 ELSE 7]
MCDnToken == [x \in {"D1"} |-> 1]
MCDecimal == [x \in {"1", "4"} |-> FromWord(IF x = "1" THEN 1 ELSE 4)]
MCHexadecimal == [x \in {"$8"} |-> FromWord(8)]

Numbers == {FromWord(8), FromWord(4), SubLong(ZeroLong, FromWord(1))}

OfRegister(modes, regs) ==
  {[create_operand EXCEPT !.mode = m, !.reg_num = n] : m \in modes, n \in regs}

(* A datum or an address, as a number or as a name. *)
OfDatum(modes) ==
  {[create_operand EXCEPT !.mode = m, !.value = v] : m \in modes, v \in Numbers}
    \cup {[create_operand EXCEPT !.mode = m, !.label = "X"] : m \in modes}

WithDisplacements(ops) ==
  {[op EXCEPT !.base_displacement = v] : op \in ops, v \in Numbers}
    \cup {[op EXCEPT !.label = "X", !.is_pc_relative_label = b] : op \in ops, b \in BOOLEAN}

WithIndexes(ops) ==
  {[op EXCEPT !.index_reg_num = n, !.index_is_an = (n # 1), !.index_size = s, !.scale = c] :
     op \in ops, n \in {1, 7}, s \in Sizes, c \in {0, 2}}

WithOuters(ops) ==
  {[op EXCEPT !.outer_displacement = v] : op \in ops, v \in {ZeroLong, FromWord(4)}}

MCOperandSet ==
  OfRegister({"DATA_REGISTER_DIRECT"}, {1})
    \cup OfRegister({"ADDRESS_REGISTER_DIRECT", "ADDRESS_REGISTER_INDIRECT",
                     "ARI_POST_INCREMENT", "ARI_PRE_DECREMENT"}, {0, 7})
    \cup OfDatum({"IMMEDIATE", "ABSOLUTE_SHORT", "ABSOLUTE_LONG"})
    \cup WithDisplacements(OfRegister({"ARI_DISPLACEMENT"}, {0})
                             \cup OfRegister({"PC_RELATIVE_DISPLACEMENT"}, {Null}))
    \cup WithDisplacements(WithIndexes(
           OfRegister({"ARI_INDEX_8_BIT_DISP", "ARI_INDEX_BASE_DISP"}, {0})
             \cup OfRegister({"PC_RELATIVE_INDEX_8_BIT", "PC_INDEX_BASE_DISP"}, {Null})))
    \cup WithOuters(WithIndexes(
           LET ops == OfRegister({"MEMORY_INDIRECT_POST_INDEXED",
                                  "MEMORY_INDIRECT_PRE_INDEXED"}, {0})
                        \cup OfRegister({"PC_MEM_INDIRECT_POST_INDEXED",
                                         "PC_MEM_INDIRECT_PRE_INDEXED"}, {Null})
           IN  ops \cup WithDisplacements(ops)))
=============================================================================
