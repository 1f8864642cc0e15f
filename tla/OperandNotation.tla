---------------------------- MODULE OperandNotation ----------------------------
(***************************************************************************)
(* The notations that loader.h gives the addressing modes, and a reader of   *)
(* operands that is handed an operand's notation, or one with a slip of the  *)
(* pen in it.                                                                *)
(***************************************************************************)
EXTENDS OperandGrammar

CONSTANT Operands   \* the operands that are written

DatumModes == {"IMMEDIATE", "ABSOLUTE_SHORT", "ABSOLUTE_LONG"}

RegisterModes == {"DATA_REGISTER_DIRECT", "ADDRESS_REGISTER_DIRECT",
                  "ADDRESS_REGISTER_INDIRECT", "ARI_POST_INCREMENT", "ARI_PRE_DECREMENT"}

MemoryModes == {"MEMORY_INDIRECT_POST_INDEXED", "MEMORY_INDIRECT_PRE_INDEXED",
                "PC_MEM_INDIRECT_POST_INDEXED", "PC_MEM_INDIRECT_PRE_INDEXED"}

IndexedModes == {"ARI_INDEX_8_BIT_DISP", "ARI_INDEX_BASE_DISP",
                 "PC_RELATIVE_INDEX_8_BIT", "PC_INDEX_BASE_DISP"} \cup MemoryModes

DisplacedModes == {"ARI_DISPLACEMENT", "PC_RELATIVE_DISPLACEMENT"} \cup IndexedModes

PcModes == {"PC_RELATIVE_DISPLACEMENT", "PC_RELATIVE_INDEX_8_BIT", "PC_INDEX_BASE_DISP",
            "PC_MEM_INDIRECT_POST_INDEXED", "PC_MEM_INDIRECT_PRE_INDEXED"}

Modes == DatumModes \cup RegisterModes \cup DisplacedModes

OperandType ==
  [mode : Modes, reg_num : {Null} \cup 0 .. 7, value : Long, label : Labels \cup {NoLabel},
   is_pc_relative_label : BOOLEAN, index_reg_num : {Null} \cup 0 .. 7, index_is_an : BOOLEAN,
   index_size : Sizes \cup {""}, scale : 0 .. 3, base_displacement : Long,
   outer_displacement : Long]

(* A field that an operand's mode does not use is as create_operand left it. *)
ASSUME OperandsAssumption ==
  \A op \in Operands :
    /\ op \in OperandType
    /\ op.reg_num = Null <=> op.mode \in DatumModes \cup PcModes
    /\ op.mode \notin DatumModes => op.value = ZeroLong
    /\ op.mode \in RegisterModes => op.label = NoLabel
    /\ op.is_pc_relative_label => op.mode \in DisplacedModes /\ op.label # NoLabel
    /\ op.mode \notin DisplacedModes => op.base_displacement = ZeroLong
    /\ op.label # NoLabel => op.value = ZeroLong /\ op.base_displacement = ZeroLong
    /\ op.mode \in IndexedModes => op.index_reg_num # Null /\ op.index_size \in Sizes
    /\ op.mode \notin IndexedModes =>
         op.index_reg_num = Null /\ op.index_size = "" /\ ~ op.index_is_an /\ op.scale = 0
    /\ op.mode \notin MemoryModes => op.outer_displacement = ZeroLong

VARIABLES text, meant, answer

vars == <<text, meant, answer>>

-----------------------------------------------------------------------------
A ** B == {a \o b : a \in A, b \in B}

Text(x) == {<<x>>}
NoText == {<<>>}

Named(tokens, n) == {<<x>> : x \in {y \in DOMAIN tokens : tokens[y] = n}}

NumberText(v) ==
  Named(Hexadecimal, v) \cup Named(Decimal, v)
    \cup (Text("-") ** Named(Decimal, SubLong(ZeroLong, v)))

(* An immediate datum or an absolute address. *)
DatumText(op) == IF op.label # NoLabel THEN Text(op.label) ELSE NumberText(op.value)

DisplacementText(op) ==
  CASE op.label = NoLabel                                -> NumberText(op.base_displacement)
    [] op.label # NoLabel /\ op.is_pc_relative_label     -> {<<op.label, "-", ".">>}
    [] op.label # NoLabel /\ ~ op.is_pc_relative_label   -> Text(op.label)

BaseText(op) == IF op.reg_num = Null THEN Text("PC") ELSE Named(AnToken, op.reg_num)

(* The word size and the factor 1 need not be written. *)
IndexText(op) ==
  Named(IF op.index_is_an THEN AnToken ELSE DnToken, op.index_reg_num)
    ** ({<<".", op.index_size>>} \cup IF op.index_size = "W" THEN NoText ELSE {})
    ** ({<<"*", s>> : s \in {x \in DOMAIN ScaleToken : ScaleToken[x] = op.scale}}
          \cup IF op.scale = 0 THEN NoText ELSE {})

(* Inside the brackets a displacement of zero need not be written. *)
InnerText(op) ==
  (DisplacementText(op)
     \cup IF op.label = NoLabel /\ op.base_displacement = ZeroLong THEN NoText ELSE {})
    ** Text(",") ** BaseText(op)

OuterText(op) ==
  (Text(",") ** NumberText(op.outer_displacement))
    \cup IF op.outer_displacement = ZeroLong THEN NoText ELSE {}

Notation(op) ==
  CASE op.mode = "DATA_REGISTER_DIRECT"    -> Named(DnToken, op.reg_num)
    [] op.mode = "ADDRESS_REGISTER_DIRECT" -> Named(AnToken, op.reg_num)
    [] op.mode = "ADDRESS_REGISTER_INDIRECT" -> Text("(") ** BaseText(op) ** Text(")")
    [] op.mode = "ARI_POST_INCREMENT" ->
         Text("(") ** BaseText(op) ** Text(")") ** Text("+")
    [] op.mode = "ARI_PRE_DECREMENT" ->
         Text("-") ** Text("(") ** BaseText(op) ** Text(")")
    [] op.mode = "IMMEDIATE" -> Text("#") ** DatumText(op)
    [] op.mode = "ABSOLUTE_SHORT" ->
         (DatumText(op) \cup (Text("(") ** DatumText(op) ** Text(")")))
           ** (NoText \cup {<<".", "W">>})
    [] op.mode = "ABSOLUTE_LONG" ->
         (DatumText(op) \cup (Text("(") ** DatumText(op) ** Text(")"))) ** {<<".", "L">>}
    [] op.mode \in {"ARI_DISPLACEMENT", "PC_RELATIVE_DISPLACEMENT"} ->
         DisplacementText(op) ** Text("(") ** BaseText(op) ** Text(")")
    [] op.mode \in {"ARI_INDEX_8_BIT_DISP", "PC_RELATIVE_INDEX_8_BIT"} ->
         DisplacementText(op) ** Text("(") ** BaseText(op) ** Text(",") ** IndexText(op)
           ** Text(")")
    [] op.mode \in {"ARI_INDEX_BASE_DISP", "PC_INDEX_BASE_DISP"} ->
         Text("(") ** DisplacementText(op) ** Text(",") ** BaseText(op) ** Text(",")
           ** IndexText(op) ** Text(")")
    [] op.mode \in {"MEMORY_INDIRECT_POST_INDEXED", "PC_MEM_INDIRECT_POST_INDEXED"} ->
         Text("(") ** Text("[") ** InnerText(op) ** Text("]") ** Text(",")
           ** IndexText(op) ** OuterText(op) ** Text(")")
    [] op.mode \in {"MEMORY_INDIRECT_PRE_INDEXED", "PC_MEM_INDIRECT_PRE_INDEXED"} ->
         Text("(") ** Text("[") ** InnerText(op) ** Text(",") ** IndexText(op) ** Text("]")
           ** OuterText(op) ** Text(")")

(* The modes whose notation begins with a number, a name or a register in   *)
(* parentheses: Operand_Absolute takes that prefix for an address.           *)
Shadowed == {"ADDRESS_REGISTER_INDIRECT", "ARI_POST_INCREMENT", "ARI_DISPLACEMENT",
             "PC_RELATIVE_DISPLACEMENT", "ARI_INDEX_8_BIT_DISP", "PC_RELATIVE_INDEX_8_BIT"}

-----------------------------------------------------------------------------
(* A token left out, written twice, replaced by a name, or two in the wrong  *)
(* order.                                                                    *)
Slips(t) ==
  {SubSeq(t, 1, i - 1) \o SubSeq(t, i + 1, Len(t)) : i \in 1 .. Len(t)}
    \cup {SubSeq(t, 1, i) \o SubSeq(t, i, Len(t)) : i \in 1 .. Len(t)}
    \cup {[t EXCEPT ![i] = x] : i \in 1 .. Len(t), x \in Identifiers}
    \cup {[t EXCEPT ![i] = t[i + 1], ![i + 1] = t[i]] : i \in 1 .. Len(t) - 1}

Unread == [status |-> "unread", op |-> create_operand]
Unknown == create_operand

Init ==
  \E op \in Operands :
    /\ meant = op
    /\ text \in Notation(op)
    /\ answer = Unread

Slip ==
  /\ answer = Unread
  /\ meant # Unknown
  /\ text' \in Slips(text)
  /\ meant' = Unknown
  /\ UNCHANGED answer

Read ==
  /\ answer = Unread
  /\ answer' = parse_operand(text)
  /\ UNCHANGED <<text, meant>>

Next == Slip \/ Read

Spec == Init /\ [][Next]_vars

-----------------------------------------------------------------------------
WasRead == answer # Unread
Written == meant # Unknown

(* Every notation of a mode that no earlier choice shadows is read as the    *)
(* operand it stands for, with every register, size, factor and displacement *)
(* in its place: no choice that operand tries before takes a part of it.     *)
ReadsWhatWasWritten ==
  WasRead /\ Written /\ meant.mode \notin Shadowed /\ ~ meant.is_pc_relative_label
    => answer = [status |-> "parsed", op |-> meant]

(* A text without the name that is its outer displacement. *)
WithoutOuterLabel(t) ==
  {SubSeq(t, 1, n) \o <<")">> :
     n \in {m \in 0 .. Len(t) : \E x \in Identifiers :
             SubSeq(t, m + 1, Len(t)) \in {<<",", x, ")">>, <<",", x, "-", ".", ")">>}}}

(* What is accepted, slips included, is a notation of the operand it became:  *)
(* no token is dropped.  Left out are the two losses of the grammar, the mark *)
(* of a label relative to the PC and a label as the outer displacement.       *)
AcceptsNotationsOnly ==
  answer.status = "parsed"
    => \E t \in {text} \cup WithoutOuterLabel(text), pc_relative \in BOOLEAN :
         t \in Notation([answer.op EXCEPT !.is_pc_relative_label = pc_relative])

(* loader.h: the notations of all eighteen modes. *)
EveryNotationIsRead ==
  WasRead /\ Written /\ ~ meant.is_pc_relative_label
    => answer = [status |-> "parsed", op |-> meant]
=============================================================================
