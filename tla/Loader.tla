--------------------------------- MODULE Loader ---------------------------------
(***************************************************************************)
(* loader.c, the two-pass assembler, over the memory, the symbol table, the  *)
(* source map and the operand grammar.  The first pass gives every label the *)
(* address that the sizes of the lines before it add up to; the second adds  *)
(* the sizes up again and writes the code.  Nothing that the first pass      *)
(* knows of a line, but the labels and the first ORG, reaches the second.    *)
(*                                                                         *)
(* A line of the source is what the two passes tell apart of its text: its    *)
(* first character is a star, a label before a colon, and the words after it. *)
(* A comment after a semicolon is cut off before anything else is looked at.  *)
(***************************************************************************)
EXTENDS Memory, SourceMap, SymbolTable, SequencesExt

CONSTANTS
  AnToken, DnToken, Decimal, Hexadecimal, Labels, RegisterLike, \* of the grammar
  StrayAddresses   \* the low 32 bits a pointer can have

Grammar == INSTANCE OperandGrammar

NoLabel == Grammar!NoLabel

(* What the tokens are; every name can be looked up, and no text of another   *)
(* kind begins like a hexadecimal number, with a dollar sign.                *)
ASSUME LoaderAssumption ==
  /\ \A x \in DOMAIN AnToken : AnToken[x] \in 0 .. 7
  /\ \A x \in DOMAIN DnToken : DnToken[x] \in 0 .. 7
  /\ \A x \in DOMAIN Decimal : Decimal[x] \in Long
  /\ \A x \in DOMAIN Hexadecimal : Hexadecimal[x] \in Long
  /\ NoLabel \notin Grammar!Identifiers /\ Grammar!Identifiers \subseteq Names
  /\ DOMAIN Hexadecimal \cap
       (Grammar!Identifiers \cup DOMAIN Decimal \cup {"#", "(", ",", "-"}) = {}
  /\ StrayAddresses \subseteq Nat

VARIABLES
  source, failing, \* the file and its failing lines
  phase,           \* "first pass", "second pass", "loaded", "exited", or main's
  line,            \* the next line
  current_address,
  start_address,   \* the variable of main that load_file has a pointer to
  org_seen

assembler == <<source, failing, phase, line, current_address, start_address, org_seen>>

(* A line: label: base.size operands, with a base of "" for no instruction   *)
(* and "*" for a comment after the label, or in its place.                   *)
Line == [comment : BOOLEAN, label : Labels \cup {NoLabel}, base : STRING,
         size : {"B", "W", "L"}, operands : Seq(STRING)]

This == source[line]

(* The lines of the model's files: ORG and DC have the number that they take, *)
(* and a star that begins a line begins its first word.                      *)
TakenLine(l) ==
  /\ l \in Line
  /\ l.base \in {"ORG", "DC"} =>
       l.operands # <<>> /\ l.operands[1] \in DOMAIN Hexadecimal
  /\ l.comment /\ l.label = NoLabel => l.base = "*"

-----------------------------------------------------------------------------
(* get_operand_extension_size, with the sizes it notes for the displacements. *)
FullFormat ==
  {"ARI_INDEX_BASE_DISP", "PC_INDEX_BASE_DISP",
   "MEMORY_INDIRECT_POST_INDEXED", "MEMORY_INDIRECT_PRE_INDEXED",
   "PC_MEM_INDIRECT_POST_INDEXED", "PC_MEM_INDIRECT_PRE_INDEXED"}

DisplacementSize(x, is_label) ==
  IF is_label \/ x # SignExtendWord(x.lo) THEN 4 ELSE IF x # ZeroLong THEN 2 ELSE 0

base_disp_size(op) == DisplacementSize(op.base_displacement, op.label # NoLabel)
outer_disp_size(op) == DisplacementSize(op.outer_displacement, FALSE)

(* Mistake: an address takes a word. *)
get_operand_extension_size_short(op) ==
  CASE op.mode = "IMMEDIATE" -> IF op.label # NoLabel \/ op.value.hi # 0 THEN 4 ELSE 2
    [] op.mode \in FullFormat -> 2 + base_disp_size(op) + outer_disp_size(op)
    [] OTHER -> 2

get_operand_extension_size(op) ==
  CASE op.mode = "IMMEDIATE" -> IF op.label # NoLabel \/ op.value.hi # 0 THEN 4 ELSE 2
    [] op.mode = "ABSOLUTE_LONG" -> 4
    [] op.mode \in {"ABSOLUTE_SHORT", "ARI_DISPLACEMENT", "PC_RELATIVE_DISPLACEMENT",
                    "ARI_INDEX_8_BIT_DISP", "PC_RELATIVE_INDEX_8_BIT"} -> 2
    [] op.mode \in FullFormat -> 2 + base_disp_size(op) + outer_disp_size(op)
    [] OTHER -> 0

(* The operands are split at the first comma, wherever it stands: also inside *)
(* the parentheses of a source.                                              *)
Comma(text) == SelectInSeq(text, LAMBDA token : token = ",")
Before(text, n) == IF n = 0 THEN text ELSE SubSeq(text, 1, n - 1)
After(text, n) == IF n = 0 THEN <<>> ELSE SubSeq(text, n + 1, Len(text))

SourceText(l) == Before(l.operands, Comma(l.operands))
DestText(l) == After(l.operands, Comma(l.operands))

SourceOf(l) == Grammar!parse_operand(SourceText(l))
DestOf(l) == Grammar!parse_operand(DestText(l))

SourceSize(op, size) ==
  IF op.mode = "IMMEDIATE" THEN IF size = "L" THEN 4 ELSE 2
  ELSE get_operand_extension_size(op)

(* The branches; BTST, BCHG, BCLR and BSET are told from them. *)
Branches == {"BRA", "BNE", "BEQ", "BSR"}

FixedSize(l) == l.base \in Branches \cup {"NOP", "RTS"}

get_instruction_size(l) ==
  IF FixedSize(l) THEN 2
  ELSE 2 + (IF SourceOf(l).status = "parsed" THEN SourceSize(SourceOf(l).op, l.size) ELSE 0)
         + (IF DestOf(l).status = "parsed" THEN get_operand_extension_size(DestOf(l).op) ELSE 0)

(* An operand that does not match the grammar ends the process where it is  *)
(* parsed first: in the size of the line.                                    *)
SyntaxError(l) ==
  ~FixedSize(l) /\ \E answer \in {SourceOf(l), DestOf(l)} : answer.status = "syntax error"

-----------------------------------------------------------------------------
(* The 6-bit field of an effective address. *)
RegisterMode ==
  [DATA_REGISTER_DIRECT |-> 0, ADDRESS_REGISTER_DIRECT |-> 1, ADDRESS_REGISTER_INDIRECT |-> 2,
   ARI_POST_INCREMENT |-> 3, ARI_PRE_DECREMENT |-> 4, ARI_DISPLACEMENT |-> 5,
   ARI_INDEX_8_BIT_DISP |-> 6, ARI_INDEX_BASE_DISP |-> 6,
   MEMORY_INDIRECT_POST_INDEXED |-> 6, MEMORY_INDIRECT_PRE_INDEXED |-> 6]

OtherMode ==
  [ABSOLUTE_SHORT |-> 56, ABSOLUTE_LONG |-> 57, PC_RELATIVE_DISPLACEMENT |-> 58,
   PC_RELATIVE_INDEX_8_BIT |-> 59, PC_INDEX_BASE_DISP |-> 59,
   PC_MEM_INDIRECT_POST_INDEXED |-> 59, PC_MEM_INDIRECT_PRE_INDEXED |-> 59, IMMEDIATE |-> 60]

encode_ea(op) ==
  IF op.mode \in DOMAIN RegisterMode THEN 8 * RegisterMode[op.mode] + op.reg_num
                                     ELSE OtherMode[op.mode]

(* The bits that both formats of an extension word begin with. *)
IndexBits(op) ==
  32768 * (IF op.index_is_an THEN 1 ELSE 0) + 4096 * (op.index_reg_num % 8)
    + 2048 * (IF op.index_size = "L" THEN 1 ELSE 0)

indirection(op) ==
  LET od == outer_disp_size(op) \div 2
      n  == IF od = 0 THEN 1 ELSE 1 + od
  IN  CASE op.mode \in {"MEMORY_INDIRECT_PRE_INDEXED", "PC_MEM_INDIRECT_PRE_INDEXED"} -> n
        [] op.mode \in {"MEMORY_INDIRECT_POST_INDEXED", "PC_MEM_INDIRECT_POST_INDEXED"} -> 4 + n
        [] OTHER -> 0

(* Mistake: the size of the base displacement is one less. *)
build_full_format_extension_bd(op) ==
  IndexBits(op) + 512 * op.scale + 256 + 16 * (base_disp_size(op) \div 2) + indirection(op)

build_full_format_extension(op) ==
  IndexBits(op) + 512 * op.scale + 256 + 16 * (1 + base_disp_size(op) \div 2) + indirection(op)

-----------------------------------------------------------------------------
(* Where the code of a line goes on, and the memory so far. *)
Out(address, m) == [address |-> address, mem |-> m]

WriteW(out, w, ok) == Out(out.address + 2, mem_write_word(out.mem, out.address, w, ok))
WriteL(out, x, ok) == Out(out.address + 4, mem_write_long(out.mem, out.address, x, ok))

(* A displacement that takes no word, a word or two. *)
WriteD(out, size, x, ok) ==
  CASE size = 2 -> WriteW(out, x.lo, ok) [] size = 4 -> WriteL(out, x, ok) [] OTHER -> out

(* A label without a definition is 0, with a warning. *)
ValueOf(label) == IF find_symbol(label) = NoSymbol THEN ZeroLong ELSE FromNumber(find_symbol(label))

PcRelativeModes == {"PC_RELATIVE_DISPLACEMENT", "PC_RELATIVE_INDEX_8_BIT"}

(* Mistake: a label is a distance in every mode. *)
Resolved_distance(op, current_pc) ==
  IF op.label = NoLabel THEN op
  ELSE LET distance == SubLong(ValueOf(op.label), FromNumber(current_pc + 2))
       IN  [op EXCEPT !.base_displacement = distance, !.value = distance]

(* A label is a distance in the two short PC modes and a value in any other, *)
(* also where the mode then writes a displacement.                           *)
Resolved(op, current_pc) ==
  IF op.label = NoLabel THEN op
  ELSE IF op.mode \in PcRelativeModes
  THEN [op EXCEPT !.base_displacement = SubLong(ValueOf(op.label), FromNumber(current_pc + 2))]
  ELSE [op EXCEPT !.value = ValueOf(op.label)]

(* From the address of the extension word, in the modes that would mark it. *)
BaseDisplacement(op, extension_word_address) ==
  IF op.is_pc_relative_label
  THEN SubLong(ValueOf(op.label), FromNumber(extension_word_address))
  ELSE op.base_displacement

WriteFullFormat(out, op, ok) ==
  LET ext == WriteW(out, build_full_format_extension(op), ok)
      bd  == WriteD(ext, base_disp_size(op), BaseDisplacement(op, out.address), ok)
  IN  WriteD(bd, outer_disp_size(op), op.outer_displacement, ok)

WriteOperand(out, op, size, ok) ==
  CASE op.mode = "IMMEDIATE" /\ (size = "L" \/ op.value.hi # 0) -> WriteL(out, op.value, ok)
    [] op.mode = "IMMEDIATE" /\ size # "L" /\ op.value.hi = 0 -> WriteW(out, op.value.lo, ok)
    [] op.mode = "ABSOLUTE_SHORT" -> WriteW(out, op.value.lo, ok)
    [] op.mode = "ABSOLUTE_LONG" -> WriteL(out, op.value, ok)
    [] op.mode \in {"ARI_DISPLACEMENT", "PC_RELATIVE_DISPLACEMENT"} ->
         WriteW(out, op.base_displacement.lo, ok)
    [] op.mode \in {"ARI_INDEX_8_BIT_DISP", "PC_RELATIVE_INDEX_8_BIT"} ->
         WriteW(out, IndexBits(op) + (op.base_displacement.lo % 256), ok)
    [] op.mode \in FullFormat -> WriteFullFormat(out, op, ok)
    [] OTHER -> out

write_operand_extensions(out, op, size, current_pc, ok) ==
  WriteOperand(out, Resolved(op, current_pc), size, ok)

SizeBits(size) == CASE size = "B" -> 1 [] size = "L" -> 2 [] OTHER -> 3

machine_code(size, src, dest) ==
  4096 * SizeBits(size) + 512 * (encode_ea(dest) % 8) + 64 * (encode_ea(dest) \div 8)
    + encode_ea(src)

EncodedMove(out, size, src, dest, ok) ==
  LET code   == WriteW(out, machine_code(size, src, dest), ok)
      source_words == write_operand_extensions(code, src, size, out.address, ok)
  IN  write_operand_extensions(source_words, dest, size, out.address, ok)

(* DC takes its first datum as a hexadecimal number after a dollar sign. *)
Datum(l) == Hexadecimal[l.operands[1]]

EncodedDatum(m, address, size, x, ok) ==
  CASE size = "B" -> mem_write_byte(m, address, x.lo % 256, ok)
    [] size = "W" -> mem_write_word(m, address, x.lo, ok)
    [] OTHER -> mem_write_long(m, address, x, ok)

IsMoveLine(l) ==
  /\ l.base \in {"MOVE", "MOVEA"}
  /\ SourceOf(l).status = "parsed" /\ DestOf(l).status = "parsed"

(* The memory after the line: a MOVE that lacks an operand and an instruction *)
(* that has no encoder are reported and leave it as it is.                   *)
Encoded(m, l, address, ok) ==
  CASE IsMoveLine(l) -> EncodedMove(Out(address, m), l.size, SourceOf(l).op, DestOf(l).op, ok).mem
    [] l.base = "DC" -> EncodedDatum(m, address, l.size, Datum(l), ok)
    [] l.base = "RTS" -> mem_write_word(m, address, \h4E75, ok)
    [] l.base = "NOP" -> mem_write_word(m, address, \h4E71, ok)
    [] OTHER -> m

-----------------------------------------------------------------------------
Allocates == line \notin failing

OrgAddress(l) == AsNumber(Hexadecimal[l.operands[1]])

Reading(pass) == phase = pass /\ line <= Len(source)
NextLine == line' = line + 1 /\ UNCHANGED <<source, failing, phase>>

(* The first pass skips an empty line and one that begins with a star, the   *)
(* second looks for the star only after the label.                           *)
Skipped(l) ==
  IF phase = "first pass" THEN l.comment \/ (l.label = NoLabel /\ l.base = "")
                          ELSE l.base \in {"", "*"}

LabelsUsed(l) ==
  IF IsMoveLine(l) THEN {SourceOf(l).op.label, DestOf(l).op.label} \ {NoLabel} ELSE {}

(* The names that a pass looks for in the symbol table. *)
Walked(l) ==
  IF Skipped(l) THEN {}
  ELSE IF phase = "first pass" THEN {l.label} \ {NoLabel} ELSE LabelsUsed(l)

(* The process ends: in a parse, or in the walk through a nameless node. *)
Exits(l) == ~Skipped(l) /\ l.base # "ORG" /\ SyntaxError(l)
WalkFaults(l) == \E label \in Walked(l) : Faults(label)

ReadsOn == ~Exits(This) /\ ~WalkFaults(This)

(* Mistake: ORG does not move the passes. *)
NextAddress_no_org(l) == current_address + get_instruction_size(l)

NextAddress(l) ==
  IF l.base = "" THEN current_address
  ELSE IF l.base = "ORG" THEN OrgAddress(l)
  ELSE current_address + get_instruction_size(l)

(* add_symbol, which leaves a name that is there, and gives up when malloc   *)
(* fails; strdup may fail by itself.                                         *)
EnterLabel(label) ==
  \/ label = NoLabel /\ UNCHANGED symbols
  \/ label # NoLabel /\ find_symbol(label) # NoSymbol /\ UNCHANGED symbols
  \/ label # NoLabel /\ ~Allocates /\ UNCHANGED symbols
  \/ label # NoLabel /\ Allocates /\ add_symbol(label, current_address, label)
  \/ label # NoLabel /\ ~Allocates /\ add_symbol(label, current_address, NoName)

NoteOrg(l) ==
  /\ start_address' = IF l.base = "ORG" /\ ~org_seen THEN OrgAddress(l) ELSE start_address
  /\ org_seen' = (org_seen \/ l.base = "ORG")

perform_first_pass ==
  /\ Reading("first pass") /\ ReadsOn
  /\ IF Skipped(This)
     THEN UNCHANGED <<symbols, current_address, start_address, org_seen>>
     ELSE /\ EnterLabel(This.label)
          /\ NoteOrg(This)
          /\ current_address' = NextAddress(This)
  /\ NextLine
  /\ UNCHANGED <<mem, hash_table>>

perform_second_pass ==
  /\ Reading("second pass") /\ ReadsOn
  /\ IF Skipped(This)
     THEN UNCHANGED <<mem, hash_table, current_address>>
     ELSE /\ disassembler_add_mapping(current_address, line, Allocates)
          /\ mem' = Encoded(mem, This, current_address, Allocates)
          /\ current_address' = NextAddress(This)
  /\ NextLine
  /\ UNCHANGED <<symbols, start_address, org_seen>>

LoadFaults ==
  /\ Reading("first pass") \/ Reading("second pass")
  /\ \E label \in Walked(This) : Fault(label)
  /\ UNCHANGED <<assembler, mem, hash_table>>

LoadExits ==
  /\ Reading("first pass") \/ Reading("second pass")
  /\ Exits(This) /\ ~WalkFaults(This)
  /\ phase' = "exited"
  /\ UNCHANGED <<source, failing, line, current_address, start_address, org_seen,
                 mem, hash_table, symbols>>

-----------------------------------------------------------------------------
(* load_file: the first pass begins at main's start address, the second at   *)
(* whatever the pointer to it is as a number.                                *)
load_file(file) ==
  /\ table' = EmptyTable /\ status' = "in use"
  /\ source' = file.source /\ failing' = file.failing
  /\ phase' = "first pass" /\ line' = 1
  /\ current_address' = start_address /\ org_seen' = FALSE
  /\ UNCHANGED <<start_address, mem, hash_table>>

Rewind ==
  /\ phase = "first pass" /\ line = Len(source) + 1
  /\ phase' = "second pass" /\ line' = 1
  /\ current_address' \in StrayAddresses
  /\ UNCHANGED <<source, failing, start_address, org_seen, mem, hash_table, symbols>>

load_file_returns ==
  /\ phase = "second pass" /\ line = Len(source) + 1
  /\ phase' = "loaded"
  /\ destroy_symbol_table
  /\ UNCHANGED <<source, failing, line, current_address, start_address, org_seen,
                 mem, hash_table>>

LoadNext ==
  perform_first_pass \/ Rewind \/ perform_second_pass \/ load_file_returns
    \/ LoadFaults \/ LoadExits
=============================================================================
