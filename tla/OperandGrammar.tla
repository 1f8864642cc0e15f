---------------------------- MODULE OperandGrammar ----------------------------
(***************************************************************************)
(* operand_parser.peg and parse_operand: the text of an operand becomes an  *)
(* Operand, or the process ends with a syntax error (PackCC's default for a  *)
(* text that root does not match).                                          *)
(*                                                                         *)
(* A text is a sequence of tokens, written without whitespace but between    *)
(* two words.  A rule takes a text and a position, or 0, and returns the      *)
(* position after what it matched, or 0, with the operand its action makes.  *)
(* An ordered choice takes the first alternative that matches at the         *)
(* position and never comes back to it, whatever follows.                    *)
(***************************************************************************)
EXTENDS Words, Sequences

CONSTANTS
  AnToken, DnToken,     \* the registers' names, each with its number
  Decimal, Hexadecimal, \* the numbers, each with its value
  Labels,               \* the identifiers of no other meaning
  RegisterLike          \* identifiers that begin with a register's name

ASSUME GrammarAssumption ==
  /\ \A t \in DOMAIN AnToken : AnToken[t] \in 0 .. 7
  /\ \A t \in DOMAIN DnToken : DnToken[t] \in 0 .. 7
  /\ \A t \in DOMAIN Decimal : Decimal[t] \in Long
  /\ \A t \in DOMAIN Hexadecimal : Hexadecimal[t] \in Long

Sizes == {"W", "L"}

(* A register is an identifier as well, and so is the letter of a size. *)
Identifiers == Labels \cup RegisterLike \cup DOMAIN AnToken \cup DOMAIN DnToken \cup Sizes \cup {"PC"}

Punctuation == {"#", "(", ")", "[", "]", ",", "-", "+", ".", "*"}

ScaleToken == [s \in {"1", "2", "4", "8"} |->
                 CASE s = "1" -> 0 [] s = "2" -> 1 [] s = "4" -> 2 [] s = "8" -> 3]

NoLabel == ""
Null == -1

(* A token is a number of one kind, an identifier or a mark; a register is no *)
(* label, and a name that begins with a register's is neither.               *)
ASSUME TokensAssumption ==
  /\ NoLabel \notin Identifiers
  /\ Identifiers \cap Punctuation = {}
  /\ DOMAIN Decimal \cap (Identifiers \cup Punctuation) = {}
  /\ DOMAIN Hexadecimal \cap (Identifiers \cup Punctuation \cup DOMAIN Decimal) = {}
  /\ "PC" \notin DOMAIN AnToken
  /\ DOMAIN AnToken \cap DOMAIN DnToken = {}
  /\ (Labels \cup RegisterLike) \cap (DOMAIN AnToken \cup DOMAIN DnToken) = {}
  /\ Labels \cap RegisterLike = {}

(* In the middle of a word, where no rule and no end of the text matches. *)
Inside(t) == Len(t) + 2

(* The size of a displacement is not a matter of the text: base_disp_size    *)
(* and outer_disp_size are set by the loader.                                *)
create_operand ==
  [mode |-> "UNKNOWN_MODE", reg_num |-> Null, value |-> ZeroLong, label |-> NoLabel,
   is_pc_relative_label |-> FALSE, index_reg_num |-> Null, index_is_an |-> FALSE,
   index_size |-> "", scale |-> 0, base_displacement |-> ZeroLong,
   outer_displacement |-> ZeroLong]

-----------------------------------------------------------------------------
(* A match: the position after it, or 0 where there is none, and the operand. *)
Match(p, op) == [at |-> p, op |-> op]
Fail == Match(0, create_operand)

Is(t, p, S) == p # 0 /\ p <= Len(t) /\ t[p] \in S

(* The position after a token, and a match with a token after it. *)
Past(t, p, token) == IF Is(t, p, {token}) THEN p + 1 ELSE 0
Then(t, m, token) == IF Is(t, m.at, {token}) THEN [m EXCEPT !.at = @ + 1] ELSE Fail

Choice(a, b) == IF a.at # 0 THEN a ELSE b

(* Nothing, matched where an optional rule does not match. *)
Nothing(p) == Match(p, create_operand)

-----------------------------------------------------------------------------
Identifier(t, p) ==
  IF Is(t, p, Identifiers) THEN Match(p + 1, [create_operand EXCEPT !.label = t[p]]) ELSE Fail

HexNumber(t, p) ==
  IF Is(t, p, DOMAIN Hexadecimal)
  THEN Match(p + 1, [create_operand EXCEPT !.value = Hexadecimal[t[p]]]) ELSE Fail

PositiveDec(t, p) ==
  IF Is(t, p, DOMAIN Decimal)
  THEN Match(p + 1, [create_operand EXCEPT !.value = Decimal[t[p]]]) ELSE Fail

Negated(m) == [m EXCEPT !.op.value = SubLong(ZeroLong, @)]

NegativeDec(t, p) == Negated(PositiveDec(t, Past(t, p, "-")))

Number(t, p) == Choice(HexNumber(t, p), Choice(NegativeDec(t, p), PositiveDec(t, p)))

PcRelative(m) == [m EXCEPT !.op.is_pc_relative_label = TRUE]

PCRelativeLabel(t, p) == PcRelative(Then(t, Then(t, Identifier(t, p), "-"), "."))

Displacement(t, p) ==
  Choice(Number(t, p), Choice(PCRelativeLabel(t, p), Identifier(t, p)))

OptionalDisplacement(t, p) == Choice(Displacement(t, p), Nothing(p))

AnRegSpecifier(t, p) ==
  IF Is(t, p, DOMAIN AnToken)
  THEN Match(p + 1, [create_operand EXCEPT !.reg_num = AnToken[t[p]]]) ELSE Fail

DnRegSpecifier(t, p) ==
  IF Is(t, p, DOMAIN DnToken)
  THEN Match(p + 1, [create_operand EXCEPT !.reg_num = DnToken[t[p]]]) ELSE Fail

BaseRegister(t, p) == Choice(AnRegSpecifier(t, p), Nothing(Past(t, p, "PC")))

OfAn(m) == [m EXCEPT !.op.index_is_an = TRUE]

IndexRegSpecifier(t, p) == Choice(OfAn(AnRegSpecifier(t, p)), DnRegSpecifier(t, p))

HasSize(t, p) == Is(t, p, {"."}) /\ Is(t, p + 1, Sizes)
HasScale(t, p) == Is(t, p, {"*"}) /\ Is(t, p + 1, DOMAIN ScaleToken)

IndexSize(t, m) ==
  IF HasSize(t, m.at) THEN [m EXCEPT !.at = @ + 2, !.op.index_size = t[m.at + 1]]
                      ELSE [m EXCEPT !.op.index_size = "W"]

IndexScale(t, m) ==
  IF HasScale(t, m.at) THEN [m EXCEPT !.at = @ + 2, !.op.scale = ScaleToken[t[m.at + 1]]]
                       ELSE m

IndexRegister(t, p) == IndexScale(t, IndexSize(t, IndexRegSpecifier(t, p)))

-----------------------------------------------------------------------------
(* What an operand takes over from its parts.  Of a displacement: a label or *)
(* a value; the mark of a label relative to the PC stays behind.             *)
WithDisplacement(op, disp) ==
  IF disp.label # NoLabel THEN [op EXCEPT !.label = disp.label]
                          ELSE [op EXCEPT !.base_displacement = disp.value]

WithIndex(op, idx) ==
  [op EXCEPT !.index_reg_num = idx.reg_num, !.index_is_an = idx.index_is_an,
             !.index_size = idx.index_size, !.scale = idx.scale]

(* Of an outer displacement: a value; a label there is dropped. *)
WithOuter(op, od) ==
  IF od.label # NoLabel THEN op ELSE [op EXCEPT !.outer_displacement = od.value]

Mode(m, mode) == [m EXCEPT !.op.mode = mode]

(* The mode for an address register or for the PC. *)
BaseMode(m, mode, pc_mode) == Mode(m, IF m.op.reg_num = Null THEN pc_mode ELSE mode)

(* After a displacement: a separator and the base register. *)
Displaced(disp, base) == Match(base.at, WithDisplacement(base.op, disp.op))
Base(t, disp, separator) == Displaced(disp, BaseRegister(t, Past(t, disp.at, separator)))

(* After a base: a comma and the index register. *)
Indexed(m, idx) == Match(idx.at, WithIndex(m.op, idx.op))
Index(t, m) == Indexed(m, IndexRegister(t, Past(t, m.at, ",")))

(* (COMMA od:Displacement)? RPAREN *)
Outer(m, od) == Match(od.at, WithOuter(m.op, od.op))
OuterEnd(t, m) ==
  Then(t, Outer(m, Choice(Displacement(t, Past(t, m.at, ",")), Nothing(m.at))), ")")

-----------------------------------------------------------------------------
AbsoluteValue(t, p) == Choice(Number(t, p), Identifier(t, p))

Operand_Immediate(t, p) == Mode(AbsoluteValue(t, Past(t, p, "#")), "IMMEDIATE")

Absolute_Form(t, p) ==
  Choice(Then(t, AbsoluteValue(t, Past(t, p, "(")), ")"), AbsoluteValue(t, p))

AbsoluteSize(t, m) ==
  IF HasSize(t, m.at)
  THEN [Mode(m, IF t[m.at + 1] = "L" THEN "ABSOLUTE_LONG" ELSE "ABSOLUTE_SHORT")
          EXCEPT !.at = @ + 2]
  ELSE Mode(m, "ABSOLUTE_SHORT")

Operand_Absolute(t, p) == AbsoluteSize(t, Absolute_Form(t, p))

(* The letter and the digit of a register match where a longer name begins *)
(* with them, too, and the rule is not tried again as an identifier.         *)
Operand_RegisterDirect(t, p) ==
  IF Is(t, p, RegisterLike) THEN Nothing(Inside(t))
  ELSE Choice(Mode(DnRegSpecifier(t, p), "DATA_REGISTER_DIRECT"),
              Mode(AnRegSpecifier(t, p), "ADDRESS_REGISTER_DIRECT"))

ARI_Rule(t, p) ==
  Mode(Then(t, AnRegSpecifier(t, Past(t, p, "(")), ")"), "ADDRESS_REGISTER_INDIRECT")

ARI_PostIncrement_Rule(t, p) == Mode(Then(t, ARI_Rule(t, p), "+"), "ARI_POST_INCREMENT")

ARI_PreDecrement_Rule(t, p) == Mode(ARI_Rule(t, Past(t, p, "-")), "ARI_PRE_DECREMENT")

Displacement_Rule(t, p) ==
  BaseMode(Then(t, Base(t, Displacement(t, p), "("), ")"),
           "ARI_DISPLACEMENT", "PC_RELATIVE_DISPLACEMENT")

Operand_Indirect_Simple(t, p) ==
  Choice(ARI_PreDecrement_Rule(t, p),
    Choice(ARI_PostIncrement_Rule(t, p),
      Choice(Displacement_Rule(t, p), ARI_Rule(t, p))))

(* Inside the brackets: [bd,An] and [bd,An,Xn]. *)
InnerBase(t, p) == Base(t, OptionalDisplacement(t, Past(t, p, "[")), ",")

Inner_PostIndexed(t, p) == Then(t, InnerBase(t, p), "]")

Inner_PreIndexed(t, p) == Then(t, Index(t, InnerBase(t, p)), "]")

MemIndirect_Post_Rule(t, p) ==
  BaseMode(OuterEnd(t, Index(t, Inner_PostIndexed(t, Past(t, p, "(")))),
           "MEMORY_INDIRECT_POST_INDEXED", "PC_MEM_INDIRECT_POST_INDEXED")

MemIndirect_Pre_Rule(t, p) ==
  BaseMode(OuterEnd(t, Inner_PreIndexed(t, Past(t, p, "("))),
           "MEMORY_INDIRECT_PRE_INDEXED", "PC_MEM_INDIRECT_PRE_INDEXED")

Index_BaseDisp_Rule(t, p) ==
  BaseMode(Then(t, Index(t, Base(t, Displacement(t, Past(t, p, "(")), ",")), ")"),
           "ARI_INDEX_BASE_DISP", "PC_INDEX_BASE_DISP")

Index_8BitDisp_Rule(t, p) ==
  BaseMode(Then(t, Index(t, Base(t, Displacement(t, p), "(")), ")"),
           "ARI_INDEX_8_BIT_DISP", "PC_RELATIVE_INDEX_8_BIT")

Operand_Indirect_Complex(t, p) ==
  Choice(MemIndirect_Post_Rule(t, p),
    Choice(MemIndirect_Pre_Rule(t, p),
      Choice(Index_BaseDisp_Rule(t, p), Index_8BitDisp_Rule(t, p))))

(* Mistake: an address is tried before a register. *)
operand_absolute_first(t, p) ==
  Choice(Operand_Immediate(t, p),
    Choice(Operand_Absolute(t, p),
      Choice(Operand_RegisterDirect(t, p),
        Choice(Operand_Indirect_Complex(t, p), Operand_Indirect_Simple(t, p)))))

operand(t, p) ==
  Choice(Operand_Immediate(t, p),
    Choice(Operand_RegisterDirect(t, p),
      Choice(Operand_Absolute(t, p),
        Choice(Operand_Indirect_Complex(t, p), Operand_Indirect_Simple(t, p)))))

(* The end of the text. *)
EOT(t, m) == IF m.at = Len(t) + 1 THEN m ELSE Fail

(* Mistake: the operand need not end the text. *)
root_without_EOT(t) == operand(t, 1)

root(t) == EOT(t, operand(t, 1))

(* parse_operand's answers: no operand in an empty text, the operand, or no  *)
(* return at all, for a text that root does not match ends the process.      *)
Answer(m) ==
  IF m.at # 0 THEN [status |-> "parsed", op |-> m.op]
              ELSE [status |-> "syntax error", op |-> create_operand]

parse_operand(t) ==
  IF t = <<>> THEN [status |-> "empty", op |-> create_operand] ELSE Answer(root(t))
=============================================================================
