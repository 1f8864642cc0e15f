----------------------------- MODULE LoaderProofs -----------------------------
(***************************************************************************)
(* What a line of the second pass writes, for every source, every table of   *)
(* labels and every address: the lemmas by which the theorems of the whole   *)
(* program (SimulatorProofs) tell that no line writes over its neighbour.    *)
(*                                                                         *)
(* First the operands: whatever the tokens of a text are, what parse_operand *)
(* answers has one of the modes, with a register where the mode has one, and *)
(* never carries the mark of a label relative to the program counter.  Then  *)
(* the numbers: what machine_code and the two extension words are built from *)
(* fits into 16 bits.  Last the two walks over an operand: the sizes of the  *)
(* first are what the second writes, but for an immediate too wide for the   *)
(* size of its instruction.                                                  *)
(***************************************************************************)
EXTENDS Loader, MemoryProofs, WordProofs, TableProofs, WellFoundedInduction, TLAPS

(* The modes of an operand that was parsed: those with a register, a simple   *)
(* address among them, those through the program counter, and the rest.       *)
RegisterModes == DOMAIN RegisterMode
PlainModes == {"IMMEDIATE", "ABSOLUTE_SHORT", "ABSOLUTE_LONG"}
PcModes == {"PC_RELATIVE_DISPLACEMENT", "PC_RELATIVE_INDEX_8_BIT", "PC_INDEX_BASE_DISP",
            "PC_MEM_INDIRECT_POST_INDEXED", "PC_MEM_INDIRECT_PRE_INDEXED"}

Modes == RegisterModes \cup PlainModes \cup PcModes

(* A register or none. *)
RegisterOrNull == -1 .. 7

Parts ==
  [mode : Modes \cup {"UNKNOWN_MODE"}, reg_num : RegisterOrNull, value : Long,
   label : Grammar!Identifiers \cup {NoLabel}, is_pc_relative_label : BOOLEAN,
   index_reg_num : RegisterOrNull, index_is_an : BOOLEAN, index_size : {"", "W", "L"},
   scale : 0 .. 3, base_displacement : Long, outer_displacement : Long]

MatchSet == [at : Nat, op : Parts]

(* The grammar's longs are the memory's. *)
LEMMA GrammarLongs ==
  /\ Grammar!ZeroLong = ZeroLong
  /\ \A x, y : Grammar!SubLong(x, y) = SubLong(x, y)
  BY DEF Grammar!ZeroLong, Grammar!FromWord, ZeroLong, FromWord, Grammar!SubLong, SubLong

(* An operand without parts, and no match, are such. *)
LEMMA NoParts == Grammar!create_operand \in Parts
<1>1. ZeroLong \in Long
  BY ZeroLongType
<1> QED
  BY <1>1, GrammarLongs
  DEF Grammar!create_operand, Parts, Grammar!Null, NoLabel, RegisterOrNull

(* A match is where it stands and what it has. *)
LEMMA MatchType ==
  ASSUME NEW p \in Nat, NEW op \in Parts
  PROVE  Grammar!Match(p, op) \in MatchSet /\ Grammar!Match(p, op).at = p /\ Grammar!Match(p, op).op = op
  BY DEF Grammar!Match, MatchSet

(* Failing is a match at no position. *)
LEMMA FailType == Grammar!Fail \in MatchSet /\ Grammar!Fail.at = 0
  BY NoParts, MatchType DEF Grammar!Fail

(* Each part may be replaced. *)
LEMMA PartTypes ==
  ASSUME NEW op \in Parts
  PROVE  /\ \A x \in Modes : [op EXCEPT !.mode = x] \in Parts
         /\ \A x \in {"W", "L"} : [op EXCEPT !.index_size = x] \in Parts
         /\ \A x \in RegisterOrNull : [op EXCEPT !.reg_num = x] \in Parts
         /\ \A x \in Long : /\ [op EXCEPT !.value = x] \in Parts
                            /\ [op EXCEPT !.base_displacement = x] \in Parts
                            /\ [op EXCEPT !.outer_displacement = x] \in Parts
         /\ \A x \in Grammar!Identifiers : [op EXCEPT !.label = x] \in Parts
         /\ \A x \in BOOLEAN : /\ [op EXCEPT !.is_pc_relative_label = x] \in Parts
                               /\ [op EXCEPT !.index_is_an = x] \in Parts
         /\ \A x \in 0 .. 3 : [op EXCEPT !.scale = x] \in Parts
  BY DEF Parts

(* A match is one of two, or goes on after a token. *)
LEMMA ChoiceOf ==
  ASSUME NEW a, NEW b
  PROVE  LET c == Grammar!Choice(a, b) IN c = a \/ c = b
  BY DEF Grammar!Choice

(* After a token a match goes on with the operand it had, if both matched. *)
LEMMA ThenType ==
  ASSUME NEW t, NEW m \in MatchSet, NEW token
  PROVE  LET e == Grammar!Then(t, m, token)
         IN  e \in MatchSet /\ (e.at # 0 => m.at # 0 /\ e.op = m.op)
<1> DEFINE e == Grammar!Then(t, m, token)
<1>1. CASE Grammar!Is(t, m.at, {token})
  <2>1. e = [m EXCEPT !.at = @ + 1] /\ m.at # 0
    BY <1>1 DEF Grammar!Then, Grammar!Is
  <2> QED
    BY <2>1 DEF MatchSet
<1>2. CASE ~Grammar!Is(t, m.at, {token})
  BY <1>2, FailType DEF Grammar!Then
<1> QED
  BY <1>1, <1>2

(* Where a token is passed is a position again. *)
LEMMA PastType ==
  ASSUME NEW t, NEW p \in Nat, NEW token
  PROVE  Grammar!Past(t, p, token) \in Nat
  BY DEF Grammar!Past

(* What a match notes of its operand. *)
LEMMA NotedTypes ==
  ASSUME NEW m \in MatchSet
  PROVE  /\ m.at \in Nat /\ m.op \in Parts
         /\ \A x \in Modes : LET e == Grammar!Mode(m, x)
                             IN  e \in MatchSet /\ e.at = m.at /\ e.op = [m.op EXCEPT !.mode = x]
         /\ Grammar!Negated(m) \in MatchSet
         /\ Grammar!PcRelative(m) \in MatchSet
         /\ Grammar!OfAn(m) \in MatchSet
<1>1. m.at \in Nat /\ m.op \in Parts
  BY DEF MatchSet
<1>2. m.op.value \in Long
  BY <1>1 DEF Parts
<1>3. SubLong(ZeroLong, m.op.value) \in Long
  BY <1>2, ZeroLongType, SubLongType
<1>4. \A op \in Parts : [m EXCEPT !.op = op] \in MatchSet
  BY DEF MatchSet
<1>5. ASSUME NEW x \in Modes
      PROVE  LET e == Grammar!Mode(m, x)
             IN  e \in MatchSet /\ e.at = m.at /\ e.op = [m.op EXCEPT !.mode = x]
  <2>1. [m.op EXCEPT !.mode = x] \in Parts
    BY <1>1, PartTypes
  <2>2. Grammar!Mode(m, x) = [m EXCEPT !.op = [m.op EXCEPT !.mode = x]]
    BY DEF Grammar!Mode
  <2> QED
    BY <1>4, <2>1, <2>2 DEF MatchSet
<1>6. Grammar!Negated(m) \in MatchSet
  <2> DEFINE op == [m.op EXCEPT !.value = SubLong(ZeroLong, m.op.value)]
  <2>1. Grammar!Negated(m) = [m EXCEPT !.op = op]
    BY GrammarLongs DEF Grammar!Negated
  <2>2. op \in Parts
    BY <1>1, <1>3, PartTypes
  <2> QED
    BY <1>4, <2>1, <2>2
<1>7. Grammar!PcRelative(m) \in MatchSet
  <2> DEFINE op == [m.op EXCEPT !.is_pc_relative_label = TRUE]
  <2>1. Grammar!PcRelative(m) = [m EXCEPT !.op = op]
    BY DEF Grammar!PcRelative
  <2>2. op \in Parts
    BY <1>1, PartTypes
  <2> QED
    BY <1>4, <2>1, <2>2
<1>8. Grammar!OfAn(m) \in MatchSet
  <2> DEFINE op == [m.op EXCEPT !.index_is_an = TRUE]
  <2>1. Grammar!OfAn(m) = [m EXCEPT !.op = op]
    BY DEF Grammar!OfAn
  <2>2. op \in Parts
    BY <1>1, PartTypes
  <2> QED
    BY <1>4, <2>1, <2>2
<1> QED
  BY <1>1, <1>5, <1>6, <1>7, <1>8

-----------------------------------------------------------------------------
(* The terminals. *)
LEMMA TokenTypes ==
  ASSUME NEW t, NEW p \in Nat
  PROVE  /\ Grammar!Identifier(t, p) \in MatchSet
         /\ Grammar!HexNumber(t, p) \in MatchSet
         /\ Grammar!PositiveDec(t, p) \in MatchSet
         /\ Grammar!AnRegSpecifier(t, p) \in MatchSet
         /\ Grammar!DnRegSpecifier(t, p) \in MatchSet
         /\ Grammar!AnRegSpecifier(t, p).at # 0 => Grammar!AnRegSpecifier(t, p).op.reg_num \in 0 .. 7
         /\ Grammar!DnRegSpecifier(t, p).at # 0 => Grammar!DnRegSpecifier(t, p).op.reg_num \in 0 .. 7
         /\ Grammar!Nothing(p) \in MatchSet /\ Grammar!Nothing(p).op = Grammar!create_operand
<1>1. /\ p + 1 \in Nat /\ Grammar!create_operand \in Parts
      /\ Grammar!Fail \in MatchSet /\ Grammar!Fail.at = 0
  BY NoParts, FailType
<1>2. Grammar!Identifier(t, p) \in MatchSet
  <2>1. Grammar!Is(t, p, Grammar!Identifiers) => t[p] \in Grammar!Identifiers
    BY DEF Grammar!Is
  <2> QED
    BY <1>1, <2>1, PartTypes, MatchType DEF Grammar!Identifier
<1>3. Grammar!HexNumber(t, p) \in MatchSet
  <2>1. Grammar!Is(t, p, DOMAIN Hexadecimal) => Hexadecimal[t[p]] \in Long
    BY LoaderAssumption DEF Grammar!Is
  <2> QED
    BY <1>1, <2>1, PartTypes, MatchType DEF Grammar!HexNumber
<1>4. Grammar!PositiveDec(t, p) \in MatchSet
  <2>1. Grammar!Is(t, p, DOMAIN Decimal) => Decimal[t[p]] \in Long
    BY LoaderAssumption DEF Grammar!Is
  <2> QED
    BY <1>1, <2>1, PartTypes, MatchType DEF Grammar!PositiveDec
<1>5. ASSUME NEW r \in 0 .. 7
      PROVE  /\ Grammar!Match(p + 1, [Grammar!create_operand EXCEPT !.reg_num = r]) \in MatchSet
             /\ Grammar!Match(p + 1, [Grammar!create_operand EXCEPT !.reg_num = r]).op.reg_num = r
  <2> DEFINE op == [Grammar!create_operand EXCEPT !.reg_num = r]
  <2>1. r \in RegisterOrNull
    BY DEF RegisterOrNull
  <2>2. op \in Parts /\ op.reg_num = r
    <3>1. op \in Parts
      BY <1>1, <2>1, PartTypes
    <3>2. op.reg_num = r
      BY <1>1 DEF Parts
    <3> QED
      BY <3>1, <3>2
  <2> HIDE DEF op
  <2>3. Grammar!Match(p + 1, op) \in MatchSet /\ Grammar!Match(p + 1, op).op = op
    BY <1>1, <2>2, MatchType
  <2> QED
    BY <2>2, <2>3 DEF op
<1>6. /\ Grammar!AnRegSpecifier(t, p) \in MatchSet
      /\ Grammar!AnRegSpecifier(t, p).at # 0 => Grammar!AnRegSpecifier(t, p).op.reg_num \in 0 .. 7
  <2>1. Grammar!Is(t, p, DOMAIN AnToken) => AnToken[t[p]] \in 0 .. 7
    BY LoaderAssumption DEF Grammar!Is
  <2> QED
    BY <1>1, <1>5, <2>1 DEF Grammar!AnRegSpecifier
<1>7. /\ Grammar!DnRegSpecifier(t, p) \in MatchSet
      /\ Grammar!DnRegSpecifier(t, p).at # 0 => Grammar!DnRegSpecifier(t, p).op.reg_num \in 0 .. 7
  <2>1. Grammar!Is(t, p, DOMAIN DnToken) => DnToken[t[p]] \in 0 .. 7
    BY LoaderAssumption DEF Grammar!Is
  <2> QED
    BY <1>1, <1>5, <2>1 DEF Grammar!DnRegSpecifier
<1>8. Grammar!Nothing(p) \in MatchSet /\ Grammar!Nothing(p).op = Grammar!create_operand
  BY <1>1, MatchType DEF Grammar!Nothing
<1> QED
  BY <1>2, <1>3, <1>4, <1>6, <1>7, <1>8

(* Numbers and displacements. *)
LEMMA DisplacementTypes ==
  ASSUME NEW t, NEW p \in Nat
  PROVE  /\ Grammar!Number(t, p) \in MatchSet
         /\ Grammar!Displacement(t, p) \in MatchSet
         /\ Grammar!OptionalDisplacement(t, p) \in MatchSet
         /\ Grammar!AbsoluteValue(t, p) \in MatchSet
<1>1. Grammar!Number(t, p) \in MatchSet
  <2>1. Grammar!NegativeDec(t, p) \in MatchSet
    BY PastType, TokenTypes, NotedTypes DEF Grammar!NegativeDec
  <2> QED
    BY <2>1, TokenTypes, ChoiceOf DEF Grammar!Number
<1>2. Grammar!PCRelativeLabel(t, p) \in MatchSet
  BY TokenTypes, ThenType, NotedTypes DEF Grammar!PCRelativeLabel
<1>3. Grammar!Displacement(t, p) \in MatchSet
  BY <1>1, <1>2, TokenTypes, ChoiceOf DEF Grammar!Displacement
<1> QED
  BY <1>1, <1>3, TokenTypes, ChoiceOf DEF Grammar!OptionalDisplacement, Grammar!AbsoluteValue

(* Registers, the size and the scale of an index. *)
LEMMA RegisterTypes ==
  ASSUME NEW t, NEW p \in Nat
  PROVE  /\ Grammar!BaseRegister(t, p) \in MatchSet
         /\ Grammar!IndexRegister(t, p) \in MatchSet
<1>1. Grammar!BaseRegister(t, p) \in MatchSet
  BY PastType, TokenTypes, ChoiceOf DEF Grammar!BaseRegister
<1>2. Grammar!IndexRegSpecifier(t, p) \in MatchSet
  BY TokenTypes, NotedTypes, ChoiceOf DEF Grammar!IndexRegSpecifier
<1>3. ASSUME NEW m \in MatchSet
      PROVE  Grammar!IndexSize(t, m) \in MatchSet
  <2>1. ASSUME NEW x \in {"W", "L"}, NEW i \in Nat
        PROVE  [m EXCEPT !.at = i, !.op = [m.op EXCEPT !.index_size = x]] \in MatchSet
    <3>1. m.op \in Parts
      BY NotedTypes
    <3>2. [m.op EXCEPT !.index_size = x] \in Parts
      BY <3>1, PartTypes
    <3> QED
      BY <3>2 DEF MatchSet
  <2>2. CASE Grammar!HasSize(t, m.at)
    <3>1. t[m.at + 1] \in {"W", "L"} /\ m.at + 2 \in Nat
      BY <2>2, NotedTypes DEF Grammar!HasSize, Grammar!Is, Grammar!Sizes
    <3>2. Grammar!IndexSize(t, m)
            = [m EXCEPT !.at = m.at + 2, !.op = [m.op EXCEPT !.index_size = t[m.at + 1]]]
      BY <2>2 DEF Grammar!IndexSize
    <3> QED
      BY <2>1, <3>1, <3>2
  <2>3. CASE ~Grammar!HasSize(t, m.at)
    <3> DEFINE op == [m.op EXCEPT !.index_size = "W"]
    <3>1. Grammar!IndexSize(t, m) = [m EXCEPT !.op = op]
      BY <2>3 DEF Grammar!IndexSize
    <3>2. op \in Parts
      BY NotedTypes, PartTypes
    <3> HIDE DEF op
    <3> QED
      BY <3>1, <3>2 DEF MatchSet
  <2> QED
    BY <2>2, <2>3
<1>4. ASSUME NEW m \in MatchSet
      PROVE  Grammar!IndexScale(t, m) \in MatchSet
  <2>1. CASE Grammar!HasScale(t, m.at)
    <3> DEFINE x  == Grammar!ScaleToken[t[m.at + 1]]
               op == [m.op EXCEPT !.scale = x]
    <3>1. x \in 0 .. 3 /\ m.at + 2 \in Nat
      <4>1. t[m.at + 1] \in {"1", "2", "4", "8"}
        BY <2>1 DEF Grammar!HasScale, Grammar!Is, Grammar!ScaleToken
      <4> QED
        BY <4>1, NotedTypes DEF Grammar!ScaleToken
    <3>2. Grammar!IndexScale(t, m) = [m EXCEPT !.at = m.at + 2, !.op = op]
      BY <2>1 DEF Grammar!IndexScale
    <3> HIDE DEF x
    <3>3. op \in Parts
      BY <3>1, NotedTypes, PartTypes
    <3> QED
      BY <3>1, <3>2, <3>3 DEF MatchSet
  <2>2. CASE ~Grammar!HasScale(t, m.at)
    BY <2>2 DEF Grammar!IndexScale
  <2> QED
    BY <2>1, <2>2
<1>5. Grammar!IndexRegister(t, p) \in MatchSet
  BY <1>2, <1>3, <1>4 DEF Grammar!IndexRegister
<1> QED
  BY <1>1, <1>5

(* An operand that takes over parts of another, keeping its base register. *)
LEMMA TakenTypes ==
  ASSUME NEW op \in Parts, NEW x \in Parts
  PROVE  /\ Grammar!WithDisplacement(op, x) \in Parts
         /\ Grammar!WithIndex(op, x) \in Parts
         /\ Grammar!WithOuter(op, x) \in Parts
<1>1. /\ x.label \in Grammar!Identifiers \cup {NoLabel}
      /\ x.value \in Long
  BY DEF Parts
<1>2. Grammar!WithDisplacement(op, x) \in Parts
  <2>1. CASE x.label # NoLabel
    <3>1. Grammar!WithDisplacement(op, x) = [op EXCEPT !.label = x.label]
      BY <2>1 DEF Grammar!WithDisplacement, NoLabel
    <3> QED
      BY <1>1, <2>1, <3>1, PartTypes
  <2>2. CASE x.label = NoLabel
    <3>1. Grammar!WithDisplacement(op, x) = [op EXCEPT !.base_displacement = x.value]
      BY <2>2 DEF Grammar!WithDisplacement, NoLabel
    <3> QED
      BY <1>1, <3>1, PartTypes
  <2> QED
    BY <2>1, <2>2
<1>3. Grammar!WithIndex(op, x) \in Parts
  BY DEF Grammar!WithIndex, Parts
<1>4. Grammar!WithOuter(op, x) \in Parts
  BY <1>1, PartTypes DEF Grammar!WithOuter
<1> QED
  BY <1>2, <1>3, <1>4

(* The parts between the parentheses. *)
LEMMA InnerTypes ==
  ASSUME NEW t, NEW m \in MatchSet
  PROVE  /\ \A separator : Grammar!Base(t, m, separator) \in MatchSet
         /\ Grammar!Index(t, m) \in MatchSet
         /\ Grammar!OuterEnd(t, m) \in MatchSet
<1>1. m.at \in Nat /\ m.op \in Parts
  BY NotedTypes
<1>2. ASSUME NEW separator
      PROVE  Grammar!Base(t, m, separator) \in MatchSet
  <2> DEFINE base == Grammar!BaseRegister(t, Grammar!Past(t, m.at, separator))
  <2>1. base \in MatchSet
    BY <1>1, PastType, RegisterTypes
  <2>2. Grammar!Base(t, m, separator)
          = Grammar!Match(base.at, Grammar!WithDisplacement(base.op, m.op))
    BY DEF Grammar!Base, Grammar!Displaced
  <2> HIDE DEF base
  <2> QED
    BY <1>1, <2>1, <2>2, NotedTypes, TakenTypes, MatchType
<1>3. Grammar!Index(t, m) \in MatchSet
  <2> DEFINE idx == Grammar!IndexRegister(t, Grammar!Past(t, m.at, ","))
  <2>1. idx \in MatchSet
    BY <1>1, PastType, RegisterTypes
  <2>2. Grammar!Index(t, m) = Grammar!Match(idx.at, Grammar!WithIndex(m.op, idx.op))
    BY DEF Grammar!Index, Grammar!Indexed
  <2> HIDE DEF idx
  <2> QED
    BY <1>1, <2>1, <2>2, NotedTypes, TakenTypes, MatchType
<1>4. Grammar!OuterEnd(t, m) \in MatchSet
  <2> DEFINE od == Grammar!Choice(Grammar!Displacement(t, Grammar!Past(t, m.at, ",")), Grammar!Nothing(m.at))
             outer == Grammar!Match(od.at, Grammar!WithOuter(m.op, od.op))
  <2>1. od \in MatchSet
    <3>1. Grammar!Displacement(t, Grammar!Past(t, m.at, ",")) \in MatchSet
      BY <1>1, PastType, DisplacementTypes
    <3>2. Grammar!Nothing(m.at) \in MatchSet
      BY <1>1, TokenTypes
    <3> QED
      BY <3>1, <3>2, ChoiceOf
  <2>2. Grammar!OuterEnd(t, m) = Grammar!Then(t, outer, ")")
    BY DEF Grammar!OuterEnd, Grammar!Outer
  <2> HIDE DEF od
  <2>3. outer \in MatchSet
    BY <1>1, <2>1, NotedTypes, TakenTypes, MatchType
  <2> HIDE DEF outer
  <2> QED
    BY <2>2, <2>3, ThenType
<1> QED
  BY <1>2, <1>3, <1>4

(* The indexed addresses that are no indirection have no outer displacement. *)
BaseDispModes == {"ARI_INDEX_BASE_DISP", "PC_INDEX_BASE_DISP"}

LEMMA WithoutOuter ==
  ASSUME NEW t
  PROVE  /\ \A m \in MatchSet : \A separator :
              Grammar!Base(t, m, separator).op.outer_displacement = ZeroLong
         /\ \A m \in MatchSet : m.op.outer_displacement = ZeroLong =>
              /\ Grammar!Index(t, m).op.outer_displacement = ZeroLong
              /\ \A token : Grammar!Then(t, m, token).op.outer_displacement = ZeroLong
<1>1. /\ Grammar!create_operand \in Parts
      /\ Grammar!create_operand.outer_displacement = ZeroLong
  BY NoParts, GrammarLongs DEF Grammar!create_operand
<1>2. ASSUME NEW p \in Nat
      PROVE  /\ Grammar!BaseRegister(t, p) \in MatchSet
             /\ Grammar!BaseRegister(t, p).op.outer_displacement = ZeroLong
  <2>1. Grammar!BaseRegister(t, p) \in MatchSet
    BY RegisterTypes
  <2>2. Grammar!AnRegSpecifier(t, p).op.outer_displacement = ZeroLong
    BY <1>1 DEF Grammar!AnRegSpecifier, Grammar!Match, Grammar!Fail, Parts
  <2>3. \A q : Grammar!Nothing(q).op.outer_displacement = ZeroLong
    BY <1>1 DEF Grammar!Nothing, Grammar!Match
  <2> QED
    BY <2>1, <2>2, <2>3 DEF Grammar!BaseRegister, Grammar!Choice
<1>3. ASSUME NEW m \in MatchSet, NEW separator
      PROVE  Grammar!Base(t, m, separator).op.outer_displacement = ZeroLong
  <2> DEFINE base == Grammar!BaseRegister(t, Grammar!Past(t, m.at, separator))
  <2>1. base \in MatchSet /\ base.op.outer_displacement = ZeroLong
    BY <1>2, NotedTypes, PastType
  <2>2. Grammar!Base(t, m, separator)
          = Grammar!Match(base.at, Grammar!WithDisplacement(base.op, m.op))
    BY DEF Grammar!Base, Grammar!Displaced
  <2> HIDE DEF base
  <2>3. base.op \in Parts
    BY <2>1, NotedTypes
  <2>4. Grammar!WithDisplacement(base.op, m.op).outer_displacement = ZeroLong
    BY <2>1, <2>3 DEF Grammar!WithDisplacement, Parts
  <2> QED
    BY <2>2, <2>4 DEF Grammar!Match
<1>4. ASSUME NEW m \in MatchSet, m.op.outer_displacement = ZeroLong
      PROVE  /\ Grammar!Index(t, m).op.outer_displacement = ZeroLong
             /\ \A token : Grammar!Then(t, m, token).op.outer_displacement = ZeroLong
  <2>1. m.op \in Parts
    BY NotedTypes
  <2>2. \A x : Grammar!WithIndex(m.op, x).outer_displacement = ZeroLong
    BY <1>4, <2>1 DEF Grammar!WithIndex, Parts
  <2>3. Grammar!Index(t, m).op.outer_displacement = ZeroLong
    BY <2>2 DEF Grammar!Index, Grammar!Indexed, Grammar!Match
  <2>4. \A token : Grammar!Then(t, m, token).op.outer_displacement = ZeroLong
    BY <1>1, <1>4 DEF Grammar!Then, Grammar!Fail, Grammar!Match, MatchSet
  <2> QED
    BY <2>3, <2>4
<1> QED
  BY <1>3, <1>4

(* An operand whose mode tells whether it has a register, and is true of it. *)
WellFormed(op) ==
  /\ op \in Parts /\ op.mode \in Modes
  /\ op.mode \in RegisterModes => op.reg_num \in 0 .. 7
  /\ op.mode \in BaseDispModes => op.outer_displacement = ZeroLong

(* A match up to the end of the text has such an operand. *)
Formed(t, m) == m \in MatchSet /\ (m.at \notin {0, Grammar!Inside(t)} => WellFormed(m.op))

(* The three kinds of modes exclude each other and are modes. *)
LEMMA ModesApart ==
  /\ RegisterModes \cap PcModes = {} /\ RegisterModes \cap PlainModes = {}
  /\ RegisterModes \subseteq Modes /\ PcModes \subseteq Modes /\ PlainModes \subseteq Modes
  BY DEF RegisterModes, RegisterMode, PcModes, PlainModes, Modes

(* An operand gets its mode from its kind, ... *)
LEMMA ModeForms ==
  ASSUME NEW t, NEW m \in MatchSet, NEW mode \in Modes,
         m.at # 0 /\ mode \in RegisterModes => m.op.reg_num \in 0 .. 7,
         m.at # 0 /\ mode \in BaseDispModes => m.op.outer_displacement = ZeroLong
  PROVE  LET e == Grammar!Mode(m, mode)
         IN  Formed(t, e) /\ (e.at # 0 => m.at # 0) /\ e.op.mode = mode /\ e.op.reg_num = m.op.reg_num
<1> DEFINE e == Grammar!Mode(m, mode)
<1>1. e \in MatchSet /\ e.at = m.at /\ e.op = [m.op EXCEPT !.mode = mode] /\ m.op \in Parts
  BY NotedTypes
<1>2. /\ e.op.mode = mode /\ e.op.reg_num = m.op.reg_num /\ e.op \in Parts
      /\ e.op.outer_displacement = m.op.outer_displacement
  BY <1>1 DEF Parts, MatchSet
<1> HIDE DEF e
<1>3. Formed(t, e)
  BY <1>1, <1>2 DEF Formed, WellFormed
<1> QED
  BY <1>1, <1>2, <1>3 DEF e

(* ... or from its base. *)
LEMMA BaseForms ==
  ASSUME NEW t, NEW m \in MatchSet, NEW mode \in RegisterModes, NEW pc_mode \in PcModes,
         m.at # 0 /\ (mode \in BaseDispModes \/ pc_mode \in BaseDispModes) =>
           m.op.outer_displacement = ZeroLong
  PROVE  Formed(t, Grammar!BaseMode(m, mode, pc_mode))
<1>1. /\ mode \in Modes /\ pc_mode \in Modes /\ pc_mode \notin RegisterModes
      /\ m.op.reg_num \in RegisterOrNull
  BY ModesApart, NotedTypes DEF Parts
<1>2. CASE m.op.reg_num = -1
  <2>1. Grammar!BaseMode(m, mode, pc_mode) = Grammar!Mode(m, pc_mode)
    BY <1>2 DEF Grammar!BaseMode, Grammar!Null
  <2> QED
    BY <1>1, <2>1, ModeForms
<1>3. CASE m.op.reg_num # -1
  <2>1. Grammar!BaseMode(m, mode, pc_mode) = Grammar!Mode(m, mode)
    BY <1>3 DEF Grammar!BaseMode, Grammar!Null
  <2>2. m.op.reg_num \in 0 .. 7
    BY <1>1, <1>3 DEF RegisterOrNull
  <2> QED
    BY <1>1, <2>1, <2>2, ModeForms
<1> QED
  BY <1>2, <1>3

(* ... and of two alternatives one is taken. *)
LEMMA ChoiceForms ==
  ASSUME NEW t, NEW a, NEW b, Formed(t, a), Formed(t, b)
  PROVE  Formed(t, Grammar!Choice(a, b))
  BY ChoiceOf

-----------------------------------------------------------------------------
(* The forms of an address, and the immediate. *)
LEMMA AbsoluteForms ==
  ASSUME NEW t, NEW p \in Nat
  PROVE  /\ Formed(t, Grammar!Operand_Immediate(t, p))
         /\ Formed(t, Grammar!Operand_Absolute(t, p))
         /\ Grammar!Operand_Absolute(t, p).op.mode \in {"ABSOLUTE_SHORT", "ABSOLUTE_LONG"}
         /\ Grammar!Absolute_Form(t, p).at # 0 => Grammar!Operand_Absolute(t, p).at # 0
<1>1. /\ "IMMEDIATE" \in PlainModes /\ "ABSOLUTE_SHORT" \in PlainModes
      /\ "ABSOLUTE_LONG" \in PlainModes
      /\ \A mode \in PlainModes :
           mode \in Modes /\ mode \notin RegisterModes /\ mode \notin BaseDispModes
  BY ModesApart DEF PlainModes, BaseDispModes
<1>2. Formed(t, Grammar!Operand_Immediate(t, p))
  <2>1. Grammar!AbsoluteValue(t, Grammar!Past(t, p, "#")) \in MatchSet
    BY PastType, DisplacementTypes
  <2> QED
    BY <1>1, <2>1, ModeForms DEF Grammar!Operand_Immediate
<1> DEFINE form == Grammar!Absolute_Form(t, p)
           e == Grammar!Operand_Absolute(t, p)
<1>3. form \in MatchSet
  <2>1. Grammar!AbsoluteValue(t, Grammar!Past(t, p, "(")) \in MatchSet /\ Grammar!AbsoluteValue(t, p) \in MatchSet
    BY PastType, DisplacementTypes
  <2>2. Grammar!Then(t, Grammar!AbsoluteValue(t, Grammar!Past(t, p, "(")), ")") \in MatchSet
    BY <2>1, ThenType
  <2> QED
    BY <2>1, <2>2, ChoiceOf DEF Grammar!Absolute_Form
<1>4. e = Grammar!AbsoluteSize(t, form)
  BY DEF Grammar!Operand_Absolute
<1> HIDE DEF form, e
<1>5. \A mode \in PlainModes : LET f == Grammar!Mode(form, mode)
                               IN  /\ f \in MatchSet /\ f.at = form.at /\ f.op.mode = mode
                                   /\ WellFormed(f.op)
  <2> SUFFICES ASSUME NEW mode \in PlainModes
               PROVE  LET f == Grammar!Mode(form, mode)
                      IN  /\ f \in MatchSet /\ f.at = form.at /\ f.op.mode = mode
                          /\ WellFormed(f.op)
    OBVIOUS
  <2>1. LET f == Grammar!Mode(form, mode)
        IN  f \in MatchSet /\ f.at = form.at /\ f.op.mode = mode /\ f.op \in Parts
    BY <1>1, <1>3, NotedTypes, ModeForms DEF MatchSet
  <2> QED
    BY <1>1, <2>1 DEF WellFormed
<1>6. CASE Grammar!HasSize(t, form.at)
  <2> DEFINE mode == IF t[form.at + 1] = "L" THEN "ABSOLUTE_LONG" ELSE "ABSOLUTE_SHORT"
             f == Grammar!Mode(form, mode)
  <2>1. e = [f EXCEPT !.at = @ + 2]
    BY <1>4, <1>6 DEF Grammar!AbsoluteSize
  <2>2. mode \in PlainModes /\ mode \in {"ABSOLUTE_SHORT", "ABSOLUTE_LONG"}
    BY <1>1
  <2> HIDE DEF mode
  <2>3. f \in MatchSet /\ f.at = form.at /\ f.op.mode = mode /\ WellFormed(f.op) /\ f.at \in Nat
    BY <1>3, <1>5, <2>2, NotedTypes
  <2> HIDE DEF f
  <2>4. e \in MatchSet /\ e.op = f.op /\ (form.at # 0 => e.at # 0)
    BY <2>1, <2>3 DEF MatchSet
  <2> QED
    BY <1>2, <2>2, <2>3, <2>4 DEF Formed, e, form
<1>7. CASE ~Grammar!HasSize(t, form.at)
  <2>1. e = Grammar!Mode(form, "ABSOLUTE_SHORT")
    BY <1>4, <1>7 DEF Grammar!AbsoluteSize
  <2>2. e \in MatchSet /\ e.at = form.at /\ e.op.mode = "ABSOLUTE_SHORT" /\ WellFormed(e.op)
    BY <1>1, <1>5, <2>1
  <2> QED
    BY <1>2, <2>2 DEF Formed, e, form
<1> QED
  BY <1>6, <1>7

(* The registers and the simple addresses through them. *)
LEMMA RegisterForms ==
  ASSUME NEW t, NEW p \in Nat
  PROVE  /\ Grammar!Is(t, p, RegisterLike) => Grammar!Operand_RegisterDirect(t, p).at = Grammar!Inside(t)
         /\ ~Grammar!Is(t, p, RegisterLike) => Formed(t, Grammar!Operand_RegisterDirect(t, p))
         /\ Formed(t, Grammar!Operand_Indirect_Simple(t, p))
<1>1. /\ "DATA_REGISTER_DIRECT" \in Modes /\ "ADDRESS_REGISTER_DIRECT" \in Modes
      /\ "ADDRESS_REGISTER_INDIRECT" \in Modes /\ "ARI_POST_INCREMENT" \in Modes
      /\ "ARI_PRE_DECREMENT" \in Modes
      /\ "ARI_DISPLACEMENT" \in RegisterModes /\ "PC_RELATIVE_DISPLACEMENT" \in PcModes
      /\ \A mode \in BaseDispModes :
           mode \notin {"DATA_REGISTER_DIRECT", "ADDRESS_REGISTER_DIRECT",
                       "ADDRESS_REGISTER_INDIRECT", "ARI_POST_INCREMENT", "ARI_PRE_DECREMENT",
                       "ARI_DISPLACEMENT", "PC_RELATIVE_DISPLACEMENT"}
  BY DEF Modes, RegisterModes, RegisterMode, PcModes, BaseDispModes
<1>2. ~Grammar!Is(t, p, RegisterLike) => Formed(t, Grammar!Operand_RegisterDirect(t, p))
  <2>1. /\ Formed(t, Grammar!Mode(Grammar!DnRegSpecifier(t, p), "DATA_REGISTER_DIRECT"))
        /\ Formed(t, Grammar!Mode(Grammar!AnRegSpecifier(t, p), "ADDRESS_REGISTER_DIRECT"))
    BY <1>1, TokenTypes, ModeForms
  <2> QED
    BY <2>1, ChoiceForms DEF Grammar!Operand_RegisterDirect
<1>3. Grammar!Is(t, p, RegisterLike) => Grammar!Operand_RegisterDirect(t, p).at = Grammar!Inside(t)
  BY DEF Grammar!Operand_RegisterDirect, Grammar!Nothing, Grammar!Match
<1>4. ASSUME NEW q \in Nat
      PROVE  /\ Formed(t, Grammar!ARI_Rule(t, q))
             /\ Grammar!ARI_Rule(t, q).at # 0 => Grammar!ARI_Rule(t, q).op.reg_num \in 0 .. 7
  <2> DEFINE an == Grammar!AnRegSpecifier(t, Grammar!Past(t, q, "("))
             m == Grammar!Then(t, an, ")")
  <2>1. an \in MatchSet /\ (an.at # 0 => an.op.reg_num \in 0 .. 7)
    BY PastType, TokenTypes
  <2> HIDE DEF an
  <2>2. m \in MatchSet /\ (m.at # 0 => m.op.reg_num \in 0 .. 7)
    BY <2>1, ThenType
  <2>3. Grammar!ARI_Rule(t, q) = Grammar!Mode(m, "ADDRESS_REGISTER_INDIRECT")
    BY DEF Grammar!ARI_Rule, an
  <2> HIDE DEF m
  <2> QED
    BY <1>1, <2>2, <2>3, ModeForms
<1>5. Formed(t, Grammar!ARI_PreDecrement_Rule(t, p))
  <2> DEFINE m == Grammar!ARI_Rule(t, Grammar!Past(t, p, "-"))
  <2>1. m \in MatchSet /\ (m.at # 0 => m.op.reg_num \in 0 .. 7)
    BY <1>4, PastType DEF Formed
  <2>2. Grammar!ARI_PreDecrement_Rule(t, p) = Grammar!Mode(m, "ARI_PRE_DECREMENT")
    BY DEF Grammar!ARI_PreDecrement_Rule
  <2> HIDE DEF m
  <2> QED
    BY <1>1, <2>1, <2>2, ModeForms
<1>6. Formed(t, Grammar!ARI_PostIncrement_Rule(t, p))
  <2> DEFINE m == Grammar!Then(t, Grammar!ARI_Rule(t, p), "+")
  <2>1. m \in MatchSet /\ (m.at # 0 => m.op.reg_num \in 0 .. 7)
    BY <1>4, ThenType DEF Formed
  <2>2. Grammar!ARI_PostIncrement_Rule(t, p) = Grammar!Mode(m, "ARI_POST_INCREMENT")
    BY DEF Grammar!ARI_PostIncrement_Rule
  <2> HIDE DEF m
  <2> QED
    BY <1>1, <2>1, <2>2, ModeForms
<1>7. Formed(t, Grammar!Displacement_Rule(t, p))
  <2> DEFINE m == Grammar!Then(t, Grammar!Base(t, Grammar!Displacement(t, p), "("), ")")
  <2>1. m \in MatchSet
    BY DisplacementTypes, InnerTypes, ThenType
  <2>2. Grammar!Displacement_Rule(t, p)
          = Grammar!BaseMode(m, "ARI_DISPLACEMENT", "PC_RELATIVE_DISPLACEMENT")
    BY DEF Grammar!Displacement_Rule
  <2> HIDE DEF m
  <2> QED
    BY <1>1, <2>1, <2>2, BaseForms
<1> QED
  BY <1>2, <1>3, <1>4, <1>5, <1>6, <1>7, ChoiceForms DEF Grammar!Operand_Indirect_Simple

(* The indexed and the indirect addresses. *)
LEMMA ComplexForms ==
  ASSUME NEW t, NEW p \in Nat
  PROVE  Formed(t, Grammar!Operand_Indirect_Complex(t, p))
<1>1. /\ "MEMORY_INDIRECT_POST_INDEXED" \in RegisterModes
      /\ "MEMORY_INDIRECT_PRE_INDEXED" \in RegisterModes
      /\ "ARI_INDEX_BASE_DISP" \in RegisterModes /\ "ARI_INDEX_8_BIT_DISP" \in RegisterModes
      /\ "PC_MEM_INDIRECT_POST_INDEXED" \in PcModes
      /\ "PC_MEM_INDIRECT_PRE_INDEXED" \in PcModes
      /\ "PC_INDEX_BASE_DISP" \in PcModes /\ "PC_RELATIVE_INDEX_8_BIT" \in PcModes
      /\ \A mode \in BaseDispModes :
           mode \notin {"MEMORY_INDIRECT_POST_INDEXED", "MEMORY_INDIRECT_PRE_INDEXED",
                       "PC_MEM_INDIRECT_POST_INDEXED", "PC_MEM_INDIRECT_PRE_INDEXED",
                       "ARI_INDEX_8_BIT_DISP", "PC_RELATIVE_INDEX_8_BIT"}
  BY DEF RegisterModes, RegisterMode, PcModes, BaseDispModes
<1>2. Grammar!Past(t, p, "(") \in Nat
  BY PastType
<1>3. ASSUME NEW q \in Nat
      PROVE  Grammar!InnerBase(t, q) \in MatchSet
  BY PastType, DisplacementTypes, InnerTypes DEF Grammar!InnerBase
<1>4. Formed(t, Grammar!MemIndirect_Post_Rule(t, p))
  <2> DEFINE m == Grammar!OuterEnd(t, Grammar!Index(t, Grammar!Inner_PostIndexed(t, Grammar!Past(t, p, "("))))
  <2>1. m \in MatchSet
    BY <1>2, <1>3, ThenType, InnerTypes DEF Grammar!Inner_PostIndexed
  <2>2. Grammar!MemIndirect_Post_Rule(t, p)
          = Grammar!BaseMode(m, "MEMORY_INDIRECT_POST_INDEXED", "PC_MEM_INDIRECT_POST_INDEXED")
    BY DEF Grammar!MemIndirect_Post_Rule
  <2> HIDE DEF m
  <2> QED
    BY <1>1, <2>1, <2>2, BaseForms
<1>5. Formed(t, Grammar!MemIndirect_Pre_Rule(t, p))
  <2> DEFINE m == Grammar!OuterEnd(t, Grammar!Inner_PreIndexed(t, Grammar!Past(t, p, "(")))
  <2>1. m \in MatchSet
    BY <1>2, <1>3, ThenType, InnerTypes DEF Grammar!Inner_PreIndexed
  <2>2. Grammar!MemIndirect_Pre_Rule(t, p)
          = Grammar!BaseMode(m, "MEMORY_INDIRECT_PRE_INDEXED", "PC_MEM_INDIRECT_PRE_INDEXED")
    BY DEF Grammar!MemIndirect_Pre_Rule
  <2> HIDE DEF m
  <2> QED
    BY <1>1, <2>1, <2>2, BaseForms
<1>6. Formed(t, Grammar!Index_BaseDisp_Rule(t, p))
  <2> DEFINE base == Grammar!Base(t, Grammar!Displacement(t, Grammar!Past(t, p, "(")), ",")
             idx == Grammar!Index(t, base)
             m == Grammar!Then(t, idx, ")")
  <2>3. base \in MatchSet /\ base.op.outer_displacement = ZeroLong
    BY <1>2, DisplacementTypes, InnerTypes, WithoutOuter
  <2> HIDE DEF base
  <2>4. idx \in MatchSet /\ idx.op.outer_displacement = ZeroLong
    BY <2>3, InnerTypes, WithoutOuter
  <2> HIDE DEF idx
  <2>1. m \in MatchSet /\ m.op.outer_displacement = ZeroLong
    BY <2>4, ThenType, WithoutOuter
  <2>2. Grammar!Index_BaseDisp_Rule(t, p)
          = Grammar!BaseMode(m, "ARI_INDEX_BASE_DISP", "PC_INDEX_BASE_DISP")
    BY DEF Grammar!Index_BaseDisp_Rule, base, idx
  <2> HIDE DEF m
  <2> QED
    BY <1>1, <2>1, <2>2, BaseForms
<1>7. Formed(t, Grammar!Index_8BitDisp_Rule(t, p))
  <2> DEFINE m == Grammar!Then(t, Grammar!Index(t,
                    Grammar!Base(t, Grammar!Displacement(t, p), "(")), ")")
  <2>1. m \in MatchSet
    BY DisplacementTypes, InnerTypes, ThenType
  <2>2. Grammar!Index_8BitDisp_Rule(t, p)
          = Grammar!BaseMode(m, "ARI_INDEX_8_BIT_DISP", "PC_RELATIVE_INDEX_8_BIT")
    BY DEF Grammar!Index_8BitDisp_Rule
  <2> HIDE DEF m
  <2> QED
    BY <1>1, <2>1, <2>2, BaseForms
<1> QED
  BY <1>4, <1>5, <1>6, <1>7, ChoiceForms DEF Grammar!Operand_Indirect_Complex

(* Numbers have a least one among them. *)
LEMMA LeastExists ==
  ASSUME NEW I \in SUBSET Nat, I # {}
  PROVE  \E x \in I : \A y \in I : x =< y
<1>1. \E x \in I : \A y \in I : ~(<<y, x>> \in OpToRel(<, Nat))
  BY NatLessThanWellFounded, WFMin
<1>2. \A x, y \in Nat : y < x => <<y, x>> \in OpToRel(<, Nat)
  BY DEF OpToRel
<1>3. \A x, y \in Nat : ~(y < x) => x =< y
  OBVIOUS
<1> QED
  BY <1>1, <1>2, <1>3

(* The first comma, if there is one. *)
LEMMA CommaType ==
  ASSUME NEW S, NEW text \in Seq(S)
  PROVE  /\ Comma(text) \in 0 .. Len(text)
         /\ Comma(text) # 0 => text[Comma(text)] = ","
<1> DEFINE I == { i \in 1 .. Len(text) : text[i] = "," }
<1>1. Comma(text) = IF I # {} THEN Min(I) ELSE 0
  BY DEF Comma, SelectInSeq
<1>2. Len(text) \in Nat
  OBVIOUS
<1>3. \A i \in I : i \in 1 .. Len(text)
  BY Zenon
<1>6. \A i \in I : text[i] = ","
  BY Zenon
<1> HIDE DEF I
<1>7. I \in SUBSET Nat
  <2> DEFINE n == Len(text)
  <2>1. n \in Nat /\ \A i \in I : i \in 1 .. n
    BY <1>2, <1>3
  <2> HIDE DEF n
  <2> QED
    BY <2>1
<1>4. CASE I = {}
  <2>1. Comma(text) = 0
    BY <1>1, <1>4
  <2> QED
    BY <1>2, <2>1
<1>5. CASE I # {}
  <2>1. \E x \in I : \A y \in I : x =< y
    BY <1>7, <1>5, LeastExists
  <2>2. Min(I) \in I
    BY Zenon, <2>1 DEF Min
  <2>3. Comma(text) = Min(I)
    BY <1>1, <1>5
  <2>4. Comma(text) \in 1 .. Len(text)
    BY <1>3, <2>2, <2>3
  <2>5. text[Comma(text)] = ","
    BY Zenon, <1>6, <2>2, <2>3
  <2>6. \A n \in Nat : 1 .. n \subseteq 0 .. n
    OBVIOUS
  <2>7. Comma(text) \in 0 .. Len(text)
    BY Zenon, <1>2, <2>4, <2>6
  <2> QED
    BY Zenon, <2>5, <2>7
<1> QED
  BY <1>4, <1>5

(* The texts of the operands are sequences as well. *)
LEMMA TextTypes ==
  ASSUME NEW S, NEW l, l.operands \in Seq(S)
  PROVE  SourceText(l) \in Seq(S) /\ DestText(l) \in Seq(S)
<1> DEFINE n == Comma(l.operands)
<1>1. n \in 0 .. Len(l.operands) /\ Len(l.operands) \in Nat
  <2> DEFINE text == l.operands
  <2>1. text \in Seq(S)
    OBVIOUS
  <2> HIDE DEF text
  <2>2. Comma(text) \in 0 .. Len(text)
    BY <2>1, CommaType
  <2>3. Len(text) \in Nat
    BY <2>1
  <2> QED
    BY <2>2, <2>3 DEF text
<1> HIDE DEF n
<1>2. n # 0 => /\ SubSeq(l.operands, 1, n - 1) \in Seq(S)
               /\ SubSeq(l.operands, n + 1, Len(l.operands)) \in Seq(S)
  BY <1>1
<1>3. <<>> \in Seq(S)
  OBVIOUS
<1> QED
  BY <1>2, <1>3 DEF SourceText, DestText, Before, After, n

(* What parse_operand returns of a text that the grammar matches. *)
LEMMA ParsedIsWellFormed ==
  ASSUME NEW S, NEW t \in Seq(S), Grammar!parse_operand(t).status = "parsed"
  PROVE  WellFormed(Grammar!parse_operand(t).op)
<1> DEFINE m == Grammar!operand(t, 1)
<1>0. Len(t) \in Nat /\ 1 \in Nat
  OBVIOUS
<1>1. Formed(t, m) \/ m.at = Grammar!Inside(t)
  <2> DEFINE direct == Grammar!Operand_RegisterDirect(t, 1)
             after == Grammar!Choice(Grammar!Operand_Absolute(t, 1),
                        Grammar!Choice(Grammar!Operand_Indirect_Complex(t, 1),
                                       Grammar!Operand_Indirect_Simple(t, 1)))
  <2>1. Formed(t, after) /\ Formed(t, Grammar!Operand_Immediate(t, 1))
    BY <1>0, AbsoluteForms, ComplexForms, RegisterForms, ChoiceForms
  <2>2. Formed(t, direct) \/ direct.at = Grammar!Inside(t)
    BY <1>0, RegisterForms
  <2>3. m = Grammar!Choice(Grammar!Operand_Immediate(t, 1), Grammar!Choice(direct, after))
    BY DEF Grammar!operand
  <2> HIDE DEF direct, after, m
  <2> QED
    BY <2>1, <2>2, <2>3, ChoiceOf DEF Grammar!Choice
<1> HIDE DEF m
<1>2. Grammar!Inside(t) # Len(t) + 1
  BY <1>0 DEF Grammar!Inside
<1>3. /\ t # <<>>
      /\ Grammar!parse_operand(t) = Grammar!Answer(Grammar!EOT(t, m))
  BY DEF Grammar!parse_operand, Grammar!root, m
<1>4. \A e : Grammar!Answer(e).status = "parsed" => e.at # 0 /\ Grammar!Answer(e).op = e.op
  BY DEF Grammar!Answer
<1>5. m.at = Len(t) + 1 /\ Grammar!EOT(t, m) = m
  <2>1. Grammar!EOT(t, m).at # 0
    BY <1>3, <1>4
  <2> QED
    BY <2>1, FailType DEF Grammar!EOT
<1>6. Grammar!parse_operand(t).op = m.op
  BY <1>3, <1>4, <1>5
<1> QED
  BY <1>0, <1>1, <1>2, <1>5, <1>6 DEF Formed

(* Nothing matches at no position. *)
LEMMA NowhereFails ==
  ASSUME NEW t
  PROVE  Grammar!AbsoluteValue(t, 0).at = 0
<1>1. \A S : ~Grammar!Is(t, 0, S)
  BY DEF Grammar!Is
<1>2. Grammar!Fail.at = 0 /\ Grammar!Fail \in MatchSet
  BY FailType
<1>3. Grammar!HexNumber(t, 0).at = 0 /\ Grammar!Identifier(t, 0).at = 0
  BY <1>1, <1>2 DEF Grammar!HexNumber, Grammar!Identifier
<1>4. \A token : Grammar!Past(t, 0, token) = 0
  BY <1>1 DEF Grammar!Past
<1>5. Grammar!PositiveDec(t, 0) = Grammar!Fail
  BY <1>1 DEF Grammar!PositiveDec
<1>6. Grammar!NegativeDec(t, 0).at = 0
  <2>1. Grammar!NegativeDec(t, 0) = Grammar!Negated(Grammar!Fail)
    BY <1>4, <1>5 DEF Grammar!NegativeDec
  <2>2. \A x : [Grammar!Fail EXCEPT !.op = x].at = 0
    BY <1>2 DEF MatchSet
  <2> QED
    BY <2>1, <2>2 DEF Grammar!Negated
<1>7. Grammar!Number(t, 0).at = 0
  BY <1>2, <1>3, <1>5, <1>6, ChoiceOf DEF Grammar!Number
<1> QED
  BY <1>3, <1>7, ChoiceOf DEF Grammar!AbsoluteValue

(* A text that begins with a hexadecimal number can only be an address. *)
LEMMA NumberIsAbsolute ==
  ASSUME NEW S, NEW t \in Seq(S), t # <<>>, t[1] \in DOMAIN Hexadecimal
  PROVE  LET a == Grammar!parse_operand(t)
         IN  /\ a.status \in {"parsed", "syntax error"}
             /\ a.status = "parsed" => a.op.mode \in {"ABSOLUTE_SHORT", "ABSOLUTE_LONG"}
<1> DEFINE m == Grammar!operand(t, 1)
           e == Grammar!Operand_Absolute(t, 1)
<1>0. Len(t) \in Nat /\ 1 \in Nat /\ 1 <= Len(t)
  OBVIOUS
<1>1. /\ t[1] \notin {"#"} /\ t[1] \notin {"("}
      /\ t[1] \notin RegisterLike /\ t[1] \notin DOMAIN AnToken /\ t[1] \notin DOMAIN DnToken
  BY Zenon, LoaderAssumption DEF Grammar!Identifiers
<1>2. Grammar!Past(t, 1, "#") = 0 /\ Grammar!Past(t, 1, "(") = 0
  BY Zenon, <1>1 DEF Grammar!Past, Grammar!Is
<1>3. Grammar!Operand_Immediate(t, 1).at = 0
  <2>1. Grammar!AbsoluteValue(t, 0) \in MatchSet /\ Grammar!AbsoluteValue(t, 0).at = 0
    BY DisplacementTypes, NowhereFails
  <2>2. Grammar!Operand_Immediate(t, 1) = Grammar!Mode(Grammar!AbsoluteValue(t, 0), "IMMEDIATE")
    BY Zenon, <1>2 DEF Grammar!Operand_Immediate
  <2>3. "IMMEDIATE" \in Modes
    BY ModesApart DEF PlainModes
  <2> QED
    BY <2>1, <2>2, <2>3, NotedTypes
<1>4. Grammar!Operand_RegisterDirect(t, 1).at = 0
  <2>1. ~Grammar!Is(t, 1, RegisterLike) /\ ~Grammar!Is(t, 1, DOMAIN AnToken)
        /\ ~Grammar!Is(t, 1, DOMAIN DnToken)
    BY Zenon, <1>1 DEF Grammar!Is
  <2>2. Grammar!DnRegSpecifier(t, 1) = Grammar!Fail /\ Grammar!AnRegSpecifier(t, 1) = Grammar!Fail
    BY Zenon, <2>1 DEF Grammar!DnRegSpecifier, Grammar!AnRegSpecifier
  <2>3. Grammar!Operand_RegisterDirect(t, 1)
          = Grammar!Choice(Grammar!Mode(Grammar!Fail, "DATA_REGISTER_DIRECT"),
                           Grammar!Mode(Grammar!Fail, "ADDRESS_REGISTER_DIRECT"))
    BY Zenon, <2>1, <2>2 DEF Grammar!Operand_RegisterDirect
  <2>4. "DATA_REGISTER_DIRECT" \in Modes /\ "ADDRESS_REGISTER_DIRECT" \in Modes
    BY DEF Modes, RegisterModes, RegisterMode
  <2>5. \A x \in Modes : Grammar!Mode(Grammar!Fail, x).at = 0
    BY FailType, NotedTypes
  <2> QED
    BY <2>3, <2>4, <2>5, ChoiceOf
<1>5. Grammar!Absolute_Form(t, 1).at # 0
  <2>1. Grammar!Then(t, Grammar!AbsoluteValue(t, 0), ")") = Grammar!Fail
    BY Zenon, NowhereFails DEF Grammar!Then, Grammar!Is
  <2>2. Grammar!Absolute_Form(t, 1) = Grammar!Choice(Grammar!Fail, Grammar!AbsoluteValue(t, 1))
    BY Zenon, <1>2, <2>1 DEF Grammar!Absolute_Form
  <2>3. Grammar!HexNumber(t, 1).at = 2
    BY <1>0 DEF Grammar!HexNumber, Grammar!Is, Grammar!Match
  <2>4. Grammar!AbsoluteValue(t, 1).at = 2
    BY <2>3 DEF Grammar!AbsoluteValue, Grammar!Number, Grammar!Choice
  <2> QED
    BY <2>2, <2>4, FailType DEF Grammar!Choice
<1>6. e.at # 0 /\ e.op.mode \in {"ABSOLUTE_SHORT", "ABSOLUTE_LONG"}
  BY <1>0, <1>5, AbsoluteForms
<1>7. m = e
  BY <1>3, <1>4, <1>6 DEF Grammar!operand, Grammar!Choice
<1> HIDE DEF m, e
<1>8. Grammar!parse_operand(t) = Grammar!Answer(Grammar!EOT(t, m))
  BY DEF Grammar!parse_operand, Grammar!root, m
<1>9. \A x : /\ Grammar!Answer(x).status \in {"parsed", "syntax error"}
             /\ Grammar!Answer(x).status = "parsed" => x.at # 0 /\ Grammar!Answer(x).op = x.op
  BY DEF Grammar!Answer
<1>10. Grammar!EOT(t, m).at # 0 => Grammar!EOT(t, m) = m
  BY FailType DEF Grammar!EOT
<1> QED
  BY <1>6, <1>7, <1>8, <1>9, <1>10

(* The source of a line of data begins with its first datum. *)
LEMMA DatumText ==
  ASSUME NEW S, NEW l, l.operands \in Seq(S), l.operands # <<>>,
         l.operands[1] \in DOMAIN Hexadecimal
  PROVE  /\ SourceText(l) \in Seq(S) /\ SourceText(l) # <<>>
         /\ SourceText(l)[1] = l.operands[1]
<1> DEFINE text == l.operands
           n == Comma(text)
<1>1. text \in Seq(S) /\ text # <<>>
  OBVIOUS
<1>2. text[1] # ","
  BY Zenon, LoaderAssumption
<1>3. SourceText(l) = Before(text, n) /\ SourceText(l) \in Seq(S)
  BY TextTypes DEF SourceText
<1> HIDE DEF text
<1>4. n \in 0 .. Len(text) /\ (n # 0 => text[n] = ",")
  BY <1>1, CommaType
<1>5. n # 1
  <2>1. 1 # 0
    OBVIOUS
  <2> QED
    BY Zenon, <1>2, <1>4, <2>1
<1>6. n \in 0 .. Len(text)
  BY <1>4
<1> HIDE DEF n
<1>7. CASE n = 0
  BY <1>1, <1>3, <1>7 DEF Before, text
<1>8. CASE n # 0
  <2>1. n - 1 \in 1 .. Len(text) /\ Len(text) \in Nat
    BY <1>1, <1>5, <1>6, <1>8
  <2>2. Before(text, n) = SubSeq(text, 1, n - 1)
    BY <1>8 DEF Before
  <2>3. Len(SubSeq(text, 1, n - 1)) = n - 1 /\ SubSeq(text, 1, n - 1)[1] = text[1]
    BY <1>1, <2>1
  <2> QED
    BY <1>3, <2>1, <2>2, <2>3 DEF text
<1> QED
  BY <1>7, <1>8

(* The parts of an operand. *)
LEMMA PartsOf ==
  ASSUME NEW op \in Parts
  PROVE  /\ op.value \in Long /\ op.base_displacement \in Long /\ op.outer_displacement \in Long
         /\ op.label \in Grammar!Identifiers \cup {NoLabel}
         /\ op.index_reg_num \in -1 .. 7 /\ op.scale \in 0 .. 3 /\ op.index_is_an \in BOOLEAN
  BY DEF Parts, RegisterOrNull

-----------------------------------------------------------------------------
(* A displacement takes nothing, a word or two. *)
LEMMA DisplacementSizes ==
  ASSUME NEW op
  PROVE  base_disp_size(op) \in {0, 2, 4} /\ outer_disp_size(op) \in {0, 2, 4}
  BY DEF base_disp_size, outer_disp_size, DisplacementSize

(* The size of an operand and of an instruction is a number, whatever the     *)
(* line.                                                                     *)
LEMMA SizeTypes ==
  /\ \A op : get_operand_extension_size(op) \in Nat
  /\ \A op, size : SourceSize(op, size) \in Nat
  /\ \A l : get_instruction_size(l) \in Nat
<1>1. \A op : get_operand_extension_size(op) \in Nat
  <2> SUFFICES ASSUME NEW op PROVE get_operand_extension_size(op) \in Nat
    OBVIOUS
  <2>1. 2 + base_disp_size(op) + outer_disp_size(op) \in Nat
    BY DisplacementSizes
  <2> QED
    BY <2>1 DEF get_operand_extension_size
<1>2. \A op, size : SourceSize(op, size) \in Nat
  BY <1>1 DEF SourceSize
<1> QED
  BY <1>1, <1>2 DEF get_instruction_size

-----------------------------------------------------------------------------
(* The words of the encoding. *)
LEMMA EffectiveAddressType ==
  ASSUME NEW op, WellFormed(op)
  PROVE  encode_ea(op) \in 0 .. 63
<1>1. CASE op.mode \in DOMAIN RegisterMode
  <2>1. RegisterMode[op.mode] \in 0 .. 6 /\ op.reg_num \in 0 .. 7
    BY <1>1 DEF RegisterMode, WellFormed, RegisterModes
  <2>2. \A x \in 0 .. 6, y \in 0 .. 7 : 8 * x + y \in 0 .. 63
    OBVIOUS
  <2> QED
    BY <1>1, <2>1, <2>2 DEF encode_ea
<1>2. CASE op.mode \notin DOMAIN RegisterMode
  <2>1. OtherMode[op.mode] \in 56 .. 60
    BY <1>2 DEF OtherMode, WellFormed, Modes, RegisterModes, PlainModes, PcModes
  <2> QED
    BY <1>2, <2>1 DEF encode_ea
<1> QED
  BY <1>1, <1>2

(* The first word of a MOVE is a word: its fields do not overlap. *)
LEMMA MachineCodeType ==
  ASSUME NEW size, NEW src, NEW dest, WellFormed(src), WellFormed(dest)
  PROVE  machine_code(size, src, dest) \in Word
<1> DEFINE b == SizeBits(size)
           d == encode_ea(dest)
           e == encode_ea(src)
<1>1. e \in 0 .. 63 /\ d \in 0 .. 63 /\ b \in 1 .. 3
  BY EffectiveAddressType DEF SizeBits
<1>2. machine_code(size, src, dest) = 4096 * b + 512 * (d % 8) + 64 * (d \div 8) + e
  BY DEF machine_code
<1> HIDE DEF b, d, e
<1> DEFINE r == d % 8
           q == d \div 8
<1>3. r \in 0 .. 7 /\ q \in 0 .. 7
  BY <1>1
<1> HIDE DEF r, q
<1> DEFINE w == 4096 * b + 512 * r + 64 * q + e
<1>4. w \in Int /\ 0 <= w /\ w < 65536
  BY <1>1, <1>3
<1> HIDE DEF w
<1> QED
  BY <1>2, <1>4, BoundedWord DEF w, r, q

(* The index takes the five high bits of an extension word. *)
LEMMA IndexBitsType ==
  ASSUME NEW op \in Parts
  PROVE  \E h \in 0 .. 31 : IndexBits(op) = 2048 * h
<1> DEFINE a == IF op.index_is_an THEN 1 ELSE 0
           r == op.index_reg_num % 8
           s == IF op.index_size = "L" THEN 1 ELSE 0
<1>1. a \in 0 .. 1 /\ s \in 0 .. 1
  OBVIOUS
<1>2. r \in 0 .. 7
  BY PartsOf
<1>3. IndexBits(op) = 32768 * a + 4096 * r + 2048 * s
  BY DEF IndexBits
<1> HIDE DEF a, r, s
<1>4. 32768 * a + 4096 * r + 2048 * s = 2048 * (16 * a + 2 * r + s)
  BY <1>1, <1>2
<1>5. 16 * a + 2 * r + s \in 0 .. 31
  BY <1>1, <1>2
<1> QED
  BY <1>3, <1>4, <1>5

(* The full format is a word, ... *)
LEMMA FullExtensionType ==
  ASSUME NEW op \in Parts
  PROVE  build_full_format_extension(op) \in Word
<1> DEFINE n == indirection(op)
           b == 1 + base_disp_size(op) \div 2
           s == op.scale
<1>1. PICK h \in 0 .. 31 : IndexBits(op) = 2048 * h
  BY IndexBitsType
<1>2. n \in 0 .. 7
  BY DisplacementSizes DEF indirection
<1>3. b \in 1 .. 3 /\ s \in 0 .. 3
  BY DisplacementSizes, PartsOf
<1>4. build_full_format_extension(op) = 2048 * h + 512 * s + 256 + 16 * b + n
  BY <1>1 DEF build_full_format_extension
<1> HIDE DEF n, b, s
<1> DEFINE w == 2048 * h + 512 * s + 256 + 16 * b + n
<1>5. w \in Int /\ 0 <= w /\ w < 65536
  BY <1>1, <1>2, <1>3
<1> HIDE DEF w
<1> QED
  BY <1>4, <1>5, BoundedWord DEF w

(* ... and so is the brief one with its displacement. *)
LEMMA BriefExtensionType ==
  ASSUME NEW op \in Parts, NEW x \in Long
  PROVE  IndexBits(op) + (x.lo % 256) \in Word
<1> DEFINE r == x.lo % 256
<1>1. PICK h \in 0 .. 31 : IndexBits(op) = 2048 * h
  BY IndexBitsType
<1>2. x.lo \in Int
  BY LongParts
<1>3. r \in Int /\ 0 <= r /\ r < 256
  BY <1>2
<1> HIDE DEF r
<1> DEFINE w == 2048 * h + r
<1>4. w \in Int /\ 0 <= w /\ w < 65536
  BY <1>1, <1>3
<1> HIDE DEF w
<1> QED
  BY <1>1, <1>4, BoundedWord DEF w, r

(* The uint32_t of an address. *)
LEMMA FromNumberType ==
  ASSUME NEW n \in Nat
  PROVE  FromNumber(n) \in Long
<1> DEFINE q == n \div 65536
<1>1. q \in Int /\ n \in Int
  BY SMT
<1> HIDE DEF q
<1>2. q % 65536 \in Word /\ n % 65536 \in Word
  BY <1>1, ModWord
<1> QED
  BY <1>2, LongPair DEF FromNumber, q

(* Read as a number, a long is one. *)
LEMMA AsNumberType ==
  ASSUME NEW x \in Long
  PROVE  AsNumber(x) \in Nat
  BY LongParts DEF AsNumber, Word

(* No operand keeps the mark of a label relative to the program counter: it   *)
(* is made from the operand of its base register, which never had it.        *)
Unmarked == { m \in MatchSet : ~m.op.is_pc_relative_label }

(* A token alone marks nothing, ... *)
LEMMA TokensUnmarked ==
  ASSUME NEW t, NEW p \in Nat
  PROVE  /\ Grammar!Fail \in Unmarked /\ Grammar!Nothing(p) \in Unmarked
         /\ Grammar!Identifier(t, p) \in Unmarked
         /\ Grammar!HexNumber(t, p) \in Unmarked
         /\ Grammar!PositiveDec(t, p) \in Unmarked
         /\ Grammar!AnRegSpecifier(t, p) \in Unmarked
         /\ Grammar!DnRegSpecifier(t, p) \in Unmarked
<1>2. \A q, op : Grammar!Match(q, op).op = op
  BY DEF Grammar!Match
<1>1. ~Grammar!create_operand.is_pc_relative_label
  BY DEF Grammar!create_operand
<1>3. Grammar!Fail \in Unmarked
  BY <1>1, <1>2, FailType DEF Unmarked, Grammar!Fail
<1>4. Grammar!Nothing(p) \in Unmarked
  BY <1>1, TokenTypes DEF Unmarked
<1>5. ~Grammar!Identifier(t, p).op.is_pc_relative_label
  <2> DEFINE op == [Grammar!create_operand EXCEPT !.label = t[p]]
  <2>1. ~op.is_pc_relative_label
    BY DEF Grammar!create_operand
  <2>2. Grammar!Identifier(t, p) \in {Grammar!Match(p + 1, op), Grammar!Fail}
    BY DEF Grammar!Identifier
  <2> HIDE DEF op
  <2> QED
    BY <1>2, <1>3, <2>1, <2>2 DEF Unmarked
<1>6. ~Grammar!HexNumber(t, p).op.is_pc_relative_label
  <2> DEFINE op == [Grammar!create_operand EXCEPT !.value = Hexadecimal[t[p]]]
  <2>1. ~op.is_pc_relative_label
    BY DEF Grammar!create_operand
  <2>2. Grammar!HexNumber(t, p) \in {Grammar!Match(p + 1, op), Grammar!Fail}
    BY DEF Grammar!HexNumber
  <2> HIDE DEF op
  <2> QED
    BY <1>2, <1>3, <2>1, <2>2 DEF Unmarked
<1>7. ~Grammar!PositiveDec(t, p).op.is_pc_relative_label
  <2> DEFINE op == [Grammar!create_operand EXCEPT !.value = Decimal[t[p]]]
  <2>1. ~op.is_pc_relative_label
    BY DEF Grammar!create_operand
  <2>2. Grammar!PositiveDec(t, p) \in {Grammar!Match(p + 1, op), Grammar!Fail}
    BY DEF Grammar!PositiveDec
  <2> HIDE DEF op
  <2> QED
    BY <1>2, <1>3, <2>1, <2>2 DEF Unmarked
<1>8. ~Grammar!AnRegSpecifier(t, p).op.is_pc_relative_label
  <2> DEFINE op == [Grammar!create_operand EXCEPT !.reg_num = AnToken[t[p]]]
  <2>1. ~op.is_pc_relative_label
    BY DEF Grammar!create_operand
  <2>2. Grammar!AnRegSpecifier(t, p) \in {Grammar!Match(p + 1, op), Grammar!Fail}
    BY DEF Grammar!AnRegSpecifier
  <2> HIDE DEF op
  <2> QED
    BY <1>2, <1>3, <2>1, <2>2 DEF Unmarked
<1>9. ~Grammar!DnRegSpecifier(t, p).op.is_pc_relative_label
  <2> DEFINE op == [Grammar!create_operand EXCEPT !.reg_num = DnToken[t[p]]]
  <2>1. ~op.is_pc_relative_label
    BY DEF Grammar!create_operand
  <2>2. Grammar!DnRegSpecifier(t, p) \in {Grammar!Match(p + 1, op), Grammar!Fail}
    BY DEF Grammar!DnRegSpecifier
  <2> HIDE DEF op
  <2> QED
    BY <1>2, <1>3, <2>1, <2>2 DEF Unmarked
<1> QED
  BY <1>3, <1>4, <1>5, <1>6, <1>7, <1>8, <1>9, TokenTypes DEF Unmarked

(* What is made from a match without the mark has none. *)
LEMMA StaysUnmarked ==
  ASSUME NEW t, NEW m \in Unmarked
  PROVE  /\ \A token : Grammar!Then(t, m, token) \in Unmarked
         /\ Grammar!Negated(m) \in Unmarked
         /\ \A x \in Modes : Grammar!Mode(m, x) \in Unmarked
<1>1. m \in MatchSet /\ ~m.op.is_pc_relative_label /\ m.op \in Parts
  BY NotedTypes DEF Unmarked
<1>2. ASSUME NEW token
      PROVE  Grammar!Then(t, m, token) \in Unmarked
  <2>1. Grammar!Then(t, m, token) \in MatchSet
    BY <1>1, ThenType
  <2>2. CASE Grammar!Then(t, m, token) = Grammar!Fail
    BY <2>2, TokensUnmarked
  <2>3. CASE Grammar!Then(t, m, token) = [m EXCEPT !.at = @ + 1]
    BY <1>1, <2>1, <2>3 DEF Unmarked, MatchSet
  <2> QED
    BY <2>2, <2>3 DEF Grammar!Then
<1>3. Grammar!Negated(m) \in Unmarked
  <2> DEFINE op == [m.op EXCEPT !.value = Grammar!SubLong(Grammar!ZeroLong, m.op.value)]
  <2>1. Grammar!Negated(m) = [m EXCEPT !.op = op]
    BY DEF Grammar!Negated
  <2>2. op.is_pc_relative_label = m.op.is_pc_relative_label
    BY <1>1 DEF Parts
  <2> HIDE DEF op
  <2>3. [m EXCEPT !.op = op].op = op
    BY <1>1 DEF MatchSet
  <2> QED
    BY <1>1, <2>1, <2>2, <2>3, NotedTypes DEF Unmarked
<1>4. ASSUME NEW x \in Modes
      PROVE  Grammar!Mode(m, x) \in Unmarked
  <2>1. Grammar!Mode(m, x) \in MatchSet /\ Grammar!Mode(m, x).op = [m.op EXCEPT !.mode = x]
    BY <1>1, NotedTypes
  <2>2. [m.op EXCEPT !.mode = x].is_pc_relative_label = m.op.is_pc_relative_label
    BY <1>1 DEF Parts
  <2> QED
    BY <1>1, <2>1, <2>2 DEF Unmarked
<1> QED
  BY <1>2, <1>3, <1>4

(* The two kinds of a base, and an address, keep it so. *)
LEMMA ModesUnmarked ==
  ASSUME NEW t, NEW m \in Unmarked
  PROVE  /\ \A x \in RegisterModes, y \in PcModes : Grammar!BaseMode(m, x, y) \in Unmarked
         /\ Grammar!AbsoluteSize(t, m) \in Unmarked
<1>1. \A x \in RegisterModes, y \in PcModes : Grammar!BaseMode(m, x, y) \in Unmarked
  BY StaysUnmarked, ModesApart DEF Grammar!BaseMode
<1>2. "ABSOLUTE_LONG" \in Modes /\ "ABSOLUTE_SHORT" \in Modes
  BY ModesApart DEF PlainModes
<1>3. ASSUME NEW x \in Modes
      PROVE  [Grammar!Mode(m, x) EXCEPT !.at = @ + 2] \in Unmarked
  <2>1. Grammar!Mode(m, x) \in Unmarked
    BY StaysUnmarked
  <2> HIDE DEF Unmarked
  <2>2. \A e \in MatchSet : [e EXCEPT !.at = @ + 2] \in MatchSet /\ [e EXCEPT !.at = @ + 2].op = e.op
    BY DEF MatchSet
  <2> QED
    BY <2>1, <2>2 DEF Unmarked
<1>4. Grammar!AbsoluteSize(t, m) \in Unmarked
  BY <1>2, <1>3, StaysUnmarked DEF Grammar!AbsoluteSize
<1> QED
  BY <1>1, <1>4

(* The parts of an operand that become its base do so, too. *)
LEMMA PartsUnmarked ==
  ASSUME NEW op \in Parts, NEW x \in Parts, ~op.is_pc_relative_label
  PROVE  /\ ~Grammar!WithDisplacement(op, x).is_pc_relative_label
         /\ ~Grammar!WithIndex(op, x).is_pc_relative_label
         /\ ~Grammar!WithOuter(op, x).is_pc_relative_label
<1>1. \A v : /\ ~[op EXCEPT !.label = v].is_pc_relative_label
             /\ ~[op EXCEPT !.base_displacement = v].is_pc_relative_label
             /\ ~[op EXCEPT !.outer_displacement = v].is_pc_relative_label
  BY DEF Parts
<1>2. ~Grammar!WithDisplacement(op, x).is_pc_relative_label
  BY <1>1 DEF Grammar!WithDisplacement
<1>3. ~Grammar!WithIndex(op, x).is_pc_relative_label
  BY DEF Grammar!WithIndex, Parts
<1>4. ~Grammar!WithOuter(op, x).is_pc_relative_label
  BY <1>1 DEF Grammar!WithOuter
<1> QED
  BY <1>2, <1>3, <1>4

(* ... nor do a base, an index and what ends an indirection, ... *)
LEMMA InnerUnmarked ==
  ASSUME NEW t
  PROVE  /\ \A m \in MatchSet : \A separator : Grammar!Base(t, m, separator) \in Unmarked
         /\ \A m \in Unmarked : Grammar!Index(t, m) \in Unmarked
         /\ \A m \in Unmarked : Grammar!OuterEnd(t, m) \in Unmarked
<1>1. \A q, op : Grammar!Match(q, op).op = op
  BY DEF Grammar!Match
<1>2. ASSUME NEW m \in MatchSet, NEW separator
      PROVE  Grammar!Base(t, m, separator) \in Unmarked
  <2> DEFINE p == Grammar!Past(t, m.at, separator)
             base == Grammar!BaseRegister(t, p)
  <2>1. p \in Nat /\ Grammar!Past(t, p, "PC") \in Nat
    BY NotedTypes, PastType
  <2> HIDE DEF p
  <2>2. base \in Unmarked
    <3>1. Grammar!AnRegSpecifier(t, p) \in Unmarked /\ Grammar!Nothing(Grammar!Past(t, p, "PC")) \in Unmarked
      BY <2>1, TokensUnmarked
    <3> QED
      BY <3>1, ChoiceOf DEF Grammar!BaseRegister
  <2>3. Grammar!Base(t, m, separator) = Grammar!Match(base.at, Grammar!WithDisplacement(base.op, m.op))
    BY DEF Grammar!Base, Grammar!Displaced, p
  <2>4. Grammar!Base(t, m, separator) \in MatchSet
    BY InnerTypes
  <2> HIDE DEF base
  <2>5. base.op \in Parts /\ m.op \in Parts /\ ~base.op.is_pc_relative_label
    BY <2>2, NotedTypes DEF Unmarked
  <2>6. ~Grammar!WithDisplacement(base.op, m.op).is_pc_relative_label
    BY <2>5, PartsUnmarked
  <2> QED
    BY <1>1, <2>3, <2>4, <2>6 DEF Unmarked
<1>3. ASSUME NEW m \in Unmarked
      PROVE  Grammar!Index(t, m) \in Unmarked
  <2> DEFINE idx == Grammar!IndexRegister(t, Grammar!Past(t, m.at, ","))
  <2>1. m \in MatchSet /\ m.op \in Parts /\ ~m.op.is_pc_relative_label
    BY NotedTypes DEF Unmarked
  <2>2. idx \in MatchSet
    BY <2>1, NotedTypes, PastType, RegisterTypes
  <2>3. Grammar!Index(t, m) = Grammar!Match(idx.at, Grammar!WithIndex(m.op, idx.op))
    BY DEF Grammar!Index, Grammar!Indexed
  <2> HIDE DEF idx
  <2>4. ~Grammar!WithIndex(m.op, idx.op).is_pc_relative_label
    BY <2>1, <2>2, NotedTypes, PartsUnmarked
  <2> QED
    BY <1>1, <2>1, <2>3, <2>4, InnerTypes DEF Unmarked
<1>4. ASSUME NEW m \in Unmarked
      PROVE  Grammar!OuterEnd(t, m) \in Unmarked
  <2> DEFINE od == Grammar!Choice(Grammar!Displacement(t, Grammar!Past(t, m.at, ",")), Grammar!Nothing(m.at))
             outer == Grammar!Match(od.at, Grammar!WithOuter(m.op, od.op))
  <2>1. m \in MatchSet /\ m.op \in Parts /\ m.at \in Nat /\ ~m.op.is_pc_relative_label
    BY NotedTypes DEF Unmarked
  <2>2. od \in MatchSet
    <3>1. Grammar!Displacement(t, Grammar!Past(t, m.at, ",")) \in MatchSet
      BY <2>1, PastType, DisplacementTypes
    <3>2. Grammar!Nothing(m.at) \in MatchSet
      BY <2>1, TokenTypes
    <3> QED
      BY <3>1, <3>2, ChoiceOf
  <2>3. Grammar!OuterEnd(t, m) = Grammar!Then(t, outer, ")")
    BY DEF Grammar!OuterEnd, Grammar!Outer
  <2> HIDE DEF od
  <2>4. outer \in MatchSet
    BY <2>1, <2>2, NotedTypes, TakenTypes, MatchType
  <2>5. ~Grammar!WithOuter(m.op, od.op).is_pc_relative_label
    BY <2>1, <2>2, NotedTypes, PartsUnmarked
  <2>6. outer \in Unmarked
    BY <1>1, <2>4, <2>5 DEF Unmarked
  <2> HIDE DEF outer
  <2> QED
    BY <2>3, <2>6, StaysUnmarked
<1> QED
  BY <1>2, <1>3, <1>4

(* ... so no operand of any form does, ... *)
LEMMA OperandUnmarked ==
  ASSUME NEW S, NEW t \in Seq(S)
  PROVE  Grammar!operand(t, 1) \in Unmarked
<1>0. 1 \in Nat
  OBVIOUS
<1>1. \A x \in {"IMMEDIATE", "DATA_REGISTER_DIRECT", "ADDRESS_REGISTER_DIRECT",
                "ADDRESS_REGISTER_INDIRECT", "ARI_POST_INCREMENT", "ARI_PRE_DECREMENT"} : x \in Modes
  BY DEF Modes, RegisterModes, RegisterMode, PlainModes
<1>2. /\ "ARI_DISPLACEMENT" \in RegisterModes /\ "PC_RELATIVE_DISPLACEMENT" \in PcModes
      /\ "MEMORY_INDIRECT_POST_INDEXED" \in RegisterModes
      /\ "MEMORY_INDIRECT_PRE_INDEXED" \in RegisterModes
      /\ "ARI_INDEX_BASE_DISP" \in RegisterModes /\ "ARI_INDEX_8_BIT_DISP" \in RegisterModes
      /\ "PC_MEM_INDIRECT_POST_INDEXED" \in PcModes
      /\ "PC_MEM_INDIRECT_PRE_INDEXED" \in PcModes
      /\ "PC_INDEX_BASE_DISP" \in PcModes /\ "PC_RELATIVE_INDEX_8_BIT" \in PcModes
  BY DEF RegisterModes, RegisterMode, PcModes
<1>3. ASSUME NEW p \in Nat
      PROVE  Grammar!AbsoluteValue(t, p) \in Unmarked
  <2>1. Grammar!NegativeDec(t, p) \in Unmarked
    BY PastType, TokensUnmarked, StaysUnmarked DEF Grammar!NegativeDec
  <2>2. Grammar!Number(t, p) \in Unmarked
    BY <2>1, TokensUnmarked, ChoiceOf DEF Grammar!Number
  <2> QED
    BY <2>2, TokensUnmarked, ChoiceOf DEF Grammar!AbsoluteValue
<1>4. Grammar!Operand_Immediate(t, 1) \in Unmarked
  BY <1>0, <1>1, <1>3, PastType, StaysUnmarked DEF Grammar!Operand_Immediate
<1>5. Grammar!Operand_Absolute(t, 1) \in Unmarked
  <2>1. Grammar!Then(t, Grammar!AbsoluteValue(t, Grammar!Past(t, 1, "(")), ")") \in Unmarked
    BY <1>0, <1>3, PastType, StaysUnmarked
  <2>2. Grammar!Absolute_Form(t, 1) \in Unmarked
    BY <1>0, <1>3, <2>1, ChoiceOf DEF Grammar!Absolute_Form
  <2> QED
    BY <2>2, ModesUnmarked DEF Grammar!Operand_Absolute
<1>6. Grammar!Operand_RegisterDirect(t, 1) \in Unmarked
  <2>1. Grammar!Nothing(Grammar!Inside(t)) \in Unmarked
    <3>1. Grammar!Inside(t) \in Nat
      <4>1. Len(t) \in Nat
        OBVIOUS
      <4> QED
        BY <4>1 DEF Grammar!Inside
    <3> QED
      BY <3>1, TokensUnmarked
  <2>2. Grammar!DnRegSpecifier(t, 1) \in Unmarked /\ Grammar!AnRegSpecifier(t, 1) \in Unmarked
    BY <1>0, TokensUnmarked
  <2>3. /\ Grammar!Mode(Grammar!DnRegSpecifier(t, 1), "DATA_REGISTER_DIRECT") \in Unmarked
        /\ Grammar!Mode(Grammar!AnRegSpecifier(t, 1), "ADDRESS_REGISTER_DIRECT") \in Unmarked
    BY <1>1, <2>2, StaysUnmarked
  <2> QED
    BY <2>1, <2>3, ChoiceOf DEF Grammar!Operand_RegisterDirect
<1>7. ASSUME NEW q \in Nat
      PROVE  Grammar!ARI_Rule(t, q) \in Unmarked
  BY <1>1, PastType, TokensUnmarked, StaysUnmarked DEF Grammar!ARI_Rule
<1>8. Grammar!Operand_Indirect_Simple(t, 1) \in Unmarked
  <2>1. Grammar!ARI_PreDecrement_Rule(t, 1) \in Unmarked
    BY <1>0, <1>1, <1>7, PastType, StaysUnmarked DEF Grammar!ARI_PreDecrement_Rule
  <2>2. Grammar!ARI_PostIncrement_Rule(t, 1) \in Unmarked
    BY <1>0, <1>1, <1>7, StaysUnmarked DEF Grammar!ARI_PostIncrement_Rule
  <2>3. Grammar!Displacement_Rule(t, 1) \in Unmarked
    BY <1>0, <1>2, DisplacementTypes, InnerUnmarked, StaysUnmarked, ModesUnmarked
    DEF Grammar!Displacement_Rule
  <2> QED
    BY <1>0, <1>7, <2>1, <2>2, <2>3, ChoiceOf DEF Grammar!Operand_Indirect_Simple
<1>9. ASSUME NEW q \in Nat
      PROVE  Grammar!InnerBase(t, q) \in Unmarked
  BY PastType, DisplacementTypes, InnerUnmarked DEF Grammar!InnerBase
<1>10. Grammar!Operand_Indirect_Complex(t, 1) \in Unmarked
  <2>0. Grammar!Past(t, 1, "(") \in Nat
    BY <1>0, PastType
  <2>1. Grammar!MemIndirect_Post_Rule(t, 1) \in Unmarked
    BY <1>2, <1>9, <2>0, InnerUnmarked, StaysUnmarked, ModesUnmarked
    DEF Grammar!MemIndirect_Post_Rule, Grammar!Inner_PostIndexed
  <2>2. Grammar!MemIndirect_Pre_Rule(t, 1) \in Unmarked
    BY <1>2, <1>9, <2>0, InnerUnmarked, StaysUnmarked, ModesUnmarked
    DEF Grammar!MemIndirect_Pre_Rule, Grammar!Inner_PreIndexed
  <2>3. Grammar!Index_BaseDisp_Rule(t, 1) \in Unmarked
    BY <1>2, <2>0, DisplacementTypes, InnerUnmarked, StaysUnmarked, ModesUnmarked
    DEF Grammar!Index_BaseDisp_Rule
  <2>4. Grammar!Index_8BitDisp_Rule(t, 1) \in Unmarked
    BY <1>0, <1>2, DisplacementTypes, InnerUnmarked, StaysUnmarked, ModesUnmarked
    DEF Grammar!Index_8BitDisp_Rule
  <2> QED
    BY <2>1, <2>2, <2>3, <2>4, ChoiceOf DEF Grammar!Operand_Indirect_Complex
<1> QED
  BY <1>4, <1>5, <1>6, <1>8, <1>10, ChoiceOf DEF Grammar!operand

(* ... and none that parse_operand answers with. *)
LEMMA ParsedIsUnmarked ==
  ASSUME NEW S, NEW t \in Seq(S), Grammar!parse_operand(t).status = "parsed"
  PROVE  ~Grammar!parse_operand(t).op.is_pc_relative_label
<1> DEFINE m == Grammar!EOT(t, Grammar!operand(t, 1))
<1>1. Grammar!parse_operand(t) = Grammar!Answer(m)
  BY DEF Grammar!parse_operand, Grammar!root
<1>2. m \in Unmarked
  <2>1. Grammar!Fail \in Unmarked
    <3>1. 1 \in Nat
      OBVIOUS
    <3> QED
      BY <3>1, TokensUnmarked
  <2> QED
    BY <2>1, OperandUnmarked DEF Grammar!EOT
<1> HIDE DEF m
<1>3. \A e : Grammar!Answer(e).status = "parsed" => Grammar!Answer(e).op = e.op
  BY DEF Grammar!Answer
<1> QED
  BY <1>1, <1>2, <1>3 DEF Unmarked

(* A place to write to, and what is written from there on. *)
Ready(out) == out.address \in Nat /\ Sound(out.mem)

Emitted(out, new, k) ==
  new.address = out.address + k /\ Wrote(out.mem, new.mem, out.address, k)

(* What writes nothing moves nothing, ... *)
LEMMA EmitsNothing ==
  ASSUME NEW out, Ready(out)
  PROVE  Emitted(out, out, 0)
  BY DEF Ready, Emitted, Wrote

(* ... a word takes two bytes, ... *)
LEMMA WriteWEmits ==
  ASSUME NEW out, Ready(out), NEW w \in Word, NEW ok \in BOOLEAN
  PROVE  Emitted(out, WriteW(out, w, ok), 2)
<1>1. /\ WriteW(out, w, ok).address = out.address + 2
      /\ WriteW(out, w, ok).mem = mem_write_word(out.mem, out.address, w, ok)
  BY DEF WriteW, Out
<1> QED
  BY <1>1, WriteWordWrote DEF Ready, Emitted

(* ... a long word four, ... *)
LEMMA WriteLEmits ==
  ASSUME NEW out, Ready(out), NEW x \in Long, NEW ok \in BOOLEAN
  PROVE  Emitted(out, WriteL(out, x, ok), 4)
<1>1. /\ WriteL(out, x, ok).address = out.address + 4
      /\ WriteL(out, x, ok).mem = mem_write_long(out.mem, out.address, x, ok)
  BY DEF WriteL, Out
<1> QED
  BY <1>1, WriteLongWrote DEF Ready, Emitted

(* ... and a displacement the size it was noted with. *)
LEMMA WriteDEmits ==
  ASSUME NEW out, Ready(out), NEW size \in {0, 2, 4}, NEW x \in Long, NEW ok \in BOOLEAN
  PROVE  Emitted(out, WriteD(out, size, x, ok), size)
<1>1. x.lo \in Word
  BY DEF Long
<1>2. CASE size = 0
  BY <1>2, EmitsNothing DEF WriteD
<1>3. CASE size = 2
  BY <1>1, <1>3, WriteWEmits DEF WriteD
<1>4. CASE size = 4
  BY <1>4, WriteLEmits DEF WriteD
<1> QED
  BY <1>2, <1>3, <1>4

(* One goes on where the other stopped. *)
LEMMA EmittedOn ==
  ASSUME NEW out, NEW mid, NEW new, NEW j \in Nat, NEW k \in Nat,
         Ready(out), Emitted(out, mid, j)
  PROVE  /\ Ready(mid)
         /\ Emitted(mid, new, k) => Emitted(out, new, j + k)
<1>1. out.address \in Nat /\ mid.address = out.address + j /\ Sound(out.mem)
  BY DEF Ready, Emitted
<1>2. Ready(mid)
  BY <1>1 DEF Ready, Emitted, Wrote
<1>3. ASSUME Emitted(mid, new, k)
      PROVE  Emitted(out, new, j + k)
  <2>1. Wrote(out.mem, new.mem, out.address, j + k)
    BY <1>1, <1>3, WroteOn DEF Emitted
  <2>2. new.address = out.address + (j + k)
    BY <1>1, <1>3 DEF Emitted
  <2> QED
    BY <2>1, <2>2 DEF Emitted
<1> QED
  BY <1>2, <1>3

-----------------------------------------------------------------------------
(* Every name that is looked up is found at an address, or not at all. *)
Looked == \A name \in Names : find_symbol(name) \in Nat \cup {NoSymbol}

(* A label stands for a long word, defined or not. *)
LEMMA ValueType ==
  ASSUME Looked, NEW label \in Grammar!Identifiers
  PROVE  ValueOf(label) \in Long
<1>1. label \in Names
  BY LoaderAssumption
<1>2. find_symbol(label) \in Nat \cup {NoSymbol}
  BY <1>1 DEF Looked
<1> QED
  BY <1>2, FromNumberType, ZeroLongType DEF ValueOf

(* A label becomes a value or a distance; the rest of the operand stays. *)
LEMMA ResolvedType ==
  ASSUME Looked, NEW op, WellFormed(op), ~op.is_pc_relative_label, NEW pc \in Nat,
         NEW new, new = Resolved(op, pc)
  PROVE  /\ new \in Parts /\ new.mode = op.mode /\ new.label = op.label
         /\ ~new.is_pc_relative_label
         /\ op.mode \in FullFormat =>
              base_disp_size(new) = base_disp_size(op) /\ outer_disp_size(new) = outer_disp_size(op)
<1>1. op \in Parts
  BY DEF WellFormed
<1>2. CASE op.label = NoLabel
  BY <1>1, <1>2 DEF Resolved
<1>3. CASE op.label # NoLabel /\ op.mode \in PcRelativeModes
  <2> DEFINE x == SubLong(ValueOf(op.label), FromNumber(pc + 2))
  <2>1. x \in Long
    <3>1. ValueOf(op.label) \in Long
      BY <1>1, <1>3, PartsOf, ValueType
    <3>2. FromNumber(pc + 2) \in Long
      BY FromNumberType
    <3> QED
      BY <3>1, <3>2, SubLongType
  <2>2. new = [op EXCEPT !.base_displacement = x]
    BY <1>3 DEF Resolved
  <2> HIDE DEF x
  <2>3. op.mode \notin FullFormat
    BY <1>3 DEF PcRelativeModes, FullFormat
  <2>4. new \in Parts
    BY <1>1, <2>1, <2>2, PartTypes
  <2>5. new.mode = op.mode /\ new.label = op.label /\ new.is_pc_relative_label = op.is_pc_relative_label
    BY <1>1, <2>2 DEF Parts
  <2> QED
    BY <2>3, <2>4, <2>5
<1>4. CASE op.label # NoLabel /\ op.mode \notin PcRelativeModes
  <2> DEFINE x == ValueOf(op.label)
  <2>1. x \in Long
    BY <1>1, <1>4, PartsOf, ValueType
  <2>2. new = [op EXCEPT !.value = x]
    BY <1>4 DEF Resolved
  <2> HIDE DEF x
  <2>3. new \in Parts
    BY <1>1, <2>1, <2>2, PartTypes
  <2>4. /\ new.mode = op.mode /\ new.label = op.label /\ new.is_pc_relative_label = op.is_pc_relative_label
        /\ new.base_displacement = op.base_displacement
        /\ new.outer_displacement = op.outer_displacement
    BY <1>1, <2>2 DEF Parts
  <2> QED
    BY <2>3, <2>4 DEF base_disp_size, outer_disp_size
<1> QED
  BY <1>2, <1>3, <1>4

-----------------------------------------------------------------------------
(* An extension of the full format is as long as it was sized. *)
LEMMA FullFormatEmits ==
  ASSUME NEW out, Ready(out), NEW op \in Parts, ~op.is_pc_relative_label, NEW ok \in BOOLEAN
  PROVE  Emitted(out, WriteFullFormat(out, op, ok), 2 + base_disp_size(op) + outer_disp_size(op))
<1> DEFINE ext == WriteW(out, build_full_format_extension(op), ok)
           b == base_disp_size(op)
           o == outer_disp_size(op)
           bd == WriteD(ext, b, op.base_displacement, ok)
           new == WriteD(bd, o, op.outer_displacement, ok)
<1>1. op.base_displacement \in Long /\ op.outer_displacement \in Long
  BY PartsOf
<1>2. WriteFullFormat(out, op, ok) = new
  BY DEF WriteFullFormat, BaseDisplacement
<1>3. b \in {0, 2, 4} /\ o \in {0, 2, 4}
  BY DisplacementSizes
<1>4. b \in Nat /\ o \in Nat /\ 2 \in Nat /\ 2 + b \in Nat
  BY <1>3
<1> HIDE DEF b, o
<1>5. Emitted(out, ext, 2)
  BY FullExtensionType, WriteWEmits
<1> HIDE DEF ext
<1>6. Ready(ext)
  BY <1>4, <1>5, EmittedOn
<1>7. Emitted(ext, bd, b)
  BY <1>1, <1>3, <1>6, WriteDEmits
<1> HIDE DEF bd
<1>8. Emitted(out, bd, 2 + b)
  BY <1>4, <1>5, <1>7, EmittedOn
<1>9. Ready(bd)
  BY <1>4, <1>8, EmittedOn
<1>10. Emitted(bd, new, o)
  BY <1>1, <1>3, <1>9, WriteDEmits
<1> HIDE DEF new
<1> QED
  BY <1>2, <1>4, <1>8, <1>10, EmittedOn DEF b, o

(* The size that the second walk over an operand gives its words. *)
WrittenSize(op, size) ==
  IF op.mode = "IMMEDIATE" THEN IF size = "L" \/ op.value.hi # 0 THEN 4 ELSE 2
  ELSE get_operand_extension_size(op)

(* The words of an operand take what the second walk says. *)
LEMMA OperandEmits ==
  ASSUME NEW out, Ready(out), NEW op \in Parts, ~op.is_pc_relative_label, NEW size, NEW ok \in BOOLEAN
  PROVE  Emitted(out, WriteOperand(out, op, size, ok), WrittenSize(op, size))
<1>1. op.value \in Long /\ op.base_displacement \in Long
  BY PartsOf
<1>2. op.value.lo \in Word /\ op.base_displacement.lo \in Word
  BY <1>1 DEF Long
<1>3. CASE op.mode = "IMMEDIATE"
  <2>1. CASE size = "L" \/ op.value.hi # 0
    <3>1. WriteOperand(out, op, size, ok) = WriteL(out, op.value, ok)
      BY <1>3, <2>1 DEF WriteOperand, FullFormat
    <3>2. WrittenSize(op, size) = 4
      BY <1>3, <2>1 DEF WrittenSize
    <3> QED
      BY <1>1, <3>1, <3>2, WriteLEmits
  <2>2. CASE size # "L" /\ op.value.hi = 0
    <3>1. WriteOperand(out, op, size, ok) = WriteW(out, op.value.lo, ok)
      BY <1>3, <2>2 DEF WriteOperand, FullFormat
    <3>2. WrittenSize(op, size) = 2
      BY <1>3, <2>2 DEF WrittenSize
    <3> QED
      BY <1>2, <3>1, <3>2, WriteWEmits
  <2> QED
    BY <2>1, <2>2
<1>4. CASE op.mode = "ABSOLUTE_SHORT"
  BY <1>2, <1>4, WriteWEmits DEF WriteOperand, WrittenSize, get_operand_extension_size, FullFormat
<1>5. CASE op.mode = "ABSOLUTE_LONG"
  BY <1>1, <1>5, WriteLEmits DEF WriteOperand, WrittenSize, get_operand_extension_size, FullFormat
<1>6. CASE op.mode \in {"ARI_DISPLACEMENT", "PC_RELATIVE_DISPLACEMENT"}
  BY <1>2, <1>6, WriteWEmits DEF WriteOperand, WrittenSize, get_operand_extension_size, FullFormat
<1>7. CASE op.mode \in {"ARI_INDEX_8_BIT_DISP", "PC_RELATIVE_INDEX_8_BIT"}
  <2> DEFINE w == IndexBits(op) + (op.base_displacement.lo % 256)
  <2>1. w \in Word
    BY <1>1, BriefExtensionType
  <2>2. WriteOperand(out, op, size, ok) = WriteW(out, w, ok)
    BY <1>7 DEF WriteOperand, FullFormat
  <2>3. WrittenSize(op, size) = 2
    BY <1>7 DEF WrittenSize, get_operand_extension_size, FullFormat
  <2> HIDE DEF w
  <2> QED
    BY <2>1, <2>2, <2>3, WriteWEmits
<1>8. CASE op.mode \in FullFormat
  <2>1. WriteOperand(out, op, size, ok) = WriteFullFormat(out, op, ok)
    BY <1>8 DEF WriteOperand, FullFormat
  <2>2. WrittenSize(op, size) = 2 + base_disp_size(op) + outer_disp_size(op)
    BY <1>8 DEF WrittenSize, get_operand_extension_size, FullFormat
  <2> QED
    BY <2>1, <2>2, FullFormatEmits
<1>9. CASE op.mode \notin FullFormat \cup
             {"IMMEDIATE", "ABSOLUTE_SHORT", "ABSOLUTE_LONG", "ARI_DISPLACEMENT",
              "PC_RELATIVE_DISPLACEMENT", "ARI_INDEX_8_BIT_DISP", "PC_RELATIVE_INDEX_8_BIT"}
  <2>1. WriteOperand(out, op, size, ok) = out
    BY <1>9 DEF WriteOperand
  <2>2. WrittenSize(op, size) = 0
    BY <1>9 DEF WrittenSize, get_operand_extension_size
  <2> QED
    BY <2>1, <2>2, EmitsNothing
<1> QED
  BY <1>3, <1>4, <1>5, <1>6, <1>7, <1>8, <1>9

(* The two walks over an operand agree, but for an immediate that needs more  *)
(* room than the size of its instruction gives it.                           *)
LEMMA SizesAgree ==
  ASSUME Looked, NEW op, WellFormed(op), ~op.is_pc_relative_label, NEW pc \in Nat, NEW size
  PROVE  /\ op.mode # "IMMEDIATE" =>
              WrittenSize(Resolved(op, pc), size) = get_operand_extension_size(op)
         /\ op.mode # "IMMEDIATE" \/ size = "L" \/ Resolved(op, pc).value.hi = 0 =>
              WrittenSize(Resolved(op, pc), size) = SourceSize(op, size)
<1> DEFINE new == Resolved(op, pc)
<1>1. /\ new.mode = op.mode
      /\ op.mode \in FullFormat =>
           base_disp_size(new) = base_disp_size(op) /\ outer_disp_size(new) = outer_disp_size(op)
  BY ResolvedType
<1> HIDE DEF new
<1>2. ASSUME op.mode # "IMMEDIATE"
      PROVE  WrittenSize(new, size) = get_operand_extension_size(op)
  <2>1. WrittenSize(new, size) = get_operand_extension_size(new)
    BY <1>1, <1>2 DEF WrittenSize
  <2>2. CASE op.mode \in FullFormat
    <3>1. new.mode # "IMMEDIATE" /\ op.mode # "IMMEDIATE" /\ new.mode \in FullFormat
          /\ new.mode # "ABSOLUTE_LONG" /\ op.mode # "ABSOLUTE_LONG"
      BY <1>1, <1>2, <2>2 DEF FullFormat
    <3>2. op.mode \notin {"ABSOLUTE_SHORT", "ARI_DISPLACEMENT", "PC_RELATIVE_DISPLACEMENT",
                          "ARI_INDEX_8_BIT_DISP", "PC_RELATIVE_INDEX_8_BIT"}
      BY <2>2 DEF FullFormat
    <3> QED
      BY <1>1, <2>1, <2>2, <3>1, <3>2 DEF get_operand_extension_size
  <2>3. CASE op.mode \notin FullFormat
    BY <1>1, <1>2, <2>1, <2>3 DEF get_operand_extension_size
  <2> QED
    BY <2>2, <2>3
<1>3. ASSUME op.mode # "IMMEDIATE" \/ size = "L" \/ new.value.hi = 0
      PROVE  WrittenSize(new, size) = SourceSize(op, size)
  <2>1. CASE op.mode = "IMMEDIATE"
    BY <1>1, <1>3, <2>1 DEF WrittenSize, SourceSize
  <2>2. CASE op.mode # "IMMEDIATE"
    BY <1>2, <2>2 DEF SourceSize
  <2> QED
    BY <2>1, <2>2
<1> QED
  BY <1>2, <1>3 DEF new

(* The words of an operand, with its label found. *)
LEMMA ExtensionsEmit ==
  ASSUME Looked, NEW out, Ready(out), NEW op, WellFormed(op), ~op.is_pc_relative_label,
         NEW pc \in Nat, NEW size, NEW ok \in BOOLEAN
  PROVE  /\ WrittenSize(Resolved(op, pc), size) \in Nat
         /\ Emitted(out, write_operand_extensions(out, op, size, pc, ok),
                    WrittenSize(Resolved(op, pc), size))
<1>1. Resolved(op, pc) \in Parts /\ ~Resolved(op, pc).is_pc_relative_label
  BY ResolvedType
<1>2. \A x : WrittenSize(x, size) \in Nat
  BY SizeTypes DEF WrittenSize
<1>3. Emitted(out, WriteOperand(out, Resolved(op, pc), size, ok), WrittenSize(Resolved(op, pc), size))
  BY <1>1, OperandEmits
<1> QED
  BY <1>2, <1>3 DEF write_operand_extensions

-----------------------------------------------------------------------------
(* The operands of a MOVE that has both. *)
LEMMA MoveLineOperands ==
  ASSUME NEW S, NEW l, l.operands \in Seq(S), IsMoveLine(l)
  PROVE  /\ WellFormed(SourceOf(l).op) /\ ~SourceOf(l).op.is_pc_relative_label
         /\ WellFormed(DestOf(l).op) /\ ~DestOf(l).op.is_pc_relative_label
<1>1. SourceText(l) \in Seq(S) /\ DestText(l) \in Seq(S)
  BY TextTypes
<1>2. SourceOf(l).status = "parsed" /\ DestOf(l).status = "parsed"
  BY DEF IsMoveLine
<1>3. SourceOf(l) = Grammar!parse_operand(SourceText(l)) /\ DestOf(l) = Grammar!parse_operand(DestText(l))
  BY DEF SourceOf, DestOf
<1> QED
  BY <1>1, <1>2, <1>3, ParsedIsWellFormed, ParsedIsUnmarked

(* A MOVE writes its first word and the words of its operands. *)
LEMMA MoveWrites ==
  ASSUME Looked, NEW S, NEW l, l.operands \in Seq(S), IsMoveLine(l),
         NEW m, Sound(m), NEW address \in Nat, NEW ok \in BOOLEAN,
         NEW j, j = WrittenSize(Resolved(SourceOf(l).op, address), l.size),
         NEW k, k = WrittenSize(Resolved(DestOf(l).op, address), l.size)
  PROVE  j \in Nat /\ k \in Nat /\ Wrote(m, Encoded(m, l, address, ok), address, 2 + j + k)
<1> DEFINE out == Out(address, m)
           src == SourceOf(l).op
           dest == DestOf(l).op
           w == machine_code(l.size, src, dest)
           code == WriteW(out, w, ok)
           source_words == write_operand_extensions(code, src, l.size, address, ok)
           all == write_operand_extensions(source_words, dest, l.size, address, ok)
<1>1. /\ WellFormed(src) /\ ~src.is_pc_relative_label
      /\ WellFormed(dest) /\ ~dest.is_pc_relative_label
  BY MoveLineOperands
<1>2. out.address = address /\ out.mem = m /\ Ready(out)
  BY DEF Out, Ready
<1>3. Encoded(m, l, address, ok) = all.mem
  <2>1. l.base \in {"MOVE", "MOVEA"}
    BY DEF IsMoveLine
  <2>2. Encoded(m, l, address, ok) = EncodedMove(out, l.size, src, dest, ok).mem
    BY <2>1 DEF Encoded
  <2>3. EncodedMove(out, l.size, src, dest, ok)
          = write_operand_extensions(
              write_operand_extensions(WriteW(out, w, ok), src, l.size, out.address, ok),
              dest, l.size, out.address, ok)
    BY DEF EncodedMove
  <2> QED
    BY <1>2, <2>2, <2>3
<1>4. w \in Word
  BY <1>1, MachineCodeType
<1>5. j = WrittenSize(Resolved(src, address), l.size) /\ k = WrittenSize(Resolved(dest, address), l.size)
  OBVIOUS
<1>6. j \in Nat /\ k \in Nat /\ 2 \in Nat /\ 2 + j \in Nat
  <2>1. \A x : WrittenSize(x, l.size) \in Nat
    BY SizeTypes DEF WrittenSize
  <2> QED
    BY <2>1
<1> HIDE DEF out, src, dest, w
<1>7. Emitted(out, code, 2)
  BY <1>2, <1>4, WriteWEmits
<1> HIDE DEF code
<1>8. Ready(code)
  BY <1>2, <1>6, <1>7, EmittedOn
<1>9. Emitted(code, source_words, j)
  BY <1>1, <1>5, <1>8, ExtensionsEmit
<1> HIDE DEF source_words
<1>10. Emitted(out, source_words, 2 + j)
  BY <1>2, <1>6, <1>7, <1>9, EmittedOn
<1>11. Ready(source_words)
  BY <1>2, <1>6, <1>10, EmittedOn
<1>12. Emitted(source_words, all, k)
  BY <1>1, <1>5, <1>11, ExtensionsEmit
<1> HIDE DEF all
<1>13. Emitted(out, all, 2 + j + k)
  BY <1>2, <1>6, <1>10, <1>12, EmittedOn
<1> QED
  BY <1>2, <1>3, <1>6, <1>13 DEF Emitted

(* It fills the room that it was given. *)
LEMMA MoveFillsItsRoom ==
  ASSUME Looked, NEW S, NEW l, l.operands \in Seq(S), IsMoveLine(l),
         NEW m, Sound(m), NEW address \in Nat, NEW ok \in BOOLEAN,
         DestOf(l).op.mode # "IMMEDIATE",
         \/ SourceOf(l).op.mode # "IMMEDIATE" \/ l.size = "L"
         \/ Resolved(SourceOf(l).op, address).value.hi = 0
  PROVE  Wrote(m, Encoded(m, l, address, ok), address, get_instruction_size(l))
<1> DEFINE src == SourceOf(l).op
           dest == DestOf(l).op
           j == SourceSize(src, l.size)
           k == get_operand_extension_size(dest)
<1>1. /\ WellFormed(src) /\ ~src.is_pc_relative_label
      /\ WellFormed(dest) /\ ~dest.is_pc_relative_label
  BY MoveLineOperands
<1>2. get_instruction_size(l) = 2 + j + k
  <2>1. /\ SourceOf(l).status = "parsed" /\ DestOf(l).status = "parsed"
        /\ l.base \in {"MOVE", "MOVEA"}
    BY DEF IsMoveLine
  <2>2. ~FixedSize(l)
    BY <2>1 DEF FixedSize, Branches
  <2> QED
    BY <2>1, <2>2 DEF get_instruction_size
<1>3. j = WrittenSize(Resolved(src, address), l.size)
  BY <1>1, SizesAgree
<1>4. k = WrittenSize(Resolved(dest, address), l.size)
  BY <1>1, SizesAgree
<1> QED
  BY <1>2, <1>3, <1>4, MoveWrites

-----------------------------------------------------------------------------
(* A datum has the room of an address, which is at least as much as it needs. *)
LEMMA DatumHasRoom ==
  ASSUME NEW l, TakenLine(l), l.base = "DC", ~SyntaxError(l)
  PROVE  4 <= get_instruction_size(l)
<1>1. /\ l.operands \in Seq(STRING) /\ l.operands # <<>> /\ l.operands[1] \in DOMAIN Hexadecimal
  BY DEF TakenLine, Line
<1>2. /\ SourceText(l) \in Seq(STRING) /\ SourceText(l) # <<>>
      /\ SourceText(l)[1] \in DOMAIN Hexadecimal
  BY <1>1, DatumText
<1>3. /\ SourceOf(l).status \in {"parsed", "syntax error"}
      /\ SourceOf(l).status = "parsed" => SourceOf(l).op.mode \in {"ABSOLUTE_SHORT", "ABSOLUTE_LONG"}
  BY <1>2, NumberIsAbsolute DEF SourceOf
<1>4. ~FixedSize(l)
  BY DEF FixedSize, Branches
<1>5. SourceOf(l).status = "parsed"
  BY <1>3, <1>4 DEF SyntaxError
<1>6. SourceSize(SourceOf(l).op, l.size) \in {2, 4}
  BY <1>3, <1>5 DEF SourceSize, get_operand_extension_size, FullFormat
<1> DEFINE d == IF DestOf(l).status = "parsed" THEN get_operand_extension_size(DestOf(l).op) ELSE 0
           s == SourceSize(SourceOf(l).op, l.size)
<1>7. d \in Nat
  BY SizeTypes
<1>8. get_instruction_size(l) = 2 + s + d
  BY <1>4, <1>5 DEF get_instruction_size
<1> HIDE DEF d, s
<1> QED
  BY <1>6, <1>7, <1>8 DEF s

(* What the second pass writes for a line, and that it stays in its room. *)
StaysInRoom(l, k) ==
  /\ l.base = "ORG" => k = 0
  /\ l.base # "ORG" => k <= get_instruction_size(l)

(* Every line writes from its address on, and what is not a MOVE stays in   *)
(* the room it was given.  (A MOVE writes all of its operands: MoveWrites.)  *)
LEMMA LineWrites ==
  ASSUME Looked, NEW l, TakenLine(l), l.base # "ORG" => ~SyntaxError(l),
         NEW m, Sound(m), NEW address \in Nat, NEW ok \in BOOLEAN
  PROVE  \E k \in Nat : /\ Wrote(m, Encoded(m, l, address, ok), address, k)
                        /\ ~IsMoveLine(l) => StaysInRoom(l, k)
<1>1. l.operands \in Seq(STRING)
  BY DEF TakenLine, Line
<1>2. get_instruction_size(l) \in Nat
  BY SizeTypes
<1>3. CASE IsMoveLine(l)
  <2>1. PICK j : j = WrittenSize(Resolved(SourceOf(l).op, address), l.size)
    OBVIOUS
  <2>2. PICK k : k = WrittenSize(Resolved(DestOf(l).op, address), l.size)
    OBVIOUS
  <2>3. j \in Nat /\ k \in Nat /\ Wrote(m, Encoded(m, l, address, ok), address, 2 + j + k)
    BY <1>1, <1>3, <2>1, <2>2, MoveWrites
  <2>4. 2 + j + k \in Nat
    BY <2>3
  <2> QED
    BY <1>3, <2>3, <2>4
<1>4. CASE ~IsMoveLine(l) /\ l.base = "DC"
  <2>1. l.operands[1] \in DOMAIN Hexadecimal
    BY <1>4 DEF TakenLine
  <2>2. Datum(l) \in Long
    BY <2>1, LoaderAssumption DEF Datum
  <2> DEFINE x == Datum(l)
  <2>3. x \in Long /\ x.lo \in Word /\ x.lo % 256 \in Byte
    BY <2>2, HalvesOfWord DEF Long
  <2>4. Encoded(m, l, address, ok) = EncodedDatum(m, address, l.size, x, ok)
    BY <1>4 DEF Encoded
  <2> HIDE DEF x
  <2>5. 4 <= get_instruction_size(l)
    BY <1>4, DatumHasRoom
  <2>6. \E k \in {1, 2, 4} : Wrote(m, EncodedDatum(m, address, l.size, x, ok), address, k)
    BY <2>3, WriteByteWrote, WriteWordWrote, WriteLongWrote DEF EncodedDatum
  <2>7. PICK k \in {1, 2, 4} : Wrote(m, Encoded(m, l, address, ok), address, k)
    BY <2>4, <2>6
  <2>8. k \in Nat /\ StaysInRoom(l, k)
    BY <1>2, <1>4, <2>5 DEF StaysInRoom
  <2> QED
    BY <2>7, <2>8
<1>5. CASE l.base \in {"RTS", "NOP"}
  <2>1. \h4E75 \in Word /\ \h4E71 \in Word
    BY BoundedWord
  <2>2. ~IsMoveLine(l) /\ get_instruction_size(l) = 2
    BY <1>5 DEF IsMoveLine, get_instruction_size, FixedSize
  <2>3. \E w \in Word : Encoded(m, l, address, ok) = mem_write_word(m, address, w, ok)
    BY <1>5, <2>1, <2>2 DEF Encoded
  <2>4. Wrote(m, Encoded(m, l, address, ok), address, 2)
    BY <2>3, WriteWordWrote
  <2>5. 2 \in Nat /\ StaysInRoom(l, 2)
    BY <1>5, <2>2 DEF StaysInRoom
  <2> QED
    BY <2>4, <2>5
<1>6. CASE ~IsMoveLine(l) /\ l.base \notin {"DC", "RTS", "NOP"}
  <2>1. Encoded(m, l, address, ok) = m
    BY <1>6 DEF Encoded
  <2>2. Wrote(m, m, address, 0)
    BY DEF Wrote
  <2>3. 0 \in Nat /\ StaysInRoom(l, 0)
    BY <1>2 DEF StaysInRoom
  <2> QED
    BY <2>1, <2>2, <2>3
<1> QED
  BY <1>3, <1>4, <1>5, <1>6 DEF IsMoveLine

-----------------------------------------------------------------------------
(* The bytes of a displacement whose size field is x, and those of an indexed *)
(* operand as its first word tells them to the executor.                     *)
DisplacementBytes(x) == IF x < 2 THEN 0 ELSE 2 * (x - 1)

Announced(w) ==
  IF Bit(w, 8) = 0 THEN 2
  ELSE 2 + DisplacementBytes(Field(w, 4, 2)) + DisplacementBytes(Field(w, 0, 2))

(* The fields of the two extension words. *)
LEMMA ExtensionFields ==
  ASSUME NEW h \in 0 .. 31, NEW s \in 0 .. 3, NEW b \in 0 .. 3, NEW i \in 0 .. 7,
         NEW w, w = 2048 * h + 512 * s + 256 + 16 * b + i
  PROVE  Bit(w, 8) = 1 /\ Field(w, 4, 2) = b /\ Field(w, 0, 2) = i % 4
<1>1. w \in Int
  OBVIOUS
<1>2. w \div 256 = 8 * h + 2 * s + 1 /\ w \div 16 = 128 * h + 32 * s + 16 + b /\ w \div 1 = w
  BY SMT
<1>3. (8 * h + 2 * s + 1) % 2 = 1 /\ (128 * h + 32 * s + 16 + b) % 4 = b
  BY SMT
<1>4. w % 4 = i % 4
  <2> DEFINE z == 512 * h + 128 * s + 64 + 4 * b
  <2>1. z \in Int /\ w = 4 * z + i
    BY <1>1
  <2> HIDE DEF z
  <2>2. (4 * z + i) % 4 = i % 4
    BY SMT, <2>1
  <2> QED
    BY <2>1, <2>2
<1>5. 2^8 = 256 /\ 2^4 = 16 /\ 2^2 = 4 /\ 2^0 = 1
  BY SMT
<1> QED
  BY <1>2, <1>3, <1>4, <1>5 DEF Bit, Field

LEMMA BriefFields ==
  ASSUME NEW h \in 0 .. 31, NEW r \in 0 .. 255, NEW w, w = 2048 * h + r
  PROVE  Bit(w, 8) = 0
<1>1. w \div 256 = 8 * h /\ (8 * h) % 2 = 0
  BY SMT
<1>2. 2^8 = 256
  BY SMT
<1> QED
  BY <1>1, <1>2 DEF Bit

(* The full format announces the displacements that follow it, ... *)
LEMMA FullFormatAnnounces ==
  ASSUME NEW op \in Parts, op.mode \in FullFormat,
         op.mode \in BaseDispModes => outer_disp_size(op) = 0
  PROVE  Announced(build_full_format_extension(op)) = 2 + base_disp_size(op) + outer_disp_size(op)
<1> DEFINE i == indirection(op)
           b == 1 + base_disp_size(op) \div 2
           s == op.scale
           w == build_full_format_extension(op)
           bd == base_disp_size(op)
           od == outer_disp_size(op)
           n == IF od \div 2 = 0 THEN 1 ELSE 1 + od \div 2
<1>1. PICK h \in 0 .. 31 : IndexBits(op) = 2048 * h
  BY IndexBitsType
<1>2. bd \in {0, 2, 4} /\ od \in {0, 2, 4}
  BY DisplacementSizes
<1>3. i \in {n, 4 + n} \/ (od = 0 /\ i = 0)
  BY DEF indirection, FullFormat, BaseDispModes
<1>4. w = 2048 * h + 512 * s + 256 + 16 * b + i
  BY <1>1 DEF build_full_format_extension
<1>5. s \in 0 .. 3
  BY PartsOf
<1> HIDE DEF i, s, w, bd, od
<1>6. n \in 1 .. 3 /\ DisplacementBytes(n) = od
  BY <1>2 DEF DisplacementBytes
<1>7. b \in 1 .. 3 /\ DisplacementBytes(b) = bd
  BY <1>2 DEF DisplacementBytes, bd
<1> HIDE DEF n, b
<1>8. i \in 0 .. 7
  BY <1>3, <1>6
<1>9. DisplacementBytes(i % 4) = od
  <2>1. CASE od = 0 /\ i = 0
    <3>1. i % 4 = 0
      BY <2>1
    <3> QED
      BY <2>1, <3>1 DEF DisplacementBytes
  <2>2. CASE i \in {n, 4 + n}
    <3>1. i % 4 = n
      BY <1>6, <2>2
    <3> QED
      BY <1>6, <3>1
  <2> QED
    BY <1>3, <2>1, <2>2
<1>10. Bit(w, 8) = 1 /\ Field(w, 4, 2) = b /\ Field(w, 0, 2) = i % 4
  <2>1. b \in 0 .. 3
    BY <1>7
  <2> QED
    BY <1>4, <1>5, <1>8, <2>1, ExtensionFields
<1>11. Announced(w) = 2 + bd + od
  BY <1>7, <1>9, <1>10 DEF Announced
<1> QED
  BY <1>11 DEF w, bd, od

(* ... and the brief one none. *)
LEMMA BriefFormatAnnounces ==
  ASSUME NEW op \in Parts, NEW x \in Long
  PROVE  Announced(IndexBits(op) + (x.lo % 256)) = 2
<1> DEFINE r == x.lo % 256
           w == IndexBits(op) + r
<1>1. PICK h \in 0 .. 31 : IndexBits(op) = 2048 * h
  BY IndexBitsType
<1>2. x.lo \in Int
  BY LongParts
<1>3. r \in 0 .. 255
  BY <1>2
<1> HIDE DEF r
<1>4. w = 2048 * h + r
  BY <1>1
<1>5. Bit(w, 8) = 0
  BY <1>3, <1>4, BriefFields
<1> QED
  BY <1>5 DEF Announced, w, r

(* The first word of an indexed operand, as the log has it. *)
IndexedModes == FullFormat \cup {"ARI_INDEX_8_BIT_DISP", "PC_RELATIVE_INDEX_8_BIT"}

NotedFormat(m, a, bytes) == \E w \in Word : NotedWord(m, a, w) /\ Announced(w) = bytes

(* What is noted stays noted while code is written. *)
LEMMA WroteKeeps ==
  ASSUME NEW m, NEW n, NEW a, NEW k, Sound(m), Wrote(m, n, a, k), ~n.lost
  PROVE  /\ ~m.lost
         /\ \A b, w : NotedWord(m, b, w) => NotedWord(n, b, w)
         /\ \A b, bytes : NotedFormat(m, b, bytes) => NotedFormat(n, b, bytes)
<1>1. CASE k = 0
  <2>1. n = m
    BY <1>1 DEF Wrote
  <2> QED
    BY <2>1
<1>2. CASE k # 0
  <2>1. MemInv(m) /\ MemInv(n) /\ Appended(m, n)
    BY <1>2 DEF Wrote, Sound
  <2>2. ~m.lost /\ \A b, w : NotedWord(m, b, w) => NotedWord(n, b, w)
    BY <2>1, NotedKept
  <2> QED
    BY <2>2 DEF NotedFormat
<1> QED
  BY <1>1, <1>2

(* A word that goes out is noted, ... *)
LEMMA WriteWNotes ==
  ASSUME NEW out, Ready(out), NEW w \in Word, NEW ok \in BOOLEAN,
         NEW new, new = WriteW(out, w, ok), ~new.mem.lost
  PROVE  NotedWord(new.mem, out.address, w)
<1>1. new.mem = mem_write_word(out.mem, out.address, w, ok)
  BY DEF WriteW, Out
<1>2. Sound(out.mem) /\ out.address \in Nat
  BY DEF Ready
<1>3. PICK n : n = new.mem
  OBVIOUS
<1> QED
  BY <1>1, <1>2, <1>3, WordNoted

(* ... and so is the format of an indexed operand. *)
LEMMA OperandNotes ==
  ASSUME NEW out, Ready(out), NEW op \in Parts, ~op.is_pc_relative_label, NEW size, NEW ok \in BOOLEAN,
         op.mode \in IndexedModes, op.mode \in BaseDispModes => outer_disp_size(op) = 0,
         NEW new, new = WriteOperand(out, op, size, ok), ~new.mem.lost
  PROVE  NotedFormat(new.mem, out.address, get_operand_extension_size(op))
<1>1. op.value \in Long /\ op.base_displacement \in Long /\ op.outer_displacement \in Long
  BY PartsOf
<1>2. CASE op.mode \in {"ARI_INDEX_8_BIT_DISP", "PC_RELATIVE_INDEX_8_BIT"}
  <2> DEFINE w == IndexBits(op) + (op.base_displacement.lo % 256)
  <2>1. w \in Word /\ Announced(w) = 2
    BY <1>1, BriefExtensionType, BriefFormatAnnounces
  <2>2. WriteOperand(out, op, size, ok) = WriteW(out, w, ok)
    BY <1>2 DEF WriteOperand, FullFormat
  <2>3. get_operand_extension_size(op) = 2
    BY <1>2 DEF get_operand_extension_size, FullFormat
  <2> HIDE DEF w
  <2>4. NotedWord(new.mem, out.address, w)
    BY <2>1, <2>2, WriteWNotes
  <2> QED
    BY <2>1, <2>3, <2>4 DEF NotedFormat
<1>3. CASE op.mode \in FullFormat
  <2> DEFINE w == build_full_format_extension(op)
             ext == WriteW(out, w, ok)
             b == base_disp_size(op)
             o == outer_disp_size(op)
             bd == WriteD(ext, b, op.base_displacement, ok)
  <2>1. WriteOperand(out, op, size, ok) = WriteFullFormat(out, op, ok)
    BY <1>3 DEF WriteOperand, FullFormat
  <2>2. get_operand_extension_size(op) = 2 + b + o
    BY <1>3 DEF get_operand_extension_size, FullFormat
  <2>3. new = WriteD(bd, o, op.outer_displacement, ok)
    BY <2>1 DEF WriteFullFormat, BaseDisplacement
  <2>4. w \in Word /\ Announced(w) = 2 + b + o
    BY <1>3, FullExtensionType, FullFormatAnnounces
  <2>5. b \in {0, 2, 4} /\ o \in {0, 2, 4} /\ b \in Nat /\ o \in Nat /\ 2 \in Nat
    <3>1. b \in {0, 2, 4} /\ o \in {0, 2, 4}
      BY DisplacementSizes
    <3> HIDE DEF b, o
    <3> QED
      BY <3>1
  <2> HIDE DEF w, b, o
  <2>6. Emitted(out, ext, 2)
    BY <2>4, WriteWEmits
  <2>7. ~ext.mem.lost => NotedWord(ext.mem, out.address, w)
    BY <2>4, WriteWNotes
  <2> HIDE DEF ext
  <2>8. Ready(ext)
    BY <2>5, <2>6, EmittedOn
  <2>9. Emitted(ext, bd, b)
    BY <1>1, <2>5, <2>8, WriteDEmits
  <2> HIDE DEF bd
  <2>10. Ready(bd)
    BY <2>5, <2>8, <2>9, EmittedOn
  <2>11. Emitted(bd, new, o)
    BY <1>1, <2>3, <2>5, <2>10, WriteDEmits
  <2>12. Wrote(ext.mem, bd.mem, ext.address, b) /\ Wrote(bd.mem, new.mem, bd.address, o)
         /\ Sound(ext.mem) /\ Sound(bd.mem)
    BY <2>8, <2>9, <2>10, <2>11 DEF Emitted, Ready
  <2>13. ~bd.mem.lost
         /\ (NotedWord(bd.mem, out.address, w) => NotedWord(new.mem, out.address, w))
    BY <2>12, WroteKeeps
  <2>14. ~ext.mem.lost
         /\ (NotedWord(ext.mem, out.address, w) => NotedWord(bd.mem, out.address, w))
    BY <2>12, <2>13, WroteKeeps
  <2>15. NotedWord(new.mem, out.address, w)
    BY <2>7, <2>13, <2>14
  <2> QED
    BY <2>2, <2>4, <2>15 DEF NotedFormat
<1> QED
  BY <1>2, <1>3 DEF IndexedModes

(* The words of an operand with its label found note its format. *)
LEMMA ExtensionsNote ==
  ASSUME Looked, NEW out, Ready(out), NEW op, WellFormed(op), ~op.is_pc_relative_label,
         NEW pc \in Nat, NEW size, NEW ok \in BOOLEAN, op.mode \in IndexedModes,
         NEW new, new = write_operand_extensions(out, op, size, pc, ok), ~new.mem.lost
  PROVE  NotedFormat(new.mem, out.address, get_operand_extension_size(op))
<1> DEFINE r == Resolved(op, pc)
<1>1. /\ r \in Parts /\ r.mode = op.mode /\ ~r.is_pc_relative_label
      /\ op.mode \in FullFormat =>
           base_disp_size(r) = base_disp_size(op) /\ outer_disp_size(r) = outer_disp_size(op)
  BY ResolvedType
<1>2. op.mode # "IMMEDIATE"
  BY DEF IndexedModes, FullFormat
<1>3. WrittenSize(r, size) = get_operand_extension_size(op)
  BY <1>2, SizesAgree
<1>4. new = WriteOperand(out, r, size, ok)
  BY DEF write_operand_extensions
<1> HIDE DEF r
<1>5. get_operand_extension_size(r) = get_operand_extension_size(op)
  BY <1>1, <1>2, <1>3 DEF WrittenSize
<1>6. r.mode \in BaseDispModes => outer_disp_size(r) = 0
  <2>1. SUFFICES ASSUME op.mode \in BaseDispModes PROVE outer_disp_size(r) = 0
    BY <1>1
  <2>2. op.outer_displacement = ZeroLong /\ op.mode \in FullFormat
    BY <2>1 DEF WellFormed, BaseDispModes, FullFormat
  <2>3. outer_disp_size(op) = 0
    BY <2>2 DEF outer_disp_size, DisplacementSize, SignExtendWord, ZeroLong, FromWord
  <2> QED
    BY <1>1, <2>2, <2>3
<1> QED
  BY <1>1, <1>4, <1>5, <1>6, OperandNotes

(* The log has the value x in the words at address a of a source that is one. *)
NotedValue(m, op, size, a, x) ==
  /\ op.mode = "ABSOLUTE_LONG" \/ (op.mode = "IMMEDIATE" /\ size = "L") =>
       NotedWord(m, a, x.hi) /\ NotedWord(m, a + 2, x.lo)
  /\ op.mode = "ABSOLUTE_SHORT" \/ (op.mode = "IMMEDIATE" /\ size # "L") =>
       NotedWord(m, a, x.lo)

(* A source whose words have the room that the size of the line gives them. *)
FitsItsRoom(op, size, address) ==
  op.mode # "IMMEDIATE" \/ size = "L" \/ Resolved(op, address).value.hi = 0

(* The words of a source that is a value note it. *)
LEMMA ValueNotes ==
  ASSUME Looked, NEW out, Ready(out), NEW op, WellFormed(op), ~op.is_pc_relative_label,
         NEW pc \in Nat, NEW size, FitsItsRoom(op, size, pc), NEW ok \in BOOLEAN,
         NEW new, new = write_operand_extensions(out, op, size, pc, ok), ~new.mem.lost
  PROVE  NotedValue(new.mem, op, size, out.address, Resolved(op, pc).value)
<1> DEFINE r == Resolved(op, pc)
           x == r.value
<1>1. r.mode = op.mode /\ x \in Long
  BY ResolvedType, PartsOf
<1>2. x.hi \in Word /\ x.lo \in Word
  BY <1>1 DEF Long
<1>3. new = WriteOperand(out, r, size, ok)
  BY DEF write_operand_extensions
<1>4. op.mode = "IMMEDIATE" /\ size # "L" => x.hi = 0
  BY DEF FitsItsRoom
<1> HIDE DEF r
<1>5. Sound(out.mem) /\ out.address \in Nat
  BY DEF Ready
<1>6. ASSUME op.mode = "ABSOLUTE_LONG" \/ (op.mode = "IMMEDIATE" /\ size = "L")
      PROVE  NotedWord(new.mem, out.address, x.hi) /\ NotedWord(new.mem, out.address + 2, x.lo)
  <2>1. new = WriteL(out, x, ok)
    BY <1>1, <1>3, <1>6 DEF WriteOperand, FullFormat
  <2>2. new.mem = mem_write_long(out.mem, out.address, x, ok)
    BY <2>1 DEF WriteL, Out
  <2>3. PICK n : n = new.mem
    OBVIOUS
  <2>4. NotedWord(n, out.address, x.hi) /\ NotedWord(n, out.address + 2, x.lo)
    BY <1>1, <1>5, <2>2, <2>3, LongNoted
  <2> QED
    BY <2>3, <2>4
<1>7. ASSUME op.mode = "ABSOLUTE_SHORT" \/ (op.mode = "IMMEDIATE" /\ size # "L")
      PROVE  NotedWord(new.mem, out.address, x.lo)
  <2>1. new = WriteW(out, x.lo, ok)
    BY <1>1, <1>3, <1>4, <1>7 DEF WriteOperand, FullFormat
  <2> QED
    BY <1>2, <2>1, WriteWNotes
<1> QED
  BY <1>6, <1>7 DEF NotedValue, r

(* What the log has of a line at address a: its first word, and the formats of *)
(* the operands of a MOVE.                                                   *)
NotedLine(m, l, a) ==
  /\ IsMoveLine(l) =>
       /\ NotedWord(m, a, machine_code(l.size, SourceOf(l).op, DestOf(l).op))
       /\ SourceOf(l).op.mode \in IndexedModes =>
            NotedFormat(m, a + 2, get_operand_extension_size(SourceOf(l).op))
       /\ DestOf(l).op.mode \in IndexedModes =>
            NotedFormat(m, a + 2 + SourceSize(SourceOf(l).op, l.size),
                        get_operand_extension_size(DestOf(l).op))
  /\ l.base = "RTS" => NotedWord(m, a, \h4E75)
  /\ l.base = "NOP" => NotedWord(m, a, \h4E71)

(* It stays there while code is written. *)
LEMMA NotedLineKept ==
  ASSUME NEW m, NEW n, NEW a, NEW k, Sound(m), Wrote(m, n, a, k), ~n.lost,
         NEW l, NEW b
  PROVE  /\ NotedLine(m, l, b) => NotedLine(n, l, b)
         /\ \A op, size, x : NotedValue(m, op, size, b, x) => NotedValue(n, op, size, b, x)
<1>1. /\ \A c, w : NotedWord(m, c, w) => NotedWord(n, c, w)
      /\ \A c, bytes : NotedFormat(m, c, bytes) => NotedFormat(n, c, bytes)
  BY WroteKeeps
<1> QED
  BY <1>1 DEF NotedLine, NotedValue

(* A line that is written is noted, and so is the value of a source. *)
LEMMA LineNotes ==
  ASSUME Looked, NEW l, TakenLine(l), NEW m, Sound(m), NEW address \in Nat, NEW ok \in BOOLEAN,
         IsMoveLine(l) => FitsItsRoom(SourceOf(l).op, l.size, address),
         NEW n, n = Encoded(m, l, address, ok), ~n.lost
  PROVE  /\ NotedLine(n, l, address)
         /\ IsMoveLine(l) =>
              LET op == SourceOf(l).op
              IN  NotedValue(n, op, l.size, address + 2, Resolved(op, address).value)
<1>1. CASE IsMoveLine(l)
  <2> DEFINE out == Out(address, m)
             src == SourceOf(l).op
             dest == DestOf(l).op
             w == machine_code(l.size, src, dest)
             code == WriteW(out, w, ok)
             source_words == write_operand_extensions(code, src, l.size, address, ok)
             all == write_operand_extensions(source_words, dest, l.size, address, ok)
             j == SourceSize(src, l.size)
             jw == WrittenSize(Resolved(src, address), l.size)
             k == WrittenSize(Resolved(dest, address), l.size)
  <2>1. /\ WellFormed(src) /\ ~src.is_pc_relative_label
        /\ WellFormed(dest) /\ ~dest.is_pc_relative_label
    <3>1. l.operands \in Seq(STRING)
      BY DEF TakenLine, Line
    <3> QED
      BY <1>1, <3>1, MoveLineOperands
  <2>2. out.address = address /\ out.mem = m /\ Ready(out)
    BY DEF Out, Ready
  <2>3. n = all.mem
    <3>1. l.base \in {"MOVE", "MOVEA"}
      BY <1>1 DEF IsMoveLine
    <3>2. Encoded(m, l, address, ok) = EncodedMove(out, l.size, src, dest, ok).mem
      BY <1>1, <3>1 DEF Encoded
    <3>3. EncodedMove(out, l.size, src, dest, ok)
            = write_operand_extensions(
                write_operand_extensions(WriteW(out, w, ok), src, l.size, out.address, ok),
                dest, l.size, out.address, ok)
      BY DEF EncodedMove
    <3> QED
      BY <2>2, <3>2, <3>3
  <2>4. w \in Word
    BY <2>1, MachineCodeType
  <2>5. jw = j
    BY <1>1, <2>1, SizesAgree DEF FitsItsRoom
  <2>6. jw \in Nat /\ k \in Nat /\ 2 \in Nat /\ 2 + jw \in Nat
    <3>1. \A x : WrittenSize(x, l.size) \in Nat
      BY SizeTypes DEF WrittenSize
    <3> QED
      BY <3>1
  <2>7. Emitted(out, code, 2)
    BY <2>2, <2>4, WriteWEmits
  <2>8. ~code.mem.lost => NotedWord(code.mem, address, w)
    BY <2>2, <2>4, WriteWNotes
  <2>9. code.address = address + 2 /\ Ready(code)
    <3>1. Ready(code)
      BY <2>2, <2>6, <2>7, EmittedOn
    <3> QED
      BY <2>2, <2>7, <3>1 DEF Emitted
  <2> HIDE DEF code, out, w
  <2>10. Emitted(code, source_words, jw)
    BY <2>1, <2>9, ExtensionsEmit
  <2>11. src.mode \in IndexedModes /\ ~source_words.mem.lost =>
           NotedFormat(source_words.mem, address + 2, get_operand_extension_size(src))
    <3>1. SUFFICES ASSUME src.mode \in IndexedModes, ~source_words.mem.lost
                   PROVE  NotedFormat(source_words.mem, code.address, get_operand_extension_size(src))
      BY <2>9
    <3>2. PICK new : new = source_words
      OBVIOUS
    <3>3. NotedFormat(new.mem, code.address, get_operand_extension_size(src))
      BY <2>1, <2>9, <3>1, <3>2, ExtensionsNote
    <3> QED
      BY <3>2, <3>3
  <2>12. ~source_words.mem.lost =>
           NotedValue(source_words.mem, src, l.size, address + 2, Resolved(src, address).value)
    <3>1. SUFFICES ASSUME ~source_words.mem.lost
                   PROVE  NotedValue(source_words.mem, src, l.size, code.address,
                                     Resolved(src, address).value)
      BY <2>9
    <3>2. PICK new : new = source_words
      OBVIOUS
    <3>3. FitsItsRoom(src, l.size, address)
      BY <1>1
    <3>4. NotedValue(new.mem, src, l.size, code.address, Resolved(src, address).value)
      BY <2>1, <2>9, <3>1, <3>2, <3>3, ValueNotes
    <3> QED
      BY <3>2, <3>4
  <2>13. Ready(source_words) /\ source_words.address = address + 2 + j
    <3>1. Ready(source_words)
      BY <2>6, <2>9, <2>10, EmittedOn
    <3> QED
      BY <2>5, <2>9, <2>10, <3>1 DEF Emitted
  <2> HIDE DEF source_words, j, jw, k
  <2>14. Emitted(source_words, all, k)
    BY <2>1, <2>13, ExtensionsEmit DEF k
  <2>15. dest.mode \in IndexedModes =>
           NotedFormat(all.mem, address + 2 + j, get_operand_extension_size(dest))
    <3>1. SUFFICES ASSUME dest.mode \in IndexedModes
                   PROVE  NotedFormat(all.mem, source_words.address, get_operand_extension_size(dest))
      BY <2>13
    <3>2. PICK new : new = all
      OBVIOUS
    <3>3. ~new.mem.lost
      BY <2>3, <3>2
    <3>4. NotedFormat(new.mem, source_words.address, get_operand_extension_size(dest))
      BY <2>1, <2>13, <3>1, <3>2, <3>3, ExtensionsNote
    <3> QED
      BY <3>2, <3>4
  <2> HIDE DEF all, src, dest
  <2>16. Wrote(source_words.mem, n, source_words.address, k) /\ Sound(source_words.mem)
         /\ Wrote(code.mem, source_words.mem, code.address, jw) /\ Sound(code.mem)
    BY <2>3, <2>9, <2>10, <2>13, <2>14 DEF Emitted, Ready
  <2>17. /\ ~source_words.mem.lost
         /\ \A b, x : NotedWord(source_words.mem, b, x) => NotedWord(n, b, x)
         /\ \A b, x : NotedFormat(source_words.mem, b, x) => NotedFormat(n, b, x)
    BY <2>16, WroteKeeps
  <2>18. /\ ~code.mem.lost
         /\ \A b, x : NotedWord(code.mem, b, x) => NotedWord(source_words.mem, b, x)
    BY <2>16, <2>17, WroteKeeps
  <2>19. NotedWord(n, address, w)
    BY <2>8, <2>17, <2>18
  <2>20. src.mode \in IndexedModes => NotedFormat(n, address + 2, get_operand_extension_size(src))
    BY <2>11, <2>17
  <2>21. dest.mode \in IndexedModes => NotedFormat(n, address + 2 + j, get_operand_extension_size(dest))
    BY <2>3, <2>15
  <2>22. NotedValue(n, src, l.size, address + 2, Resolved(src, address).value)
    <3>1. NotedValue(source_words.mem, src, l.size, address + 2, Resolved(src, address).value)
      BY <2>12, <2>17
    <3> QED
      BY <2>17, <3>1 DEF NotedValue
  <2>23. l.base \notin {"RTS", "NOP"}
    BY <1>1 DEF IsMoveLine
  <2> QED
    BY <2>19, <2>20, <2>21, <2>22, <2>23 DEF NotedLine, w, src, dest, j
<1>2. CASE l.base \in {"RTS", "NOP"}
  <2>1. \h4E75 \in Word /\ \h4E71 \in Word
    BY BoundedWord
  <2>2. ~IsMoveLine(l)
    BY <1>2 DEF IsMoveLine
  <2>3. /\ l.base = "RTS" => n = mem_write_word(m, address, \h4E75, ok)
        /\ l.base = "NOP" => n = mem_write_word(m, address, \h4E71, ok)
    BY <1>2, <2>2 DEF Encoded
  <2>4. /\ l.base = "RTS" => NotedWord(n, address, \h4E75)
        /\ l.base = "NOP" => NotedWord(n, address, \h4E71)
    BY <2>1, <2>3, WordNoted
  <2> QED
    BY <2>2, <2>4 DEF NotedLine
<1>3. CASE ~IsMoveLine(l) /\ l.base \notin {"RTS", "NOP"}
  BY <1>3 DEF NotedLine
<1> QED
  BY <1>1, <1>2, <1>3
=====
