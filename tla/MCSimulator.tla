------------------------------ MODULE MCSimulator ------------------------------
(***************************************************************************)
(* Files: every MOVE of the loader between two operands, with labels in       *)
(* every place of a source; and lines that the passes treat specially.        *)
(***************************************************************************)
EXTENDS Simulator

MCAnToken == [x \in {"A1", "A7"} |-> IF x = "A1" THEN 1 ELSE 7]
MCDnToken == [x \in {"D1", "D2"} |-> IF x = "D1" THEN 1 ELSE 2]
MCDecimal == [x \in {"2", "4"} |-> FromWord(IF x = "2" THEN 2 ELSE 4)]
MCHexadecimal ==
  [x \in {"$40", "$70", "$60FE", "$12345", "$18040"} |->
     CASE x = "$40" -> FromWord(64) [] x = "$70" -> FromWord(112)
       [] x = "$60FE" -> FromWord(\h60FE) [] x = "$12345" -> [hi |-> 1, lo |-> 9029]
       [] OTHER -> [hi |-> 1, lo |-> 32832]]

MCNames == Grammar!Identifiers
MCHash == [name \in Names |-> IF name = "DATA" THEN 3 ELSE 2]

-----------------------------------------------------------------------------
L(label, base, size, operands) ==
  [comment |-> FALSE, label |-> label, base |-> base, size |-> size, operands |-> operands]

I(base, size, operands) == L(NoLabel, base, size, operands)
Star(label, base, operands) == [L(label, base, "W", operands) EXCEPT !.comment = TRUE]

ORG(x) == I("ORG", "W", <<x>>)
NOP(label) == L(label, "NOP", "W", <<>>)
RtsLine == I("RTS", "W", <<>>)
DC(label, size, x) == L(label, "DC", size, <<x>>)
Move_(size, src, dest) == I("MOVE", size, src \o <<",">> \o dest)

SimpleOperands ==
  { <<"D1">>, <<"A1">>, <<"(", "A1", ")">>, <<"(", "A1", ")", "+">>, <<"-", "(", "A7", ")">>,
    <<"4", "(", "A1", ")">>, <<"$70">>, <<"(", "$70", ")", ".", "L">> }

(* A comma inside the parentheses: only a destination can have one. *)
IndexedOperands ==
  { <<"2", "(", "A1", ",", "D2", ".", "W", ")">>,
    <<"(", "DATA", ",", "A1", ",", "D2", ".", "L", "*", "4", ")">>,
    <<"(", "4", ",", "PC", ",", "A1", ")">>,
    <<"(", "[", "4", ",", "A1", "]", ",", "D2", ",", "$12345", ")">>,
    <<"(", "[", "$12345", ",", "PC", ",", "D2", "]", ",", "4", ")">>,
    <<"DATA", "(", "PC", ",", "D2", ")">> }

SourceOperands ==
  SimpleOperands \cup
  { <<"#", "4">>, <<"#", "$12345">>, <<"#", "DATA">>, <<"DATA">>, <<"DATA", ".", "L">>,
    <<"DATA", "(", "PC", ")">>, <<"DATA", "(", "A1", ")">>, <<"#", "NOWHERE">> }

DestOperands ==
  SimpleOperands \cup IndexedOperands \cup { <<"D2">>, <<"DATA", ".", "L">>, <<"4", "(", "PC", ")">> }

MoveFiles ==
  { << ORG("$40"), Move_(size, src, dest), NOP("LOOP"), RtsLine, DC("DATA", "L", "$12345") >> :
      size \in {"B", "W", "L"}, src \in SourceOperands, dest \in DestOperands }

(* Data before code and between two instructions, a long immediate in a word, *)
(* and an instruction without an encoder, which leaves a hole.                *)
DataFiles ==
  { << ORG("$40"), DC("DATA", size, "$12345"), I(base, "W", operands), NOP("LOOP"),
       Move_("W", <<"LOOP">>, <<"D1">>), RtsLine >> :
      size \in {"B", "W", "L"}, base \in {"ADDQ", "BNE", "MOVE"},
      operands \in { <<>>, <<"#", "4", ",", "D1">>, <<"LOOP">>, <<"#", "$12345", ",", "D1">> } }

(* Labels defined twice, alone on a line, before an ORG, of the ORG, of what  *)
(* follows the last line; a second ORG; none;                                *)
(* a branch to itself as data, and one moved into the hole that follows.      *)
LabelFiles ==
  { << ORG("$40"), L("DATA", "", "W", <<>>), Move_("L", <<"DATA">>, <<"D2">>), NOP("DATA"),
       RtsLine >>,
    << ORG("$40"), Move_("W", <<"LOOP", "(", "PC", ")">>, <<"D1">>), L("LOOP", "ORG", "W", <<"$70">>),
       NOP("DATA"), Move_("W", <<"#", "DATA">>, <<"LOOP">>), RtsLine >>,
    << NOP("LOOP"), Move_("W", <<"LOOP">>, <<"D1">>), RtsLine >>,
    << ORG("$40"), DC("LOOP", "W", "$60FE") >>,
    << ORG("$40"), Move_("W", <<"#", "$60FE">>, <<"DATA">>), L("DATA", "ADDQ", "W", <<>>), RtsLine >>,
    << L("DATA", "ORG", "W", <<"$40">>), Move_("W", <<"DATA">>, <<"D1">>), RtsLine >>,
    << ORG("$40"), Move_("L", <<"#", "DATA">>, <<"D1">>), RtsLine, L("DATA", "", "W", <<>>) >> }

(* Labels whose addresses have more than 16 bits, as under the default start. *)
HighFiles ==
  { << ORG("$18040"), Move_(size, src, <<"D2">>), next, NOP("DATA"), RtsLine >> :
      size \in {"B", "W", "L"}, next \in { NOP("LOOP"), I("ADDQ", "W", <<>>) },
      src \in { <<"#", "DATA">>, <<"DATA">>, <<"DATA", ".", "L">>, <<"#", "NOWHERE">> } }

(* Comments: alone, with a colon, after a label; the second does not parse.   *)
CommentFiles ==
  { << ORG("$40"), comment, Move_("W", <<"DATA">>, <<"D1">>), NOP("DATA"), RtsLine >> :
      comment \in { I("", "W", <<>>), Star(NoLabel, "*", <<>>), Star("LOOP", "NOP", <<>>),
                    Star("LOOP", "see", <<"D1", "D2">>), L("LOOP", "*", "W", <<"LOOP">>) } }

(* Operands that the grammar does not know, in a source and a destination.    *)
WrongFiles ==
  { << ORG("$40"), Move_("W", src, dest), RtsLine >> :
      src \in { <<"D1", "D2">>, <<"(", "4", ",", "A1", ",", "D2", ")">>, <<"D1">> },
      dest \in { <<"D1", "D2">>, <<"D2">> } }

Opened(sources, failures) ==
  { [opened |-> TRUE, source |-> lines, failing |-> n] : lines \in sources, n \in failures }

Files ==
  Opened(MoveFiles \cup DataFiles \cup HighFiles \cup WrongFiles, {{}})
    \cup Opened(LabelFiles \cup CommentFiles, {{}} \cup { {n} : n \in 1 .. 5 } \cup {2 .. 4})
    \cup { [opened |-> FALSE, source |-> <<>>, failing |-> {}] }

A(x) == [name |-> "a", address |-> x]
Other(name) == [name |-> name, address |-> 0]

MCCommandLines ==
  { [options |-> <<>>, file |-> f] : f \in Files }
    \cup { [options |-> opts, file |-> f] :
             opts \in { <<A(96)>>, <<A(96), A(80)>>, <<A(96), Other("h")>>, <<Other("?")>> },
             f \in { NoFile } \cup Opened(LabelFiles, {{}}) }
=============================================================================
