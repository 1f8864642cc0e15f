------------------------------ MODULE PegSyntax ------------------------------
(* How PackCC reads a grammar (src/src/packcc.c): the recursive-descent       *)
(* reader of rules and the directives, down to the nodes that the later       *)
(* phases work on.  The text is a sequence of tokens, with spaces and         *)
(* comments gone; the characters of a token are left out, and a token counts  *)
(* in "faults" the errors that its characters are reported for.               *)
(*                                                                            *)
(* The state of a reader is a record x: toks and at, the input; node, what    *)
(* was read last or Missing; errnum; imported and ascii; and the rule being   *)
(* read, its variables rvars, captures capts, actions codes and programmable  *)
(* predicates preds.  A reader that fails puts back the input and keeps the   *)
(* errors and the counts of the rule.                                         *)
EXTENDS Integers, Sequences, SequencesExt, FiniteSetsExt, TLC

Missing == [type |-> "missing"]

Reference(name, rvar, index) ==
    [type |-> "Reference", name |-> name, rvar |-> rvar, index |-> index]
NoVariable == -1
String(v) == [type |-> "String", value |-> v]
Charclass(v) == [type |-> "Charclass", value |-> v]
Position == [type |-> "Position"]
Quantity(e, min, max) == [type |-> "Quantity", expr |-> e, min |-> min, max |-> max]
Predicate(e, neg) == [type |-> "Predicate", expr |-> e, neg |-> neg]
Progpred(code, neg, index) ==
    [type |-> "Progpred", code |-> code, neg |-> neg, index |-> index, capts |-> <<>>]
Sequence(nodes) == [type |-> "Sequence", nodes |-> nodes]
Alternate(nodes) == [type |-> "Alternate", nodes |-> nodes]
Capture(e, index) == [type |-> "Capture", expr |-> e, index |-> index]
Expand(index) == [type |-> "Expand", index |-> index]
Action(code, index) ==
    [type |-> "Action", code |-> code, index |-> index, rvars |-> <<>>, capts |-> <<>>]
Error(e, code, index) ==
    [type |-> "Error", expr |-> e, code |-> code, index |-> index, rvars |-> <<>>, capts |-> <<>>]

-----------------------------------------------------------------------------
(* The input *)

EndOfFile == [kind |-> "eof"]
Token(x) == IF x.at > Len(x.toks) THEN EndOfFile ELSE x.toks[x.at]
IsNext(x, kind) == Token(x).kind = kind
Step(x) == [x EXCEPT !.at = @ + 1]
Steps(x, n) == [x EXCEPT !.at = @ + n]
Report(x, n) == [x EXCEPT !.errnum = @ + n]
Give(x, node) == [x EXCEPT !.node = node]
Back(y, x) == [y EXCEPT !.at = x.at, !.node = Missing]

-----------------------------------------------------------------------------
(* A primary *)

RECURSIVE parse_expression(_)

\* A name, with the rule after it if the name is a variable; the name before an
\* arrow starts the next rule.
ReferenceIn(x) ==
    IF ~IsNext(Step(x), ":") THEN Reference(Token(x).value, "", NoVariable)
    ELSE LET i == SelectInSeq(x.rvars, LAMBDA v : v = Token(x).value)
         IN  Reference(Token(Steps(x, 2)).value, Token(x).value,
                       IF i = 0 THEN Len(x.rvars) ELSE i - 1)

primary_reference(x) ==
    LET bound == IsNext(Step(x), ":")
        y == IF bound THEN Steps(x, 3) ELSE Step(x)
        v == Token(x).value
    IN  IF (bound /\ ~IsNext(Steps(x, 2), "identifier")) \/ IsNext(y, "<-") THEN Back(x, x)
        ELSE IF ~bound THEN Give(y, ReferenceIn(x))
        ELSE Report([Give(y, ReferenceIn(x)) EXCEPT
                        !.rvars = IF Contains(@, v) THEN @ ELSE Append(@, v)],
                    Token(x).underscore)

Grouped(y, x) == IF y.node = Missing \/ ~IsNext(y, ")") THEN Back(y, x) ELSE Step(y)

Captured(y, x) ==
    IF y.node = Missing \/ ~IsNext(y, ">") THEN [Back(y, x) EXCEPT !.capts = x.capts]
    ELSE Give(Step(y), Capture(y.node, x.capts))

\* The number of a capture; a faulty one stands for the first, the grammar being
\* refused in any case.
primary_expand(x) ==
    IF ~IsNext(Step(x), "number") THEN Back(x, x)
    ELSE LET t == Token(Step(x))
         IN  Report(Give(Steps(x, 2), Expand(IF t.faults > 0 THEN 0 ELSE t.value - 1)), t.faults)

primary_class(x) ==
    Report(Give(Step(x), Charclass(Token(x).value)),
           Token(x).faults + (IF Token(x).value = <<>> THEN 1 ELSE 0))

parse_primary(x) ==
    CASE IsNext(x, "identifier") -> primary_reference(x)
      [] IsNext(x, "(") -> Grouped(parse_expression(Step(x)), x)
      [] IsNext(x, "<") -> Captured(parse_expression([Step(x) EXCEPT !.capts = @ + 1]), x)
      [] IsNext(x, "$") -> primary_expand(x)
      [] IsNext(x, "^") -> Give(Step(x), Position)
      [] IsNext(x, ".") -> Give(Step(x), Charclass(<<>>))
      [] IsNext(x, "class") -> primary_class(x)
      [] IsNext(x, "string") ->
             Report(Give(Step(x), String(Token(x).value)), Token(x).faults)
      [] IsNext(x, "block") ->
             [Give(Step(x), Action(Token(x).value, x.codes)) EXCEPT !.codes = @ + 1]
      [] OTHER -> Back(x, x)

-----------------------------------------------------------------------------
(* Terms, sequences, alternatives and rules *)

Quantified(y) ==
    CASE IsNext(y, "*") -> Give(Step(y), Quantity(y.node, 0, -1))
      [] IsNext(y, "+") -> Give(Step(y), Quantity(y.node, 1, -1))
      [] IsNext(y, "?") -> Give(Step(y), Quantity(y.node, 0, 1))
      [] OTHER -> y

\* Mistake: a predicate holds its operand before the quantifier does.
Predicated_first(y, x) ==
    IF y.node = Missing THEN Back(y, x)
    ELSE IF IsNext(x, "&") \/ IsNext(x, "!")
         THEN Quantified(Give(y, Predicate(y.node, IsNext(x, "!"))))
         ELSE Quantified(y)

Predicated(y, x) ==
    IF y.node = Missing THEN Back(y, x)
    ELSE IF IsNext(x, "&") \/ IsNext(x, "!")
         THEN Give(Quantified(y), Predicate(Quantified(y).node, IsNext(x, "!")))
         ELSE Quantified(y)

\* An error action after a term: a tilde with no block after it fails the term.
WithError(y, x) ==
    IF y.node = Missing \/ ~IsNext(y, "~") THEN y
    ELSE IF ~IsNext(Step(y), "block") THEN Back(y, x)
    ELSE [Give(Steps(y, 2), Error(y.node, Token(Step(y)).value, y.codes)) EXCEPT !.codes = @ + 1]

parse_term(x) ==
    LET signed == IsNext(x, "&") \/ IsNext(x, "!") IN
    IF signed /\ IsNext(Step(x), "block")
    THEN WithError([Give(Steps(x, 2), Progpred(Token(Step(x)).value, IsNext(x, "!"), x.preds))
                        EXCEPT !.preds = @ + 1], x)
    ELSE WithError(Predicated(parse_primary(IF signed THEN Step(x) ELSE x), x), x)

RECURSIVE more_terms(_, _), more_sequences(_, _, _)

OneOrMany(nodes, Make(_)) == IF Len(nodes) = 1 THEN nodes[1] ELSE Make(nodes)

\* y is the reader after a further term; those before it are in nodes.
more_terms(y, nodes) ==
    IF y.node # Missing THEN more_terms(parse_term(y), Append(nodes, y.node))
    ELSE IF nodes = <<>> THEN y ELSE Give(y, OneOrMany(nodes, Sequence))
parse_sequence(x) == more_terms(parse_term(x), <<>>)

\* y is the reader after a further alternative of the expression that starts at x.
more_sequences(y, nodes, x) ==
    IF y.node = Missing THEN Back(y, x)
    ELSE IF IsNext(y, "/")
         THEN more_sequences(parse_sequence(Step(y)), Append(nodes, y.node), x)
         ELSE Give(y, OneOrMany(Append(nodes, y.node), Alternate))
parse_expression(x) == more_sequences(parse_sequence(x), <<>>, x)

RuleOf(y, name) ==
    [type |-> "Rule", name |-> name, expr |-> y.node, ref |-> 0, used |-> FALSE,
     rvars |-> y.rvars, capts |-> y.capts, codes |-> y.codes, preds |-> y.preds]

RuleRead(y, x) == IF y.node = Missing THEN Back(y, x) ELSE Give(y, RuleOf(y, Token(x).value))

parse_rule(x) ==
    IF ~IsNext(x, "identifier") \/ ~IsNext(Step(x), "<-") THEN Back(x, x)
    ELSE RuleRead(parse_expression([Steps(x, 2) EXCEPT !.rvars = <<>>, !.capts = 0,
                                                       !.codes = 0, !.preds = 0]), x)
=============================================================================
