----------------------------- MODULE PegMeaning ------------------------------
(* What a parsing expression grammar means: the reference that the generated  *)
(* parser is compared with.  An expression is matched from a position; the    *)
(* result says whether it matched, up to where, the actions of the match and  *)
(* the captures after it.  What a failure or a predicate did is forgotten.  A *)
(* rule that meets itself at the same position, a left recursion, is first    *)
(* taken to fail there, then to match what it matched before, as long as that *)
(* makes the match longer.                                                    *)
EXTENDS PccParser

NoMatch == [ok |-> FALSE, to |-> 0, acts |-> <<>>, capts |-> <<>>]
Match(to, acts, capts) == [ok |-> TRUE, to |-> to, acts |-> acts, capts |-> capts]

\* e: the grammar g and the input, the answers of left recursions under way,
\* the start of the rule, and the captures.
RECURSIVE Means(_, _, _), SequenceMeans(_, _, _, _), ChoiceMeans(_, _, _, _)
RECURSIVE RepeatMeans(_, _, _, _), GrownMeans(_, _, _, _)

With(r, e) == [e EXCEPT !.capts = r.capts]

\* r: what the nodes before node j match.
SequenceMeans(nodes, j, r, e) ==
    IF j > Len(nodes) \/ ~r.ok THEN r
    ELSE LET m == Means(nodes[j], r.to, With(r, e))
         IN  SequenceMeans(nodes, j + 1, IF m.ok THEN [m EXCEPT !.acts = r.acts \o @] ELSE NoMatch, e)

ChoiceMeans(nodes, j, i, e) ==
    LET m == Means(nodes[j], i, e)
    IN  IF m.ok \/ j = Len(nodes) THEN m ELSE ChoiceMeans(nodes, j + 1, i, e)

\* As many matches as there are, r after the last; count up to two of them.
RepeatMeans(n, r, count, e) ==
    LET m == Means(n.expr, r.to, With(r, e))
        more == [m EXCEPT !.acts = r.acts \o @]
    IN  IF ~m.ok \/ m.to = r.to THEN IF count < n.min THEN NoMatch
                                     ELSE IF m.ok THEN more ELSE r
        ELSE IF n.max = 1 THEN more ELSE RepeatMeans(n, more, count + 1, e)

TextMeans(text, i, e) ==
    IF i + Len(text) <= Len(e.input) /\ SubSeq(e.input, i + 1, i + Len(text)) = text
    THEN Match(i + Len(text), <<>>, e.capts) ELSE NoMatch

\* A character is one byte below 128 or, in UTF-8, the two bytes of 128..2047.
CharMeans(v, i, e) ==
    LET one == i < Len(e.input) /\ (e.ascii \/ e.input[i + 1] < 128)
        two == /\ i + 1 < Len(e.input) /\ ~e.ascii
               /\ e.input[i + 1] \in 194..223 /\ e.input[i + 2] \in 128..191
    IN  IF one /\ InClass(v, e.input[i + 1], e.ascii) THEN Match(i + 1, <<>>, e.capts)
        ELSE IF two /\ InClass(v, (e.input[i + 1] - 192) * 64 + e.input[i + 2] - 128, FALSE)
             THEN Match(i + 2, <<>>, e.capts)
        ELSE NoMatch

GrownMeans(rule, i, best, e) ==
    LET m == Means(e.g[rule].expr, i,
                   [e EXCEPT !.seeds = (<<rule, i>> :> best) @@ @, !.start = i,
                             !.capts = [j \in 1..e.g[rule].capts |-> <<0, 0>>]])
    IN  IF m.ok /\ (~best.ok \/ m.to > best.to) THEN GrownMeans(rule, i, m, e) ELSE best

RuleMeans(rule, i, e) ==
    LET m == IF <<rule, i>> \in DOMAIN e.seeds THEN e.seeds[<<rule, i>>]
             ELSE GrownMeans(rule, i, NoMatch, e)
    IN  IF m.ok THEN Match(m.to, m.acts, e.capts) ELSE NoMatch

Means(n, i, e) ==
    CASE n.type = "Reference" -> RuleMeans(n.name, i, e)
      [] n.type = "String" -> TextMeans(n.value, i, e)
      [] n.type = "Charclass" -> CharMeans(n.value, i, e)
      [] n.type = "Position" -> IF i = 0 THEN Match(i, <<>>, e.capts) ELSE NoMatch
      [] n.type = "Quantity" -> RepeatMeans(n, Match(i, <<>>, e.capts), 0, e)
      [] n.type = "Predicate" -> LET m == Means(n.expr, i, e)
                                 IN  IF m.ok = n.neg THEN NoMatch
                                     ELSE Match(i, <<>>, IF m.ok THEN m.capts ELSE e.capts)
      [] n.type = "Progpred" -> IF (SubSeq(e.input, e.start + 1, i) \in n.code) = n.neg
                                THEN NoMatch ELSE Match(i, <<>>, e.capts)
      [] n.type = "Sequence" -> SequenceMeans(n.nodes, 1, Match(i, <<>>, e.capts), e)
      [] n.type = "Alternate" -> ChoiceMeans(n.nodes, 1, i, e)
      [] n.type = "Capture" -> LET m == Means(n.expr, i, e)
                               IN  IF m.ok THEN [m EXCEPT !.capts[n.index + 1] = <<i, m.to>>]
                                   ELSE NoMatch
      [] n.type = "Expand" -> LET r == e.capts[n.index + 1]
                              IN  TextMeans(SubSeq(e.input, r[1] + 1, r[2]), i, e)
      [] n.type = "Action" ->
             Match(i, <<[action |-> n.code, from |-> e.start, to |-> i]>>, e.capts)
      [] n.type = "Error" -> Means(n.expr, i, e)

GrammarMeans(g, ascii, first, input) ==
    RuleMeans(first, 0, [g |-> g, ascii |-> ascii, input |-> input, seeds |-> <<>>,
                         start |-> 0, capts |-> <<>>])
=============================================================================
