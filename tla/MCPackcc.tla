------------------------------- MODULE MCPackcc -------------------------------
(* Jobs of three kinds for PackCC: the texts of many small grammars that are  *)
(* known, the texts of grammars with mistakes, directives and imports, and    *)
(* command lines.                                                             *)
EXTENDS Packcc

-----------------------------------------------------------------------------
(* The text of a grammar *)

Kind(x) == [kind |-> x]
Name(n) == [kind |-> "identifier", value |-> n, underscore |-> 0]
Block(v) == [kind |-> "block", value |-> v]
Quoted(v) == [kind |-> "string", value |-> v, faults |-> 0]
Class(v) == [kind |-> "class", value |-> v, faults |-> 0]
Number(i) == [kind |-> "number", value |-> i, faults |-> 0]

\* How tightly the text of a node holds together.
Level(n) ==
    CASE n.type = "Quantity" -> 1 [] n.type \in {"Predicate", "Progpred"} -> 2
      [] n.type = "Error" -> 3 [] n.type = "Sequence" -> 4 [] n.type = "Alternate" -> 5
      [] OTHER -> 0

RECURSIVE Text(_), TextIn(_, _)
TextIn(n, level) == IF Level(n) <= level THEN Text(n)
                    ELSE <<Kind("(")>> \o Text(n) \o <<Kind(")")>>
Sign(neg) == <<Kind(IF neg THEN "!" ELSE "&")>>
Text(n) ==
    CASE n.type = "Reference" ->
             IF n.index = NoVariable THEN <<Name(n.name)>>
             ELSE <<Name(n.rvar), Kind(":"), Name(n.name)>>
      [] n.type = "String" -> <<Quoted(n.value)>>
      [] n.type = "Charclass" -> IF n.value = <<>> THEN <<Kind(".")>> ELSE <<Class(n.value)>>
      [] n.type = "Position" -> <<Kind("^")>>
      [] n.type = "Quantity" ->
             Append(TextIn(n.expr, 0),
                    Kind(IF n.max = 1 THEN "?" ELSE IF n.min = 0 THEN "*" ELSE "+"))
      [] n.type = "Predicate" -> Sign(n.neg) \o TextIn(n.expr, 1)
      [] n.type = "Progpred" -> Sign(n.neg) \o <<Block(n.code)>>
      [] n.type = "Sequence" -> FlattenSeq([i \in DOMAIN n.nodes |-> TextIn(n.nodes[i], 3)])
      [] n.type = "Alternate" ->
             Tail(FlattenSeq([i \in DOMAIN n.nodes |-> <<Kind("/")>> \o TextIn(n.nodes[i], 4)]))
      [] n.type = "Capture" -> <<Kind("<")>> \o Text(n.expr) \o <<Kind(">")>>
      [] n.type = "Expand" -> <<Kind("$"), Number(n.index + 1)>>
      [] n.type = "Action" -> <<Block(n.code)>>
      [] n.type = "Error" -> TextIn(n.expr, 2) \o <<Kind("~"), Block(n.code)>>

RuleText(name, text) == <<Name(name), Kind("<-")>> \o text
GrammarText(rules) ==
    FlattenSeq([i \in DOMAIN rules |-> RuleText(rules[i][1], Text(rules[i][2]))])

-----------------------------------------------------------------------------
(* Grammars that are known.  97 98 99 are a b c; 195 169 is one character.    *)

a == String(<<97>>)
b == String(<<98>>)
c_ == String(<<99>>)
Empty == String(<<>>)
Rule(name) == Reference(name, "", NoVariable)
Star(e) == Quantity(e, 0, -1)
Plus(e) == Quantity(e, 1, -1)
Option1(e) == Quantity(e, 0, 1)
Two(x, y) == Sequence(<<x, y>>)
Either(x, y) == Alternate(<<x, y>>)

Command(flags) == IF flags = <<>> THEN <<>> ELSE <<[kind |-> "short", letters |-> flags]>>
Known(rules, input, flags) ==
    [argv |-> Command(flags), text |-> GrammarText(rules), meant |-> rules, input |-> input]

\* T is a b with an action.
RuleT == <<"T", Two(b, Action("t", 0))>>
OfBody(e, input) == Known(<< <<"S", e>>, RuleT >>, input, <<>>)

Around(e) == {e, Option1(e), Star(e), Plus(e), Predicate(e, FALSE), Predicate(e, TRUE)}
Parts == UNION {Around(e) : e \in {a, Empty}} \union {Rule("T"), Star(Rule("T")), Predicate(b, TRUE)}
Ends == {b, Star(b), Rule("T"), Option1(Either(a, b)), Empty, Predicate(a, TRUE), Plus(Charclass(<<>>))}
Pair(x, y) == {Two(x, y), Either(x, y)}
Pairs == UNION {Pair(x, y) : x \in Parts, y \in Ends}
\* A predicate holds no action: the generated parser would run it.
Silent == {e \in Pairs : Rule("T") \notin Below(e)}
Bodies ==
    Pairs \union {Two(Quantity(e, m, -1), Either(c_, Star(a))) : e \in Pairs, m \in {0, 1}}
          \union {Either(Two(e, c_), Two(Predicate(Star(e), FALSE), e)) : e \in Silent}

\* Direct left recursion, with an action in each alternative.
Growing(e, base) ==
    Either(Sequence(<<Rule("S"), e, Action("more", 0)>>), Two(base, Action("one", 1)))
LeftRecursive ==
    {Known(<< <<"S", Growing(e, base)>>, RuleT >>, i, <<>>) :
        e \in {b, Two(b, a), Option1(b), Rule("T")}, base \in {a, Rule("T")},
        i \in {<<97, 98, 98>>, <<98, 98, 97, 98>>}}

\* Recursion through another rule.
ThroughAnother ==
    {Known(<< <<"S", Either(Two(Rule("U"), a), b)>>, <<"U", Either(Two(Rule("S"), b), e)>> >>,
           i, <<>>) :
        e \in {a, Rule("S")}, i \in {<<98, 98, 97, 98>>, <<97, 97, 98, 97>>}}

\* Captures, expansions, variables, predicates with code, errors, positions, classes.
Whole == {
    Sequence(<<Capture(Either(Two(a, b), a), 0), c_, Expand(0), Action("seen", 0)>>),
    Sequence(<<Capture(Two(Capture(Star(a), 1), b), 0), Option1(Expand(1)), Action("in", 0)>>),
    Two(Plus(a), Either(Two(Progpred({<<97>>}, FALSE, 0), b), Two(Progpred({<<97>>}, TRUE, 1), c_))),
    Two(Reference("T", "v", 0), Either(Reference("T", "w", 1), Reference("T", "v", 0))),
    Either(Error(Two(a, b), "missed", 0), Two(a, Action("alone", 1))),
    Sequence(<<Position, a, Predicate(Position, TRUE), Star(Charclass(<<>>))>>),
    Plus(Charclass(<<97, 45, 98>>)), Plus(Charclass(<<94, 97>>)), Plus(Charclass(<<94>>)),
    Plus(Charclass(<<97, 45, 92, 99>>)), Two(a, Charclass(<<98, 45>>)),
    Predicate(Two(Empty, Star(a)), TRUE),
    Either(Predicate(Plus(Empty), TRUE), Two(a, Star(Empty))),
    Star(Either(Two(a, Action("got", 0)), Two(Action("wrong", 1), c_))) }
WholeInputs == {<<97, 98, 99, 97, 98>>, <<97, 97, 98, 97>>, <<97, 99, 97>>, <<98, 98>>, <<97, 195, 169>>}

KnownJobs ==
    {OfBody(e, i) : e \in Bodies, i \in {<<97, 98, 98>>, <<98, 97>>}}
        \union LeftRecursive \union ThroughAnother
        \union {Known(<< <<"S", e>>, RuleT >>, i, f) :
                   e \in Whole, i \in WholeInputs, f \in {<<>>, <<"a">>}}

-----------------------------------------------------------------------------
(* Texts with mistakes, directives and imports *)

Raw(text) == [argv |-> <<>>, text |-> text, meant |-> <<>>, input |-> <<97, 98>>]

PathString(v, shape) ==
    [kind |-> "string", value |-> v, faults |-> 0, shape |-> shape, absolute |-> FALSE]
Directive(name, token) == <<[kind |-> "%", value |-> name], token>>
ImportOf(v) == Directive("import", PathString(v, "other"))
Marker(n) == <<Kind("@"), Name(n)>>

SA == RuleText("S", <<Quoted(<<97>>)>>)
Calls(name, others) ==
    RuleText(name, FlattenSeq([i \in DOMAIN others |-> <<Name(others[i])>>]))

Mistakes == {
    <<Kind("*")>> \o SA, <<Kind("*"), Kind(")"), Kind("*")>> \o SA, SA \o <<Kind("/")>>,
    RuleText("S", <<Kind("("), Quoted(<<97>>)>>), RuleText("S", <<Kind("<"), Quoted(<<97>>)>>),
    RuleText("S", <<Quoted(<<97>>), Kind("~")>>), RuleText("S", <<Kind("!"), Kind("!"), Quoted(<<97>>)>>),
    RuleText("S", <<Kind("$"), Number(1)>>), RuleText("S", <<Kind("$"), Name("x")>>),
    RuleText("S", <<Kind("$"), [kind |-> "number", value |-> 0, faults |-> 1]>>),
    RuleText("S", <<Name("v"), Kind(":"), Quoted(<<97>>)>>),
    RuleText("S", <<Class(<<>>)>>), Calls("S", <<"U">>), SA \o SA, SA \o SA \o Calls("U", <<"S">>),
    RuleText("S", <<[Name("v") EXCEPT !.underscore = 1], Kind(":"), Name("S")>>),
    <<>>, <<Kind("%%"), Kind("*")>>, SA \o <<Kind("%%"), Kind("*")>> }

\* References whose names share a slot of the table, and rules that nobody uses.
Linking == {
    Calls("S", <<"T", "U">>) \o RuleText("T", <<Quoted(<<97>>)>>) \o RuleText("U", <<Quoted(<<98>>)>>),
    Calls("S", <<"U">>) \o RuleText("T", <<Name("U"), Name("S")>>) \o RuleText("U", <<Quoted(<<97>>)>>),
    SA \o Calls("T", <<"U", "T">>) \o Calls("U", <<"T", "S">>),
    Calls("U", <<"T", "T">>) \o Calls("T", <<"V">>) \o RuleText("V", <<Kind(".")>>) \o SA }

Directives == {
    Directive("common", Block("x")) \o Directive("earlysource", Block("y")) \o SA,
    Directive("value", PathString("int", "other")) \o Directive("value", PathString("int", "other")) \o SA,
    Directive("prefix", PathString("my", "name")) \o SA, Directive("prefix", PathString("a b", "other")) \o SA,
    Directive("auxil", PathString("void", "void")) \o SA, Directive("value", PathString("", "empty")) \o SA,
    Directive("value", Block("x")) \o SA, Directive("source", Name("x")) \o SA,
    Directive("nothing", Kind("*")) \o SA, Directive("import", Block("x")) \o SA,
    <<[kind |-> "%", value |-> "marker"]>> \o Marker("m") \o Marker("n") \o SA,
    <<[kind |-> "%", value |-> "marker"]>> \o Marker("long") \o Marker("lo") \o SA,
    <<[kind |-> "%", value |-> "marker"], Kind("@")>> \o SA }

Imports ==
    {ImportOf(f) \o SA : f \in {"cycle", "back", "denied", "absent", "broken"}}
        \union { ImportOf("rules") \o ImportOf("rules") \o Calls("S", <<"T">>),
                 ImportOf("far") \o SA, Directive("import", PathString("", "empty")) \o SA,
                 Directive("import", [PathString("rules", "other") EXCEPT !.absolute = TRUE]) \o SA,
                 SA \o ImportOf("footer") \o Calls("T", <<"S">>) }

MCFiles ==
    (<<".", "rules">> :> RuleText("T", <<Quoted(<<97>>)>>)) @@
    (<<".", "cycle">> :> ImportOf("back") \o RuleText("T", <<Kind(".")>>)) @@
    (<<".", "back">> :> ImportOf("cycle") \o ImportOf("main") \o RuleText("U", <<Name("T")>>)) @@
    (<<".", "main">> :> SA) @@
    (<<".", "denied">> :> Denied) @@ (<<"lib", "denied">> :> SA) @@
    (<<".", "broken">> :> <<Kind("*")>> \o Directive("prefix", PathString("p", "name"))) @@
    (<<"lib", "far">> :> ImportOf("near") \o RuleText("T", <<Kind(".")>>)) @@
    (<<"lib", "near">> :> RuleText("V", <<Kind(".")>>)) @@
    (<<"/", "rules">> :> RuleText("V", <<Kind("^")>>)) @@
    (<<".", "footer">> :> <<Kind("%%"), Kind("*")>>)

MCImportPath == <<"lib">>

-----------------------------------------------------------------------------
(* Command lines *)

Short(letters) == [kind |-> "short", letters |-> letters]
Long(name, arg) == [kind |-> "long", name |-> name, arg |-> arg]
FileName(n) == [kind |-> "name", value |-> n]

CommandLines == {
    <<Short(<<"a", "l">>), Short(<<"o">>), FileName("out"), FileName("main")>>,
    <<Short(<<"o", "x">>), Short(<<"o", "y">>), FileName("main")>>,
    <<Short(<<"a", "I", "d">>), Short(<<"I">>), FileName("dir"), Long("debug", NoText), FileName("main")>>,
    <<Short(<<"o">>)>>, <<Short(<<"x">>)>>, <<Short(<<"h">>)>>,
    <<Long("vers", NoText), FileName("main")>>, <<Long("help", NoText), FileName("main"), FileName("more")>>,
    <<Long("", NoText), Short(<<"h">>)>>, <<Long("", "x")>>, <<Long("ascii", "x")>>, <<Long("none", NoText)>>,
    <<Long("l", NoText), Long("a", NoText)>>, <<FileName("main"), Short(<<"h">>)>>,
    <<FileName("main")>>, <<>> }

MCJobs ==
    KnownJobs
        \union {Raw(t) : t \in Mistakes \union Linking \union Directives \union Imports}
        \union {[Raw(SA) EXCEPT !.argv = w] : w \in CommandLines}

\* T and U begin at the same slot, and V at the last one.
MCHashOf == [n \in {"S", "T", "U", "V"} |->
                CASE n = "S" -> 6 [] n = "V" -> 31 [] OTHER -> 7]
=============================================================================
