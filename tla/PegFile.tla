------------------------------- MODULE PegFile -------------------------------
(* How PackCC reads a grammar file and the files it imports (parse_file_ in   *)
(* src/src/packcc.c), one rule, directive or error at a time.                 *)
(*                                                                            *)
(* The context is a record c: inputs, the files being read, the innermost     *)
(* last; done, the files read or being read; rules; strings, what %value,     *)
(* %auxil and %prefix set; mvars, the marker variables; sections, the code    *)
(* blocks of each output section; dirs, where imports are searched; errnum.   *)
EXTENDS PegSyntax

CONSTANT Files  \* <<directory, name>> -> the tokens of the file, or Denied

\* A file that exists and cannot be opened.
Denied == <<"denied">>
NoString == ""

Input(c) == Last(c.inputs)
Reading(c, x) == [c EXCEPT !.inputs = Append(Front(@), x)]
Imported(c) == Len(c.inputs) > 1

NewInput(dir, toks) ==
    [toks |-> toks, at |-> 1, node |-> Missing, errnum |-> 0, dir |-> dir, wellformed |-> TRUE,
     rvars |-> <<>>, capts |-> 0, codes |-> 0, preds |-> 0]

\* Entering a file, unless it has been entered before.
OpenFile(c, id, toks) ==
    IF id \in c.done THEN c
    ELSE [c EXCEPT !.done = @ \union {id}, !.inputs = Append(@, NewInput(id[1], toks))]

\* The context that is created for the main file and the directories dirs.
create_context(id, toks, dirs) ==
    OpenFile([inputs |-> <<>>, done |-> {}, rules |-> <<>>, errnum |-> 0, dirs |-> dirs,
              strings |-> [d \in {"value", "auxil", "prefix"} |-> NoString], mvars |-> <<>>,
              sections |-> [d \in {"earlysource", "earlyheader", "source", "header", "footer"}
                               |-> <<>>]], id, toks)

CloseFile(c) == [c EXCEPT !.errnum = @ + Input(c).errnum, !.inputs = Front(@)]

\* The places where an import is searched, in order.
Candidates(c, t) ==
    IF t.absolute THEN << <<"/", t.value>> >>
    ELSE << <<Input(c).dir, t.value>> >> \o [i \in DOMAIN c.dirs |-> <<c.dirs[i], t.value>>]

\* The first file there is, which must be readable.
Import(c, ids) ==
    LET n == SelectInSeq(ids, LAMBDA id : id \in DOMAIN Files)
    IN  IF n = 0 \/ Files[ids[n]] = Denied THEN Reading(c, Report(Input(c), 1))
        ELSE OpenFile(c, ids[n], Files[ids[n]])

\* Why the string of a directive is refused: empty, void or not a name.
StringFaults(name, shape) ==
    CASE shape = "empty" -> 1
      [] shape = "void" -> IF name \in {"value", "auxil"} THEN 1 ELSE 0
      [] shape = "other" -> IF name = "prefix" THEN 1 ELSE 0
      [] OTHER -> 0

parse_import(c) ==
    LET x == Step(Input(c))
        t == Token(x)
        y == Report(Step(x), t.faults + StringFaults("import", t.shape))
    IN  IF t.kind # "string" THEN Reading(c, Report(x, 1))
        ELSE IF t.shape = "empty" THEN Reading(c, y)
        ELSE Import(Reading(c, y), Candidates(c, t))

\* %value, %auxil and %prefix: only in the main file, and once.
parse_directive_string(c, name) ==
    LET x == Step(Input(c))
        t == Token(x)
        refused == IF Imported(c) \/ c.strings[name] # NoString THEN 1 ELSE 0
        faults == StringFaults(name, t.shape)
        y == Report(Step(x), t.faults + faults + refused)
    IN  IF t.kind # "string" THEN Reading(c, Report(x, 1))
        ELSE IF faults + refused > 0 THEN Reading(c, y)
        ELSE [Reading(c, y) EXCEPT !.strings[name] = t.value]

\* The output sections that a block directive adds its block to.
SectionsOf(name) ==
    CASE name = "earlycommon" -> {"earlysource", "earlyheader"}
      [] name = "common" -> {"source", "header"}
      [] name \in {"earlysource", "earlyheader", "source", "header"} -> {name}
      [] OTHER -> {}

parse_directive_block(c, name) ==
    LET x == Step(Input(c))
    IN  IF ~IsNext(x, "block") THEN Reading(c, Report(x, 1))
        ELSE [Reading(c, Step(x)) EXCEPT
                 !.sections = [d \in DOMAIN @ |-> IF d \in SectionsOf(name)
                                                 THEN Append(@[d], Token(x).value) ELSE @[d]]]

RECURSIVE parse_markers(_)
\* The marker variables after the directive.  A name that an earlier one begins
\* with is taken for a duplicate.
parse_markers(c) ==
    LET x == Input(c)
        t == Token(Step(x))
        taken == \E i \in DOMAIN c.mvars : IsPrefix(t.value, c.mvars[i])
        y == Report(Steps(x, 2), t.underscore + (IF taken THEN 1 ELSE 0))
    IN  IF ~IsNext(x, "@") THEN c
        ELSE IF t.kind # "identifier" THEN Reading(c, Report(Step(x), 1))
        ELSE parse_markers([Reading(c, y) EXCEPT
                               !.mvars = IF taken THEN @ ELSE Append(@, t.value)])

parse_directive(c, name) ==
    CASE name = "import" -> parse_import(c)
      [] name \in {"value", "auxil", "prefix"} -> parse_directive_string(c, name)
      [] SectionsOf(name) # {} -> parse_directive_block(c, name)
      [] name = "marker" -> parse_markers(Reading(c, Step(Input(c))))
      [] OTHER -> Reading(c, Report(Step(Input(c)), 1))

WellFormed(c) == Reading(c, [Input(c) EXCEPT !.wellformed = TRUE])

\* Mistake: The token that could not be read is not skipped.
RuleOrError_stay(c, x) ==
    IF x.node # Missing
    THEN [Reading(c, [x EXCEPT !.wellformed = TRUE]) EXCEPT !.rules = Append(@, x.node)]
    ELSE Reading(c, [Report(x, IF x.wellformed THEN 1 ELSE 0) EXCEPT !.wellformed = FALSE])
\* A rule, or one token of what is no rule: only the first is reported.
RuleOrError(c, x) ==
    IF x.node # Missing
    THEN [Reading(c, [x EXCEPT !.wellformed = TRUE]) EXCEPT !.rules = Append(@, x.node)]
    ELSE Reading(c, [Step(Report(x, IF x.wellformed THEN 1 ELSE 0)) EXCEPT !.wellformed = FALSE])

\* One round of parse_file_ in the innermost file.
parse_statement(c) ==
    LET x == Input(c) IN
    CASE IsNext(x, "eof") -> CloseFile(c)
      [] IsNext(x, "%%") -> CloseFile([c EXCEPT !.sections["footer"] = Append(@, "footer")])
      [] IsNext(x, "%") -> parse_directive(WellFormed(c), Token(x).value)
      [] OTHER -> RuleOrError(c, parse_rule(x))
=============================================================================
