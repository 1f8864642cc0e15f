------------------------------- MODULE Packcc --------------------------------
(* PackCC, the parser generator that builds the operand parser of the         *)
(* simulator, from its command line to the parser it generates (main, parse   *)
(* and generate in src/src/packcc.c, and the generated parse function called  *)
(* until the input is used up).                                               *)
(*                                                                            *)
(* A job is a run of PackCC, and of what it generates: the command line argv, *)
(* the text of the grammar, whether it is the text of rules that are known    *)
(* (meant), and the input of the generated parser.                            *)
EXTENDS PegFile, PegLinker, PackccOptions, PegMeaning

CONSTANTS Jobs,        \* the jobs that PackCC is run for
          ImportPath,  \* the directories of the environment, the home and the system
          MaxCalls     \* how often a generated parser is called at most

ASSUME MaxCallsAssumption == MaxCalls \in Nat \ {0}

VARIABLES job, phase,
          cl, opts,  \* the command line parser, and the options so far
          c,         \* the context of the files being read
          k,         \* the linker
          p,         \* the generated parser
          calls      \* what each call of the generated parser did

vars == <<job, phase, cl, opts, c, k, p, calls>>

Nothing == [none |-> TRUE]

Init ==
    /\ job \in Jobs /\ phase = "options"
    /\ cl = command_line_option_parser__reset /\ opts = NoOptions
    /\ c = Nothing /\ k = Nothing /\ p = Nothing /\ calls = <<>>

-----------------------------------------------------------------------------
(* The command line *)

Option == command_line_option_parser__parse(cl, job.argv)
OptionsEnd(t) == t.result \in {"not an option", "end"}
FilesGiven(t) == Len(job.argv) - t.cl.arg_index + 1

TakeOption ==
    /\ phase = "options"
    /\ LET t == Option
       IN  /\ ~OptionsEnd(t)
           /\ IF Accepts(opts, t)
              THEN cl' = t.cl /\ opts' = WithOption(opts, t) /\ UNCHANGED phase
              ELSE phase' = "usage" /\ UNCHANGED <<cl, opts>>
    /\ UNCHANGED <<job, c, k, p, calls>>

\* The options are over: at most one file is left.  Help and version end here.
EndOptions ==
    /\ phase = "options" /\ OptionsEnd(Option)
    /\ cl' = Option.cl
    /\ phase' = IF FilesGiven(Option) > 1 THEN "usage"
                ELSE IF opts.flags \cap {"h", "v"} # {} THEN "help" ELSE "create"
    /\ UNCHANGED <<job, opts, c, k, p, calls>>

CreateContext ==
    /\ phase = "create"
    /\ phase' = "read"
    /\ c' = create_context(<<".", "main">>, job.text, opts.dirs \o ImportPath)
    /\ UNCHANGED <<job, cl, opts, k, p, calls>>

-----------------------------------------------------------------------------
(* Reading, linking and generating *)

ReadStatement ==
    /\ phase = "read" /\ c.inputs # <<>>
    /\ c' = parse_statement(c)
    /\ UNCHANGED <<job, phase, cl, opts, k, p, calls>>

Link ==
    /\ phase = "read" /\ c.inputs = <<>>
    /\ k' = Linked(c.rules, c.errnum)
    /\ phase' = "verify"
    /\ UNCHANGED <<job, cl, opts, c, p, calls>>

\* No code is generated after an error.
VerifyRules ==
    /\ phase = "verify"
    /\ k' = Verify(k)
    /\ phase' = IF Verify(k).errnum = 0 THEN "generate" ELSE "errors"
    /\ UNCHANGED <<job, cl, opts, c, p, calls>>

Grammar(rules) ==
    [name \in {rules[i].name : i \in DOMAIN rules} |->
        LET r == CHOOSE i \in DOMAIN rules : rules[i].name = name
        IN  [expr |-> rules[r].expr, capts |-> rules[r].capts]]

Generate ==
    /\ phase = "generate"
    /\ phase' = IF k.rules = <<>> THEN "done" ELSE "parse"
    /\ p' = pcc_context__create(Grammar(k.rules), "a" \in opts.flags, job.input)
    /\ UNCHANGED <<job, cl, opts, c, k, calls>>

-----------------------------------------------------------------------------
(* The generated parser: calls until there is no input or a syntax error *)

Outcome(x) == [ok |-> x.ok, to |-> x.pos + x.cur,
               acts |-> IF x.ok THEN pcc_do_action(x.thunks) ELSE <<>>]
ParsedAs(x) ==
    /\ calls' = Append(calls, Outcome(x))
    /\ IF x.ok THEN p' = AfterParse(x) /\ UNCHANGED phase
               ELSE phase' = "syntax error" /\ UNCHANGED p

Parse ==
    /\ phase = "parse" /\ Available(p) > 0 /\ Len(calls) < MaxCalls
    /\ ParsedAs(pcc_apply_rule(k.rules[1].name, p))
    /\ UNCHANGED <<job, cl, opts, c, k>>

EndOfInput ==
    /\ phase = "parse" /\ (Available(p) = 0 \/ Len(calls) = MaxCalls)
    /\ phase' = "done"
    /\ UNCHANGED <<job, cl, opts, c, k, p, calls>>

Ended == phase \in {"usage", "help", "errors", "syntax error", "done"}
Stay == Ended /\ UNCHANGED vars

Next == \/ TakeOption \/ EndOptions \/ CreateContext \/ ReadStatement \/ Link
        \/ VerifyRules \/ Generate \/ Parse \/ EndOfInput \/ Stay

Spec == Init /\ [][Next]_vars

-----------------------------------------------------------------------------
(* Properties *)

\* Reading gives back the rules whose text the grammar is, whatever the
\* nesting, and reports no error for them.
ReadsTheGrammarWritten ==
    phase = "verify" /\ job.meant # <<>> =>
        /\ c.errnum = 0
        /\ [i \in DOMAIN c.rules |-> <<c.rules[i].name, c.rules[i].expr>>] = job.meant

\* Once linked without an error, every reference of a rule that is kept leads to
\* exactly one rule that is kept, and a rule is counted as often as the kept
\* rules refer to it: no reference is left to a rule that was dropped.
KeptRules(rules) == {i \in DOMAIN rules : rules[i].used}
RefersTo(rules, name) ==
    UNION {{<<i, j>> : j \in {n \in DOMAIN References(rules[i].expr) :
                                 References(rules[i].expr)[n] = name}} : i \in KeptRules(rules)}
KeptRulesAreClosed ==
    phase = "verify" /\ k.errnum = 0 =>
        /\ \A i \in KeptRules(k.rules) : \A n \in ToSet(References(k.rules[i].expr)) :
               Cardinality({j \in KeptRules(k.rules) : k.rules[j].name = n}) = 1
        /\ \A i \in KeptRules(k.rules) :
               k.rules[i].ref = Cardinality(RefersTo(k.rules, k.rules[i].name))

\* The first call of the generated parser accepts what the grammar means, as
\* far as it means, and runs the actions of that match in their order.
ParsesAsThePeg ==
    calls # <<>> =>
        LET m == GrammarMeans(p.g, p.ascii, k.rules[1].name, p.input)
        IN  /\ calls[1].ok = m.ok
            /\ m.ok => calls[1].to = m.to /\ calls[1].acts = m.acts

RECURSIVE Below(_)
Below(n) == {n} \union UNION {Below(Children(n)[i]) : i \in DOMAIN Children(n)}

\* What the generator takes for always failing or always succeeding, and leaves
\* code out for, does so at every place of the input.
ReachIsHonest ==
    phase = "parse" /\ calls = <<>> =>
        \A name \in DOMAIN p.g : \A n \in Below(p.g[name].expr) :
            reach(n) # "both" =>
                \A i \in 0..Len(p.input) :
                    run(n, [p EXCEPT !.cur = i, !.start = i,
                                     !.capts = [j \in 1..p.g[name].capts |-> <<0, 0>>]]).ok
                        = (reach(n) = "succeeds")

\* Reading goes on: each statement closes a file, enters one that has not been
\* entered before or gets past a token, so that it comes to an end whatever the
\* text is and whichever files import each other.
ReadingGoesOn ==
    [][phase = "read" /\ phase' = "read" =>
           \/ Len(c'.inputs) < Len(c.inputs)
           \/ c.done \subseteq c'.done /\ c.done # c'.done
           \/ Len(c'.inputs) = Len(c.inputs) /\ Input(c').at > Input(c).at]_vars
=============================================================================
