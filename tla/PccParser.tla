------------------------------ MODULE PccParser ------------------------------
(* The parser PackCC generates (src/src/packcc.c): what the code written for  *)
(* each node of a grammar does, and the run-time library written with it: the *)
(* memo table, the left-recursion heads and stack, pcc_apply_rule and the     *)
(* actions a successful parse runs.                                           *)
(*                                                                            *)
(* A state of the parser is a record s:                                       *)
(*   g       the linked grammar, rule name -> [expr, capts]; ascii            *)
(*   input   the characters PCC_GETCHAR will deliver (bytes)                  *)
(*   pos,cur committed characters, and the place in the buffer                *)
(*   ok      whether the code jumped to its failure label                     *)
(*   start, thunks, capts   the chunk of the rule being evaluated             *)
(*   tab     the table of answers and heads by position, offset tab.o         *)
(*   lr, hd  the entries and the heads of left recursions, by number          *)
(*   stack   the entries of the rules being evaluated                         *)
(*   errs    the error actions that ran                                       *)
(* A thunk is a leaf, an action with the text of its rule so far, or a node,  *)
(* the thunks of a rule applied.  Values of rules are left out.               *)
EXTENDS Integers, Sequences, SequencesExt, FiniteSetsExt, TLC

NoChunk == [none |-> TRUE]
NoHead == 0

-----------------------------------------------------------------------------
(* What can be reached after the code of a node *)

RECURSIVE reach(_)

\* Whether the code of a node may fail, may succeed or may do both: what its
\* generator returns.
SequenceReach(R) == IF "fails" \in R THEN "fails"
                    ELSE IF "both" \in R THEN "both" ELSE "succeeds"

\* The alternatives that the generator writes: up to the first that succeeds.
Written(nodes, stop) ==
    LET n == SelectInSeq(nodes, LAMBDA m : reach(m) = stop)
    IN  IF n = 0 THEN nodes ELSE SubSeq(nodes, 1, n)

AlternateReach(nodes) ==
    LET R == {reach(nodes[i]) : i \in DOMAIN nodes}
    IN  IF "succeeds" \in R THEN "succeeds" ELSE IF "both" \in R THEN "both" ELSE "fails"

\* Mistake: A lower bound is overlooked.
QuantityReach_max(n) == IF n.max # 1 THEN "succeeds" ELSE
                        IF n.min > 0 THEN reach(n.expr) ELSE "succeeds"
QuantityReach(n) ==
    CASE n.max > 1 \/ n.max < 0 ->
             IF n.min = 0 THEN "succeeds"
             ELSE IF reach(n.expr) = "fails" THEN "fails" ELSE "both"
      [] n.max = 1 /\ n.min > 0 -> reach(n.expr)
      [] OTHER -> "succeeds"

PredicateReach(n) ==
    LET r == reach(n.expr)
    IN  IF ~n.neg \/ r = "both" THEN r ELSE IF r = "fails" THEN "succeeds" ELSE "fails"

reach(n) ==
    CASE n.type = "String" -> IF n.value = <<>> THEN "succeeds" ELSE "both"
      [] n.type = "Quantity" -> QuantityReach(n)
      [] n.type = "Predicate" -> PredicateReach(n)
      [] n.type = "Sequence" -> SequenceReach({reach(n.nodes[i]) : i \in DOMAIN n.nodes})
      [] n.type = "Alternate" -> AlternateReach(n.nodes)
      [] n.type \in {"Capture", "Error"} -> reach(n.expr)
      [] n.type = "Action" -> "succeeds"
      [] OTHER -> "both"

-----------------------------------------------------------------------------
(* The buffer *)

\* What pcc_refill_buffer can make available at the cursor.
Available(s) == Len(s.input) - (s.pos + s.cur)
CharAt(s, i) == s.input[s.pos + s.cur + i]
Fail(s) == [s EXCEPT !.ok = FALSE]
Skip(s, n) == [s EXCEPT !.cur = @ + n]
MatchText(s, text) ==
    IF /\ Available(s) >= Len(text)
       /\ \A i \in DOMAIN text : CharAt(s, i) = text[i]
    THEN Skip(s, Len(text)) ELSE Fail(s)

\* The number of bytes of the UTF-8 character that c starts, 0 for none.
Utf8Length(c) ==
    CASE c < 128 -> 1 [] c \in 192..223 -> 2 [] c \in 224..239 -> 3
      [] c \in 240..247 -> 4 [] c \in 248..251 -> 5 [] c \in 252..253 -> 6 [] OTHER -> 0
Utf8Least == <<0, 128, 2048, 65536, 2097152, 67108864>>
Utf8Lead(c, n) == IF n = 1 THEN c ELSE c % (2 ^ (7 - n))

\* The character at the cursor and its length: length 0 when none is valid.
pcc_get_char_as_utf32(s) ==
    IF Available(s) < 1 THEN [n |-> 0, u |-> 0] ELSE
    LET c == CharAt(s, 1)
        n == Utf8Length(c)
        u == IF n = 0 \/ Available(s) < n THEN 0
             ELSE FoldLeft(LAMBDA v, i : v * 64 + (CharAt(s, i) % 64),
                           Utf8Lead(c, n), [i \in 1..(n - 1) |-> i + 1])
    IN  IF /\ n > 0 /\ Available(s) >= n
           /\ \A i \in 2..n : CharAt(s, i) \in 128..191
           /\ u >= Utf8Least[n]
        THEN [n |-> n, u |-> u] ELSE [n |-> 0, u |-> 0]

Backslash == 92
Hyphen == 45
Caret == 94

Unescaped(v, i) == IF v[i] = Backslash /\ i < Len(v) THEN i + 1 ELSE i

RECURSIVE ClassMembers(_, _, _)
\* The characters that the body v of a class lists from i on: ranges and single
\* characters, which a backslash may escape; a hyphen at the end is itself.  In
\* ASCII mode a backslash does not escape the end of a range.
ClassMembers(v, i, ascii) ==
    IF i > Len(v) THEN {} ELSE
    LET j == Unescaped(v, i) IN
    IF j + 2 > Len(v) \/ v[j + 1] # Hyphen
    THEN {v[j]} \union ClassMembers(v, j + 1, ascii)
    ELSE LET k == IF ascii THEN j + 2 ELSE Unescaped(v, j + 2)
         IN  v[j]..v[k] \union ClassMembers(v, k + 1, ascii)

\* Whether u is in the class v.  A lone caret is itself in ASCII mode and any
\* character otherwise.
InClass(v, u, ascii) ==
    IF v = <<>> \/ (v = <<Caret>> /\ ~ascii) THEN TRUE
    ELSE IF v[1] = Caret /\ Len(v) > 1 THEN u \notin ClassMembers(v, 2, ascii)
    ELSE u \in ClassMembers(v, 1, ascii)

matching_charclass(s, v) ==
    LET c == IF ~s.ascii THEN pcc_get_char_as_utf32(s)
             ELSE IF Available(s) < 1 THEN [n |-> 0, u |-> 0]
             ELSE [n |-> 1, u |-> CharAt(s, 1)]
    IN  IF c.n > 0 /\ InClass(v, c.u, s.ascii) THEN Skip(s, c.n) ELSE Fail(s)

-----------------------------------------------------------------------------
(* The code of a node.  Each operator gives the state after the code has run, *)
(* at its end or (ok FALSE) at its failure label.                             *)

RECURSIVE run(_, _), run_sequence(_, _, _), run_alternates(_, _, _, _), run_loop(_, _, _, _)
RECURSIVE pcc_apply_rule(_, _)

\* Mistake: The thunks of what failed stay.
Revert_thunks(s, t) == [s EXCEPT !.ok = TRUE, !.cur = t.cur]
\* Back to the cursor and the thunks of t.
Revert(s, t) == [s EXCEPT !.ok = TRUE, !.cur = t.cur, !.thunks = SubSeq(@, 1, Len(t.thunks))]

run_sequence(nodes, i, s) ==
    IF i > Len(nodes) \/ ~s.ok THEN s ELSE run_sequence(nodes, i + 1, run(nodes[i], s))

\* x is the state after alternative i: the next one starts where the first did.
run_alternates(nodes, i, x, s) ==
    IF x.ok THEN x
    ELSE IF i = Len(nodes) THEN Fail(Revert(x, s))
    ELSE run_alternates(nodes, i + 1, run(nodes[i + 1], Revert(x, s)), s)

Enough(n, i, s0, s) == IF i < n.min THEN Fail(Revert(s, s0)) ELSE s

\* One round has been made from s into x; i rounds were completed before it.
\* A round that consumes nothing ends the loop without being counted.
run_loop(n, i, x, s) ==
    IF ~x.ok THEN <<i, Revert(x, s)>>
    ELSE IF x.cur = s.cur THEN <<i, x>>
    ELSE IF i + 1 = n.max THEN <<i + 1, x>>
    ELSE run_loop(n, i + 1, run(n.expr, x), x)

AfterLoop(n, loop, s) == Enough(n, loop[1], s, loop[2])

AfterOption(x, s) == IF x.ok THEN x ELSE Revert(x, s)

quantifying(n, s) ==
    CASE n.max > 1 \/ n.max < 0 -> AfterLoop(n, run_loop(n, 0, run(n.expr, s), s), s)
      [] n.max = 1 /\ n.min > 0 -> run(n.expr, s)
      [] n.max = 1 /\ n.min = 0 -> AfterOption(run(n.expr, s), s)
      [] OTHER -> s

\* The cursor is restored either way; the thunks never are.
predicating(n, x, s) == [x EXCEPT !.ok = (x.ok # n.neg), !.cur = s.cur]

\* A programmable predicate: its code sees the text of the rule so far.
progpred(n, s) ==
    IF (SubSeq(s.input, s.pos + s.start + 1, s.pos + s.cur) \in n.code) # n.neg
    THEN s ELSE Fail(s)

capturing(n, x, s) ==
    IF x.ok THEN [x EXCEPT !.capts[n.index + 1] = <<s.cur, x.cur>>] ELSE x

\* The text of a capture again.
expanding(n, s) ==
    LET r == s.capts[n.index + 1]
    IN  MatchText(s, SubSeq(s.input, s.pos + r[1] + 1, s.pos + r[2]))

Leaf(n, s) == [action |-> n.code, from |-> s.pos + s.start, to |-> s.pos + s.cur]
thunking_action(n, s) == [s EXCEPT !.thunks = Append(@, Leaf(n, s))]

\* The action of a failed expression runs at once, and the failure goes on.
thunking_error(n, x) == IF x.ok THEN x ELSE [x EXCEPT !.errs = Append(@, Leaf(n, x))]

run(n, s) ==
    CASE n.type = "Reference" -> pcc_apply_rule(n.name, s)
      [] n.type = "String" -> MatchText(s, n.value)
      [] n.type = "Charclass" -> matching_charclass(s, n.value)
      [] n.type = "Position" -> IF s.pos + s.cur = 0 THEN s ELSE Fail(s)
      [] n.type = "Quantity" -> quantifying(n, s)
      [] n.type = "Predicate" -> predicating(n, run(n.expr, s), s)
      [] n.type = "Progpred" -> progpred(n, s)
      [] n.type = "Sequence" -> run_sequence(Written(n.nodes, "fails"), 1, s)
      [] n.type = "Alternate" ->
             run_alternates(Written(n.nodes, "succeeds"), 1, run(n.nodes[1], s), s)
      [] n.type = "Capture" -> capturing(n, run(n.expr, s), s)
      [] n.type = "Expand" -> expanding(n, s)
      [] n.type = "Action" -> thunking_action(n, s)
      [] n.type = "Error" -> thunking_error(n, run(n.expr, s))

-----------------------------------------------------------------------------
(* The memo table, by position: index p + tab.o holds the answers and the     *)
(* growing head of position p.                                                *)

NoAnswer == [type |-> "none"]
EmptyTable == [o |-> 0, m |-> 0, n |-> 0, memo |-> <<>>, head |-> <<>>]

RECURSIVE Doubled(_, _)
Doubled(m, n) == IF m >= n THEN m ELSE Doubled(2 * m, n)

pcc_lr_table__resize(t, index) ==
    IF index < t.n THEN t
    ELSE [t EXCEPT !.n = index + 1,
                   !.m = IF @ > index THEN @ ELSE Doubled(IF @ = 0 THEN 2 ELSE @, index + 1)]

get_answer(t, p, rule) ==
    IF p + t.o < t.n /\ <<p + t.o, rule>> \in DOMAIN t.memo
    THEN t.memo[<<p + t.o, rule>>] ELSE NoAnswer
get_head(t, p) ==
    IF p + t.o < t.n /\ p + t.o \in DOMAIN t.head THEN t.head[p + t.o] ELSE NoHead
set_answer(t, p, rule, a) ==
    [pcc_lr_table__resize(t, p + t.o) EXCEPT !.memo = (<<p + t.o, rule>> :> a) @@ @]
set_head(t, p, h) ==
    [pcc_lr_table__resize(t, p + t.o) EXCEPT !.head = ((p + t.o) :> h) @@ @]

LrAnswer(p, e) == [type |-> "LR", pos |-> p, lr |-> e]
ChunkAnswer(p, c) == [type |-> "chunk", pos |-> p, chunk |-> c]

Moved(f, Keep(_), Move(_)) ==
    LET D == {k \in DOMAIN f : Keep(k)}
    IN  [j \in {Move(k) : k \in D} |-> f[CHOOSE k \in D : Move(k) = j]]

Compacted(t) ==
    IF t.o <= t.m \div 2 THEN t
    ELSE [t EXCEPT !.o = 0, !.n = @ - t.o,
                   !.memo = Moved(@, LAMBDA k : TRUE, LAMBDA k : <<k[1] - t.o, k[2]>>),
                   !.head = Moved(@, LAMBDA k : TRUE, LAMBDA k : k - t.o)]

\* The entries of count positions are dropped; the positions asked for later
\* are still absolute.
pcc_lr_table__shift(t, count) ==
    LET o == t.o + Min({count, t.n - t.o})
    IN  Compacted([t EXCEPT !.o = o,
                            !.memo = Moved(@, LAMBDA k : k[1] >= o, LAMBDA k : k),
                            !.head = Moved(@, LAMBDA k : k >= o, LAMBDA k : k)])

-----------------------------------------------------------------------------
(* Applying a rule *)

rule_set_index(q, rule) == SelectInSeq(q, LAMBDA r : r = rule)
rule_set_add(q, rule) == IF rule_set_index(q, rule) = 0 THEN Append(q, rule) ELSE q
\* The members behind the removed one move up, and their number stays.
rule_set_remove(q, i) == [k \in DOMAIN q |-> IF k >= i /\ k < Len(q) THEN q[k + 1] ELSE q[k]]

Chunk(x) == IF x.ok THEN [thunks |-> x.thunks] ELSE NoChunk

\* Back in the caller's chunk, with the chunk of the rule as the result.
Evaluated(x, s) ==
    [x EXCEPT !.result = Chunk(x),
              !.start = s.start, !.thunks = s.thunks, !.capts = s.capts]

evaluate(rule, s) ==
    Evaluated(run(s.g[rule].expr,
                  [s EXCEPT !.ok = TRUE, !.start = s.cur, !.thunks = <<>>,
                            !.capts = [i \in 1..s.g[rule].capts |-> <<0, 0>>]]), s)

Answered(x, c) ==
    IF c = NoChunk THEN Fail(x)
    ELSE [x EXCEPT !.ok = TRUE, !.thunks = Append(@, [node |-> c.thunks])]

WithHead(s, e, rule) ==
    IF s.lr[e].head # NoHead THEN s
    ELSE [s EXCEPT !.lr[e].head = Len(s.hd) + 1,
                   !.hd = Append(@, [rule |-> rule, invol |-> <<>>, eval |-> <<>>])]

\* The rules being evaluated above the last one of head h are involved in it.
Involve(s, h) ==
    LET j == SelectLastInSeq(s.stack, LAMBDA e : s.lr[e].head = h)
        above == Reverse(SubSeq(s.stack, j + 1, Len(s.stack)))
    IN  [s EXCEPT !.lr = [e \in DOMAIN @ |-> IF e \in ToSet(above) THEN [@[e] EXCEPT !.head = h]
                                             ELSE @[e]],
                  !.hd[h].invol = FoldLeft(LAMBDA q, e : rule_set_add(q, s.lr[e].rule), @, above)]

\* The answer of the memo table: the seed of a recursion under way, or a chunk.
Recalled(s, a, rule) ==
    IF a.type = "chunk" THEN Answered([s EXCEPT !.cur = a.pos - s.pos], a.chunk)
    ELSE LET x == WithHead([s EXCEPT !.cur = a.pos - s.pos], a.lr, rule)
         IN  Answered(Involve(x, x.lr[a.lr].head), x.lr[a.lr].seed)

RECURSIVE grow(_, _, _, _, _)
\* Evaluating the rule of a head again from p, as long as it reaches further
\* than the answer a; x is the state after the last evaluation.
grow(x, rule, p, h, a) ==
    IF x.result = NoChunk \/ x.pos + x.cur <= a.pos
    THEN Answered([x EXCEPT !.tab = set_head(@, p, NoHead), !.cur = a.pos - x.pos], a.chunk)
    ELSE LET b == ChunkAnswer(x.pos + x.cur, x.result)
         IN  grow(evaluate(rule, [x EXCEPT !.tab = set_answer(@, p, rule, b), !.cur = p - x.pos,
                                           !.hd[h].eval = x.hd[h].invol]), rule, p, h, b)

StartGrowing(x, rule, p, h, a) ==
    grow(evaluate(rule, [x EXCEPT !.tab = set_head(set_answer(@, p, rule, a), p, h),
                                  !.cur = p - x.pos, !.hd[h].eval = x.hd[h].invol]), rule, p, h, a)

\* The first evaluation of the rule at p, of entry e, has ended in x.
FirstAnswer(x, rule, p, e) ==
    LET h == x.lr[e].head
        a == ChunkAnswer(x.pos + x.cur, x.result)
    IN  IF h = NoHead \/ (x.hd[h].rule = rule /\ x.result = NoChunk)
        THEN Answered([x EXCEPT !.tab = set_answer(@, p, rule, a)], x.result)
        ELSE IF x.hd[h].rule = rule THEN StartGrowing(x, rule, p, h, a)
        ELSE Answered([x EXCEPT !.lr[e].seed = x.result,
                                !.tab = set_answer(@, p, rule, LrAnswer(x.pos + x.cur, e))],
                      x.result)

Pushed(s, rule, p) ==
    [s EXCEPT !.lr = Append(@, [rule |-> rule, seed |-> NoChunk, head |-> NoHead]),
              !.stack = Append(@, Len(s.lr) + 1),
              !.tab = set_answer(@, p, rule, LrAnswer(p, Len(s.lr) + 1))]
Popped(x) == [x EXCEPT !.stack = Front(@)]

EvaluateFirst(rule, s, p) ==
    FirstAnswer(Popped(evaluate(rule, Pushed(s, rule, p))), rule, p, Len(s.lr) + 1)

\* A rule that the growing head of the position involves is evaluated once more.
EvaluateInvolved(x) == Answered(x, x.result)

ApplyRule(rule, s, p, a, h) ==
    IF h # NoHead /\ a = NoAnswer /\ rule # s.hd[h].rule /\ rule_set_index(s.hd[h].invol, rule) = 0
    THEN Fail(s)
    ELSE IF h # NoHead /\ rule_set_index(s.hd[h].eval, rule) # 0
    THEN EvaluateInvolved(evaluate(rule,
             [s EXCEPT !.hd[h].eval = rule_set_remove(@, rule_set_index(@, rule))]))
    ELSE IF a # NoAnswer THEN Recalled(s, a, rule) ELSE EvaluateFirst(rule, s, p)

pcc_apply_rule(rule, s) ==
    ApplyRule(rule, s, s.pos + s.cur,
              get_answer(s.tab, s.pos + s.cur, rule), get_head(s.tab, s.pos + s.cur))

-----------------------------------------------------------------------------
(* The interface: create, parse, and the actions of a parse *)

RECURSIVE pcc_do_action(_)
\* The leaves of the thunks in order.
pcc_do_action(thunks) ==
    FlattenSeq([i \in DOMAIN thunks |-> IF "node" \in DOMAIN thunks[i]
                                        THEN pcc_do_action(thunks[i].node) ELSE <<thunks[i]>>])

pcc_context__create(g, ascii, input) ==
    [g |-> g, ascii |-> ascii, input |-> input, pos |-> 0, cur |-> 0, ok |-> TRUE,
     start |-> 0, thunks |-> <<>>, capts |-> <<>>, result |-> NoChunk, tab |-> EmptyTable,
     lr |-> <<>>, hd |-> <<>>, stack |-> <<>>, errs |-> <<>>]

pcc_commit_buffer(s) ==
    [s EXCEPT !.pos = @ + s.cur, !.cur = 0, !.tab = pcc_lr_table__shift(@, s.cur)]

\* The rest of a call of parse after its first rule has been applied: a failure
\* calls PCC_ERROR, which ends the process.
AfterParse(x) == pcc_commit_buffer([x EXCEPT !.thunks = <<>>])
=============================================================================
