------------------------------ MODULE PegLinker ------------------------------
(* What PackCC does with the rules it has read, before it writes code (parse  *)
(* in src/src/packcc.c): the hash table of rules, the references linked to    *)
(* their rules and counted, the rules that the first one does not use         *)
(* dropped, and the variables and captures that each action can see.          *)
(*                                                                            *)
(* The state of a linker is a record k: rules; hash, the slots of the table   *)
(* (0, or the index of a rule) over 0..mask; links, for each rule the rules   *)
(* that its references are linked to (0 for none); errnum.                    *)
EXTENDS PegSyntax

CONSTANT HashOf  \* hash_string of the name of a rule

Children(n) ==
    CASE n.type \in {"Sequence", "Alternate"} -> n.nodes
      [] n.type \in {"Quantity", "Predicate", "Capture", "Error"} -> <<n.expr>>
      [] OTHER -> <<>>

RECURSIVE References(_)
\* The names that the references below a node have, in order.
References(n) ==
    IF n.type = "Reference" THEN <<n.name>>
    ELSE FlattenSeq([i \in DOMAIN Children(n) |-> References(Children(n)[i])])

-----------------------------------------------------------------------------
(* The table of rules *)

RECURSIVE populate_bits(_)
populate_bits(x) == IF x = 0 THEN 0 ELSE 2 * populate_bits(x \div 2) + 1

\* The slot of a name: its own, or the first free one from its hash on.
RECURSIVE SlotOf(_, _, _)
SlotOf(k, name, j) ==
    IF k.hash[j] = 0 \/ k.rules[k.hash[j]].name = name THEN j
    ELSE SlotOf(k, name, (j + 1) % (k.mask + 1))
HashSlot(k, name) == HashOf[name] % (k.mask + 1)

\* A name defined again marks both of its rules.
EnterRule(k, i) ==
    LET j == SlotOf(k, k.rules[i].name, HashSlot(k, k.rules[i].name))
    IN  IF k.hash[j] = 0 THEN [k EXCEPT !.hash[j] = i]
        ELSE [k EXCEPT !.rules[i].ref = -1, !.rules[k.hash[j]].ref = -1]

make_rulehash(rules, errnum) ==
    LET mask == populate_bits(4 * Len(rules))
    IN  FoldLeft(EnterRule,
                 [rules |-> rules, mask |-> mask, hash |-> [j \in 0..mask |-> 0],
                  links |-> [i \in DOMAIN rules |-> <<>>], errnum |-> errnum],
                 [i \in DOMAIN rules |-> i])

\* Mistake: A name is looked for at its own slot only.
lookup_rulehash_first(k, name) == k.hash[HashSlot(k, name)]
lookup_rulehash(k, name) == k.hash[SlotOf(k, name, HashSlot(k, name))]

-----------------------------------------------------------------------------
(* The references *)

Count(k, r) ==
    IF r = 0 THEN [k EXCEPT !.errnum = @ + 1]
    ELSE IF k.rules[r].ref >= 0 THEN [k EXCEPT !.rules[r].ref = @ + 1] ELSE k

\* The references of rule i; the rule of a name defined twice is left alone.
link_references(k, i) ==
    LET names == References(k.rules[i].expr)
        linked == [j \in DOMAIN names |-> lookup_rulehash(k, names[j])]
    IN  IF k.rules[i].ref < 0 THEN [k EXCEPT !.errnum = @ + 1]
        ELSE [FoldLeft(Count, k, linked) EXCEPT !.links[i] = linked]

RECURSIVE mark_rules_if_used(_, _)
mark_rules_if_used(k, i) ==
    IF i = 0 \/ k.rules[i].used THEN k
    ELSE FoldLeft(mark_rules_if_used, [k EXCEPT !.rules[i].used = TRUE], k.links[i])

Uncount(k, r) ==
    IF r # 0 /\ k.rules[r].ref > 0 THEN [k EXCEPT !.rules[r].ref = @ - 1] ELSE k
unreference_rules_from_unused_rule(k, i) ==
    IF k.rules[i].used THEN k ELSE FoldLeft(Uncount, k, k.links[i])

-----------------------------------------------------------------------------
(* What the actions see.  Each operator gives the node with its lists filled  *)
(* in, and seen, the variables or captures that code after the node can use.  *)

RECURSIVE verify_rule_variables(_, _), verify_captures(_, _)

AddNew(seen, more) == seen \o SelectSeq(more, LAMBDA v : ~Contains(seen, v))

\* In order, each child sees what those before it add.
InOrder(nodes, seen, Verify(_, _)) ==
    FoldLeft(LAMBDA r, n : LET v == Verify(n, r.seen)
                           IN  [nodes |-> Append(r.nodes, v.node), seen |-> v.seen,
                                errors |-> r.errors + v.errors],
             [nodes |-> <<>>, seen |-> seen, errors |-> 0], nodes)

\* Side by side, each child sees what the whole does; what they add is joined.
SideBySide(nodes, seen, Verify(_, _)) ==
    FoldLeft(LAMBDA r, n : LET v == Verify(n, seen)
                           IN  [nodes |-> Append(r.nodes, v.node), seen |-> AddNew(r.seen, v.seen),
                                errors |-> r.errors + v.errors],
             [nodes |-> <<>>, seen |-> seen, errors |-> 0], nodes)

Verified(node, seen, errors) == [node |-> node, seen |-> seen, errors |-> errors]
Rebuilt(n, r) ==
    Verified(IF n.type \in {"Sequence", "Alternate"} THEN [n EXCEPT !.nodes = r.nodes]
             ELSE IF Children(n) = <<>> THEN n ELSE [n EXCEPT !.expr = r.nodes[1]],
             r.seen, r.errors)

verify_rule_variables(n, seen) ==
    CASE n.type = "Reference" ->
             Verified(n, IF n.index = NoVariable THEN seen ELSE AddNew(seen, <<n.index>>), 0)
      [] n.type = "Alternate" -> Rebuilt(n, SideBySide(n.nodes, seen, verify_rule_variables))
      [] n.type = "Action" -> Verified([n EXCEPT !.rvars = seen], seen, 0)
      [] n.type = "Error" ->
             Rebuilt([n EXCEPT !.rvars = seen], InOrder(<<n.expr>>, seen, verify_rule_variables))
      [] OTHER -> Rebuilt(n, InOrder(Children(n), seen, verify_rule_variables))

WithCapture(v, index) == [v EXCEPT !.seen = Append(@, index)]

verify_captures(n, seen) ==
    CASE n.type = "Capture" ->
             WithCapture(Rebuilt(n, InOrder(<<n.expr>>, seen, verify_captures)), n.index)
      [] n.type = "Alternate" -> Rebuilt(n, SideBySide(n.nodes, seen, verify_captures))
      [] n.type = "Expand" -> Verified(n, seen, IF Contains(seen, n.index) THEN 0 ELSE 1)
      [] n.type \in {"Action", "Progpred"} -> Verified([n EXCEPT !.capts = seen], seen, 0)
      [] n.type = "Error" ->
             Rebuilt([n EXCEPT !.capts = seen], InOrder(<<n.expr>>, seen, verify_captures))
      [] OTHER -> Rebuilt(n, InOrder(Children(n), seen, verify_captures))

VerifyRule(k, i) ==
    LET v == verify_captures(verify_rule_variables(k.rules[i].expr, <<>>).node, <<>>)
    IN  [k EXCEPT !.rules[i].expr = v.node, !.errnum = @ + v.errors]

-----------------------------------------------------------------------------
(* The whole *)

ForEachRule(k, Do(_, _)) == FoldLeft(Do, k, [i \in DOMAIN k.rules |-> i])

\* Linked and counted, and the rules marked that the first one uses.
Linked(rules, errnum) ==
    LET k == ForEachRule(make_rulehash(rules, errnum), link_references)
    IN  ForEachRule(IF rules = <<>> THEN k ELSE mark_rules_if_used(k, 1),
                    unreference_rules_from_unused_rule)

\* The rules that are left, each with what its actions see.
KeepUsed(k) == [k EXCEPT !.rules = SelectSeq(@, LAMBDA r : r.used)]
Verify(k) == ForEachRule(KeepUsed(k), VerifyRule)
=============================================================================
