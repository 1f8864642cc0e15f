------------------------------ MODULE Programs ------------------------------
(***************************************************************************)
(* Programs for the executor, loaded the way main loads its own: by          *)
(* mem_write_word after mem_init.                                           *)
(***************************************************************************)
EXTENDS Executor, FiniteSets, SequencesExt

Loaded(words, at) ==
  FoldLeftDomain(LAMBDA m, i : mem_write_word(m, at + 2 * (i - 1), words[i], TRUE),
                 mem_init, words)

MOVE(size, dest, src) ==
  LET code == CASE size = 0 -> 1 [] size = 1 -> 3 [] OTHER -> 2
  IN  4096 * code + 512 * (dest % 8) + 64 * (dest \div 8) + src

(* MOVE.L #x,Dn *)
LoadRegister(n, x) == << MOVE(2, n, 60), x.hi, x.lo >>

=============================================================================
