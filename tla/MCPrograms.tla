---------------------------- MODULE MCPrograms -----------------------------
(***************************************************************************)
(* Three kinds of program.  One is one MOVE between every two kinds of        *)
(* operand, after a few that give D0, A1 and A7 the values it needs.  One     *)
(* runs every arithmetic, logic and bit instruction on two data registers     *)
(* loaded with boundary values, then a branch of every condition.  The other  *)
(* loops: the countdown of main's own program with other starts, steps and    *)
(* conditions, a stack that grows down into the program, a copy that wraps, a *)
(* program that overwrites its own branch by RTS, and one that never ends;    *)
(* the log's buffer must grow.                                               *)
(***************************************************************************)
EXTENDS Programs

(* The words that follow the instruction under test: displacements and        *)
(* extension words of either format.                                         *)
ExtensionWords == { <<6, 4099>>, <<291, 310>>, <<310, 6>> }

Setup == << MOVE(1, 0, 60), 258, MOVE(1, 9, 60), 6, MOVE(1, 15, 60), 20 >>

Sources == {0, 9, 16 + 1, 24 + 7, 32 + 7, 40 + 1, 48 + 1, 56, 57, 58, 59, 60}
Destinations == {1, 8 + 1, 16 + 1, 24 + 7, 32 + 7, 40 + 1, 48 + 1, 56, 57, 59, 60}

Moves == { MOVE(size, dest, src) : size \in {0, 1, 2}, dest \in Destinations, src \in Sources }

MovePrograms ==
  { Setup \o <<op>> \o ext : op \in Moves, ext \in ExtensionWords }

-----------------------------------------------------------------------------
L(hi, lo) == [hi |-> hi, lo |-> lo]

Values == { L(0, 0), L(0, 1), L(0, 128), L(1, 255), L(0, 32768), L(32767, 65535),
            L(32768, 0), L(65535, 65535) }

SomeValues == { L(0, 0), L(0, 1), L(65535, 65535) }

Size(code) == 64 * code

(* ADDQ, SUBQ of 8 or 1 from D0; ADD, SUB of D1 and D0; MOVEA of D1. *)
OneWord ==
  { \h5000 + 512 * q + 256 * sub + Size(s) : q \in {0, 1}, sub \in {0, 1}, s \in 0 .. 3 }
  \cup { base + Size(s) + 1 : base \in {\h9000, \hD000}, s \in 0 .. 3 }
  \cup { MOVE(s, 8, 1) : s \in 0 .. 2 }

(* ANDI, SUBI, ADDI and the bit operations on D0. *)
WithData ==
  { base + Size(s) : base \in {\h0200, \h0400, \h0600}, s \in 0 .. 2 }
  \cup { \h0800 + Size(s) : s \in 0 .. 3 }

Branches == { \h6000 + 256 * condition + 2 : condition \in 0 .. 15 }

ArithmeticPrograms ==
  { LoadRegister(0, x) \o LoadRegister(1, y) \o <<op, RTS>> :
      x \in Values, y \in Values, op \in OneWord }
  \cup { LoadRegister(0, x) \o LoadRegister(1, x) \o <<op, y.lo, y.hi, RTS>> :
      x \in Values, y \in Values, op \in WithData }
  \cup { LoadRegister(0, x) \o LoadRegister(1, y) \o <<\h9041, branch, RTS, \h4E71, RTS>> :
      x \in SomeValues, y \in SomeValues, branch \in Branches }

-----------------------------------------------------------------------------
(* MOVE.W #n,D0; SUBQ.W #k,D0; Bcc back; RTS *)
Countdown(n, k, condition) ==
  << MOVE(1, 0, 60), n, \h5140 + 512 * k, \h6000 + 256 * condition + \hFC, RTS >>

(* Bcc back to the word before it, and to itself. *)
BackOne == \h60FC
BackHere == \h60FE

LoopPrograms ==
  { Countdown(n, k, condition) : n \in {0, 1, 3, 12, 32769}, k \in {1, 2}, condition \in 0 .. 15 }
  \cup { << MOVE(size, 39, 0), BackOne >> : size \in 0 .. 2 }
  \cup { << MOVE(size, 39, 25), BackOne >> : size \in 0 .. 2 }
  \cup { << MOVE(1, 56, 60), RTS, 14, BackHere >>, << BackHere >> }

MCLoaded == { Loaded(p, 8) : p \in MovePrograms \cup ArithmeticPrograms \cup LoopPrograms }
MCStart == { FromWord(8) }
=============================================================================
