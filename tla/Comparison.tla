----------------------------- MODULE Comparison -----------------------------
(***************************************************************************)
(* An arithmetic or a logic operation of the executor followed by the      *)
(* conditional branches that read its flags.  The flags are computed from  *)
(* sign bits alone (set_flags, set_logic_flags); the branches mean order    *)
(* relations between the operands.  That the two agree is what a program    *)
(* that compares and branches relies on.                                   *)
(***************************************************************************)
EXTENDS Cpu

CONSTANTS Operands,         \* the values in the two registers
          Sizes,            \* the size codes
          StatusRegisters   \* the registers an operation may start from

ASSUME ComparisonInputs ==
  /\ Operands \subseteq Long
  /\ Sizes \subseteq {0, 1, 2, 3}
  /\ StatusRegisters \subseteq StatusRegister

VARIABLES
  sr,        \* the status register
  before,    \* the status register before the operation
  operation  \* the operation done: its kind, size and operands

vars == <<sr, before, operation>>

Kinds == {"none", "add", "sub", "logic"}

Operation == [kind : Kinds, size : {0, 1, 2, 3}, S : Long, D : Long]

(* The result, of which the operation keeps the low part. *)
Result(op) ==
  CASE op.kind = "add" -> AddLong(op.D, op.S)
    [] op.kind = "sub" -> SubLong(op.D, op.S)
    [] OTHER -> AndLong(op.D, op.S)

Init ==
  /\ before \in StatusRegisters
  /\ sr = before
  /\ operation = [kind |-> "none", size |-> 0, S |-> ZeroLong, D |-> ZeroLong]

Arithmetic(kind, size, S, D) ==
  /\ operation.kind = "none"
  /\ operation' = [kind |-> kind, size |-> size, S |-> S, D |-> D]
  /\ sr' = set_flags(sr, S, D, Result(operation'), size, kind = "sub")
  /\ UNCHANGED before

Logic(size, S, D) ==
  /\ operation.kind = "none"
  /\ operation' = [kind |-> "logic", size |-> size, S |-> S, D |-> D]
  /\ sr' = set_logic_flags(sr, Result(operation'), size)
  /\ UNCHANGED before

Next ==
  \E size \in Sizes, S \in Operands, D \in Operands :
    \/ \E kind \in {"add", "sub"} : Arithmetic(kind, size, S, D)
    \/ Logic(size, S, D)

Spec == Init /\ [][Next]_vars

-----------------------------------------------------------------------------
TypeOK ==
  /\ sr \in StatusRegister /\ before \in StatusRegister
  /\ operation \in Operation

(* The order of two operands as unsigned and as signed numbers of the size. *)
Below(x, y, size) ==
  LET u == Truncate(x, size)
      v == Truncate(y, size)
  IN  u.hi < v.hi \/ (u.hi = v.hi /\ u.lo < v.lo)

Same(x, y, size) == Truncate(x, size) = Truncate(y, size)

Less(x, y, size) ==
  IF Msb(x, size) = Msb(y, size) THEN Below(x, y, size) ELSE Msb(x, size)

(* After D - S: BHI, BLS, BCC, BCS, BEQ and BNE branch as the unsigned D     *)
(* compares with the unsigned S.                                             *)
UnsignedBranches ==
  operation.kind = "sub" =>
    LET S == operation.S
        D == operation.D
        n == operation.size
    IN  /\ branch_taken(2, sr) <=> Below(S, D, n)
        /\ branch_taken(3, sr) <=> Below(D, S, n) \/ Same(D, S, n)
        /\ branch_taken(4, sr) <=> ~Below(D, S, n)
        /\ branch_taken(5, sr) <=> Below(D, S, n)
        /\ branch_taken(6, sr) <=> ~Same(D, S, n)
        /\ branch_taken(7, sr) <=> Same(D, S, n)

(* BGE, BLT, BGT and BLE branch as the signed D compares with the signed S. *)
SignedOrder(S, D, n) ==
  /\ branch_taken(12, sr) <=> ~Less(D, S, n)
  /\ branch_taken(13, sr) <=> Less(D, S, n)
  /\ branch_taken(14, sr) <=> Less(S, D, n)
  /\ branch_taken(15, sr) <=> Less(D, S, n) \/ Same(D, S, n)

(* After D - S of operands of one sign, whose difference cannot overflow,    *)
(* the signed branches are right.                                            *)
SignedBranchesOfLikeSigns ==
  operation.kind = "sub" /\ Msb(operation.S, operation.size) = Msb(operation.D, operation.size)
    => SignedOrder(operation.S, operation.D, operation.size)

(* What the names of the branches say (executor.c:609-612, and the labels    *)
(* GREATER_EQUAL, LESS_THAN, ... of test.s:61-76): the same for every pair.  *)
SignedBranches ==
  operation.kind = "sub" => SignedOrder(operation.S, operation.D, operation.size)

(* The sum of S and D without a bound is negative: both are, or one of them  *)
(* is and so is their wrapped sum R, which then cannot overflow.             *)
SumNegative(S, D, R, n) ==
  \/ Msb(S, n) /\ Msb(D, n)
  \/ (Msb(S, n) \/ Msb(D, n)) /\ Msb(R, n)

(* After D + S: BCS branches when the sum has wrapped below its operands,    *)
(* X is the same carry, for a chain of additions to use, and BLT branches    *)
(* when the sum is negative, its overflow notwithstanding.                   *)
AdditionBranches ==
  operation.kind = "add" =>
    LET S == operation.S
        D == operation.D
        n == operation.size
        R == Result(operation)
    IN  /\ branch_taken(5, sr) <=> Below(R, D, n)
        /\ SR_X \in sr <=> SR_C \in sr
        /\ branch_taken(13, sr) <=> SumNegative(S, D, R, n)

(* After a logic operation the signed branches compare its result with zero, *)
(* whatever the flags were before, and X is what it was.                     *)
LogicBranches ==
  operation.kind = "logic" =>
    LET R == Result(operation)
        n == operation.size
    IN  /\ branch_taken(13, sr) <=> Less(R, ZeroLong, n)
        /\ branch_taken(14, sr) <=> Less(ZeroLong, R, n)
        /\ branch_taken(7, sr) <=> Same(R, ZeroLong, n)
        /\ SR_X \in sr <=> SR_X \in before

=============================================================================
