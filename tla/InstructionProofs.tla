------------------------- MODULE InstructionProofs -------------------------
(***************************************************************************)
(* Two things every instruction relies on: that it is found, and that the   *)
(* flags it leaves mean what a conditional branch takes them for.            *)
(*                                                                         *)
(* The search through the instruction table finds handler_of for every       *)
(* opcode, and no opcode has two entries: a mask is looked at one            *)
(* hexadecimal digit at a time, and every entry asks for some digits of the   *)
(* opcode and for the low bits of others.                                    *)
(*                                                                         *)
(* The flags that set_flags computes from three sign bits order the         *)
(* operands: proved for every pair of 32-bit operands and every size, where *)
(* the run of Comparison samples the boundaries.  The argument leaves the    *)
(* pairs of words early: WordProofs turns signs, order, sums and            *)
(* differences into linear arithmetic on Value, the number that an           *)
(* operation of a size sees.                                                 *)
(***************************************************************************)
EXTENDS Comparison, Decoder, WordProofs, TLAPS

-----------------------------------------------------------------------------
(* The search stands at an entry, and no entry before it matches. *)
DecoderInv ==
  /\ opcode \in Word
  /\ i \in 1 .. 18
  /\ \A n \in 1 .. 17 : n < i => n \notin Matches(opcode)
  /\ handled # 0 => handled \in Matches(opcode)

LEMMA Entries == num_opcodes = 17 /\ DOMAIN instruction_table = 1 .. 17
  BY SMT DEF num_opcodes, instruction_table

LEMMA DecoderInvariant == DecoderSpec => []DecoderInv
<1>1. DecoderInit => DecoderInv
  <2> SUFFICES ASSUME DecoderInit PROVE DecoderInv
    OBVIOUS
  <2>1. opcode \in Word /\ i = 1 /\ handled = 0
    BY DecoderAssumption DEF DecoderInit
  <2> QED
    BY SMT, <2>1 DEF DecoderInv
<1>2. DecoderInv /\ [DecoderNext]_decoderVars => DecoderInv'
  <2> SUFFICES ASSUME DecoderInv, [DecoderNext]_decoderVars PROVE DecoderInv'
    OBVIOUS
  <2>1. CASE Handle
    BY <2>1 DEF Handle, DecoderInv, Matches
  <2>2. CASE TryNext
    <3>1. i \in 1 .. 17 /\ i' = i + 1 /\ i \notin Matches(opcode)
      BY SMT, <2>2, Entries DEF TryNext, Searching, DecoderInv
    <3>2. opcode' = opcode /\ handled' = handled /\ Matches(opcode') = Matches(opcode)
      BY <2>2 DEF TryNext
    <3>3. \A n \in 1 .. 17 : n < i' => n < i \/ n = i
      BY SMT, <3>1
    <3>4. i' \in 1 .. 18
      BY SMT, <3>1
    <3> QED
      BY <3>1, <3>2, <3>3, <3>4 DEF DecoderInv
  <2>3. CASE UNCHANGED decoderVars
    BY <2>3 DEF decoderVars, DecoderInv, Matches
  <2> QED
    BY <2>1, <2>2, <2>3 DEF DecoderNext
<1> QED
  BY <1>1, <1>2, PTL DEF DecoderSpec

(* Whatever opcodes execute_program meets, its search runs the handler of the  *)
(* first entry that matches and stops without one only if none does; and      *)
(* since no opcode has two entries, any order of the table would do.           *)
THEOREM DecoderCorrect == DecoderSpec => [](SearchFindsHandler /\ OneEntryMatches)
<1>1. DecoderInv => SearchFindsHandler /\ OneEntryMatches
  <2> SUFFICES ASSUME DecoderInv PROVE SearchFindsHandler /\ OneEntryMatches
    OBVIOUS
  <2>1. opcode \in Word /\ i \in Int /\ Matches(opcode) \subseteq 1 .. 17
    BY SMT, Entries DEF DecoderInv, Matches
  <2>2. handled # 0 => Matches(opcode) = {handled}
    BY <2>1, OneEntryAtMost DEF DecoderInv
  <2>3. SearchFindsHandler
    <3> SUFFICES ASSUME ~Searching
                 PROVE  handler_of(opcode) =
                          IF handled = 0 THEN "none" ELSE instruction_table[handled].handler
      BY DEF SearchFindsHandler
    <3>1. CASE handled = 0
      <4>1. i > 17
        BY SMT, <2>1, <3>1, Entries DEF Searching
      <4>2. \A n \in 1 .. 17 : n < i
        BY SMT, <2>1, <4>1
      <4>3. Matches(opcode) = {}
        BY <2>1, <4>2 DEF DecoderInv
      <4> QED
        BY <3>1, <4>3 DEF handler_of
    <3>2. CASE handled # 0
      <4>1. Matches(opcode) = {handled} /\ handled \in 1 .. 17
        BY <2>1, <2>2, <3>2
      <4>2. handled <= handled
        BY SMT, <4>1
      <4>3. (CHOOSE n \in {handled} : \A j \in {handled} : n <= j) = handled
        BY <4>2
      <4> QED
        BY <3>2, <4>1, <4>3 DEF handler_of
    <3> QED
      BY <3>1, <3>2
  <2> QED
    BY <2>2, <2>3 DEF OneEntryMatches
<1> QED
  BY <1>1, DecoderInvariant, PTL

-----------------------------------------------------------------------------
(* Each user flag after a logic operation. *)
LEMMA LogicFlags ==
  ASSUME NEW f, NEW R \in Long, NEW n \in SizeCodes
  PROVE  LET after == set_logic_flags(f, R, n)
         IN  /\ SR_Z \in after <=> Value(R, n) = 0
             /\ SR_N \in after <=> Msb(R, n)
             /\ SR_V \notin after /\ SR_C \notin after
             /\ SR_X \in after <=> SR_X \in f
<1> DEFINE Z == Truncate(R, n) = ZeroLong
           N == Msb(R, n)
           f0 == f \ {SR_C, SR_V}
           f1 == set_sr_flag(f0, SR_Z, Z)
           f2 == set_sr_flag(f1, SR_N, N)
<1>1. set_logic_flags(f, R, n) = f2
  BY DEF set_logic_flags
<1>2. Z <=> Value(R, n) = 0
  BY ZeroValue
<1> HIDE DEF Z, N
<1>3. /\ SR_V \notin f0 /\ SR_C \notin f0 /\ (SR_X \in f0 <=> SR_X \in f)
  BY DEF SR_C, SR_V, SR_X
<1>4. /\ (SR_Z \in f1 <=> Z) /\ (SR_V \in f1 <=> SR_V \in f0)
      /\ (SR_C \in f1 <=> SR_C \in f0) /\ (SR_X \in f1 <=> SR_X \in f0)
  <2> HIDE DEF f0
  <2> QED
    BY DEF set_sr_flag, SR_Z, SR_V, SR_C, SR_X
<1>5. /\ (SR_Z \in f2 <=> SR_Z \in f1) /\ (SR_V \in f2 <=> SR_V \in f1)
      /\ (SR_C \in f2 <=> SR_C \in f1) /\ (SR_X \in f2 <=> SR_X \in f1)
      /\ (SR_N \in f2 <=> N)
  <2> HIDE DEF f1
  <2> QED
    BY DEF set_sr_flag, SR_Z, SR_N, SR_V, SR_C, SR_X
<1> HIDE DEF f0, f1, f2
<1> QED
  BY Zenon, <1>1, <1>2, <1>3, <1>4, <1>5 DEF Z, N

-----------------------------------------------------------------------------
(* The branches as the flags they test. *)
LEMMA Conditions ==
  ASSUME NEW f
  PROVE  LET z == SR_Z \in f
             n == SR_N \in f
             v == SR_V \in f
             c == SR_C \in f
         IN  /\ branch_taken(2, f) <=> ~c /\ ~z
             /\ branch_taken(3, f) <=> c \/ z
             /\ branch_taken(4, f) <=> ~c
             /\ branch_taken(5, f) <=> c
             /\ branch_taken(6, f) <=> ~z
             /\ branch_taken(7, f) <=> z
             /\ branch_taken(12, f) <=> (n <=> v)
             /\ branch_taken(13, f) <=> ~(n <=> v)
             /\ branch_taken(14, f) <=> (n <=> v) /\ ~z
             /\ branch_taken(15, f) <=> z \/ ~(n <=> v)
<1> DEFINE z == SR_Z \in f
           n == SR_N \in f
           v == SR_V \in f
           c == SR_C \in f
<1>1. (branch_taken(2, f) <=> ~c /\ ~z) /\ (branch_taken(3, f) <=> c \/ z)
  BY SMT DEF branch_taken
<1>2. (branch_taken(4, f) <=> ~c) /\ (branch_taken(5, f) <=> c)
  BY SMT DEF branch_taken
<1>3. (branch_taken(6, f) <=> ~z) /\ (branch_taken(7, f) <=> z)
  BY SMT DEF branch_taken
<1>4. (branch_taken(12, f) <=> (n <=> v)) /\ (branch_taken(13, f) <=> ~(n <=> v))
  BY SMT DEF branch_taken
<1>5. (branch_taken(14, f) <=> (n <=> v) /\ ~z) /\ (branch_taken(15, f) <=> z \/ ~(n <=> v))
  BY SMT DEF branch_taken
<1> QED
  BY <1>1, <1>2, <1>3, <1>4, <1>5

(* The carry of a subtraction is its borrow, whatever the signs, ... *)
LEMMA SubtractionFlags ==
  ASSUME NEW f, NEW S \in Long, NEW D \in Long, NEW n \in SizeCodes
  PROVE  LET after == set_flags(f, S, D, SubLong(D, S), n, TRUE)
         IN  /\ SR_C \in after <=> Below(D, S, n)
             /\ SR_Z \in after <=> Same(D, S, n)
             /\ Msb(S, n) = Msb(D, n) =>
                  (Less(D, S, n) <=> ~(SR_N \in after <=> SR_V \in after))
<1> DEFINE R == SubLong(D, S)
           after == set_flags(f, S, D, R, n, TRUE)
           s == Value(S, n)
           d == Value(D, n)
           r == Value(R, n)
           h == Half(n)
<1>1. /\ R \in Long
      /\ r = IF s <= d THEN d - s ELSE d - s + 2 * h
  BY ValueSub
<1>2. /\ s \in Int /\ 0 <= s /\ s < 2 * h /\ (Msb(S, n) <=> s >= h)
      /\ d \in Int /\ 0 <= d /\ d < 2 * h /\ (Msb(D, n) <=> d >= h)
      /\ r \in Int /\ 0 <= r /\ r < 2 * h /\ (Msb(R, n) <=> r >= h)
  BY <1>1, ValueSign
<1>3. h \in Int
  BY SMT DEF Half
<1>4. /\ SR_Z \in after <=> r = 0
      /\ SR_N \in after <=> Msb(R, n)
      /\ SR_V \in after <=> overflow(TRUE, Msb(S, n), Msb(D, n), Msb(R, n))
  BY <1>1, FlagsOfArithmetic
<1>5. (Below(D, S, n) <=> d < s) /\ (Same(D, S, n) <=> d = s)
  BY ValueOrder DEF Below, Same
<1> HIDE DEF R, after, s, d, r, h
<1>6. SR_C \in after <=> d < s
  BY BorrowOfSubtraction DEF after, R, d, s
<1>7. r = 0 <=> d = s
  BY SMT, <1>1, <1>2, <1>3
<1>8. ASSUME Msb(S, n) = Msb(D, n)
      PROVE  Less(D, S, n) <=> ~(SR_N \in after <=> SR_V \in after)
  <2>1. Less(D, S, n) <=> d < s
    BY <1>5, <1>8 DEF Less
  <2>2. r >= h <=> d < s
    <3>1. d >= h <=> s >= h
      BY Zenon, <1>2, <1>8
    <3> QED
      BY SMT, <1>1, <1>2, <1>3, <3>1
  <2>3. ~overflow(TRUE, Msb(S, n), Msb(D, n), Msb(R, n))
    BY Zenon, <1>8 DEF overflow
  <2> QED
    BY Zenon, <1>2, <1>4, <2>1, <2>2, <2>3
<1> QED
  BY Zenon, <1>4, <1>5, <1>6, <1>7, <1>8 DEF after, R

(* ... and of an addition its wrap; N and V give the sign of the sum.      *)
LEMMA AdditionFlags ==
  ASSUME NEW f, NEW S \in Long, NEW D \in Long, NEW n \in SizeCodes
  PROVE  LET R     == AddLong(D, S)
             after == set_flags(f, S, D, R, n, FALSE)
         IN  /\ SR_C \in after <=> Below(R, D, n)
             /\ SR_X \in after <=> SR_C \in after
             /\ ~(SR_N \in after <=> SR_V \in after) <=> SumNegative(S, D, R, n)
<1> DEFINE R == AddLong(D, S)
           after == set_flags(f, S, D, R, n, FALSE)
           s == Value(S, n)
           d == Value(D, n)
           r == Value(R, n)
           h == Half(n)
           Sm == Msb(S, n)
           Dm == Msb(D, n)
           Rm == Msb(R, n)
<1>1. /\ R \in Long
      /\ r = IF d + s < 2 * h THEN d + s ELSE d + s - 2 * h
  BY ValueAdd
<1>2. /\ s \in Int /\ 0 <= s /\ s < 2 * h /\ (Sm <=> s >= h)
      /\ d \in Int /\ 0 <= d /\ d < 2 * h /\ (Dm <=> d >= h)
      /\ r \in Int /\ 0 <= r /\ r < 2 * h /\ (Rm <=> r >= h)
  BY <1>1, ValueSign
<1>3. h \in Int
  BY SMT DEF Half
<1>4. /\ SR_N \in after <=> Rm
      /\ SR_V \in after <=> overflow(FALSE, Sm, Dm, Rm)
      /\ SR_X \in after <=> SR_C \in after
  BY <1>1, FlagsOfArithmetic
<1>5. Below(R, D, n) <=> r < d
  BY <1>1, ValueOrder DEF Below, Same
<1> HIDE DEF R, after, s, d, r, h, Sm, Dm, Rm
<1>6. SR_C \in after <=> r < d
  BY CarryOfAddition DEF after, R, r, d
<1>7. ~(Rm <=> overflow(FALSE, Sm, Dm, Rm)) <=> (Sm /\ Dm) \/ ((Sm \/ Dm) /\ Rm)
  <2>1. overflow(FALSE, Sm, Dm, Rm) <=> (~Sm /\ ~Dm /\ Rm) \/ (Sm /\ Dm /\ ~Rm)
    BY DEF overflow
  <2> QED
    BY Zenon, <2>1
<1> QED
  BY Zenon, <1>4, <1>5, <1>6, <1>7 DEF after, R, Sm, Dm, Rm, SumNegative

-----------------------------------------------------------------------------
(* The flags are those of the operation, which was done on arbitrary flags. *)
Done ==
  LET S == operation.S
      D == operation.D
      n == operation.size
  IN  /\ operation.kind = "add" => sr = set_flags(before, S, D, AddLong(D, S), n, FALSE)
      /\ operation.kind = "sub" => sr = set_flags(before, S, D, SubLong(D, S), n, TRUE)
      /\ operation.kind = "logic" => sr = set_logic_flags(before, AndLong(D, S), n)
      /\ operation.kind = "none" => sr = before

IInv == TypeOK /\ Done

(* Before the operation nothing is done. *)
LEMMA IInvInit == Init => IInv
<1> SUFFICES ASSUME Init PROVE IInv
  OBVIOUS
<1>1. before \in StatusRegister /\ sr = before
  BY ComparisonInputs DEF Init
<1>2. ZeroLong \in Long
  BY ZeroFacts DEF SizeCodes
<1>3. operation \in Operation /\ operation.kind = "none"
  BY <1>2, SMT DEF Init, Operation, Kinds
<1> QED
  BY <1>1, <1>3 DEF IInv, TypeOK, Done

(* The operation leaves the flags it computes. *)
LEMMA IInvStep == IInv /\ [Next]_vars => IInv'
<1> SUFFICES ASSUME IInv, [Next]_vars PROVE IInv'
  OBVIOUS
<1> USE DEF IInv
<1>1. ASSUME NEW n \in Sizes, NEW S \in Operands, NEW D \in Operands,
             NEW kind \in {"add", "sub"}, Arithmetic(kind, n, S, D)
      PROVE  IInv'
  <2>1. n \in {0, 1, 2, 3} /\ S \in Long /\ D \in Long
    BY ComparisonInputs
  <2>2. operation' = [kind |-> kind, size |-> n, S |-> S, D |-> D]
    BY <1>1 DEF Arithmetic
  <2>3. /\ operation' \in Operation /\ operation'.kind = kind
        /\ operation'.size = n /\ operation'.S = S /\ operation'.D = D
    BY SMT, <2>1, <2>2 DEF Operation, Kinds
  <2>4. before' = before /\ before \in StatusRegister /\ sr = before
    BY <1>1 DEF Arithmetic, TypeOK, Done
  <2>5. sr' = set_flags(before, S, D, Result(operation'), n, kind = "sub")
    BY <1>1, <2>4 DEF Arithmetic
  <2>6. CASE kind = "add"
    <3>1. Result(operation') = AddLong(D, S)
      BY <2>3, <2>6 DEF Result
    <3>2. (kind = "sub") = FALSE
      BY <2>6
    <3>3. sr' = set_flags(before, S, D, AddLong(D, S), n, FALSE)
      BY <2>5, <3>1, <3>2
    <3>4. sr' \in StatusRegister
      BY <2>4, <3>3, SetFlagsType
    <3> QED
      BY <2>3, <2>4, <2>6, <3>3, <3>4 DEF TypeOK, Done
  <2>7. CASE kind = "sub"
    <3>1. Result(operation') = SubLong(D, S)
      BY <2>3, <2>7 DEF Result
    <3>2. (kind = "sub") = TRUE
      BY <2>7
    <3>3. sr' = set_flags(before, S, D, SubLong(D, S), n, TRUE)
      BY <2>5, <3>1, <3>2
    <3>4. sr' \in StatusRegister
      BY <2>4, <3>3, SetFlagsType
    <3> QED
      BY <2>3, <2>4, <2>7, <3>3, <3>4 DEF TypeOK, Done
  <2> QED
    BY <2>6, <2>7
<1>2. ASSUME NEW n \in Sizes, NEW S \in Operands, NEW D \in Operands, Logic(n, S, D)
      PROVE  IInv'
  <2>1. n \in {0, 1, 2, 3} /\ S \in Long /\ D \in Long
    BY ComparisonInputs
  <2>2. operation' = [kind |-> "logic", size |-> n, S |-> S, D |-> D]
    BY <1>2 DEF Logic
  <2>3. /\ operation' \in Operation /\ operation'.kind = "logic"
        /\ operation'.size = n /\ operation'.S = S /\ operation'.D = D
    BY SMT, <2>1, <2>2 DEF Operation, Kinds
  <2>4. before' = before /\ before \in StatusRegister /\ sr = before
    BY <1>2 DEF Logic, TypeOK, Done
  <2>5. Result(operation') = AndLong(D, S)
    BY <2>3 DEF Result
  <2>6. sr' = set_logic_flags(before, AndLong(D, S), n)
    BY <1>2, <2>4, <2>5 DEF Logic
  <2>7. sr' \in StatusRegister
    BY <2>4, <2>6, SetFlagsType
  <2> QED
    BY <2>3, <2>4, <2>6, <2>7 DEF TypeOK, Done
<1>3. CASE UNCHANGED vars
  BY <1>3 DEF vars, TypeOK, Done
<1> QED
  BY <1>1, <1>2, <1>3 DEF Next

(* The branches read those flags as the comparison they are named for. *)
LEMMA IInvBranches ==
  IInv => UnsignedBranches /\ SignedBranchesOfLikeSigns /\ AdditionBranches /\ LogicBranches
<1> SUFFICES ASSUME IInv
             PROVE  UnsignedBranches /\ SignedBranchesOfLikeSigns
                      /\ AdditionBranches /\ LogicBranches
  OBVIOUS
<1> DEFINE S == operation.S
           D == operation.D
           n == operation.size
<1>1. S \in Long /\ D \in Long /\ n \in SizeCodes
  BY SMT DEF IInv, TypeOK, Operation, SizeCodes
<1>2. CASE operation.kind = "sub"
  <2>1. sr = set_flags(before, S, D, SubLong(D, S), n, TRUE)
    BY <1>2 DEF IInv, Done
  <2>2. /\ SR_C \in sr <=> Below(D, S, n)
        /\ SR_Z \in sr <=> Same(D, S, n)
        /\ Msb(S, n) = Msb(D, n) => (Less(D, S, n) <=> ~(SR_N \in sr <=> SR_V \in sr))
    BY <1>1, <2>1, SubtractionFlags
  <2>3. Below(S, D, n) <=> ~Below(D, S, n) /\ ~Same(D, S, n)
    <3>1. /\ Below(S, D, n) <=> Value(S, n) < Value(D, n)
          /\ Below(D, S, n) <=> Value(D, n) < Value(S, n)
          /\ Same(D, S, n) <=> Value(D, n) = Value(S, n)
      BY <1>1, ValueOrder DEF Below, Same
    <3>2. Value(S, n) \in Int /\ Value(D, n) \in Int
      BY <1>1, ValueSign
    <3> QED
      BY SMT, <3>1, <3>2
  <2>4. UnsignedBranches
    BY Zenon, <1>2, <2>2, <2>3, Conditions DEF UnsignedBranches
  <2>5. Msb(S, n) = Msb(D, n) => (Less(S, D, n) <=> ~Less(D, S, n) /\ ~Same(D, S, n))
    BY Zenon, <2>3 DEF Less
  <2>6. SignedBranchesOfLikeSigns
    BY Zenon, <1>2, <2>2, <2>5, Conditions DEF SignedBranchesOfLikeSigns, SignedOrder
  <2> QED
    BY <1>2, <2>4, <2>6 DEF AdditionBranches, LogicBranches
<1>3. CASE operation.kind = "add"
  <2>1. sr = set_flags(before, S, D, AddLong(D, S), n, FALSE)
    BY <1>3 DEF IInv, Done
  <2>2. Result(operation) = AddLong(D, S)
    BY <1>3 DEF Result
  <2> DEFINE R == AddLong(D, S)
  <2>3. /\ SR_C \in sr <=> Below(R, D, n)
        /\ SR_X \in sr <=> SR_C \in sr
        /\ ~(SR_N \in sr <=> SR_V \in sr) <=> SumNegative(S, D, R, n)
    BY <1>1, <2>1, AdditionFlags
  <2>4. (branch_taken(5, sr) <=> SR_C \in sr)
        /\ (branch_taken(13, sr) <=> ~(SR_N \in sr <=> SR_V \in sr))
    BY Conditions
  <2> HIDE DEF R
  <2>5. AdditionBranches
    BY <2>2, <2>3, <2>4 DEF AdditionBranches, R
  <2> QED
    BY <1>3, <2>5 DEF UnsignedBranches, SignedBranchesOfLikeSigns, LogicBranches
<1>4. CASE operation.kind = "logic"
  <2> DEFINE R == AndLong(D, S)
  <2>1. sr = set_logic_flags(before, R, n) /\ R \in Long
    BY <1>1, <1>4, AndLongIsLong DEF IInv, Done
  <2>2. Result(operation) = R
    BY <1>4 DEF Result
  <2>3. /\ SR_Z \in sr <=> Value(R, n) = 0
        /\ SR_N \in sr <=> Msb(R, n)
        /\ SR_V \notin sr /\ SR_C \notin sr
        /\ SR_X \in sr <=> SR_X \in before
    BY <1>1, <2>1, LogicFlags
  <2>4. ZeroLong \in Long /\ Value(ZeroLong, n) = 0
    BY <1>1, ZeroFacts
  <2> HIDE DEF R
  <2>5. /\ Same(R, ZeroLong, n) <=> Value(R, n) = 0
        /\ Below(R, ZeroLong, n) <=> Value(R, n) < 0
        /\ Below(ZeroLong, R, n) <=> 0 < Value(R, n)
    BY <1>1, <2>1, <2>4, ValueOrder DEF Below, Same
  <2>6. Value(R, n) \in Int /\ 0 <= Value(R, n) /\ Half(n) > 0
    <3>1. Half(n) > 0
      BY SMT DEF Half
    <3> QED
      BY <1>1, <2>1, <3>1, ValueSign
  <2>7. ~Msb(ZeroLong, n)
    <3>1. Msb(ZeroLong, n) <=> 0 >= Half(n)
      BY <1>1, <2>4, ValueSign
    <3>2. Half(n) \in Int /\ Half(n) > 0
      BY SMT DEF Half
    <3> QED
      BY SMT, <3>1, <3>2
  <2>8. ~(Value(R, n) < 0) /\ (0 < Value(R, n) <=> ~(Value(R, n) = 0))
    BY SMT, <2>6
  <2>9. Msb(R, n) \in BOOLEAN /\ Msb(ZeroLong, n) \in BOOLEAN
    BY DEF Msb
  <2>10. (Less(R, ZeroLong, n) <=> Msb(R, n))
         /\ (Less(ZeroLong, R, n) <=> ~Msb(R, n) /\ ~(Value(R, n) = 0))
    BY Zenon, <2>5, <2>7, <2>8, <2>9 DEF Less
  <2>11. LogicBranches
    BY Zenon, <1>4, <2>2, <2>3, <2>5, <2>10, Conditions DEF LogicBranches
  <2> QED
    BY <1>4, <2>11 DEF UnsignedBranches, SignedBranchesOfLikeSigns, AdditionBranches
<1>5. CASE operation.kind \notin {"sub", "add", "logic"}
  BY <1>5 DEF UnsignedBranches, SignedBranchesOfLikeSigns, AdditionBranches, LogicBranches
<1> QED
  BY <1>2, <1>3, <1>4, <1>5

(* Every branch of handle_bcc that compares, after any operation on any     *)
(* operands of any size, means the order it is named for; except the signed *)
(* ones after a subtraction of operands of unlike signs.                    *)
THEOREM BranchesCompare ==
  Spec => [](/\ TypeOK /\ UnsignedBranches /\ SignedBranchesOfLikeSigns
             /\ AdditionBranches /\ LogicBranches)
<1>1. IInv => TypeOK
  BY DEF IInv
<1> QED
  BY <1>1, IInvInit, IInvStep, IInvBranches, PTL DEF Spec

=============================================================================
