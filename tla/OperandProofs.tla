----------------------------- MODULE OperandProofs -----------------------------
(***************************************************************************)
(* Whatever parse_operand accepts is a notation of the operand it returns.   *)
(* Each rule of the grammar has a lemma that says, of a match from p to q,   *)
(* which operand it is and that the tokens from p to q spell the part of the *)
(* notation that this operand has; the rules of the modes put these together *)
(* (Covers), and the text ends where the operand does.  The other way round,  *)
(* what is written of an operand whose mode no earlier choice shadows is read  *)
(* as that operand: each part of its notation has a lemma that says what its   *)
(* rule makes of it, each rule that operand tries before has one that says     *)
(* where it fails, and each mode puts these together.                        *)
(***************************************************************************)
EXTENDS OperandNotation, WordProofs, SequenceTheorems, TLAPS

-----------------------------------------------------------------------------
(* The tokens of t from p to before q are a text of T. *)
Spells(t, p, q, T) ==
  /\ p \in 1 .. Len(t) + 1
  /\ q \in p .. Len(t) + 1
  /\ SubSeq(t, p, q - 1) \in T

(* A text of a concatenation of languages, ... *)
LEMMA Joined ==
  ASSUME NEW A, NEW B, NEW x
  PROVE  x \in A ** B <=> \E a \in A, b \in B : x = a \o b
<1>1. A ** B = {a \o b : a \in A, b \in B}
  BY DEF **
<1> QED
  BY SMT, <1>1

(* Texts of two and three tokens, by their tokens. *)
LEMMA PairIs ==
  ASSUME NEW S, NEW c \in Seq(S), Len(c) = 2
  PROVE  c = <<c[1], c[2]>>
<1> DEFINE d == <<c[1], c[2]>>
<1>0. c[1] \in S /\ c[2] \in S
  BY ElementOfSeq
<1>1. d \in Seq(S) /\ Len(d) = 2 /\ d[1] = c[1] /\ d[2] = c[2]
  BY <1>0
<1> HIDE DEF d
<1>2. \A i \in 1 .. Len(c) : c[i] = d[i]
  BY <1>1
<1> QED
  BY <1>1, <1>2, SeqEqual DEF d

(* ... three tokens, ... *)
LEMMA TripleIs ==
  ASSUME NEW S, NEW c \in Seq(S), Len(c) = 3
  PROVE  c = <<c[1], c[2], c[3]>>
<1> DEFINE d == <<c[1], c[2], c[3]>>
<1>0. c[1] \in S /\ c[2] \in S /\ c[3] \in S
  BY ElementOfSeq
<1>1. d \in Seq(S) /\ Len(d) = 3 /\ d[1] = c[1] /\ d[2] = c[2] /\ d[3] = c[3]
  BY <1>0
<1> HIDE DEF d
<1>2. \A i \in 1 .. Len(c) : c[i] = d[i]
  BY <1>1
<1> QED
  BY <1>1, <1>2, SeqEqual DEF d

(* Writing tokens one after the other, ... *)
LEMMA TwoTokens ==
  ASSUME NEW x, NEW y
  PROVE  <<x>> \o <<y>> = <<x, y>>
<1> DEFINE S == {x, y}
           c == <<x>> \o <<y>>
<1>1. <<x>> \in Seq(S) /\ <<y>> \in Seq(S) /\ Len(<<x>>) = 1 /\ Len(<<y>>) = 1 /\ <<x>>[1] = x /\ <<y>>[1] = y
  OBVIOUS
<1>2. c \in Seq(S) /\ Len(c) = 2 /\ c[1] = x /\ c[2] = y
  BY <1>1, ConcatProperties
<1> HIDE DEF c, S
<1> QED
  BY <1>2, PairIs DEF c

(* ... three of them. *)
LEMMA ThreeTokens ==
  ASSUME NEW x, NEW y, NEW z
  PROVE  <<x>> \o <<y>> \o <<z>> = <<x, y, z>>
<1> DEFINE S == {x, y, z}
           b == <<x, y>>
           c == b \o <<z>>
<1>1. b \in Seq(S) /\ <<z>> \in Seq(S) /\ Len(b) = 2 /\ Len(<<z>>) = 1 /\ b[1] = x /\ b[2] = y /\ <<z>>[1] = z
  OBVIOUS
<1>3. b = <<x>> \o <<y>>
  BY TwoTokens
<1> HIDE DEF b
<1>2. c \in Seq(S) /\ Len(c) = 3 /\ c[1] = x /\ c[2] = y /\ c[3] = z
  BY <1>1, ConcatProperties
<1> HIDE DEF c, S
<1> QED
  BY <1>2, <1>3, TripleIs DEF c

(* A part of a text without tokens, ... *)
LEMMA SpellsNothing ==
  ASSUME NEW S, NEW t \in Seq(S), NEW p \in 1 .. Len(t) + 1
  PROVE  Spells(t, p, p, NoText)
<1>1. Len(t) \in Nat
  BY LenProperties
<1>2. p \in Int /\ p - 1 \in Int /\ p - 1 < p /\ p \in p .. Len(t) + 1
  BY <1>1
<1>3. SubSeq(t, p, p - 1) = <<>>
  BY <1>2, SubSeqEmpty
<1> QED
  BY <1>2, <1>3 DEF Spells, NoText

(* ... with one, ... *)
LEMMA SpellsToken ==
  ASSUME NEW S, NEW t \in Seq(S), NEW p \in Nat, NEW X, Is(t, p, X)
  PROVE  /\ p \in 1 .. Len(t) /\ t[p] \in X
         /\ Spells(t, p, p + 1, Text(t[p]))
<1>1. Len(t) \in Nat /\ DOMAIN t = 1 .. Len(t)
  BY LenProperties
<1>2. p \in 1 .. Len(t) /\ t[p] \in X
  BY <1>1 DEF Is
<1>3. /\ p \in 1 .. Len(t) + 1 /\ p + 1 \in p .. Len(t) + 1 /\ (p + 1) - 1 = p
      /\ p \in p .. Len(t) /\ p < p + 1 /\ p \in Int /\ p + 1 \in Int
  BY <1>1, <1>2
<1>4. SubSeq(t, p, p) = <<t[p]>> \o SubSeq(t, p + 1, p)
  BY <1>2, <1>3, SubSeqRecursiveFirst
<1>5. SubSeq(t, p + 1, p) = <<>>
  BY <1>3, SubSeqEmpty
<1>6. t[p] \in S
  BY <1>2, ElementOfSeq
<1>7. <<t[p]>> \in Seq(S)
  BY <1>6
<1>8. SubSeq(t, p, p) = <<t[p]>>
  BY <1>4, <1>5, <1>7, ConcatEmptySeq
<1> QED
  BY <1>2, <1>3, <1>8 DEF Spells, Text

(* ... and two parts side by side. *)
LEMMA SpellsBoth ==
  ASSUME NEW S, NEW t \in Seq(S), NEW p, NEW q, NEW r, NEW A, NEW B,
         Spells(t, p, q, A), Spells(t, q, r, B)
  PROVE  Spells(t, p, r, A ** B)
<1>1. Len(t) \in Nat
  BY LenProperties
<1>2. /\ p \in 1 .. Len(t) + 1 /\ q \in p .. Len(t) + 1 /\ r \in q .. Len(t) + 1
      /\ SubSeq(t, p, q - 1) \in A /\ SubSeq(t, q, r - 1) \in B
  BY DEF Spells
<1>3. /\ r \in p .. Len(t) + 1
      /\ q - 1 \in p - 1 .. Len(t) /\ r - 1 \in q - 1 .. Len(t) /\ (q - 1) + 1 = q
  BY <1>1, <1>2
<1>4. SubSeq(t, p, q - 1) \o SubSeq(t, q, r - 1) = SubSeq(t, p, r - 1)
  BY <1>2, <1>3, ConcatAdjacentSubSeq
<1> QED
  BY <1>2, <1>3, <1>4, Joined DEF Spells

(* The whole text. *)
LEMMA SpellsAll ==
  ASSUME NEW S, NEW t \in Seq(S), NEW T
  PROVE  Spells(t, 1, Len(t) + 1, T) <=> t \in T
<1>1. Len(t) \in Nat
  BY LenProperties
<1>2. 1 \in 1 .. Len(t) + 1 /\ Len(t) + 1 \in 1 .. Len(t) + 1 /\ (Len(t) + 1) - 1 = Len(t)
  BY <1>1
<1>3. SubSeq(t, 1, Len(t)) = t
  BY SubSeqFull
<1> QED
  BY <1>2, <1>3 DEF Spells

(* The other way round: where a text of A and one of B stand, there is a place *)
(* where the first ends.                                                     *)
LEMMA SpellsParts ==
  ASSUME NEW S, NEW t \in Seq(S), NEW p, NEW r, NEW A, NEW B, Spells(t, p, r, A ** B),
         \A a \in A \cup B : a \in Seq(S)
  PROVE  \E q : Spells(t, p, q, A) /\ Spells(t, q, r, B)
<1>1. Len(t) \in Nat
  BY LenProperties
<1>2. p \in 1 .. Len(t) + 1 /\ r \in p .. Len(t) + 1 /\ SubSeq(t, p, r - 1) \in A ** B
  BY DEF Spells
<1> DEFINE s == SubSeq(t, p, r - 1)
<1>0. s \in A ** B
  BY <1>2
<1> HIDE DEF s
<1>3. PICK a \in A, b \in B : s = a \o b
  BY <1>0, Joined
<1> USE DEF s
<1>4. /\ a \in Seq(S) /\ b \in Seq(S)
      /\ Len(a) \in Nat /\ Len(b) \in Nat
  BY <1>3, LenProperties
<1> DEFINE q == p + Len(a)
<1>5. s \in Seq(S) /\ Len(s) = r - p /\ \A i \in 1 .. Len(s) : s[i] = t[p + i - 1]
  <2>1. \A i \in p .. r - 1 : t[i] \in S
    <3> SUFFICES ASSUME NEW i \in p .. r - 1 PROVE t[i] \in S
      OBVIOUS
    <3>1. i \in 1 .. Len(t)
      BY <1>1, <1>2
    <3> QED
      BY <3>1, ElementOfSeq
  <2>2. p \in Int /\ r - 1 \in Int
    BY <1>1, <1>2
  <2>3. /\ s \in Seq(S) /\ Len(s) = IF p <= r - 1 THEN (r - 1) - p + 1 ELSE 0
        /\ \A i \in 1 .. (r - 1) - p + 1 : s[i] = t[p + i - 1]
    BY <2>1, <2>2, SubSeqProperties
  <2>4. Len(s) = r - p /\ (r - 1) - p + 1 = r - p
    BY <1>1, <1>2, <2>3
  <2> QED
    BY <2>3, <2>4
<1>6. /\ Len(s) = Len(a) + Len(b)
      /\ \A i \in 1 .. Len(a) + Len(b) : s[i] = IF i <= Len(a) THEN a[i] ELSE b[i - Len(a)]
  BY <1>3, <1>4, ConcatProperties
<1>7. q \in p .. r /\ q \in 1 .. Len(t) + 1 /\ r \in q .. Len(t) + 1 /\ q \in p .. Len(t) + 1
  BY <1>1, <1>2, <1>4, <1>5, <1>6
<1>8. SubSeq(t, p, q - 1) = a
  <2> DEFINE u == SubSeq(t, p, q - 1)
  <2>1. \A i \in p .. q - 1 : t[i] \in S
    <3> SUFFICES ASSUME NEW i \in p .. q - 1 PROVE t[i] \in S
      OBVIOUS
    <3>1. i \in 1 .. Len(t)
      BY <1>1, <1>2, <1>7
    <3> QED
      BY <3>1, ElementOfSeq
  <2>2. p \in Int /\ q - 1 \in Int
    BY <1>1, <1>2, <1>4
  <2>3. /\ u \in Seq(S) /\ Len(u) = IF p <= q - 1 THEN (q - 1) - p + 1 ELSE 0
        /\ \A i \in 1 .. (q - 1) - p + 1 : u[i] = t[p + i - 1]
    BY <2>1, <2>2, SubSeqProperties
  <2>4. Len(u) = Len(a) /\ (q - 1) - p + 1 = Len(a)
    BY <1>1, <1>2, <1>4, <2>3
  <2>5. \A i \in 1 .. Len(a) : u[i] = a[i]
    <3> SUFFICES ASSUME NEW i \in 1 .. Len(a) PROVE u[i] = a[i]
      OBVIOUS
    <3>1. i \in 1 .. Len(a) + Len(b) /\ i <= Len(a)
      BY <1>4
    <3> QED
      BY <1>5, <1>6, <2>3, <2>4, <3>1
  <2> HIDE DEF u
  <2> QED
    BY <1>4, <2>3, <2>4, <2>5, SeqEqual DEF u
<1>9. SubSeq(t, q, r - 1) = b
  <2> DEFINE u == SubSeq(t, q, r - 1)
  <2>1. \A i \in q .. r - 1 : t[i] \in S
    <3> SUFFICES ASSUME NEW i \in q .. r - 1 PROVE t[i] \in S
      OBVIOUS
    <3>1. i \in 1 .. Len(t)
      BY <1>1, <1>2, <1>7
    <3> QED
      BY <3>1, ElementOfSeq
  <2>2. q \in Int /\ r - 1 \in Int
    BY <1>1, <1>2, <1>4
  <2>3. /\ u \in Seq(S) /\ Len(u) = IF q <= r - 1 THEN (r - 1) - q + 1 ELSE 0
        /\ \A i \in 1 .. (r - 1) - q + 1 : u[i] = t[q + i - 1]
    BY <2>1, <2>2, SubSeqProperties
  <2>4. Len(u) = Len(b) /\ (r - 1) - q + 1 = Len(b)
    BY <1>1, <1>2, <1>4, <1>5, <1>6, <2>3
  <2>5. \A i \in 1 .. Len(b) : u[i] = b[i]
    <3> SUFFICES ASSUME NEW i \in 1 .. Len(b) PROVE u[i] = b[i]
      OBVIOUS
    <3>1. /\ Len(a) + i \in 1 .. Len(a) + Len(b) /\ ~ (Len(a) + i <= Len(a))
          /\ (Len(a) + i) - Len(a) = i /\ p + (Len(a) + i) - 1 = q + i - 1
      BY <1>2, <1>4
    <3>2. s[Len(a) + i] = t[q + i - 1] /\ s[Len(a) + i] = b[i]
      BY <1>5, <1>6, <3>1
    <3> QED
      BY <2>3, <2>4, <3>2
  <2> HIDE DEF u
  <2> QED
    BY <1>4, <2>3, <2>4, <2>5, SeqEqual DEF u
<1> HIDE DEF q
<1>10. Spells(t, p, q, A) /\ Spells(t, q, r, B)
  BY <1>2, <1>3, <1>7, <1>8, <1>9 DEF Spells
<1> QED
  BY <1>10

(* One token is spelled where it stands. *)
LEMMA SpelledToken ==
  ASSUME NEW S, NEW t \in Seq(S), NEW p, NEW q, NEW x, Spells(t, p, q, Text(x))
  PROVE  q = p + 1 /\ p \in 1 .. Len(t) /\ t[p] = x
<1>1. Len(t) \in Nat
  BY LenProperties
<1>2. /\ p \in 1 .. Len(t) + 1 /\ q \in p .. Len(t) + 1
      /\ SubSeq(t, p, q - 1) = <<x>>
  BY DEF Spells, Text
<1>3. \A i \in p .. q - 1 : t[i] \in S
  <2> SUFFICES ASSUME NEW i \in p .. q - 1 PROVE t[i] \in S
    OBVIOUS
  <2>1. i \in 1 .. Len(t)
    BY <1>1, <1>2
  <2> QED
    BY <2>1, ElementOfSeq
<1>4. p \in Int /\ q - 1 \in Int
  BY <1>1, <1>2
<1>5. /\ Len(SubSeq(t, p, q - 1)) = IF p <= q - 1 THEN (q - 1) - p + 1 ELSE 0
      /\ \A i \in 1 .. (q - 1) - p + 1 : SubSeq(t, p, q - 1)[i] = t[p + i - 1]
  BY <1>3, <1>4, SubSeqProperties
<1>6. Len(<<x>>) = 1 /\ <<x>>[1] = x
  OBVIOUS
<1>7. q = p + 1
  BY <1>1, <1>2, <1>5, <1>6
<1>8. 1 \in 1 .. (q - 1) - p + 1 /\ p + 1 - 1 = p /\ p \in 1 .. Len(t)
  BY <1>1, <1>2, <1>7
<1>9. t[p] = <<x>>[1]
  BY <1>2, <1>5, <1>8
<1> QED
  BY <1>6, <1>7, <1>8, <1>9

(* A language may grow. *)
LEMMA SpellsMore ==
  ASSUME NEW t, NEW p, NEW q, NEW A, NEW B, Spells(t, p, q, A), A \subseteq B
  PROVE  Spells(t, p, q, B)
  BY DEF Spells

-----------------------------------------------------------------------------
(* An operand by its parts: what each rule sets in it. *)
Made(mode, n, v, label, pc, an, x, size, scale, bd, od) ==
  [mode |-> mode, reg_num |-> n, value |-> v, label |-> label,
   is_pc_relative_label |-> pc, index_reg_num |-> x, index_is_an |-> an,
   index_size |-> size, scale |-> scale, base_displacement |-> bd,
   outer_displacement |-> od]

(* A number, a name, a base register, an index register, and an address of   *)
(* these.  The flags that are not set keep a name of their own.               *)
Clear == FALSE
Raised == TRUE

DatumOp(v, label, pc) ==
  Made("UNKNOWN_MODE", Null, v, label, pc, Clear, Null, NoLabel, 0, ZeroLong, ZeroLong)
RegisterOp(n) ==
  Made("UNKNOWN_MODE", n, ZeroLong, NoLabel, Clear, Clear, Null, NoLabel, 0, ZeroLong, ZeroLong)
IndexOp(an, x, size, scale) ==
  Made("UNKNOWN_MODE", x, ZeroLong, NoLabel, Clear, an, Null, size, scale, ZeroLong, ZeroLong)
AddressOp(mode, n, label, bd, an, x, size, scale, od) ==
  Made(mode, n, ZeroLong, label, Clear, an, x, size, scale, bd, od)

(* The empty operand, as a datum and as a register. *)
LEMMA NothingMade ==
  create_operand = DatumOp(ZeroLong, NoLabel, Clear) /\ create_operand = RegisterOp(Null)
  BY DEF create_operand, DatumOp, RegisterOp, Made, NoLabel, Clear

(* What an operand takes over from a displacement, an index and an outer displacement. *)
LEMMA AddressMade ==
  /\ \A n, v, label, pc : (label # NoLabel => v = ZeroLong) =>
        WithDisplacement(RegisterOp(n), DatumOp(v, label, pc))
          = AddressOp("UNKNOWN_MODE", n, label, v, Clear, Null, NoLabel, 0, ZeroLong)
  /\ \A mode, n, label, bd, an, x, size, scale, od, an2, x2, size2, scale2 :
        WithIndex(AddressOp(mode, n, label, bd, an, x, size, scale, od),
                  IndexOp(an2, x2, size2, scale2))
          = AddressOp(mode, n, label, bd, an2, x2, size2, scale2, od)
  /\ \A mode, n, label, bd, an, x, size, scale, v, label2, pc :
        WithOuter(AddressOp(mode, n, label, bd, an, x, size, scale, ZeroLong), DatumOp(v, label2, pc))
          = AddressOp(mode, n, label, bd, an, x, size, scale,
                      IF label2 = NoLabel THEN v ELSE ZeroLong)
<1>1. ASSUME NEW n, NEW v, NEW label, NEW pc, label # NoLabel => v = ZeroLong
      PROVE  WithDisplacement(RegisterOp(n), DatumOp(v, label, pc))
               = AddressOp("UNKNOWN_MODE", n, label, v, Clear, Null, NoLabel, 0, ZeroLong)
  <2>1. DatumOp(v, label, pc).label = label /\ DatumOp(v, label, pc).value = v
    BY DEF Made, DatumOp
  <2>2. CASE label = NoLabel
    <3>1. WithDisplacement(RegisterOp(n), DatumOp(v, label, pc))
            = [RegisterOp(n) EXCEPT !.base_displacement = v]
      BY <2>1, <2>2 DEF WithDisplacement
    <3> QED
      BY <2>2, <3>1 DEF Made, RegisterOp, AddressOp
  <2>3. CASE label # NoLabel
    <3>1. WithDisplacement(RegisterOp(n), DatumOp(v, label, pc))
            = [RegisterOp(n) EXCEPT !.label = label]
      BY <2>1, <2>3 DEF WithDisplacement
    <3> QED
      BY <1>1, <2>3, <3>1 DEF Made, RegisterOp, AddressOp
  <2> QED
    BY <2>2, <2>3
<1>2. ASSUME NEW mode, NEW n, NEW label, NEW bd, NEW an, NEW x, NEW size, NEW scale, NEW od,
             NEW an2, NEW x2, NEW size2, NEW scale2
      PROVE  WithIndex(AddressOp(mode, n, label, bd, an, x, size, scale, od),
                       IndexOp(an2, x2, size2, scale2))
               = AddressOp(mode, n, label, bd, an2, x2, size2, scale2, od)
  <2> DEFINE op == AddressOp(mode, n, label, bd, an, x, size, scale, od)
             idx == IndexOp(an2, x2, size2, scale2)
             a == idx.reg_num
             b == idx.index_is_an
             c == idx.index_size
             d == idx.scale
  <2>1. a = x2 /\ b = an2 /\ c = size2 /\ d = scale2
    BY DEF Made, IndexOp
  <2>2. WithIndex(op, idx)
          = [op EXCEPT !.index_reg_num = a, !.index_is_an = b, !.index_size = c, !.scale = d]
    BY DEF WithIndex
  <2> HIDE DEF a, b, c, d, idx
  <2>3. [op EXCEPT !.index_reg_num = a, !.index_is_an = b, !.index_size = c, !.scale = d]
          = [[[[op EXCEPT !.index_reg_num = a] EXCEPT !.index_is_an = b]
                 EXCEPT !.index_size = c] EXCEPT !.scale = d]
    <3> HIDE DEF op
    <3> QED
      OBVIOUS
  <2>4. [op EXCEPT !.index_reg_num = a] = AddressOp(mode, n, label, bd, an, a, size, scale, od)
    BY DEF Made, AddressOp
  <2>5. [AddressOp(mode, n, label, bd, an, a, size, scale, od) EXCEPT !.index_is_an = b]
          = AddressOp(mode, n, label, bd, b, a, size, scale, od)
    BY DEF Made, AddressOp
  <2>6. [AddressOp(mode, n, label, bd, b, a, size, scale, od) EXCEPT !.index_size = c]
          = AddressOp(mode, n, label, bd, b, a, c, scale, od)
    BY DEF Made, AddressOp
  <2>7. [AddressOp(mode, n, label, bd, b, a, c, scale, od) EXCEPT !.scale = d]
          = AddressOp(mode, n, label, bd, b, a, c, d, od)
    BY DEF Made, AddressOp
  <2>8. WithIndex(op, idx) = AddressOp(mode, n, label, bd, b, a, c, d, od)
    BY <2>2, <2>3, <2>4, <2>5, <2>6, <2>7
  <2> HIDE DEF op
  <2> QED
    BY <2>1, <2>8 DEF op, idx
<1>3. ASSUME NEW mode, NEW n, NEW label, NEW bd, NEW an, NEW x, NEW size, NEW scale,
             NEW v, NEW label2, NEW pc
      PROVE  WithOuter(AddressOp(mode, n, label, bd, an, x, size, scale, ZeroLong),
                       DatumOp(v, label2, pc))
               = AddressOp(mode, n, label, bd, an, x, size, scale,
                           IF label2 = NoLabel THEN v ELSE ZeroLong)
  <2>1. DatumOp(v, label2, pc).label = label2 /\ DatumOp(v, label2, pc).value = v
    BY DEF Made, DatumOp
  <2>2. [AddressOp(mode, n, label, bd, an, x, size, scale, ZeroLong)
           EXCEPT !.outer_displacement = v]
          = AddressOp(mode, n, label, bd, an, x, size, scale, v)
    BY DEF Made, AddressOp
  <2> QED
    BY <2>1, <2>2 DEF WithOuter
<1> QED
  BY <1>1, <1>2, <1>3

(* A match is where it stands and what it made. *)
LEMMA Matched ==
  ASSUME NEW p, NEW op, NEW q, NEW z
  PROVE  /\ Match(p, op).at = p /\ Match(p, op).op = op
         /\ [Match(p, op) EXCEPT !.at = q] = Match(q, op)
         /\ [Match(p, op) EXCEPT !.op = z] = Match(p, z)
         /\ [Match(p, op) EXCEPT !.at = q, !.op = z] = Match(q, z)
<1>1. /\ Match(p, op).at = p /\ Match(p, op).op = op
      /\ [Match(p, op) EXCEPT !.at = q] = Match(q, op)
      /\ [Match(p, op) EXCEPT !.op = z] = Match(p, z)
      /\ [Match(q, op) EXCEPT !.op = z] = Match(q, z)
  BY DEF Match
<1> DEFINE m == Match(p, op)
<1>2. [m EXCEPT !.at = q, !.op = z] = [[m EXCEPT !.at = q] EXCEPT !.op = z]
  <2> HIDE DEF m
  <2> QED
    OBVIOUS
<1> QED
  BY <1>1, <1>2

WithMode(op, mode) == [op EXCEPT !.mode = mode]

(* A mode is noted in what a match made. *)
LEMMA ModeMade ==
  ASSUME NEW p, NEW op, NEW mode
  PROVE  Mode(Match(p, op), mode) = Match(p, WithMode(op, mode))
<1> DEFINE m == Match(p, op)
           moded == WithMode(op, mode)
<1>1. m.op = op
  BY Matched
<1>2. Mode(m, mode) = [m EXCEPT !.op = moded]
  <2> HIDE DEF m
  <2>1. Mode(m, mode) = [m EXCEPT !.op = WithMode(m.op, mode)]
    BY DEF Mode, WithMode
  <2> QED
    BY <1>1, <2>1
<1>3. [m EXCEPT !.op = moded] = Match(p, moded)
  <2> HIDE DEF moded
  <2> QED
    BY DEF Match
<1> QED
  BY <1>2, <1>3

(* What is done to what a match made. *)
LEMMA MatchMade ==
  ASSUME NEW p, NEW op
  PROVE  /\ Negated(Match(p, op)) = Match(p, [op EXCEPT !.value = SubLong(ZeroLong, op.value)])
         /\ PcRelative(Match(p, op)) = Match(p, [op EXCEPT !.is_pc_relative_label = TRUE])
         /\ OfAn(Match(p, op)) = Match(p, [op EXCEPT !.index_is_an = TRUE])
<1> DEFINE m == Match(p, op)
<1>1. m.op = op
  BY Matched
<1>3. Negated(m) = [m EXCEPT !.op = [op EXCEPT !.value = SubLong(ZeroLong, op.value)]]
  <2> HIDE DEF m
  <2>1. Negated(m) = [m EXCEPT !.op = [m.op EXCEPT !.value = SubLong(ZeroLong, m.op.value)]]
    BY DEF Negated
  <2> QED
    BY <1>1, <2>1
<1>4. PcRelative(m) = [m EXCEPT !.op = [op EXCEPT !.is_pc_relative_label = TRUE]]
  <2> HIDE DEF m
  <2>1. PcRelative(m) = [m EXCEPT !.op = [m.op EXCEPT !.is_pc_relative_label = TRUE]]
    BY DEF PcRelative
  <2> QED
    BY <1>1, <2>1
<1>5. OfAn(m) = [m EXCEPT !.op = [op EXCEPT !.index_is_an = TRUE]]
  <2> HIDE DEF m
  <2>1. OfAn(m) = [m EXCEPT !.op = [m.op EXCEPT !.index_is_an = TRUE]]
    BY DEF OfAn
  <2> QED
    BY <1>1, <2>1
<1> DEFINE negated  == [op EXCEPT !.value = SubLong(ZeroLong, op.value)]
           relative == [op EXCEPT !.is_pc_relative_label = TRUE]
           of_an    == [op EXCEPT !.index_is_an = TRUE]
<1>6. /\ [m EXCEPT !.op = negated] = Match(p, negated)
      /\ [m EXCEPT !.op = relative] = Match(p, relative)
      /\ [m EXCEPT !.op = of_an] = Match(p, of_an)
  <2> HIDE DEF negated, relative, of_an
  <2> QED
    BY DEF Match
<1> HIDE DEF m
<1> QED
  BY <1>3, <1>4, <1>5, <1>6 DEF m

(* A match is a position and an operand. *)
LEMMA MatchIs == \A p, op : Match(p, op).at = p /\ Match(p, op).op = op
  BY DEF Match

(* A failure has no position. *)
LEMMA Failed == Fail = Match(0, create_operand) /\ Fail.at = 0
<1>1. Fail = Match(0, create_operand)
  BY DEF Fail
<1> QED
  BY <1>1, Matched

(* The terminals by the tokens they match. *)
LEMMA Terminals ==
  ASSUME NEW t, NEW p
  PROVE  /\ Identifier(t, p) = IF Is(t, p, Identifiers)
                               THEN Match(p + 1, DatumOp(ZeroLong, t[p], Clear)) ELSE Fail
         /\ HexNumber(t, p) = IF Is(t, p, DOMAIN Hexadecimal)
                              THEN Match(p + 1, DatumOp(Hexadecimal[t[p]], NoLabel, Clear))
                              ELSE Fail
         /\ PositiveDec(t, p) = IF Is(t, p, DOMAIN Decimal)
                                THEN Match(p + 1, DatumOp(Decimal[t[p]], NoLabel, Clear))
                                ELSE Fail
         /\ AnRegSpecifier(t, p) = IF Is(t, p, DOMAIN AnToken)
                                   THEN Match(p + 1, RegisterOp(AnToken[t[p]])) ELSE Fail
         /\ DnRegSpecifier(t, p) = IF Is(t, p, DOMAIN DnToken)
                                   THEN Match(p + 1, RegisterOp(DnToken[t[p]])) ELSE Fail
         /\ Nothing(p) = Match(p, RegisterOp(Null))
         /\ Nothing(p) = Match(p, DatumOp(ZeroLong, NoLabel, Clear))
<1> DEFINE x == t[p]
           hex == Hexadecimal[x]
           dec == Decimal[x]
           an == AnToken[x]
           dn == DnToken[x]
<1>1. /\ [create_operand EXCEPT !.label = x] = DatumOp(ZeroLong, x, Clear)
      /\ [create_operand EXCEPT !.value = hex] = DatumOp(hex, NoLabel, Clear)
      /\ [create_operand EXCEPT !.value = dec] = DatumOp(dec, NoLabel, Clear)
      /\ [create_operand EXCEPT !.reg_num = an] = RegisterOp(an)
      /\ [create_operand EXCEPT !.reg_num = dn] = RegisterOp(dn)
  <2> HIDE DEF x, hex, dec, an, dn
  <2> DEFINE nothing == DatumOp(ZeroLong, NoLabel, Clear)
             null == RegisterOp(Null)
  <2>1. create_operand = nothing /\ create_operand = null
    BY NothingMade
  <2>2. /\ [nothing EXCEPT !.label = x] = DatumOp(ZeroLong, x, Clear)
        /\ [nothing EXCEPT !.value = hex] = DatumOp(hex, NoLabel, Clear)
        /\ [nothing EXCEPT !.value = dec] = DatumOp(dec, NoLabel, Clear)
        /\ [null EXCEPT !.reg_num = an] = RegisterOp(an)
        /\ [null EXCEPT !.reg_num = dn] = RegisterOp(dn)
    BY DEF Made, DatumOp, RegisterOp
  <2> HIDE DEF nothing, null
  <2> QED
    BY <2>1, <2>2
<1>2. /\ Nothing(p) = Match(p, RegisterOp(Null))
      /\ Nothing(p) = Match(p, DatumOp(ZeroLong, NoLabel, Clear))
  BY NothingMade DEF Nothing
<1>3. Identifier(t, p) = IF Is(t, p, Identifiers)
                         THEN Match(p + 1, DatumOp(ZeroLong, x, Clear)) ELSE Fail
  BY <1>1 DEF Identifier
<1>4. HexNumber(t, p) = IF Is(t, p, DOMAIN Hexadecimal)
                        THEN Match(p + 1, DatumOp(hex, NoLabel, Clear)) ELSE Fail
  BY <1>1 DEF HexNumber
<1>5. PositiveDec(t, p) = IF Is(t, p, DOMAIN Decimal)
                          THEN Match(p + 1, DatumOp(dec, NoLabel, Clear)) ELSE Fail
  BY <1>1 DEF PositiveDec
<1>6. AnRegSpecifier(t, p) = IF Is(t, p, DOMAIN AnToken)
                             THEN Match(p + 1, RegisterOp(an)) ELSE Fail
  BY <1>1 DEF AnRegSpecifier
<1>7. DnRegSpecifier(t, p) = IF Is(t, p, DOMAIN DnToken)
                             THEN Match(p + 1, RegisterOp(dn)) ELSE Fail
  BY <1>1 DEF DnRegSpecifier
<1> QED
  BY <1>2, <1>3, <1>4, <1>5, <1>6, <1>7

(* A datum with its mode. *)
PlacedOp(mode, v, label) ==
  Made(mode, Null, v, label, Clear, Clear, Null, NoLabel, 0, ZeroLong, ZeroLong)

(* What a rule notes of what another made. *)
LEMMA DatumNoted ==
  ASSUME NEW p, NEW v, NEW label, NEW pc
  PROVE  /\ Negated(Match(p, DatumOp(v, label, pc)))
              = Match(p, DatumOp(SubLong(ZeroLong, v), label, pc))
         /\ PcRelative(Match(p, DatumOp(v, label, pc))) = Match(p, DatumOp(v, label, Raised))
<1> DEFINE datum == DatumOp(v, label, pc)
           minus == SubLong(ZeroLong, v)
           yes == Raised
<1>1. datum.value = v
  BY DEF DatumOp, Made
<1>2. [datum EXCEPT !.value = minus] = DatumOp(minus, label, pc)
  <2> HIDE DEF minus
  <2> QED
    BY DEF Made, DatumOp
<1>3. [datum EXCEPT !.is_pc_relative_label = yes] = DatumOp(v, label, yes)
  <2> HIDE DEF yes
  <2> QED
    BY DEF Made, DatumOp
<1> HIDE DEF datum
<1>4. Negated(Match(p, datum)) = Match(p, [datum EXCEPT !.value = minus])
  <2>1. Negated(Match(p, datum)) = Match(p, [datum EXCEPT !.value = SubLong(ZeroLong, datum.value)])
    BY MatchMade
  <2> QED
    BY <1>1, <2>1
<1>5. PcRelative(Match(p, datum)) = Match(p, [datum EXCEPT !.is_pc_relative_label = yes])
  BY MatchMade DEF Raised
<1> QED
  BY <1>2, <1>3, <1>4, <1>5 DEF datum

(* A datum becomes an operand by its mode, ... *)
LEMMA PlacedNoted ==
  ASSUME NEW p, NEW v, NEW label, NEW mode
  PROVE  Mode(Match(p, DatumOp(v, label, Clear)), mode) = Match(p, PlacedOp(mode, v, label))
<1> DEFINE plain == DatumOp(v, label, Clear)
<1>1. WithMode(plain, mode) = PlacedOp(mode, v, label)
  BY DEF Made, DatumOp, PlacedOp, WithMode
<1> HIDE DEF plain
<1>2. Mode(Match(p, plain), mode) = Match(p, WithMode(plain, mode))
  BY ModeMade
<1> QED
  BY <1>1, <1>2 DEF plain

(* ... a register an index or a base, ... *)
LEMMA RegisterNoted ==
  ASSUME NEW p, NEW n
  PROVE  /\ OfAn(Match(p, RegisterOp(n))) = Match(p, IndexOp(Raised, n, NoLabel, 0))
         /\ RegisterOp(n) = IndexOp(Clear, n, NoLabel, 0)
         /\ RegisterOp(n)
              = AddressOp("UNKNOWN_MODE", n, NoLabel, ZeroLong, Clear, Null, NoLabel, 0, ZeroLong)
<1> DEFINE reg == RegisterOp(n)
           yes == Raised
<1>1. /\ RegisterOp(n) = IndexOp(Clear, n, NoLabel, 0)
      /\ RegisterOp(n)
           = AddressOp("UNKNOWN_MODE", n, NoLabel, ZeroLong, Clear, Null, NoLabel, 0, ZeroLong)
  BY DEF Made, RegisterOp, IndexOp, AddressOp
<1>2. [reg EXCEPT !.index_is_an = yes] = IndexOp(yes, n, NoLabel, 0)
  <2> HIDE DEF yes
  <2> QED
    BY DEF Made, RegisterOp, IndexOp
<1> HIDE DEF reg
<1>3. OfAn(Match(p, reg)) = Match(p, [reg EXCEPT !.index_is_an = yes])
  BY MatchMade DEF Raised
<1> QED
  BY <1>1, <1>2, <1>3 DEF reg

(* ... and an address by its mode. *)
LEMMA AddressNoted ==
  ASSUME NEW p, NEW old, NEW n, NEW mode, NEW label, NEW bd, NEW an, NEW x, NEW size,
         NEW scale, NEW od
  PROVE  Mode(Match(p, AddressOp(old, n, label, bd, an, x, size, scale, od)), mode)
           = Match(p, AddressOp(mode, n, label, bd, an, x, size, scale, od))
<1> DEFINE op == AddressOp(old, n, label, bd, an, x, size, scale, od)
<1>1. WithMode(op, mode) = AddressOp(mode, n, label, bd, an, x, size, scale, od)
  BY DEF Made, AddressOp, WithMode
<1> HIDE DEF op
<1>2. Mode(Match(p, op), mode) = Match(p, WithMode(op, mode))
  BY ModeMade
<1> QED
  BY <1>1, <1>2 DEF op

-----------------------------------------------------------------------------
(* What a match covers. *)
LEMMA NegatedTwice ==
  ASSUME NEW d \in Long
  PROVE  SubLong(ZeroLong, d) \in Long /\ SubLong(ZeroLong, SubLong(ZeroLong, d)) = d
<1> DEFINE e == SubLong(ZeroLong, d)
<1>1. ZeroLong \in Long /\ e \in Long
  BY ZeroLongType, SubLongType
<1> HIDE DEF e
<1>2. SubLong(AddLong(d, e), e) = d
  BY <1>1, AddSubLong
<1>3. AddLong(e, d) = ZeroLong
  BY <1>1, AddSubLong DEF e
<1>4. AddLong(d, e) = AddLong(e, d)
  <2>1. /\ d.hi \in Int /\ d.lo \in Int /\ e.hi \in Int /\ e.lo \in Int
    BY <1>1, LongParts
  <2>2. d.hi + e.hi = e.hi + d.hi /\ d.lo + e.lo = e.lo + d.lo
    BY <2>1
  <2> QED
    BY <2>2 DEF AddLong
<1> QED
  BY <1>1, <1>2, <1>3, <1>4 DEF e

(* An ordered choice takes the first match. *)
LEMMA ChoiceMade ==
  ASSUME NEW a, NEW b
  PROVE  /\ a.at # 0 => Choice(a, b) = a
         /\ a.at = 0 => Choice(a, b) = b
  BY DEF Choice

(* After a token there is one more position. *)
LEMMA PastMade ==
  ASSUME NEW S, NEW t \in Seq(S), NEW p \in Nat, NEW token, Past(t, p, token) # 0
  PROVE  /\ Past(t, p, token) = p + 1 /\ p \in 1 .. Len(t) /\ t[p] = token
         /\ Spells(t, p, p + 1, Text(token))
<1>1. Is(t, p, {token}) /\ Past(t, p, token) = p + 1
  BY DEF Past
<1>2. p \in 1 .. Len(t) /\ t[p] \in {token} /\ Spells(t, p, p + 1, Text(t[p]))
  BY <1>1, SpellsToken
<1> QED
  BY <1>1, <1>2

(* The token of a table spells the table's value. *)
LEMMA NamedToken ==
  ASSUME NEW S, NEW t \in Seq(S), NEW p \in Nat, NEW tokens, Is(t, p, DOMAIN tokens)
  PROVE  Spells(t, p, p + 1, Named(tokens, tokens[t[p]]))
<1> DEFINE x == t[p]
<1>1. x \in DOMAIN tokens /\ Spells(t, p, p + 1, Text(x))
  BY SpellsToken
<1>2. x \in {y \in DOMAIN tokens : tokens[y] = tokens[x]}
  BY <1>1
<1>3. <<x>> \in Named(tokens, tokens[x])
  BY <1>2 DEF Named
<1>4. Text(x) \subseteq Named(tokens, tokens[x])
  BY <1>3 DEF Text
<1> QED
  BY <1>1, <1>4, SpellsMore

(* A number is read as a value that it is a notation of. *)
LEMMA NumberCovers ==
  ASSUME NEW S, NEW t \in Seq(S), NEW p \in Nat, Number(t, p).at # 0
  PROVE  \E q \in Nat, v \in Long : /\ Number(t, p) = Match(q, DatumOp(v, NoLabel, Clear))
                                    /\ Spells(t, p, q, NumberText(v))
<1>1. CASE Is(t, p, DOMAIN Hexadecimal)
  <2> DEFINE v == Hexadecimal[t[p]]
  <2>1. HexNumber(t, p) = Match(p + 1, DatumOp(v, NoLabel, Clear)) /\ p + 1 # 0
    BY <1>1, Terminals
  <2>2. Number(t, p) = Match(p + 1, DatumOp(v, NoLabel, Clear))
    BY <2>1, MatchIs, ChoiceMade DEF Number
  <2>3. v \in Long
    BY <1>1, GrammarAssumption DEF Is
  <2>4. Spells(t, p, p + 1, Named(Hexadecimal, v))
    BY <1>1, NamedToken
  <2>5. Spells(t, p, p + 1, NumberText(v))
    BY <2>4, SpellsMore DEF NumberText
  <2> HIDE DEF v
  <2> QED
    BY <2>2, <2>3, <2>5
<1>2. CASE ~ Is(t, p, DOMAIN Hexadecimal)
  <2>1. HexNumber(t, p).at = 0
    BY <1>2, Terminals, Failed
  <2>2. Number(t, p) = Choice(NegativeDec(t, p), PositiveDec(t, p))
    BY <2>1, ChoiceMade DEF Number
  <2> DEFINE r == Past(t, p, "-")
  <2>3. CASE Is(t, r, DOMAIN Decimal)
    <3> DEFINE d == Decimal[t[r]]
               v == SubLong(ZeroLong, d)
    <3>1. r # 0
      BY <2>3 DEF Is
    <3>2. r = p + 1 /\ Spells(t, p, p + 1, Text("-"))
      BY <3>1, PastMade
    <3>3. PositiveDec(t, r) = Match(r + 1, DatumOp(d, NoLabel, Clear))
      BY <2>3, Terminals
    <3> HIDE DEF d
    <3>4. NegativeDec(t, p) = Match(r + 1, DatumOp(v, NoLabel, Clear))
      BY <3>3, DatumNoted DEF NegativeDec
    <3>5. r \in Nat /\ r + 1 \in Nat /\ r + 1 # 0
      BY <3>2
    <3>6. Number(t, p) = Match(r + 1, DatumOp(v, NoLabel, Clear))
      BY <2>2, <3>4, <3>5, MatchIs, ChoiceMade
    <3>7. d \in Long
      BY <2>3, GrammarAssumption DEF Is, d
    <3>8. Spells(t, r, r + 1, Named(Decimal, d))
      BY <2>3, <3>5, NamedToken DEF d
    <3>9. v \in Long /\ SubLong(ZeroLong, v) = d
      BY <3>7, NegatedTwice
    <3> HIDE DEF r
    <3>10. Spells(t, p, r + 1, Text("-") ** Named(Decimal, d))
      BY <3>2, <3>8, SpellsBoth
    <3> HIDE DEF v
    <3>11. Spells(t, p, r + 1, NumberText(v))
      BY <3>9, <3>10, SpellsMore DEF NumberText
    <3> QED
      BY <3>5, <3>6, <3>9, <3>11
  <2>4. CASE ~ Is(t, r, DOMAIN Decimal)
    <3>1. PositiveDec(t, r) = Match(0, DatumOp(ZeroLong, NoLabel, Clear))
      BY <2>4, Terminals, Failed, NothingMade
    <3>2. NegativeDec(t, p).at = 0
      BY <3>1, DatumNoted, MatchIs DEF NegativeDec
    <3>3. Number(t, p) = PositiveDec(t, p)
      BY <2>2, <3>2, ChoiceMade
    <3>4. Is(t, p, DOMAIN Decimal)
      BY <3>3, Terminals, Failed
    <3> DEFINE v == Decimal[t[p]]
    <3>5. Number(t, p) = Match(p + 1, DatumOp(v, NoLabel, Clear))
      BY <3>3, <3>4, Terminals
    <3>6. v \in Long
      BY <3>4, GrammarAssumption DEF Is
    <3>7. Spells(t, p, p + 1, Named(Decimal, v))
      BY <3>4, NamedToken
    <3>8. Spells(t, p, p + 1, NumberText(v))
      BY <3>7, SpellsMore DEF NumberText
    <3> HIDE DEF v
    <3> QED
      BY <3>5, <3>6, <3>8
  <2> QED
    BY <2>3, <2>4
<1> QED
  BY <1>1, <1>2

(* A displacement: a number, a name, or a name relative to the PC. *)
DispText(label, v, pc) ==
  IF label = NoLabel THEN NumberText(v)
  ELSE IF pc = Raised THEN {<<label, "-", ".">>} ELSE Text(label)

(* A token after a part. *)
LEMMA ThenCovers ==
  ASSUME NEW S, NEW t \in Seq(S), NEW s, NEW p \in Nat, NEW op, NEW token, NEW X,
         Spells(t, s, p, X), Then(t, Match(p, op), token).at # 0
  PROVE  /\ Then(t, Match(p, op), token) = Match(p + 1, op)
         /\ p + 1 \in Nat
         /\ Spells(t, s, p + 1, X ** Text(token))
         /\ p \in 1 .. Len(t) /\ t[p] = token
<1> DEFINE m == Match(p, op)
<1>1. m.at = p
  BY MatchIs
<1>2. Is(t, p, {token})
  BY <1>1, Failed DEF Then
<1>3. Then(t, m, token) = [m EXCEPT !.at = p + 1]
  <2>1. Then(t, m, token) = [m EXCEPT !.at = m.at + 1]
    BY <1>1, <1>2 DEF Then
  <2> HIDE DEF m
  <2> QED
    BY <1>1, <2>1
<1>4. [m EXCEPT !.at = p + 1] = Match(p + 1, op)
  BY DEF Match
<1>5. p \in 1 .. Len(t) /\ t[p] \in {token} /\ Spells(t, p, p + 1, Text(t[p]))
  BY <1>2, SpellsToken
<1>6. Spells(t, p, p + 1, Text(token))
  BY <1>5
<1>7. Spells(t, s, p + 1, X ** Text(token))
  BY <1>6, SpellsBoth
<1> QED
  BY <1>3, <1>4, <1>5, <1>7

(* A name is read as itself, ... *)
LEMMA IdentifierCovers ==
  ASSUME NEW S, NEW t \in Seq(S), NEW p \in Nat, Identifier(t, p).at # 0
  PROVE  /\ Identifier(t, p) = Match(p + 1, DatumOp(ZeroLong, t[p], Clear))
         /\ t[p] \in Identifiers /\ Spells(t, p, p + 1, Text(t[p]))
<1>1. Is(t, p, Identifiers) /\ Identifier(t, p) = Match(p + 1, DatumOp(ZeroLong, t[p], Clear))
  BY Terminals, Failed
<1> QED
  BY <1>1, SpellsToken

(* ... a datum as a value or a name, ... *)
LEMMA AbsoluteValueCovers ==
  ASSUME NEW S, NEW t \in Seq(S), NEW p \in Nat, AbsoluteValue(t, p).at # 0
  PROVE  \E q \in Nat, v \in Long, label \in Identifiers \cup {NoLabel} :
            /\ AbsoluteValue(t, p) = Match(q, DatumOp(v, label, Clear))
            /\ Spells(t, p, q, IF label = NoLabel THEN NumberText(v) ELSE Text(label))
<1>1. CASE Number(t, p).at # 0
  <2>1. AbsoluteValue(t, p) = Number(t, p)
    BY <1>1, ChoiceMade DEF AbsoluteValue
  <2>2. PICK q \in Nat, v \in Long : /\ Number(t, p) = Match(q, DatumOp(v, NoLabel, Clear))
                                     /\ Spells(t, p, q, NumberText(v))
    BY <1>1, NumberCovers
  <2> QED
    BY <2>1, <2>2
<1>2. CASE Number(t, p).at = 0
  <2>1. AbsoluteValue(t, p) = Identifier(t, p)
    BY <1>2, ChoiceMade DEF AbsoluteValue
  <2>2. /\ Identifier(t, p) = Match(p + 1, DatumOp(ZeroLong, t[p], Clear))
        /\ t[p] \in Identifiers /\ Spells(t, p, p + 1, Text(t[p]))
    BY <2>1, IdentifierCovers
  <2>3. t[p] # NoLabel /\ p + 1 \in Nat /\ ZeroLong \in Long
    BY <2>2, TokensAssumption, ZeroLongType
  <2> QED
    BY <2>1, <2>2, <2>3
<1> QED
  BY <1>1, <1>2

(* ... and a displacement as a value or a name, with or without the mark. *)
LEMMA DisplacementCovers ==
  ASSUME NEW S, NEW t \in Seq(S), NEW p \in Nat, Displacement(t, p).at # 0
  PROVE  \E q \in Nat, v \in Long, label \in Identifiers \cup {NoLabel}, pc \in BOOLEAN :
            /\ Displacement(t, p) = Match(q, DatumOp(v, label, pc))
            /\ label # NoLabel => v = ZeroLong
            /\ Spells(t, p, q, DispText(label, v, pc))
<1>1. CASE Number(t, p).at # 0
  <2>1. Displacement(t, p) = Number(t, p)
    BY <1>1, ChoiceMade DEF Displacement
  <2>2. PICK q \in Nat, v \in Long : /\ Number(t, p) = Match(q, DatumOp(v, NoLabel, Clear))
                                     /\ Spells(t, p, q, NumberText(v))
    BY <1>1, NumberCovers
  <2>3. Spells(t, p, q, DispText(NoLabel, v, Clear)) /\ Clear \in BOOLEAN
    BY <2>2 DEF DispText, Clear
  <2> QED
    BY <2>1, <2>2, <2>3
<1>2. CASE Number(t, p).at = 0 /\ PCRelativeLabel(t, p).at # 0
  <2> DEFINE name == Identifier(t, p)
             x == t[p]
             dash == Then(t, name, "-")
             dot == Then(t, dash, ".")
  <2>1. Displacement(t, p) = PcRelative(dot)
    BY <1>2, ChoiceMade DEF Displacement, PCRelativeLabel
  <2>2. dot.at # 0
    <3>1. CASE ~ Is(t, dash.at, {"."})
      <4>1. dot = Match(0, DatumOp(ZeroLong, NoLabel, Clear))
        BY <3>1, Failed, NothingMade DEF Then
      <4> HIDE DEF dot
      <4>2. PcRelative(dot).at = 0
        BY <4>1, DatumNoted, MatchIs
      <4> QED
        BY <1>2, <2>1, <4>2, ChoiceMade DEF Displacement
    <3>2. CASE Is(t, dash.at, {"."})
      <4>1. dot = [dash EXCEPT !.at = dash.at + 1] /\ dash.at # 0
        BY <3>2 DEF Then, Is
      <4>2. Is(t, name.at, {"-"}) /\ name.at # 0
        BY <4>1, Failed DEF Then, Is
      <4>3. /\ name = Match(p + 1, DatumOp(ZeroLong, x, Clear))
            /\ x \in Identifiers /\ Spells(t, p, p + 1, Text(x))
        BY <4>2, IdentifierCovers
      <4> HIDE DEF name, x
      <4>4. dash = Match(p + 2, DatumOp(ZeroLong, x, Clear)) /\ p + 1 \in Nat
        <5>1. Then(t, Match(p + 1, DatumOp(ZeroLong, x, Clear)), "-").at # 0
          BY <4>1, <4>3
        <5>2. p + 1 \in Nat
          OBVIOUS
        <5>3. /\ Then(t, Match(p + 1, DatumOp(ZeroLong, x, Clear)), "-")
                    = Match((p + 1) + 1, DatumOp(ZeroLong, x, Clear))
              /\ Spells(t, p, (p + 1) + 1, Text(x) ** Text("-"))
          BY <4>3, <5>1, <5>2, ThenCovers
        <5> QED
          BY <4>3, <5>2, <5>3
      <4> HIDE DEF dash
      <4>5. dot = Match((p + 2) + 1, DatumOp(ZeroLong, x, Clear))
        <5> DEFINE m == Match(p + 2, DatumOp(ZeroLong, x, Clear))
        <5>1. m.at = p + 2
          BY MatchIs
        <5>2. dash = m /\ dash.at = p + 2
          BY <4>4, <5>1
        <5>3. dot = [m EXCEPT !.at = (p + 2) + 1]
          <6> HIDE DEF m
          <6> QED
            BY <4>1, <5>2
        <5>4. [m EXCEPT !.at = (p + 2) + 1] = Match((p + 2) + 1, DatumOp(ZeroLong, x, Clear))
          BY DEF Match
        <5> QED
          BY <5>3, <5>4
      <4> QED
        BY <4>5, MatchIs
    <3> QED
      BY <3>1, <3>2
  <2>3. Is(t, dash.at, {"."}) /\ dash.at # 0
    BY <2>2, Failed DEF Then, Is
  <2>4. Is(t, name.at, {"-"}) /\ name.at # 0
    BY <2>3, Failed DEF Then, Is
  <2>5. /\ name = Match(p + 1, DatumOp(ZeroLong, x, Clear))
        /\ x \in Identifiers /\ Spells(t, p, p + 1, Text(x)) /\ p + 1 \in Nat
    BY <2>4, IdentifierCovers
  <2> HIDE DEF name, x
  <2>6. /\ dash = Match((p + 1) + 1, DatumOp(ZeroLong, x, Clear)) /\ (p + 1) + 1 \in Nat
        /\ Spells(t, p, (p + 1) + 1, Text(x) ** Text("-"))
    <3>1. Then(t, Match(p + 1, DatumOp(ZeroLong, x, Clear)), "-").at # 0
      BY <2>3, <2>5
    <3> QED
      BY <2>5, <3>1, ThenCovers
  <2> HIDE DEF dash
  <2> DEFINE r == (p + 1) + 1
             q == r + 1
  <2>7. /\ dot = Match(q, DatumOp(ZeroLong, x, Clear)) /\ q \in Nat
        /\ Spells(t, p, q, Text(x) ** Text("-") ** Text("."))
    <3> HIDE DEF r
    <3>1. Then(t, Match(r, DatumOp(ZeroLong, x, Clear)), ".").at # 0
      BY <2>2, <2>6 DEF r
    <3>2. Then(t, Match(r, DatumOp(ZeroLong, x, Clear)), ".") = dot
      BY <2>6 DEF r
    <3> HIDE DEF dot
    <3> QED
      BY <2>6, <3>1, <3>2, ThenCovers DEF r
  <2> HIDE DEF dot, q
  <2>8. Displacement(t, p) = Match(q, DatumOp(ZeroLong, x, Raised))
    BY <2>1, <2>7, DatumNoted
  <2>9. Text(x) ** Text("-") ** Text(".") \subseteq {<<x, "-", ".">>}
    <3> SUFFICES ASSUME NEW y \in Text(x) ** Text("-") ** Text(".")
                 PROVE  y = <<x, "-", ".">>
      OBVIOUS
    <3> DEFINE X == Text(x)
               dash_text == Text("-")
               dot_text == Text(".")
               both == X ** dash_text
    <3>0. y \in both ** dot_text
      OBVIOUS
    <3> HIDE DEF both, dot_text
    <3>1. PICK a \in both, b \in dot_text : y = a \o b
      BY <3>0, Joined
    <3>2. a \in X ** dash_text
      BY <3>1 DEF both
    <3> HIDE DEF X, dash_text
    <3>3. PICK c \in X, d \in dash_text : a = c \o d
      BY <3>2, Joined
    <3>4. b = <<".">> /\ c = <<x>> /\ d = <<"-">>
      BY <3>1, <3>3 DEF Text, X, dash_text, dot_text
    <3> QED
      BY <3>1, <3>3, <3>4, ThreeTokens
  <2>10. x # NoLabel
    BY <2>5, TokensAssumption
  <2>11. Spells(t, p, q, DispText(x, ZeroLong, Raised)) /\ Raised \in BOOLEAN
    BY <2>7, <2>9, <2>10, SpellsMore DEF DispText, Raised
  <2> QED
    BY <2>5, <2>7, <2>8, <2>10, <2>11, ZeroLongType
<1>3. CASE Number(t, p).at = 0 /\ PCRelativeLabel(t, p).at = 0
  <2>1. Displacement(t, p) = Identifier(t, p)
    BY <1>3, ChoiceMade DEF Displacement
  <2>2. /\ Identifier(t, p) = Match(p + 1, DatumOp(ZeroLong, t[p], Clear))
        /\ t[p] \in Identifiers /\ Spells(t, p, p + 1, Text(t[p]))
    BY <2>1, IdentifierCovers
  <2>3. t[p] # NoLabel /\ p + 1 \in Nat /\ ZeroLong \in Long
    BY <2>2, TokensAssumption, ZeroLongType
  <2>4. Spells(t, p, p + 1, DispText(t[p], ZeroLong, Clear)) /\ Clear \in BOOLEAN
    BY <2>2, <2>3 DEF DispText, Clear, Raised
  <2> QED
    BY <2>1, <2>2, <2>3, <2>4
<1> QED
  BY <1>1, <1>2, <1>3

-----------------------------------------------------------------------------
(* A base register, an index register and an outer displacement. *)
BaseOf(n) == IF n = Null THEN Text("PC") ELSE Named(AnToken, n)

SizeOf(size) == {<<".", size>>} \cup IF size = "W" THEN NoText ELSE {}
ScaleOf(scale) ==
  {<<"*", s>> : s \in {x \in DOMAIN ScaleToken : ScaleToken[x] = scale}}
    \cup IF scale = 0 THEN NoText ELSE {}
IndexOf(an, x, size, scale) ==
  Named(IF an = Raised THEN AnToken ELSE DnToken, x) ** SizeOf(size) ** ScaleOf(scale)

OuterOf(od) ==
  (Text(",") ** NumberText(od)) \cup IF od = ZeroLong THEN NoText ELSE {}

(* Two tokens side by side. *)
LEMMA SpellsTwo ==
  ASSUME NEW S, NEW t \in Seq(S), NEW p \in Nat, NEW X, NEW Y, Is(t, p, X), Is(t, p + 1, Y)
  PROVE  /\ t[p] \in X /\ t[p + 1] \in Y
         /\ Spells(t, p, p + 2, {<<t[p], t[p + 1]>>})
<1>1. t[p] \in X /\ Spells(t, p, p + 1, Text(t[p]))
  BY SpellsToken
<1>2. p + 1 \in Nat /\ (p + 1) + 1 = p + 2
  OBVIOUS
<1>3. t[p + 1] \in Y /\ Spells(t, p + 1, p + 2, Text(t[p + 1]))
  <2>1. t[p + 1] \in Y /\ Spells(t, p + 1, (p + 1) + 1, Text(t[p + 1]))
    BY <1>2, SpellsToken
  <2> QED
    BY <1>2, <2>1
<1> DEFINE a == t[p]
           b == t[p + 1]
<1> HIDE DEF a, b
<1>4. Text(a) ** Text(b) \subseteq {<<a, b>>}
  <2> SUFFICES ASSUME NEW y \in Text(a) ** Text(b) PROVE y = <<a, b>>
    OBVIOUS
  <2>1. PICK c \in Text(a), d \in Text(b) : y = c \o d
    BY Joined
  <2>2. c = <<a>> /\ d = <<b>>
    BY <2>1 DEF Text
  <2> QED
    BY <2>1, <2>2, TwoTokens
<1>5. Spells(t, p, p + 2, Text(a) ** Text(b))
  BY <1>1, <1>3, SpellsBoth DEF a, b
<1>6. Spells(t, p, p + 2, {<<a, b>>})
  BY <1>4, <1>5, SpellsMore
<1> QED
  BY <1>1, <1>3, <1>6 DEF a, b

(* A base register, or the PC, ... *)
LEMMA BaseRegisterCovers ==
  ASSUME NEW S, NEW t \in Seq(S), NEW p \in Nat, BaseRegister(t, p).at # 0
  PROVE  \E n \in -1 .. 7 : /\ BaseRegister(t, p) = Match(p + 1, RegisterOp(n))
                            /\ Spells(t, p, p + 1, BaseOf(n))
<1>1. CASE Is(t, p, DOMAIN AnToken)
  <2> DEFINE n == AnToken[t[p]]
  <2>1. AnRegSpecifier(t, p) = Match(p + 1, RegisterOp(n))
    BY <1>1, Terminals
  <2>2. BaseRegister(t, p) = Match(p + 1, RegisterOp(n))
    BY <2>1, MatchIs, ChoiceMade DEF BaseRegister
  <2>3. n \in 0 .. 7
    BY <1>1, GrammarAssumption DEF Is
  <2>4. Spells(t, p, p + 1, Named(AnToken, n))
    BY <1>1, NamedToken
  <2> HIDE DEF n
  <2>5. n \in -1 .. 7 /\ n # Null
    BY <2>3 DEF Null
  <2> QED
    BY <2>2, <2>4, <2>5 DEF BaseOf
<1>2. CASE ~ Is(t, p, DOMAIN AnToken)
  <2> DEFINE r == Past(t, p, "PC")
  <2>1. AnRegSpecifier(t, p).at = 0
    BY <1>2, Terminals, Failed
  <2>2. BaseRegister(t, p) = Match(r, RegisterOp(Null))
    BY <2>1, Terminals, ChoiceMade DEF BaseRegister
  <2>3. r # 0
    BY <2>2, MatchIs
  <2>4. r = p + 1 /\ Spells(t, p, p + 1, Text("PC"))
    BY <2>3, PastMade
  <2> QED
    BY <2>2, <2>4 DEF BaseOf, Null
<1> QED
  BY <1>1, <1>2

(* ... after a displacement and a separator. *)
LEMMA BaseCovers ==
  ASSUME NEW S, NEW t \in Seq(S), NEW s, NEW p \in Nat, NEW v, NEW label, NEW pc, NEW sep, NEW X,
         Spells(t, s, p, X), label # NoLabel => v = ZeroLong,
         Base(t, Match(p, DatumOp(v, label, pc)), sep).at # 0
  PROVE  \E q \in Nat, n \in -1 .. 7 :
            /\ Base(t, Match(p, DatumOp(v, label, pc)), sep)
                 = Match(q, AddressOp("UNKNOWN_MODE", n, label, v, Clear, Null, NoLabel, 0, ZeroLong))
            /\ Spells(t, s, q, X ** Text(sep) ** BaseOf(n))
<1> DEFINE disp == Match(p, DatumOp(v, label, pc))
           r == Past(t, p, sep)
           base == BaseRegister(t, r)
<1>1. disp.at = p /\ disp.op = DatumOp(v, label, pc)
  BY MatchIs
<1>2. Base(t, disp, sep) = Match(base.at, WithDisplacement(base.op, DatumOp(v, label, pc)))
  BY <1>1 DEF Base, Displaced
<1>3. base.at # 0
  BY <1>2, MatchIs
<1>4. r # 0
  <2> SUFFICES ASSUME r = 0 PROVE FALSE
    OBVIOUS
  <2>1. AnRegSpecifier(t, 0).at = 0 /\ Past(t, 0, "PC") = 0
    BY Terminals, Failed DEF Is, Past
  <2>2. BaseRegister(t, 0) = Match(0, RegisterOp(Null))
    BY <2>1, Terminals, ChoiceMade DEF BaseRegister
  <2> QED
    BY <1>3, <2>2, MatchIs
<1>5. r = p + 1 /\ r \in Nat /\ Spells(t, p, r, Text(sep))
  BY <1>4, PastMade
<1> HIDE DEF r
<1>6. PICK n \in -1 .. 7 : base = Match(r + 1, RegisterOp(n)) /\ Spells(t, r, r + 1, BaseOf(n))
  BY <1>3, <1>5, BaseRegisterCovers
<1> HIDE DEF base
<1>7. Base(t, disp, sep)
        = Match(r + 1, AddressOp("UNKNOWN_MODE", n, label, v, Clear, Null, NoLabel, 0, ZeroLong))
  BY <1>2, <1>6, MatchIs, AddressMade
<1>8. Spells(t, s, r, X ** Text(sep))
  BY <1>5, SpellsBoth
<1>9. Spells(t, s, r + 1, X ** Text(sep) ** BaseOf(n))
  BY <1>6, <1>8, SpellsBoth
<1> QED
  BY <1>5, <1>6, <1>7, <1>9

(* A size and a factor are entered into an index register. *)
Sized(m, z) == [m EXCEPT !.op.index_size = z]
SizedTo(m, q, z) == [m EXCEPT !.at = q, !.op.index_size = z]
ScaledTo(m, q, z) == [m EXCEPT !.at = q, !.op.scale = z]

(* The size and the factor of an index, each after its tokens, ... *)
LEMMA SizeNoted ==
  ASSUME NEW p, NEW an, NEW x, NEW size, NEW scale, NEW q, NEW z
  PROVE  LET m == Match(p, IndexOp(an, x, size, scale))
         IN  /\ SizedTo(m, q, z) = Match(q, IndexOp(an, x, z, scale))
             /\ ScaledTo(m, q, z) = Match(q, IndexOp(an, x, size, z))
<1> DEFINE op == IndexOp(an, x, size, scale)
           m == Match(p, op)
           sized == [op EXCEPT !.index_size = z]
           scaled == [op EXCEPT !.scale = z]
<1>1. m.op = op
  BY MatchIs
<1>2. /\ [m EXCEPT !.at = q, !.op.index_size = z] = [[m EXCEPT !.at = q] EXCEPT !.op = sized]
      /\ [m EXCEPT !.op.index_size = z] = [m EXCEPT !.op = sized]
      /\ [m EXCEPT !.at = q, !.op.scale = z] = [[m EXCEPT !.at = q] EXCEPT !.op = scaled]
  <2> HIDE DEF m, op
  <2>1. /\ [m EXCEPT !.at = q, !.op.index_size = z]
             = [[m EXCEPT !.at = q] EXCEPT !.op = [m.op EXCEPT !.index_size = z]]
        /\ [m EXCEPT !.op.index_size = z] = [m EXCEPT !.op = [m.op EXCEPT !.index_size = z]]
        /\ [m EXCEPT !.at = q, !.op.scale = z]
             = [[m EXCEPT !.at = q] EXCEPT !.op = [m.op EXCEPT !.scale = z]]
    OBVIOUS
  <2> QED
    BY <1>1, <2>1
<1>3. sized = IndexOp(an, x, z, scale) /\ scaled = IndexOp(an, x, size, z)
  BY DEF Made, IndexOp
<1> HIDE DEF sized, scaled
<1>4. /\ [m EXCEPT !.at = q] = Match(q, op)
      /\ [m EXCEPT !.op = sized] = Match(p, sized)
      /\ [Match(q, op) EXCEPT !.op = sized] = Match(q, sized)
      /\ [Match(q, op) EXCEPT !.op = scaled] = Match(q, scaled)
  <2> HIDE DEF op
  <2> QED
    BY DEF Match
<1> QED
  BY <1>2, <1>3, <1>4 DEF Sized, SizedTo, ScaledTo

(* ... and the size that is not written. *)
LEMMA WordNoted ==
  ASSUME NEW p, NEW an, NEW x, NEW size, NEW scale, NEW z
  PROVE  Sized(Match(p, IndexOp(an, x, size, scale)), z) = Match(p, IndexOp(an, x, z, scale))
<1> DEFINE op == IndexOp(an, x, size, scale)
           m == Match(p, op)
           sized == [op EXCEPT !.index_size = z]
<1>1. m.op = op
  BY MatchIs
<1>2. [m EXCEPT !.op.index_size = z] = [m EXCEPT !.op = sized]
  <2> HIDE DEF m, op
  <2>1. [m EXCEPT !.op.index_size = z] = [m EXCEPT !.op = [m.op EXCEPT !.index_size = z]]
    OBVIOUS
  <2> QED
    BY <1>1, <2>1
<1>3. sized = IndexOp(an, x, z, scale)
  BY DEF Made, IndexOp
<1> HIDE DEF sized
<1>4. [m EXCEPT !.op = sized] = Match(p, sized)
  <2> HIDE DEF op
  <2> QED
    BY DEF Match
<1> QED
  BY <1>2, <1>3, <1>4 DEF Sized

(* An index is read as its register, size and factor. *)
LEMMA IndexRegisterCovers ==
  ASSUME NEW S, NEW t \in Seq(S), NEW p \in Nat, IndexRegister(t, p).at # 0
  PROVE  \E q \in Nat, an \in BOOLEAN, x \in 0 .. 7, size \in Sizes, scale \in 0 .. 3 :
            /\ IndexRegister(t, p) = Match(q, IndexOp(an, x, size, scale))
            /\ Spells(t, p, q, IndexOf(an, x, size, scale))
<1> DEFINE reg == IndexRegSpecifier(t, p)
           sized == IndexSize(t, reg)
           scaled == IndexScale(t, sized)
<1>1. IndexRegister(t, p) = scaled
  BY DEF IndexRegister
<1>2. Nothing(0).at = 0 /\ Fail.at = 0
  BY Failed, Terminals, MatchIs
<1>3. CASE ~ Is(t, p, DOMAIN AnToken) /\ ~ Is(t, p, DOMAIN DnToken)
  <2>1. AnRegSpecifier(t, p) = Match(0, RegisterOp(Null)) /\ DnRegSpecifier(t, p) = Match(0, RegisterOp(Null))
    BY <1>3, Terminals, Failed, NothingMade
  <2>2. reg = Match(0, IndexOp(Clear, Null, NoLabel, 0))
    <3>1. OfAn(AnRegSpecifier(t, p)) = Match(0, IndexOp(Raised, Null, NoLabel, 0))
      BY <2>1, RegisterNoted
    <3>2. OfAn(AnRegSpecifier(t, p)).at = 0
      BY <3>1, MatchIs
    <3>3. reg = DnRegSpecifier(t, p)
      BY <3>2, ChoiceMade DEF IndexRegSpecifier
    <3> QED
      BY <2>1, <3>3, RegisterNoted
  <2>3. ~ HasSize(t, reg.at)
    BY <2>2, MatchIs DEF HasSize, Is
  <2> HIDE DEF reg
  <2>4. sized = Sized(reg, "W")
    BY <2>3 DEF IndexSize, Sized
  <2> DEFINE word == "W"
  <2>5. sized = Match(0, IndexOp(Clear, Null, word, 0))
    <3>1. sized = Sized(reg, word)
      BY <2>4
    <3> HIDE DEF word, sized
    <3> QED
      BY <2>2, <3>1, WordNoted
  <2>6. ~ HasScale(t, sized.at)
    BY <2>5, MatchIs DEF HasScale, Is
  <2> HIDE DEF sized
  <2>7. scaled.at = 0
    BY <2>5, <2>6, MatchIs DEF IndexScale
  <2> QED
    BY <1>1, <2>7
<1>4. CASE Is(t, p, DOMAIN AnToken) \/ Is(t, p, DOMAIN DnToken)
  <2>1. \E an \in BOOLEAN, x \in 0 .. 7 :
          /\ reg = Match(p + 1, IndexOp(an, x, NoLabel, 0))
          /\ Spells(t, p, p + 1, Named(IF an = Raised THEN AnToken ELSE DnToken, x))
    <3>1. CASE Is(t, p, DOMAIN AnToken)
      <4> DEFINE x == AnToken[t[p]]
      <4>1. AnRegSpecifier(t, p) = Match(p + 1, RegisterOp(x))
        BY <3>1, Terminals
      <4>2. x \in 0 .. 7
        BY <3>1, GrammarAssumption DEF Is
      <4>3. Spells(t, p, p + 1, Named(AnToken, x))
        BY <3>1, NamedToken
      <4> HIDE DEF x
      <4>4. OfAn(AnRegSpecifier(t, p)) = Match(p + 1, IndexOp(Raised, x, NoLabel, 0))
        BY <4>1, RegisterNoted
      <4>5. reg = Match(p + 1, IndexOp(Raised, x, NoLabel, 0))
        BY <4>4, MatchIs, ChoiceMade DEF IndexRegSpecifier
      <4>6. Raised \in BOOLEAN
        BY DEF Raised
      <4> QED
        BY <4>2, <4>3, <4>5, <4>6
    <3>2. CASE ~ Is(t, p, DOMAIN AnToken)
      <4> DEFINE x == DnToken[t[p]]
      <4>1. Is(t, p, DOMAIN DnToken)
        BY <1>4, <3>2
      <4>2. DnRegSpecifier(t, p) = Match(p + 1, RegisterOp(x))
        BY <4>1, Terminals
      <4>3. x \in 0 .. 7
        BY <4>1, GrammarAssumption DEF Is
      <4>4. Spells(t, p, p + 1, Named(DnToken, x))
        BY <4>1, NamedToken
      <4> HIDE DEF x
      <4>5. AnRegSpecifier(t, p) = Match(0, RegisterOp(Null))
        BY <3>2, Terminals, Failed, NothingMade
      <4>6. OfAn(AnRegSpecifier(t, p)) = Match(0, IndexOp(Raised, Null, NoLabel, 0))
        BY <4>5, RegisterNoted
      <4>7. reg = Match(p + 1, IndexOp(Clear, x, NoLabel, 0))
        BY <4>2, <4>6, MatchIs, ChoiceMade, RegisterNoted DEF IndexRegSpecifier
      <4>8. Clear \in BOOLEAN /\ Clear # Raised
        BY DEF Clear, Raised
      <4> QED
        BY <4>3, <4>4, <4>7, <4>8
    <3> QED
      BY <3>1, <3>2
  <2>2. PICK an \in BOOLEAN, x \in 0 .. 7 :
          /\ reg = Match(p + 1, IndexOp(an, x, NoLabel, 0))
          /\ Spells(t, p, p + 1, Named(IF an = Raised THEN AnToken ELSE DnToken, x))
    BY <2>1
  <2> DEFINE r == p + 1
             name == Named(IF an = Raised THEN AnToken ELSE DnToken, x)
  <2>3. reg = Match(r, IndexOp(an, x, NoLabel, 0)) /\ reg.at = r /\ r \in Nat /\ Spells(t, p, r, name)
    BY <2>2, MatchIs
  <2> HIDE DEF reg, r, name
  <2>4. \E q \in Nat, size \in Sizes :
          /\ sized = Match(q, IndexOp(an, x, size, 0))
          /\ Spells(t, p, q, name ** SizeOf(size))
    <3>1. CASE HasSize(t, r)
      <4> DEFINE size == t[r + 1]
                 q == r + 2
      <4>1. Is(t, r, {"."}) /\ Is(t, r + 1, Sizes)
        BY <3>1 DEF HasSize
      <4>2. size \in Sizes /\ Spells(t, r, q, {<<".", size>>})
        <5>1. t[r] \in {"."} /\ size \in Sizes /\ Spells(t, r, r + 2, {<<t[r], size>>})
          BY <2>3, <4>1, SpellsTwo
        <5> QED
          BY <5>1
      <4>3. sized = SizedTo(reg, q, size)
        BY <2>3, <3>1 DEF IndexSize, SizedTo
      <4>4. q \in Nat
        BY <2>3
      <4> HIDE DEF size, q
      <4>5. sized = Match(q, IndexOp(an, x, size, 0))
        <5> HIDE DEF sized
        <5> QED
          BY <2>3, <4>3, SizeNoted
      <4>6. Spells(t, r, q, SizeOf(size))
        BY <4>2, SpellsMore DEF SizeOf
      <4>7. Spells(t, p, q, name ** SizeOf(size))
        BY <2>3, <4>6, SpellsBoth
      <4> HIDE DEF sized
      <4> QED
        BY <4>2, <4>4, <4>5, <4>7
    <3>2. CASE ~ HasSize(t, r)
      <4> DEFINE word == "W"
      <4>1. sized = Sized(reg, word)
        BY <2>3, <3>2 DEF IndexSize, Sized
      <4>2. word \in Sizes
        BY DEF Sizes
      <4>3. r \in 1 .. Len(t) + 1
        BY <2>3 DEF Spells
      <4>4. Spells(t, r, r, NoText)
        BY <4>3, SpellsNothing
      <4>5. NoText \subseteq SizeOf(word)
        BY DEF SizeOf
      <4> HIDE DEF word
      <4>6. sized = Match(r, IndexOp(an, x, word, 0))
        <5> HIDE DEF sized
        <5> QED
          BY <2>3, <4>1, WordNoted
      <4>7. Spells(t, r, r, SizeOf(word))
        BY <4>4, <4>5, SpellsMore
      <4>8. Spells(t, p, r, name ** SizeOf(word))
        BY <2>3, <4>7, SpellsBoth
      <4> HIDE DEF sized
      <4> QED
        BY <2>3, <4>2, <4>6, <4>8
    <3> QED
      BY <3>1, <3>2
  <2>5. PICK u \in Nat, size \in Sizes :
          /\ sized = Match(u, IndexOp(an, x, size, 0))
          /\ Spells(t, p, u, name ** SizeOf(size))
    BY <2>4
  <2>6. sized.at = u
    BY <2>5, MatchIs
  <2> HIDE DEF sized
  <2>7. \E q \in Nat, scale \in 0 .. 3 :
          /\ scaled = Match(q, IndexOp(an, x, size, scale))
          /\ Spells(t, p, q, name ** SizeOf(size) ** ScaleOf(scale))
    <3>1. CASE HasScale(t, u)
      <4> DEFINE digit == t[u + 1]
                 scale == ScaleToken[digit]
                 q == u + 2
      <4>1. Is(t, u, {"*"}) /\ Is(t, u + 1, DOMAIN ScaleToken)
        BY <3>1 DEF HasScale
      <4>2. digit \in DOMAIN ScaleToken /\ Spells(t, u, q, {<<"*", digit>>})
        <5>1. t[u] \in {"*"} /\ digit \in DOMAIN ScaleToken /\ Spells(t, u, u + 2, {<<t[u], digit>>})
          BY <2>5, <4>1, SpellsTwo
        <5> QED
          BY <5>1
      <4>3. scaled = ScaledTo(sized, q, scale)
        BY <2>6, <3>1 DEF IndexScale, ScaledTo
      <4>4. q \in Nat
        BY <2>5
      <4> HIDE DEF digit
      <4>5. scale \in 0 .. 3
        BY <4>2 DEF ScaleToken
      <4>6. {<<"*", digit>>} \subseteq ScaleOf(scale)
        BY <4>2 DEF ScaleOf
      <4> HIDE DEF scale, q
      <4>7. scaled = Match(q, IndexOp(an, x, size, scale))
        <5> HIDE DEF scaled
        <5> QED
          BY <2>5, <4>3, SizeNoted
      <4>8. Spells(t, u, q, ScaleOf(scale))
        BY <4>2, <4>6, SpellsMore
      <4>9. Spells(t, p, q, name ** SizeOf(size) ** ScaleOf(scale))
        BY <2>5, <4>8, SpellsBoth
      <4> HIDE DEF scaled
      <4> QED
        BY <4>4, <4>5, <4>7, <4>9
    <3>2. CASE ~ HasScale(t, u)
      <4>1. scaled = Match(u, IndexOp(an, x, size, 0))
        BY <2>5, <2>6, <3>2 DEF IndexScale
      <4>2. u \in 1 .. Len(t) + 1
        BY <2>5, LenProperties DEF Spells
      <4>3. Spells(t, u, u, NoText)
        BY <4>2, SpellsNothing
      <4>4. NoText \subseteq ScaleOf(0)
        BY DEF ScaleOf
      <4>5. Spells(t, u, u, ScaleOf(0))
        BY <4>3, <4>4, SpellsMore
      <4>6. Spells(t, p, u, name ** SizeOf(size) ** ScaleOf(0))
        BY <2>5, <4>5, SpellsBoth
      <4> HIDE DEF scaled
      <4>7. 0 \in 0 .. 3
        OBVIOUS
      <4> QED
        BY <4>1, <4>6, <4>7
    <3> QED
      BY <3>1, <3>2
  <2>8. PICK q \in Nat, scale \in 0 .. 3 :
          /\ scaled = Match(q, IndexOp(an, x, size, scale))
          /\ Spells(t, p, q, name ** SizeOf(size) ** ScaleOf(scale))
    BY <2>7
  <2>9. Spells(t, p, q, IndexOf(an, x, size, scale))
    BY <2>8 DEF IndexOf, name
  <2> HIDE DEF scaled
  <2> QED
    BY <1>1, <2>5, <2>8, <2>9
<1> QED
  BY <1>3, <1>4

Comma == ","
Close == ")"

(* A comma and an index register after an address. *)
LEMMA IndexCovers ==
  ASSUME NEW S, NEW t \in Seq(S), NEW s, NEW p \in Nat, NEW mode, NEW n, NEW label, NEW bd,
         NEW od, NEW X, Spells(t, s, p, X),
         Index(t, Match(p, AddressOp(mode, n, label, bd, Clear, Null, NoLabel, 0, od))).at # 0
  PROVE  \E q \in Nat, an \in BOOLEAN, x \in 0 .. 7, size \in Sizes, scale \in 0 .. 3 :
            /\ Index(t, Match(p, AddressOp(mode, n, label, bd, Clear, Null, NoLabel, 0, od)))
                 = Match(q, AddressOp(mode, n, label, bd, an, x, size, scale, od))
            /\ Spells(t, s, q, X ** Text(Comma) ** IndexOf(an, x, size, scale))
<1> DEFINE op == AddressOp(mode, n, label, bd, Clear, Null, NoLabel, 0, od)
           comma == ","
           r == Past(t, p, comma)
           idx == IndexRegister(t, r)
<1>1. Match(p, op).at = p /\ Match(p, op).op = op
  BY MatchIs
<1>2. Index(t, Match(p, op)) = Match(idx.at, WithIndex(op, idx.op))
  BY <1>1 DEF Index, Indexed
<1> HIDE DEF comma
<1>3. idx.at # 0
  BY <1>2, MatchIs
<1>4. r \in Nat
  BY DEF Past, Is
<1>5. PICK q \in Nat, an \in BOOLEAN, x \in 0 .. 7, size \in Sizes, scale \in 0 .. 3 :
            /\ idx = Match(q, IndexOp(an, x, size, scale))
            /\ Spells(t, r, q, IndexOf(an, x, size, scale))
  BY <1>3, <1>4, IndexRegisterCovers
<1>6. r # 0
  BY <1>5 DEF Spells
<1>7. Spells(t, p, r, Text(comma))
  BY <1>6, PastMade
<1> HIDE DEF idx, r
<1>8. Index(t, Match(p, op)) = Match(q, AddressOp(mode, n, label, bd, an, x, size, scale, od))
  BY <1>2, <1>5, MatchIs, AddressMade
<1>9. Spells(t, s, q, X ** Text(comma) ** IndexOf(an, x, size, scale))
  <2>1. Spells(t, s, r, X ** Text(comma))
    BY <1>7, SpellsBoth
  <2> QED
    BY <2>1, <1>5, SpellsBoth
<1> QED
  BY <1>8, <1>9 DEF comma, Comma

(* A text of five tokens, by its tokens. *)
LEMMA QuintupleIs ==
  ASSUME NEW S, NEW c \in Seq(S), Len(c) = 5
  PROVE  c = <<c[1], c[2], c[3], c[4], c[5]>>
<1> DEFINE d == <<c[1], c[2], c[3], c[4], c[5]>>
<1>1. \A i \in 1 .. 5 : c[i] \in S
  BY LenProperties, ElementOfSeq
<1>2. d \in Seq(S) /\ Len(d) = 5 /\ \A i \in 1 .. 5 : d[i] = c[i]
  BY <1>1
<1> HIDE DEF d
<1> QED
  BY <1>2, SeqEqual DEF d

(* Writing five tokens. *)
LEMMA FiveTokens ==
  ASSUME NEW u, NEW x, NEW y, NEW z, NEW w
  PROVE  <<u>> \o <<x, y, z>> \o <<w>> = <<u, x, y, z, w>>
<1> DEFINE S == {u, x, y, z, w}
           a == <<u>>
           b == <<x, y, z>>
           e == <<w>>
<1>1. /\ a \in Seq(S) /\ Len(a) = 1 /\ a[1] = u
      /\ b \in Seq(S) /\ Len(b) = 3 /\ b[1] = x /\ b[2] = y /\ b[3] = z
      /\ e \in Seq(S) /\ Len(e) = 1 /\ e[1] = w
  OBVIOUS
<1> HIDE DEF a, b, e, S
<1> DEFINE c == a \o b
<1>2. c \in Seq(S) /\ Len(c) = 4
  <2>1. c \in Seq(S)
    BY <1>1, ConcatProperties
  <2>2. Len(c) = Len(a) + Len(b)
    BY <1>1, ConcatProperties
  <2> HIDE DEF c
  <2> QED
    BY <1>1, <2>1, <2>2
<1>3. \A i \in 1 .. Len(a) + Len(b) : c[i] = IF i <= Len(a) THEN a[i] ELSE b[i - Len(a)]
  BY <1>1, ConcatProperties
<1> HIDE DEF c
<1>4. c[1] = u /\ c[2] = x /\ c[3] = y /\ c[4] = z
  BY <1>1, <1>3
<1> DEFINE d == c \o e
<1>5. d \in Seq(S) /\ Len(d) = 5
  <2>1. d \in Seq(S)
    BY <1>1, <1>2, ConcatProperties
  <2>2. Len(d) = Len(c) + Len(e)
    BY <1>1, <1>2, ConcatProperties
  <2> HIDE DEF d
  <2> QED
    BY <1>1, <1>2, <2>1, <2>2
<1>6. \A i \in 1 .. Len(c) + Len(e) : d[i] = IF i <= Len(c) THEN c[i] ELSE e[i - Len(c)]
  BY <1>1, <1>2, ConcatProperties
<1> HIDE DEF d
<1>7. d[1] = u /\ d[2] = x /\ d[3] = y /\ d[4] = z /\ d[5] = w
  BY <1>1, <1>2, <1>4, <1>6
<1>8. d = <<u, x, y, z, w>>
  BY <1>5, <1>7, QuintupleIs
<1> QED
  BY <1>8 DEF a, b, c, d, e

(* One text after another is the text of their tokens. *)
LEMMA JoinedTokens ==
  ASSUME NEW u, NEW x, NEW y, NEW z, NEW w, NEW c
  PROVE  /\ c \in Text(u) ** Text(x) ** Text(w) => c = <<u, x, w>>
         /\ c \in Text(u) ** {<<x, y, z>>} ** Text(w) => c = <<u, x, y, z, w>>
<1>1. ASSUME NEW b, c \in Text(u) ** {b} ** Text(w) PROVE c = <<u>> \o b \o <<w>>
  <2> DEFINE A == Text(u) ** {b}
             B == Text(w)
  <2> HIDE DEF A, B
  <2>1. PICK d \in A, e \in B : c = d \o e
    BY <1>1, Joined DEF A, B
  <2>2. e = <<w>>
    BY DEF B, Text
  <2>3. d = <<u>> \o b
    <3> DEFINE U == Text(u)
               V == {b}
    <3> HIDE DEF U, V
    <3>1. d \in U ** V
      BY DEF A, U, V
    <3>2. PICK f \in U, g \in V : d = f \o g
      BY <3>1, Joined
    <3> QED
      BY <3>2 DEF U, V, Text
  <2> QED
    BY <2>1, <2>2, <2>3
<1>2. c \in Text(u) ** Text(x) ** Text(w) => c = <<u, x, w>>
  <2>1. Text(x) = {<<x>>}
    BY DEF Text
  <2> QED
    BY <1>1, <2>1, ThreeTokens
<1>3. c \in Text(u) ** {<<x, y, z>>} ** Text(w) => c = <<u, x, y, z, w>>
  BY <1>1, FiveTokens
<1> QED
  BY <1>2, <1>3

(* The comma, the name and what follows it, that the rule takes for the outer *)
(* displacement and drops.                                                    *)
DropsLabel(t, p, q) ==
  \E x \in Identifiers : SubSeq(t, p, q - 1) \in {<<",", x, ")">>, <<",", x, "-", ".", ")">>}

(* The outer displacement: its value is read, and a name is dropped. *)
LEMMA OuterCovers ==
  ASSUME NEW S, NEW t \in Seq(S), NEW s, NEW p \in Nat, NEW mode, NEW n, NEW label, NEW bd,
         NEW an, NEW x, NEW size, NEW scale, NEW X, Spells(t, s, p, X),
         OuterEnd(t, Match(p, AddressOp(mode, n, label, bd, an, x, size, scale, ZeroLong))).at # 0
  PROVE  \E q \in Nat, od \in Long :
            /\ OuterEnd(t, Match(p, AddressOp(mode, n, label, bd, an, x, size, scale, ZeroLong)))
                 = Match(q, AddressOp(mode, n, label, bd, an, x, size, scale, od))
            /\ \/ Spells(t, s, q, X ** OuterOf(od) ** Text(Close))
               \/ od = ZeroLong /\ DropsLabel(t, p, q) /\ q \in p .. Len(t) + 1
<1> DEFINE op == AddressOp(mode, n, label, bd, an, x, size, scale, ZeroLong)
           comma == ","
           close == ")"
           r == Past(t, p, comma)
           disp == Choice(Displacement(t, r), Nothing(p))
           m == Match(disp.at, WithOuter(op, disp.op))
<1>1. Match(p, op).at = p /\ Match(p, op).op = op
  BY MatchIs
<1>2. OuterEnd(t, Match(p, op)) = Then(t, m, close)
  BY <1>1 DEF OuterEnd, Outer
<1> HIDE DEF comma, close
<1>3. r \in Nat
  BY DEF Past, Is
<1>4. ZeroLong \in Long
  BY ZeroLongType
<1>5. CASE Displacement(t, r).at = 0
  <2>1. disp = Match(p, DatumOp(ZeroLong, NoLabel, Clear))
    BY <1>5, ChoiceMade, Terminals
  <2> HIDE DEF disp
  <2>2. m = Match(p, op)
    BY <2>1, MatchIs, AddressMade
  <2> HIDE DEF m
  <2>3. p \in 1 .. Len(t) + 1
    BY DEF Spells
  <2>4. Spells(t, p, p, NoText)
    BY <2>3, SpellsNothing
  <2>5. NoText \subseteq OuterOf(ZeroLong)
    BY DEF OuterOf
  <2>6. Spells(t, s, p, X ** OuterOf(ZeroLong))
    <3>1. Spells(t, p, p, OuterOf(ZeroLong))
      BY <2>4, <2>5, SpellsMore
    <3> QED
      BY <3>1, SpellsBoth
  <2>7. /\ Then(t, m, close) = Match(p + 1, op) /\ p + 1 \in Nat
        /\ Spells(t, s, p + 1, X ** OuterOf(ZeroLong) ** Text(close))
    BY <1>2, <2>2, <2>6, ThenCovers
  <2> QED
    BY <1>2, <1>4, <2>7 DEF close, Close
<1>6. CASE Displacement(t, r).at # 0
  <2>1. PICK u \in Nat, v \in Long, name \in Identifiers \cup {NoLabel}, pc \in BOOLEAN :
            /\ Displacement(t, r) = Match(u, DatumOp(v, name, pc))
            /\ name # NoLabel => v = ZeroLong
            /\ Spells(t, r, u, DispText(name, v, pc))
    BY <1>3, <1>6, DisplacementCovers
  <2> DEFINE od == IF name = NoLabel THEN v ELSE ZeroLong
  <2>2. disp = Match(u, DatumOp(v, name, pc))
    BY <1>6, <2>1, ChoiceMade
  <2> HIDE DEF disp
  <2>3. m = Match(u, AddressOp(mode, n, label, bd, an, x, size, scale, od))
    BY <2>2, MatchIs, AddressMade
  <2> HIDE DEF m
  <2>4. r # 0
    BY <2>1 DEF Spells
  <2>5. Spells(t, p, r, Text(comma))
    BY <2>4, PastMade
  <2>6. Spells(t, p, u, Text(comma) ** DispText(name, v, pc))
    BY <2>1, <2>5, SpellsBoth
  <2>7. /\ Then(t, m, close) = Match(u + 1, AddressOp(mode, n, label, bd, an, x, size, scale, od))
        /\ u + 1 \in Nat
        /\ Spells(t, p, u + 1, Text(comma) ** DispText(name, v, pc) ** Text(close))
    BY <1>2, <2>3, <2>6, ThenCovers
  <2>8. od \in Long
    BY <1>4
  <2>9. CASE name = NoLabel
    <3>1. od = v /\ Spells(t, p, u, Text(comma) ** NumberText(v))
      BY <2>6, <2>9 DEF DispText
    <3>2. Text(comma) ** NumberText(v) \subseteq OuterOf(v)
      BY DEF OuterOf, comma
    <3>3. Spells(t, s, u, X ** OuterOf(v))
      <4>1. Spells(t, p, u, OuterOf(v))
        BY <3>1, <3>2, SpellsMore
      <4> QED
        BY <4>1, SpellsBoth
    <3>4. Spells(t, s, u + 1, X ** OuterOf(v) ** Text(close))
      BY <1>2, <2>3, <3>3, ThenCovers
    <3> QED
      BY <1>2, <2>7, <3>1, <3>4 DEF close, Close
  <2>10. CASE name # NoLabel
    <3> DEFINE rest == SubSeq(t, p, u)
               minus == "-"
               dot == "."
    <3>1. name \in Identifiers /\ od = ZeroLong
      BY <2>10
    <3>2. rest \in Text(comma) ** DispText(name, v, pc) ** Text(close) /\ u + 1 \in p .. Len(t) + 1
      <4>1. (u + 1) - 1 = u
        OBVIOUS
      <4> QED
        BY <2>7, <4>1 DEF Spells
    <3> HIDE DEF rest
    <3>3. DispText(name, v, pc) = Text(name) \/ DispText(name, v, pc) = {<<name, minus, dot>>}
      BY <2>10 DEF DispText
    <3> HIDE DEF minus, dot
    <3>4. rest = <<comma, name, close>> \/ rest = <<comma, name, minus, dot, close>>
      BY <3>2, <3>3, JoinedTokens
    <3>5. DropsLabel(t, p, u + 1)
      <4>1. (u + 1) - 1 = u
        OBVIOUS
      <4> QED
        BY <3>1, <3>4, <4>1 DEF DropsLabel, rest, comma, close, minus, dot
    <3> HIDE DEF od
    <3> QED
      BY <1>2, <2>7, <2>8, <3>1, <3>2, <3>5
  <2> QED
    BY <2>9, <2>10
<1> QED
  BY <1>5, <1>6

WithPc(op, pc) == [op EXCEPT !.is_pc_relative_label = pc]

(* What is written inside the brackets. *)
InnerOf(label, bd, pc, n) ==
  (DispText(label, bd, pc) \cup IF label = NoLabel /\ bd = ZeroLong THEN NoText ELSE {})
    ** Text(",") ** BaseOf(n)

(* The parts of an operand's notation are those of its fields. *)
LEMMA PartsOf ==
  ASSUME NEW op, NEW pc \in BOOLEAN, op.is_pc_relative_label = pc, op.index_is_an \in BOOLEAN
  PROVE  /\ DatumText(op) = IF op.label = NoLabel THEN NumberText(op.value) ELSE Text(op.label)
         /\ DisplacementText(op) = DispText(op.label, op.base_displacement, pc)
         /\ BaseText(op) = BaseOf(op.reg_num)
         /\ IndexText(op) = IndexOf(op.index_is_an, op.index_reg_num, op.index_size, op.scale)
         /\ OuterText(op) = OuterOf(op.outer_displacement)
         /\ InnerText(op) = InnerOf(op.label, op.base_displacement, pc, op.reg_num)
<1>1. DisplacementText(op) = DispText(op.label, op.base_displacement, pc)
  <2>1. CASE op.label = NoLabel
    BY <2>1 DEF DisplacementText, DispText
  <2>2. CASE op.label # NoLabel /\ pc
    BY <2>2 DEF DisplacementText, DispText, Raised
  <2>3. CASE op.label # NoLabel /\ ~ pc
    BY <2>3 DEF DisplacementText, DispText, Raised
  <2> QED
    BY <2>1, <2>2, <2>3
<1>2. DatumText(op) = IF op.label = NoLabel THEN NumberText(op.value) ELSE Text(op.label)
  BY DEF DatumText
<1>3. BaseText(op) = BaseOf(op.reg_num)
  BY DEF BaseText, BaseOf
<1>4. IndexText(op) = IndexOf(op.index_is_an, op.index_reg_num, op.index_size, op.scale)
  <2>1. CASE op.index_is_an
    <3>1. op.index_is_an = Raised
      BY <2>1 DEF Raised
    <3> QED
      BY <2>1, <3>1 DEF IndexText, IndexOf, SizeOf, ScaleOf
  <2>2. CASE ~ op.index_is_an
    <3>1. op.index_is_an # Raised
      BY <2>2 DEF Raised
    <3> QED
      BY <2>2, <3>1 DEF IndexText, IndexOf, SizeOf, ScaleOf
  <2> QED
    BY <2>1, <2>2
<1>5. OuterText(op) = OuterOf(op.outer_displacement)
  BY DEF OuterText, OuterOf
<1>6. InnerText(op) = InnerOf(op.label, op.base_displacement, pc, op.reg_num)
  BY <1>1, <1>3 DEF InnerText, InnerOf
<1> QED
  BY <1>1, <1>2, <1>3, <1>4, <1>5, <1>6

(* The notation of each mode. *)
LEMMA DirectNotation ==
  ASSUME NEW op
  PROVE  /\ op.mode = "DATA_REGISTER_DIRECT" => Notation(op) = Named(DnToken, op.reg_num)
         /\ op.mode = "ADDRESS_REGISTER_DIRECT" => Notation(op) = Named(AnToken, op.reg_num)
         /\ op.mode = "IMMEDIATE" => Notation(op) = Text("#") ** DatumText(op)
         /\ op.mode = "ABSOLUTE_SHORT" =>
              Notation(op) = (DatumText(op) \cup (Text("(") ** DatumText(op) ** Text(")")))
                               ** (NoText \cup {<<".", "W">>})
         /\ op.mode = "ABSOLUTE_LONG" =>
              Notation(op) = (DatumText(op) \cup (Text("(") ** DatumText(op) ** Text(")")))
                               ** {<<".", "L">>}
  BY DEF Notation

(* ... those of a register in parentheses, ... *)
LEMMA IndirectNotation ==
  ASSUME NEW op
  PROVE  /\ op.mode = "ADDRESS_REGISTER_INDIRECT" =>
              Notation(op) = Text("(") ** BaseText(op) ** Text(")")
         /\ op.mode = "ARI_POST_INCREMENT" =>
              Notation(op) = Text("(") ** BaseText(op) ** Text(")") ** Text("+")
         /\ op.mode = "ARI_PRE_DECREMENT" =>
              Notation(op) = Text("-") ** Text("(") ** BaseText(op) ** Text(")")
         /\ op.mode \in {"ARI_DISPLACEMENT", "PC_RELATIVE_DISPLACEMENT"} =>
              Notation(op) = DisplacementText(op) ** Text("(") ** BaseText(op) ** Text(")")
  BY DEF Notation

(* ... those with an index, ... *)
LEMMA IndexedNotation ==
  ASSUME NEW op
  PROVE  /\ op.mode \in {"ARI_INDEX_8_BIT_DISP", "PC_RELATIVE_INDEX_8_BIT"} =>
              Notation(op) = DisplacementText(op) ** Text("(") ** BaseText(op) ** Text(",")
                               ** IndexText(op) ** Text(")")
         /\ op.mode \in {"ARI_INDEX_BASE_DISP", "PC_INDEX_BASE_DISP"} =>
              Notation(op) = Text("(") ** DisplacementText(op) ** Text(",") ** BaseText(op)
                               ** Text(",") ** IndexText(op) ** Text(")")
  BY DEF Notation

(* ... and those of the memory-indirect modes. *)
LEMMA MemoryNotation ==
  ASSUME NEW op
  PROVE  /\ op.mode \in {"MEMORY_INDIRECT_POST_INDEXED", "PC_MEM_INDIRECT_POST_INDEXED"} =>
              Notation(op) = Text("(") ** Text("[") ** InnerText(op) ** Text("]") ** Text(",")
                               ** IndexText(op) ** OuterText(op) ** Text(")")
         /\ op.mode \in {"MEMORY_INDIRECT_PRE_INDEXED", "PC_MEM_INDIRECT_PRE_INDEXED"} =>
              Notation(op) = Text("(") ** Text("[") ** InnerText(op) ** Text(",") ** IndexText(op)
                               ** Text("]") ** OuterText(op) ** Text(")")
  BY DEF Notation

(* The fields of an address, ... *)
LEMMA AddressParts ==
  ASSUME NEW mode, NEW n, NEW label, NEW bd, NEW pc, NEW an, NEW x, NEW size, NEW scale, NEW od
  PROVE  LET op == WithPc(AddressOp(mode, n, label, bd, an, x, size, scale, od), pc)
         IN  /\ op.mode = mode /\ op.reg_num = n /\ op.label = label
             /\ op.is_pc_relative_label = pc /\ op.index_is_an = an
             /\ op.index_reg_num = x /\ op.index_size = size /\ op.scale = scale
             /\ op.base_displacement = bd /\ op.outer_displacement = od
  BY DEF WithPc, AddressOp, Made

(* ... and of a datum with its mode. *)
LEMMA PlacedParts ==
  ASSUME NEW mode, NEW v, NEW label, NEW pc
  PROVE  LET op == WithPc(PlacedOp(mode, v, label), pc)
         IN  /\ op.mode = mode /\ op.label = label /\ op.value = v
             /\ op.is_pc_relative_label = pc /\ op.index_is_an = Clear
  BY DEF WithPc, PlacedOp, Made

(* The match is a notation of the operand, but for the mark of a label        *)
(* relative to the PC and a name as the outer displacement.                   *)
Covers(t, m) ==
  \E pc \in BOOLEAN :
    \/ Spells(t, 1, m.at, Notation(WithPc(m.op, pc)))
    \/ \E p \in 1 .. Len(t) + 1 :
         /\ DropsLabel(t, p, m.at)
         /\ m.at \in p .. Len(t) + 1
         /\ SubSeq(t, 1, p - 1) \o <<")">> \in Notation(WithPc(m.op, pc))

(* A match whose operand has the text as a notation. *)
LEMMA MatchCovers ==
  ASSUME NEW t, NEW q, NEW op, NEW pc \in BOOLEAN, Spells(t, 1, q, Notation(WithPc(op, pc)))
  PROVE  Covers(t, Match(q, op))
  BY MatchIs DEF Covers

(* A mark that has to stand before. *)
LEMMA AfterToken ==
  ASSUME NEW S, NEW t \in Seq(S), NEW p \in Nat, NEW token
  PROVE  /\ Past(t, p, token) \in Nat
         /\ Past(t, p, token) # 0 =>
              Past(t, p, token) = p + 1 /\ p \in 1 .. Len(t) /\ t[p] = token
                /\ Spells(t, p, p + 1, Text(token))
  BY PastMade DEF Past, Is

(* A rule whose first part fails, fails. *)
LEMMA ModeFails ==
  ASSUME NEW mode
  PROVE  Mode(Fail, mode).at = 0
  BY Failed, ModeMade, MatchIs

(* A datum or a displacement that does not match is a failure. *)
LEMMA DatumFails ==
  ASSUME NEW S, NEW t \in Seq(S), NEW p \in Nat
  PROVE  /\ AbsoluteValue(t, p).at = 0 => AbsoluteValue(t, p) = Fail
         /\ Displacement(t, p).at = 0 => Displacement(t, p) = Fail
<1>1. Identifier(t, p) = Fail \/ Identifier(t, p) = Match(p + 1, DatumOp(ZeroLong, t[p], Clear))
  BY Terminals
<1>2. Identifier(t, p).at = 0 => Identifier(t, p) = Fail
  BY <1>1, MatchIs
<1>3. AbsoluteValue(t, p).at = 0 => AbsoluteValue(t, p) = Identifier(t, p)
  BY ChoiceMade DEF AbsoluteValue
<1>4. Displacement(t, p).at = 0 => Displacement(t, p) = Identifier(t, p)
  <2> DEFINE a == Number(t, p)
             b == PCRelativeLabel(t, p)
             c == Identifier(t, p)
  <2>1. Displacement(t, p) = Choice(a, Choice(b, c))
    BY DEF Displacement
  <2> HIDE DEF a, b, c
  <2>2. Displacement(t, p).at = 0 => Displacement(t, p) = c
    BY <2>1, ChoiceMade
  <2> QED
    BY <2>2 DEF c
<1> QED
  BY <1>2, <1>3, <1>4

(* A token after a match. *)
LEMMA ThenMade ==
  ASSUME NEW t, NEW p, NEW op, NEW token
  PROVE  Then(t, Match(p, op), token)
           = IF Is(t, p, {token}) THEN Match(p + 1, op) ELSE Fail
<1> DEFINE m == Match(p, op)
<1>1. m.at = p
  BY MatchIs
<1>2. [m EXCEPT !.at = @ + 1] = [m EXCEPT !.at = m.at + 1]
  OBVIOUS
<1>3. [m EXCEPT !.at = m.at + 1] = [m EXCEPT !.at = p + 1]
  BY <1>1
<1>4. [m EXCEPT !.at = p + 1] = Match(p + 1, op)
  BY DEF Match
<1> QED
  BY <1>1, <1>2, <1>3, <1>4 DEF Then

(* Nothing follows what does not match: no base, ... *)
LEMMA BaseFails ==
  ASSUME NEW t, NEW disp, NEW sep, disp.at = 0
  PROVE  Base(t, disp, sep).at = 0
<1>1. Past(t, 0, sep) = 0 /\ Past(t, 0, "PC") = 0 /\ AnRegSpecifier(t, 0) = Fail
  BY Terminals DEF Past, Is
<1>2. BaseRegister(t, 0).at = 0
  BY <1>1, Terminals, Failed, ChoiceMade, MatchIs DEF BaseRegister
<1>3. Base(t, disp, sep) = Match(BaseRegister(t, 0).at, WithDisplacement(BaseRegister(t, 0).op, disp.op))
  BY <1>1 DEF Base, Displaced
<1> QED
  BY <1>2, <1>3, MatchIs

(* ... no index, ... *)
LEMMA IndexFails ==
  ASSUME NEW S, NEW t \in Seq(S), NEW m, m.at = 0
  PROVE  Index(t, m).at = 0
<1> DEFINE comma == ","
           idx == IndexRegister(t, 0)
<1>1. Index(t, m) = Match(IndexRegister(t, Past(t, m.at, comma)).at,
                          WithIndex(m.op, IndexRegister(t, Past(t, m.at, comma)).op))
  BY DEF Index, Indexed
<1> HIDE DEF comma
<1>2. Past(t, 0, comma) = 0
  BY DEF Past, Is
<1>3. idx.at = 0
  <2> SUFFICES ASSUME idx.at # 0 PROVE FALSE
    OBVIOUS
  <2>1. PICK q \in Nat, an \in BOOLEAN, x \in 0 .. 7, size \in Sizes, scale \in 0 .. 3 :
            /\ idx = Match(q, IndexOp(an, x, size, scale))
            /\ Spells(t, 0, q, IndexOf(an, x, size, scale))
    BY IndexRegisterCovers
  <2> QED
    BY <2>1 DEF Spells
<1> HIDE DEF idx
<1>4. Index(t, m) = Match(idx.at, WithIndex(m.op, idx.op))
  BY <1>1, <1>2 DEF idx
<1> QED
  BY <1>3, <1>4, MatchIs

(* ... no outer displacement. *)
LEMMA OuterFails ==
  ASSUME NEW S, NEW t \in Seq(S), NEW m, m.at = 0
  PROVE  OuterEnd(t, m) = Fail
<1> DEFINE comma == ","
           close == ")"
           disp == Choice(Displacement(t, Past(t, m.at, comma)), Nothing(m.at))
<1>1. OuterEnd(t, m) = Then(t, Match(disp.at, WithOuter(m.op, disp.op)), close)
  BY DEF OuterEnd, Outer
<1> HIDE DEF comma, close
<1>2. Past(t, 0, comma) = 0
  BY DEF Past, Is
<1>3. Displacement(t, 0).at = 0
  <2> SUFFICES ASSUME Displacement(t, 0).at # 0 PROVE FALSE
    OBVIOUS
  <2>1. PICK q \in Nat, v \in Long, label \in Identifiers \cup {NoLabel}, pc \in BOOLEAN :
            Spells(t, 0, q, DispText(label, v, pc))
    BY DisplacementCovers
  <2> QED
    BY <2>1 DEF Spells
<1>4. disp.at = 0
  BY <1>2, <1>3, ChoiceMade, Terminals, MatchIs
<1>5. ~ Is(t, 0, {close})
  BY DEF Is
<1> HIDE DEF disp
<1> QED
  BY <1>1, <1>4, <1>5, ThenMade

(* An immediate is read as what it is a notation of, ... *)
LEMMA ImmediateCovers ==
  ASSUME NEW S, NEW t \in Seq(S), Operand_Immediate(t, 1).at # 0
  PROVE  Covers(t, Operand_Immediate(t, 1))
<1> DEFINE mark == "#"
           mode == "IMMEDIATE"
           r == Past(t, 1, mark)
           datum == AbsoluteValue(t, r)
           rule == Operand_Immediate(t, 1)
<1>1. rule = Mode(datum, mode)
  BY DEF Operand_Immediate
<1>2. \A op, pc : WithPc(op, pc).mode = mode => Notation(WithPc(op, pc)) = Text(mark) ** DatumText(WithPc(op, pc))
  BY DirectNotation
<1> HIDE DEF mark, mode, rule
<1>3. r \in Nat
  BY AfterToken
<1>4. datum.at # 0
  <2> SUFFICES ASSUME datum.at = 0 PROVE FALSE
    OBVIOUS
  <2>1. datum = Fail
    BY <1>3, DatumFails
  <2> QED
    BY <1>1, <2>1, ModeFails DEF rule
<1>5. PICK q \in Nat, v \in Long, label \in Identifiers \cup {NoLabel} :
            /\ datum = Match(q, DatumOp(v, label, Clear))
            /\ Spells(t, r, q, IF label = NoLabel THEN NumberText(v) ELSE Text(label))
  BY <1>3, <1>4, AbsoluteValueCovers
<1>6. Spells(t, 1, r, Text(mark))
  <2>1. r # 0
    BY <1>5 DEF Spells
  <2> QED
    BY <2>1, AfterToken
<1> DEFINE op == PlacedOp(mode, v, label)
           whole == WithPc(op, Clear)
<1>7. rule = Match(q, op)
  <2> HIDE DEF datum
  <2> QED
    BY <1>1, <1>5, PlacedNoted
<1>8. /\ whole.mode = mode /\ whole.label = label /\ whole.value = v
      /\ whole.is_pc_relative_label = Clear /\ whole.index_is_an = Clear
  BY PlacedParts
<1>9. Clear \in BOOLEAN
  BY DEF Clear
<1> HIDE DEF whole, op
<1>10. DatumText(whole) = IF label = NoLabel THEN NumberText(v) ELSE Text(label)
  BY <1>8, <1>9, PartsOf
<1>11. Notation(whole) = Text(mark) ** DatumText(whole)
  BY <1>2, <1>8 DEF whole
<1>12. Spells(t, 1, q, Notation(whole))
  BY <1>5, <1>6, <1>10, <1>11, SpellsBoth
<1> QED
  BY <1>7, <1>9, <1>12, MatchCovers DEF whole, rule

(* ... and a register, but for a name that begins with one. *)
LEMMA RegisterCovers ==
  ASSUME NEW S, NEW t \in Seq(S), Operand_RegisterDirect(t, 1).at # 0
  PROVE  \/ Operand_RegisterDirect(t, 1).at = Len(t) + 2
         \/ Covers(t, Operand_RegisterDirect(t, 1))
<1> DEFINE data == "DATA_REGISTER_DIRECT"
           address == "ADDRESS_REGISTER_DIRECT"
           dn == DnRegSpecifier(t, 1)
           an == AnRegSpecifier(t, 1)
           rule == Operand_RegisterDirect(t, 1)
<1>1. CASE Is(t, 1, RegisterLike)
  <2>1. rule = Match(Len(t) + 2, RegisterOp(Null))
    BY <1>1, Terminals DEF Operand_RegisterDirect, Inside
  <2> QED
    BY <2>1, MatchIs
<1>2. CASE ~ Is(t, 1, RegisterLike)
  <2>1. rule = Choice(Mode(dn, data), Mode(an, address))
    BY <1>2 DEF Operand_RegisterDirect
  <2>2. ASSUME NEW op PROVE /\ op.mode = data => Notation(op) = Named(DnToken, op.reg_num)
                            /\ op.mode = address => Notation(op) = Named(AnToken, op.reg_num)
    BY DirectNotation
  <2> HIDE DEF data, address, rule
  <2>3. ASSUME NEW mode, NEW tokens, NEW m, m = Mode(Match(2, RegisterOp(tokens[t[1]])), mode),
               Is(t, 1, DOMAIN tokens),
               \A op : op.mode = mode => Notation(op) = Named(tokens, op.reg_num)
        PROVE  Covers(t, m)
    <3> DEFINE x == tokens[t[1]]
               op == AddressOp(mode, x, NoLabel, ZeroLong, Clear, Null, NoLabel, 0, ZeroLong)
               whole == WithPc(op, Clear)
    <3>1. Spells(t, 1, 2, Named(tokens, x))
      <4>1. Spells(t, 1, 1 + 1, Named(tokens, x))
        BY <2>3, NamedToken
      <4> QED
        BY <4>1
    <3> HIDE DEF x
    <3>2. m = Match(2, op)
      BY <2>3, RegisterNoted, AddressNoted DEF x
    <3>3. whole.mode = mode /\ whole.reg_num = x
      BY AddressParts
    <3> HIDE DEF whole, op
    <3>4. Spells(t, 1, 2, Notation(whole))
      BY <2>3, <3>1, <3>3
    <3>5. Clear \in BOOLEAN
      BY DEF Clear
    <3> QED
      BY <3>2, <3>4, <3>5, MatchCovers DEF whole
  <2>4. CASE Is(t, 1, DOMAIN DnToken)
    <3>1. dn = Match(2, RegisterOp(DnToken[t[1]]))
      BY <2>4, Terminals
    <3>2. Mode(dn, data).at = 2
      BY <3>1, ModeMade, MatchIs
    <3>3. rule = Mode(dn, data)
      BY <2>1, <3>2, ChoiceMade
    <3> QED
      BY <2>2, <2>3, <2>4, <3>1, <3>3 DEF rule
  <2>5. CASE ~ Is(t, 1, DOMAIN DnToken)
    <3>1. dn = Fail
      BY <2>5, Terminals
    <3>2. Mode(dn, data).at = 0
      BY <3>1, Failed, ModeMade, MatchIs
    <3>3. rule = Mode(an, address)
      BY <2>1, <3>2, ChoiceMade
    <3>4. Is(t, 1, DOMAIN AnToken)
      <4>1. an.at # 0
        <5> SUFFICES ASSUME an.at = 0 PROVE FALSE
          OBVIOUS
        <5>1. an = Fail
          BY Terminals, MatchIs
        <5> QED
          BY <3>3, <5>1, ModeFails DEF rule
      <4> QED
        BY <4>1, Terminals, Failed
    <3>5. an = Match(2, RegisterOp(AnToken[t[1]]))
      BY <3>4, Terminals
    <3> QED
      BY <2>2, <2>3, <3>3, <3>4, <3>5 DEF rule
  <2> QED
    BY <2>4, <2>5
<1> QED
  BY <1>1, <1>2

DatumOf(v, label) == IF label = NoLabel THEN NumberText(v) ELSE Text(label)
FormOf(v, label) == DatumOf(v, label) \cup (Text("(") ** DatumOf(v, label) ** Text(")"))

(* An address, in parentheses or not, ... *)
LEMMA FormCovers ==
  ASSUME NEW S, NEW t \in Seq(S)
  PROVE  \/ Absolute_Form(t, 1) = Fail
         \/ \E q \in Nat, v \in Long, label \in Identifiers \cup {NoLabel} :
              /\ Absolute_Form(t, 1) = Match(q, DatumOp(v, label, Clear))
              /\ Spells(t, 1, q, FormOf(v, label))
<1> DEFINE open == "("
           close == ")"
           r == Past(t, 1, open)
           inner == AbsoluteValue(t, r)
           closed == Then(t, inner, close)
           plain == AbsoluteValue(t, 1)
           form == Absolute_Form(t, 1)
<1>1. form = Choice(closed, plain)
  BY DEF Absolute_Form
<1>2. \A v, label : FormOf(v, label) = DatumOf(v, label) \cup (Text(open) ** DatumOf(v, label) ** Text(close))
  BY DEF FormOf
<1> HIDE DEF open, close, form
<1>3. r \in Nat /\ 1 \in Nat
  BY AfterToken
<1>4. CASE closed.at # 0
  <2>1. inner.at # 0
    <3> SUFFICES ASSUME inner.at = 0 PROVE FALSE
      OBVIOUS
    <3>1. inner = Match(0, create_operand)
      BY <1>3, DatumFails, Failed
    <3>2. ~ Is(t, 0, {close})
      BY DEF Is
    <3> QED
      BY <1>4, <3>1, <3>2, ThenMade, Failed
  <2>2. PICK q \in Nat, v \in Long, label \in Identifiers \cup {NoLabel} :
            /\ inner = Match(q, DatumOp(v, label, Clear))
            /\ Spells(t, r, q, DatumOf(v, label))
    BY <1>3, <2>1, AbsoluteValueCovers DEF DatumOf
  <2>3. Spells(t, 1, r, Text(open))
    <3>1. r # 0
      BY <2>2 DEF Spells
    <3> QED
      BY <3>1, AfterToken
  <2>4. Spells(t, 1, q, Text(open) ** DatumOf(v, label))
    BY <2>2, <2>3, SpellsBoth
  <2> HIDE DEF inner
  <2>5. /\ closed = Match(q + 1, DatumOp(v, label, Clear))
        /\ q + 1 \in Nat
        /\ Spells(t, 1, q + 1, Text(open) ** DatumOf(v, label) ** Text(close))
    BY <1>4, <2>2, <2>4, ThenCovers
  <2>6. Spells(t, 1, q + 1, FormOf(v, label))
    <3> DEFINE A == Text(open) ** DatumOf(v, label) ** Text(close)
    <3>1. A \subseteq FormOf(v, label)
      BY <1>2
    <3> HIDE DEF A
    <3> QED
      BY <2>5, <3>1, SpellsMore DEF A
  <2>7. form = closed
    BY <1>1, <1>4, ChoiceMade
  <2> HIDE DEF closed
  <2> QED
    BY <2>5, <2>6, <2>7 DEF form
<1>5. CASE closed.at = 0
  <2>1. form = plain
    BY <1>1, <1>5, ChoiceMade
  <2>2. CASE plain.at = 0
    BY <1>3, <2>1, <2>2, DatumFails DEF form
  <2>3. CASE plain.at # 0
    <3>1. PICK q \in Nat, v \in Long, label \in Identifiers \cup {NoLabel} :
              /\ plain = Match(q, DatumOp(v, label, Clear))
              /\ Spells(t, 1, q, DatumOf(v, label))
      BY <1>3, <2>3, AbsoluteValueCovers DEF DatumOf
    <3>2. Spells(t, 1, q, FormOf(v, label))
      <4>1. DatumOf(v, label) \subseteq FormOf(v, label)
        BY <1>2
      <4> QED
        BY <3>1, <4>1, SpellsMore
    <3> HIDE DEF plain
    <3> QED
      BY <2>1, <3>1, <3>2 DEF form
  <2> QED
    BY <2>2, <2>3
<1> QED
  BY <1>4, <1>5

(* ... with its size. *)
LEMMA AbsoluteCovers ==
  ASSUME NEW S, NEW t \in Seq(S), Operand_Absolute(t, 1).at # 0
  PROVE  Covers(t, Operand_Absolute(t, 1))
<1> DEFINE form == Absolute_Form(t, 1)
           rule == Operand_Absolute(t, 1)
           short == "ABSOLUTE_SHORT"
           long == "ABSOLUTE_LONG"
           W == "W"
           L == "L"
           dot == "."
<1>1. rule = AbsoluteSize(t, form)
  BY DEF Operand_Absolute
<1>2. AbsoluteSize(t, form) = IF HasSize(t, form.at)
         THEN [Mode(form, IF t[form.at + 1] = L THEN long ELSE short) EXCEPT !.at = @ + 2]
         ELSE Mode(form, short)
  BY DEF AbsoluteSize
<1>3. ASSUME NEW q, NEW v, NEW label, NEW mode, NEW T,
             mode \in {short, long}, Spells(t, 1, q, FormOf(v, label) ** T),
             T = IF mode = short THEN NoText \cup {<<dot, W>>} ELSE {<<dot, L>>}
      PROVE  Covers(t, Match(q, PlacedOp(mode, v, label)))
  <2> DEFINE op == PlacedOp(mode, v, label)
             whole == WithPc(op, Clear)
  <2>1. /\ whole.mode = mode /\ whole.label = label /\ whole.value = v
        /\ whole.is_pc_relative_label = Clear /\ whole.index_is_an = Clear
    BY PlacedParts
  <2>2. Clear \in BOOLEAN
    BY DEF Clear
  <2> HIDE DEF whole, op
  <2>3. DatumText(whole) = DatumOf(v, label)
    BY <2>1, <2>2, PartsOf DEF DatumOf
  <2>4. Notation(whole) = FormOf(v, label) ** T
    <3>1. CASE mode = short
      <4>1. Notation(whole) = (DatumText(whole) \cup (Text("(") ** DatumText(whole) ** Text(")")))
                               ** (NoText \cup {<<".", "W">>})
        BY <2>1, <3>1, DirectNotation
      <4> QED
        BY <1>3, <2>3, <3>1, <4>1 DEF FormOf
    <3>2. CASE mode = long
      <4>1. Notation(whole) = (DatumText(whole) \cup (Text("(") ** DatumText(whole) ** Text(")")))
                               ** {<<".", "L">>}
        BY <2>1, <3>2, DirectNotation
      <4>2. T = {<<".", "L">>}
        <5>1. short # long
          OBVIOUS
        <5> QED
          BY <1>3, <3>2, <5>1
      <4> QED
        BY <2>3, <4>1, <4>2 DEF FormOf
    <3> QED
      BY <1>3, <3>1, <3>2
  <2>5. Spells(t, 1, q, Notation(whole))
    BY <1>3, <2>4
  <2> QED
    BY <2>2, <2>5, MatchCovers DEF whole, op
<1>4. short # long /\ W # L /\ Sizes = {W, L}
  BY DEF Sizes
<1>5. \A p : HasSize(t, p) => Is(t, p, {dot}) /\ Is(t, p + 1, Sizes)
  BY DEF HasSize
<1> HIDE DEF short, long, W, L, dot, rule, form
<1>6. form # Fail
  <2> SUFFICES ASSUME form = Fail PROVE FALSE
    OBVIOUS
  <2>1. ~ HasSize(t, form.at)
    BY <1>5, Failed DEF Is
  <2> QED
    BY <1>1, <1>2, <2>1, ModeFails DEF rule
<1>7. PICK q \in Nat, v \in Long, label \in Identifiers \cup {NoLabel} :
              /\ form = Match(q, DatumOp(v, label, Clear))
              /\ Spells(t, 1, q, FormOf(v, label))
  BY <1>6, FormCovers DEF form
<1>8. form.at = q
  BY <1>7, MatchIs
<1>9. CASE HasSize(t, q)
  <2> DEFINE size == t[q + 1]
             mode == IF size = L THEN long ELSE short
             T == IF mode = short THEN NoText \cup {<<dot, W>>} ELSE {<<dot, L>>}
  <2>1. size \in {W, L} /\ Spells(t, q, q + 2, {<<dot, size>>})
    <3>1. t[q] \in {dot} /\ size \in Sizes /\ Spells(t, q, q + 2, {<<t[q], size>>})
      BY <1>5, <1>7, <1>9, SpellsTwo
    <3> QED
      BY <1>4, <3>1
  <2>2. rule = [Mode(form, mode) EXCEPT !.at = @ + 2]
    BY <1>1, <1>2, <1>8, <1>9
  <2> HIDE DEF size
  <2>3. {<<dot, size>>} \subseteq T
    BY <1>4, <2>1
  <2>4. mode \in {short, long}
    OBVIOUS
  <2> HIDE DEF mode
  <2>5. Mode(form, mode) = Match(q, PlacedOp(mode, v, label))
    BY <1>7, PlacedNoted
  <2> DEFINE op == PlacedOp(mode, v, label)
             m == Match(q, op)
  <2>6. rule = Match(q + 2, op)
    <3>1. m.at = q
      BY MatchIs
    <3>2. [m EXCEPT !.at = @ + 2] = [m EXCEPT !.at = m.at + 2]
      OBVIOUS
    <3>3. [m EXCEPT !.at = m.at + 2] = [m EXCEPT !.at = q + 2]
      BY <3>1
    <3> HIDE DEF op
    <3>4. [m EXCEPT !.at = q + 2] = Match(q + 2, op)
      BY DEF Match
    <3> QED
      BY <2>2, <2>5, <3>2, <3>3, <3>4 DEF op
  <2>7. Spells(t, 1, q + 2, FormOf(v, label) ** T)
    <3> HIDE DEF T
    <3>1. Spells(t, q, q + 2, T)
      BY <2>1, <2>3, SpellsMore
    <3> QED
      BY <1>7, <3>1, SpellsBoth
  <2> QED
    BY <1>3, <2>4, <2>6, <2>7 DEF rule
<1>10. CASE ~ HasSize(t, q)
  <2> DEFINE T == NoText \cup {<<dot, W>>}
  <2>1. rule = Match(q, PlacedOp(short, v, label))
    BY <1>1, <1>2, <1>7, <1>8, <1>10, PlacedNoted
  <2>2. NoText \subseteq T
    OBVIOUS
  <2>3. Spells(t, 1, q, FormOf(v, label) ** T)
    <3> HIDE DEF T
    <3>1. q \in 1 .. Len(t) + 1
      BY <1>7, LenProperties DEF Spells
    <3>2. Spells(t, q, q, NoText)
      BY <3>1, SpellsNothing
    <3>3. Spells(t, q, q, T)
      BY <2>2, <3>2, SpellsMore
    <3> QED
      BY <1>7, <3>3, SpellsBoth
  <2> QED
    BY <1>3, <2>1, <2>3 DEF rule
<1> QED
  BY <1>9, <1>10

(* No rule matches where nothing was matched before. *)
LEMMA FailsAtZero ==
  ASSUME NEW t
  PROVE  /\ AnRegSpecifier(t, 0) = Fail
         /\ \A token : Past(t, 0, token) = 0
         /\ \A op, token : Then(t, Match(0, op), token) = Fail
  BY Terminals, ThenMade DEF Past, Is

IndirectOp(mode, x) == AddressOp(mode, x, NoLabel, ZeroLong, Clear, Null, NoLabel, 0, ZeroLong)

(* A register in parentheses: three tokens. *)
LEMMA IndirectCovers ==
  ASSUME NEW S, NEW t \in Seq(S), NEW p \in Nat, ARI_Rule(t, p).at # 0
  PROVE  \E x \in 0 .. 7 :
            /\ ARI_Rule(t, p) = Match(p + 3, IndirectOp("ADDRESS_REGISTER_INDIRECT", x))
            /\ Spells(t, p, p + 1, Text("(")) /\ Spells(t, p + 1, p + 2, BaseOf(x))
            /\ Spells(t, p + 2, p + 3, Text(")"))
<1> DEFINE open == "("
           close == ")"
           mode == "ADDRESS_REGISTER_INDIRECT"
           r == Past(t, p, open)
           reg == AnRegSpecifier(t, r)
           closed == Then(t, reg, close)
           rule == ARI_Rule(t, p)
<1>1. rule = Mode(closed, mode)
  BY DEF ARI_Rule
<1> HIDE DEF open, close, mode, rule
<1>2. reg # Fail /\ r # 0
  <2>1. closed # Fail
    BY <1>1, ModeFails DEF rule
  <2>2. Fail = Match(0, create_operand)
    BY Failed
  <2> QED
    BY <2>1, <2>2, FailsAtZero
<1>3. r = p + 1 /\ p \in 1 .. Len(t) /\ Spells(t, p, p + 1, Text(open))
  BY <1>2, AfterToken
<1> HIDE DEF r
<1> DEFINE x == AnToken[t[r]]
<1>4. Is(t, r, DOMAIN AnToken) /\ reg = Match(r + 1, RegisterOp(x))
  BY <1>2, Terminals
<1>5. x \in 0 .. 7
  BY <1>4, GrammarAssumption DEF Is
<1>6. Spells(t, r, r + 1, BaseOf(x))
  <2>1. r \in Nat
    BY <1>3
  <2>2. Spells(t, r, r + 1, Named(AnToken, x))
    BY <1>4, <2>1, NamedToken
  <2>3. x # Null
    BY <1>5 DEF Null
  <2> QED
    BY <2>2, <2>3 DEF BaseOf
<1> HIDE DEF x, reg
<1>7. closed = Match(r + 1 + 1, RegisterOp(x)) /\ Is(t, r + 1, {close})
  <2>1. closed # Fail
    BY <1>1, ModeFails DEF rule
  <2> QED
    BY <1>4, <2>1, ThenMade
<1>8. Spells(t, r + 1, r + 1 + 1, Text(close))
  <2>1. r + 1 \in Nat
    BY <1>3
  <2>2. t[r + 1] \in {close} /\ Spells(t, r + 1, r + 1 + 1, Text(t[r + 1]))
    BY <1>7, <2>1, SpellsToken
  <2> QED
    BY <2>2
<1> HIDE DEF closed
<1>9. rule = Match(r + 1 + 1, IndirectOp(mode, x))
  BY <1>1, <1>7, RegisterNoted, AddressNoted DEF IndirectOp
<1>10. r + 1 = p + 2 /\ r + 1 + 1 = p + 3
  BY <1>3
<1> QED
  BY <1>3, <1>5, <1>6, <1>8, <1>9, <1>10 DEF rule, mode, open, close

(* Its operand's fields. *)
LEMMA IndirectParts ==
  ASSUME NEW mode, NEW x
  PROVE  LET op == WithPc(IndirectOp(mode, x), Clear)
         IN  op.mode = mode /\ BaseText(op) = BaseOf(x)
<1> DEFINE op == WithPc(IndirectOp(mode, x), Clear)
<1>1. /\ op.mode = mode /\ op.reg_num = x
      /\ op.is_pc_relative_label = Clear /\ op.index_is_an = Clear
  BY AddressParts DEF IndirectOp
<1>2. Clear \in BOOLEAN
  BY DEF Clear
<1> HIDE DEF op
<1>3. BaseText(op) = BaseOf(x)
  BY <1>1, <1>2, PartsOf
<1> QED
  BY <1>1, <1>3 DEF op

(* The modes of a register in parentheses. *)
LEMMA SimpleCovers ==
  ASSUME NEW S, NEW t \in Seq(S)
  PROVE  /\ ARI_Rule(t, 1).at # 0 => Covers(t, ARI_Rule(t, 1))
         /\ ARI_PostIncrement_Rule(t, 1).at # 0 => Covers(t, ARI_PostIncrement_Rule(t, 1))
         /\ ARI_PreDecrement_Rule(t, 1).at # 0 => Covers(t, ARI_PreDecrement_Rule(t, 1))
<1> DEFINE open == "("
           close == ")"
           plus == "+"
           minus == "-"
           plain == "ADDRESS_REGISTER_INDIRECT"
           after == "ARI_POST_INCREMENT"
           before == "ARI_PRE_DECREMENT"
<1>1. Clear \in BOOLEAN
  BY DEF Clear
<1>2. ASSUME NEW op
      PROVE  /\ op.mode = plain => Notation(op) = Text(open) ** BaseText(op) ** Text(close)
             /\ op.mode = after => Notation(op) = Text(open) ** BaseText(op) ** Text(close) ** Text(plus)
             /\ op.mode = before => Notation(op) = Text(minus) ** Text(open) ** BaseText(op) ** Text(close)
  BY IndirectNotation
<1>3. ASSUME NEW p \in Nat, ARI_Rule(t, p).at # 0
      PROVE  \E x \in 0 .. 7 :
            /\ ARI_Rule(t, p) = Match(p + 3, IndirectOp(plain, x))
            /\ Spells(t, p, p + 1, Text(open)) /\ Spells(t, p + 1, p + 2, BaseOf(x))
            /\ Spells(t, p + 2, p + 3, Text(close))
  BY <1>3, IndirectCovers
<1>4. /\ ARI_PostIncrement_Rule(t, 1) = Mode(Then(t, ARI_Rule(t, 1), plus), after)
      /\ ARI_PreDecrement_Rule(t, 1) = Mode(ARI_Rule(t, Past(t, 1, minus)), before)
  BY DEF ARI_PostIncrement_Rule, ARI_PreDecrement_Rule
<1> HIDE DEF open, close, plus, minus, plain, after, before
<1>5. ASSUME NEW p \in Nat, ARI_Rule(t, p).at = 0 PROVE ARI_Rule(t, p) = Match(0, WithMode(create_operand, plain))
  <2> DEFINE reg == AnRegSpecifier(t, Past(t, p, open))
             closed == Then(t, reg, close)
  <2>1. ARI_Rule(t, p) = Mode(closed, plain)
    BY DEF ARI_Rule, open, close, plain
  <2>2. Past(t, p, open) \in Nat
    BY AfterToken
  <2>3. closed = Fail
    <3>1. reg = Fail \/ reg = Match(Past(t, p, open) + 1, RegisterOp(AnToken[t[Past(t, p, open)]]))
      BY Terminals
    <3>2. CASE reg = Fail
      BY <3>2, Failed, FailsAtZero
    <3>3. CASE reg = Match(Past(t, p, open) + 1, RegisterOp(AnToken[t[Past(t, p, open)]]))
      <4> DEFINE u == Past(t, p, open) + 1
                 op == RegisterOp(AnToken[t[Past(t, p, open)]])
      <4>1. u + 1 # 0
        BY <2>2
      <4> HIDE DEF u, op, reg
      <4>2. closed = Match(u + 1, op) \/ closed = Fail
        BY <3>3, ThenMade DEF u, op
      <4>3. closed = Match(u + 1, op) => Mode(closed, plain).at = u + 1
        BY ModeMade, MatchIs
      <4> QED
        BY <1>5, <2>1, <4>1, <4>2, <4>3
    <3> QED
      BY <3>1, <3>2, <3>3
  <2> QED
    BY <2>1, <2>3, Failed, ModeMade
<1>6. ASSUME ARI_Rule(t, 1).at # 0 PROVE Covers(t, ARI_Rule(t, 1))
  <2>1. PICK x \in 0 .. 7 :
            /\ ARI_Rule(t, 1) = Match(1 + 3, IndirectOp(plain, x))
            /\ Spells(t, 1, 1 + 1, Text(open)) /\ Spells(t, 1 + 1, 1 + 2, BaseOf(x))
            /\ Spells(t, 1 + 2, 1 + 3, Text(close))
    BY <1>3, <1>6
  <2> DEFINE whole == WithPc(IndirectOp(plain, x), Clear)
  <2>2. whole.mode = plain /\ BaseText(whole) = BaseOf(x)
    BY IndirectParts
  <2> HIDE DEF whole
  <2>3. Spells(t, 1, 1 + 3, Text(open) ** BaseOf(x) ** Text(close))
    BY <2>1, SpellsBoth
  <2>4. Spells(t, 1, 1 + 3, Notation(whole))
    BY <1>2, <2>2, <2>3
  <2> QED
    BY <1>1, <2>1, <2>4, MatchCovers DEF whole
<1>7. ASSUME ARI_PostIncrement_Rule(t, 1).at # 0 PROVE Covers(t, ARI_PostIncrement_Rule(t, 1))
  <2>1. ARI_Rule(t, 1).at # 0
    <3> SUFFICES ASSUME ARI_Rule(t, 1).at = 0 PROVE FALSE
      OBVIOUS
    <3>1. ARI_Rule(t, 1) = Match(0, WithMode(create_operand, plain))
      BY <1>5
    <3>2. Then(t, ARI_Rule(t, 1), plus) = Fail
      BY <3>1, FailsAtZero
    <3> QED
      BY <1>4, <1>7, <3>2, ModeFails
  <2>2. PICK x \in 0 .. 7 :
            /\ ARI_Rule(t, 1) = Match(1 + 3, IndirectOp(plain, x))
            /\ Spells(t, 1, 1 + 1, Text(open)) /\ Spells(t, 1 + 1, 1 + 2, BaseOf(x))
            /\ Spells(t, 1 + 2, 1 + 3, Text(close))
    BY <1>3, <2>1
  <2> DEFINE q == 1 + 3
             whole == WithPc(IndirectOp(after, x), Clear)
             m == Then(t, Match(q, IndirectOp(plain, x)), plus)
  <2>3. whole.mode = after /\ BaseText(whole) = BaseOf(x)
    BY IndirectParts
  <2> HIDE DEF whole
  <2>4. Spells(t, 1, q, Text(open) ** BaseOf(x) ** Text(close)) /\ q \in Nat
    BY <2>2, SpellsBoth
  <2> HIDE DEF q
  <2>5. ARI_PostIncrement_Rule(t, 1) = Mode(m, after)
    BY <1>4, <2>2 DEF q
  <2>6. m = Match(q + 1, IndirectOp(plain, x)) /\ q + 1 # 0
    <3>1. m # Fail
      <4> HIDE DEF m
      <4> QED
        BY <1>7, <2>5, ModeFails
    <3>2. m = Match(q + 1, IndirectOp(plain, x))
      BY <3>1, ThenMade
    <3> QED
      BY <2>4, <3>2
  <2>7. m.at # 0
    BY <2>6, MatchIs
  <2>8. Spells(t, 1, q + 1, Text(open) ** BaseOf(x) ** Text(close) ** Text(plus))
    BY <2>4, <2>7, ThenCovers
  <2>9. ARI_PostIncrement_Rule(t, 1) = Match(q + 1, IndirectOp(after, x))
    BY <2>5, <2>6, AddressNoted DEF IndirectOp
  <2>10. Spells(t, 1, q + 1, Notation(whole))
    BY <1>2, <2>3, <2>8
  <2> QED
    BY <1>1, <2>9, <2>10, MatchCovers DEF whole
<1>8. ASSUME ARI_PreDecrement_Rule(t, 1).at # 0 PROVE Covers(t, ARI_PreDecrement_Rule(t, 1))
  <2> DEFINE r == Past(t, 1, minus)
  <2>1. r \in Nat
    BY AfterToken
  <2>2. ARI_Rule(t, r).at # 0
    <3> SUFFICES ASSUME ARI_Rule(t, r).at = 0 PROVE FALSE
      OBVIOUS
    <3>1. ARI_Rule(t, r) = Match(0, WithMode(create_operand, plain))
      BY <1>5, <2>1
    <3> QED
      BY <1>4, <1>8, <3>1, ModeMade, MatchIs
  <2>3. PICK x \in 0 .. 7 :
            /\ ARI_Rule(t, r) = Match(r + 3, IndirectOp(plain, x))
            /\ Spells(t, r, r + 1, Text(open)) /\ Spells(t, r + 1, r + 2, BaseOf(x))
            /\ Spells(t, r + 2, r + 3, Text(close))
    BY <1>3, <2>1, <2>2
  <2>4. Spells(t, 1, r, Text(minus))
    <3>1. r # 0
      BY <2>3 DEF Spells
    <3> QED
      BY <3>1, AfterToken
  <2> DEFINE whole == WithPc(IndirectOp(before, x), Clear)
  <2>5. whole.mode = before /\ BaseText(whole) = BaseOf(x)
    BY IndirectParts
  <2> HIDE DEF whole
  <2>6. Spells(t, 1, r + 3, Text(minus) ** Text(open) ** BaseOf(x) ** Text(close))
    <3>1. Spells(t, 1, r + 1, Text(minus) ** Text(open))
      BY <2>3, <2>4, SpellsBoth
    <3>2. Spells(t, 1, r + 2, Text(minus) ** Text(open) ** BaseOf(x))
      BY <2>3, <3>1, SpellsBoth
    <3> QED
      BY <2>3, <3>2, SpellsBoth
  <2>7. ARI_PreDecrement_Rule(t, 1) = Match(r + 3, IndirectOp(before, x))
    BY <1>4, <2>3, AddressNoted DEF IndirectOp
  <2>8. Spells(t, 1, r + 3, Notation(whole))
    BY <1>2, <2>5, <2>6
  <2> QED
    BY <1>1, <2>7, <2>8, MatchCovers DEF whole
<1> QED
  BY <1>6, <1>7, <1>8

(* A base and an index are matches. *)
LEMMA Shapes ==
  ASSUME NEW t, NEW m, NEW sep
  PROVE  /\ Base(t, m, sep) = Match(Base(t, m, sep).at, Base(t, m, sep).op)
         /\ Index(t, m) = Match(Index(t, m).at, Index(t, m).op)
  BY MatchIs DEF Base, Displaced, Index, Indexed

(* No token follows a failure. *)
LEMMA ThenFails ==
  ASSUME NEW t, NEW m, NEW token, m = Match(m.at, m.op), Then(t, m, token) # Fail
  PROVE  m.at # 0
<1>1. m.at = 0 => Then(t, Match(0, m.op), token) = Fail
  BY FailsAtZero
<1> QED
  BY <1>1

(* The mode for an address register or for the PC. *)
LEMMA BaseModeMade ==
  ASSUME NEW q, NEW old, NEW n, NEW label, NEW bd, NEW an, NEW x, NEW size, NEW scale, NEW od,
         NEW mode, NEW pc_mode
  PROVE  BaseMode(Match(q, AddressOp(old, n, label, bd, an, x, size, scale, od)), mode, pc_mode)
           = Match(q, AddressOp(IF n = Null THEN pc_mode ELSE mode, n, label, bd, an, x, size, scale, od))
<1> DEFINE op == AddressOp(old, n, label, bd, an, x, size, scale, od)
           m == Match(q, op)
<1>1. op.reg_num = n
  BY DEF AddressOp, Made
<1>2. m.op.reg_num = n
  BY <1>1, MatchIs
<1>3. BaseMode(m, mode, pc_mode) = Mode(m, IF n = Null THEN pc_mode ELSE mode)
  BY <1>2 DEF BaseMode
<1> QED
  BY <1>3, AddressNoted

(* A failure gets no mode. *)
LEMMA BaseModeFails ==
  ASSUME NEW m, NEW mode, NEW pc_mode, BaseMode(m, mode, pc_mode).at # 0
  PROVE  m # Fail
  BY ModeFails DEF BaseMode

(* The notation's parts when the operand is an address. *)
LEMMA AddressTexts ==
  ASSUME NEW mode, NEW n, NEW label, NEW bd, NEW pc \in BOOLEAN, NEW an \in BOOLEAN, NEW x,
         NEW size, NEW scale, NEW od
  PROVE  LET op == WithPc(AddressOp(mode, n, label, bd, an, x, size, scale, od), pc)
         IN  /\ op.mode = mode /\ DisplacementText(op) = DispText(label, bd, pc)
             /\ BaseText(op) = BaseOf(n) /\ IndexText(op) = IndexOf(an, x, size, scale)
             /\ OuterText(op) = OuterOf(od) /\ InnerText(op) = InnerOf(label, bd, pc, n)
<1> DEFINE op == WithPc(AddressOp(mode, n, label, bd, an, x, size, scale, od), pc)
<1>1. /\ op.mode = mode /\ op.reg_num = n /\ op.label = label
      /\ op.is_pc_relative_label = pc /\ op.index_is_an = an
      /\ op.index_reg_num = x /\ op.index_size = size /\ op.scale = scale
      /\ op.base_displacement = bd /\ op.outer_displacement = od
  BY AddressParts
<1> HIDE DEF op
<1>2. /\ DisplacementText(op) = DispText(label, bd, pc)
      /\ BaseText(op) = BaseOf(n) /\ IndexText(op) = IndexOf(an, x, size, scale)
      /\ OuterText(op) = OuterOf(od) /\ InnerText(op) = InnerOf(label, bd, pc, n)
  BY <1>1, PartsOf
<1> QED
  BY <1>1, <1>2 DEF op

(* d16(An) and d16(PC). *)
LEMMA DisplacementRuleCovers ==
  ASSUME NEW S, NEW t \in Seq(S), Displacement_Rule(t, 1).at # 0
  PROVE  Covers(t, Displacement_Rule(t, 1))
<1> DEFINE open == "("
           close == ")"
           ari == "ARI_DISPLACEMENT"
           rel == "PC_RELATIVE_DISPLACEMENT"
           unknown == "UNKNOWN_MODE"
           disp == Displacement(t, 1)
           base == Base(t, disp, open)
           closed == Then(t, base, close)
           rule == Displacement_Rule(t, 1)
<1>1. rule = BaseMode(closed, ari, rel)
  BY DEF Displacement_Rule
<1>2. \A op : op.mode \in {ari, rel} => Notation(op) = DisplacementText(op) ** Text(open) ** BaseText(op) ** Text(close)
  BY IndirectNotation
<1>3. ASSUME NEW S1, NEW t1 \in Seq(S1), NEW s, NEW p \in Nat, NEW v, NEW label, NEW pc, NEW sep, NEW X,
         Spells(t1, s, p, X), label # NoLabel => v = ZeroLong,
         Base(t1, Match(p, DatumOp(v, label, pc)), sep).at # 0
      PROVE  \E q \in Nat, n \in -1 .. 7 :
            /\ Base(t1, Match(p, DatumOp(v, label, pc)), sep)
                 = Match(q, AddressOp(unknown, n, label, v, Clear, Null, NoLabel, 0, ZeroLong))
            /\ Spells(t1, s, q, X ** Text(sep) ** BaseOf(n))
  BY <1>3, BaseCovers
<1> HIDE DEF open, close, ari, rel, unknown, rule
<1>4. closed # Fail
  <2> HIDE DEF closed
  <2> QED
    BY <1>1, BaseModeFails DEF rule
<1>5. base.at # 0
  BY <1>4, Shapes, ThenFails
<1>6. disp.at # 0
  BY <1>5, BaseFails
<1>7. PICK p \in Nat, v \in Long, label \in Identifiers \cup {NoLabel}, pc \in BOOLEAN :
            /\ disp = Match(p, DatumOp(v, label, pc))
            /\ label # NoLabel => v = ZeroLong
            /\ Spells(t, 1, p, DispText(label, v, pc))
  BY <1>6, DisplacementCovers
<1>8. base = Base(t, Match(p, DatumOp(v, label, pc)), open)
  BY <1>7
<1> HIDE DEF base
<1>9. PICK q \in Nat, n \in -1 .. 7 :
            /\ base = Match(q, AddressOp(unknown, n, label, v, Clear, Null, NoLabel, 0, ZeroLong))
            /\ Spells(t, 1, q, DispText(label, v, pc) ** Text(open) ** BaseOf(n))
  BY <1>3, <1>5, <1>7, <1>8
<1>10. closed.at # 0
  <2>1. closed = Match(q + 1, AddressOp(unknown, n, label, v, Clear, Null, NoLabel, 0, ZeroLong))
    BY <1>4, <1>9, ThenMade
  <2> HIDE DEF closed
  <2> QED
    BY <2>1, <1>9, MatchIs
<1>11. /\ closed = Match(q + 1, AddressOp(unknown, n, label, v, Clear, Null, NoLabel, 0, ZeroLong))
       /\ Spells(t, 1, q + 1, DispText(label, v, pc) ** Text(open) ** BaseOf(n) ** Text(close))
  BY <1>9, <1>10, ThenCovers
<1> HIDE DEF closed
<1> DEFINE mode == IF n = Null THEN rel ELSE ari
           op == AddressOp(mode, n, label, v, Clear, Null, NoLabel, 0, ZeroLong)
           whole == WithPc(op, pc)
<1>12. rule = Match(q + 1, op)
  BY <1>1, <1>11, BaseModeMade
<1>13. mode \in {ari, rel} /\ Clear \in BOOLEAN
  BY DEF Clear
<1> HIDE DEF mode
<1>14. whole.mode = mode /\ DisplacementText(whole) = DispText(label, v, pc) /\ BaseText(whole) = BaseOf(n)
  BY <1>13, AddressTexts
<1> HIDE DEF whole, op
<1>15. Spells(t, 1, q + 1, Notation(whole))
  BY <1>2, <1>11, <1>13, <1>14
<1> QED
  BY <1>12, <1>15, MatchCovers DEF whole, rule

(* d8(An,Xn) and d8(PC,Xn). *)
LEMMA IndexRuleCovers ==
  ASSUME NEW S, NEW t \in Seq(S), Index_8BitDisp_Rule(t, 1).at # 0
  PROVE  Covers(t, Index_8BitDisp_Rule(t, 1))
<1> DEFINE open == "("
           close == ")"
           comma == Comma
           ari == "ARI_INDEX_8_BIT_DISP"
           rel == "PC_RELATIVE_INDEX_8_BIT"
           unknown == "UNKNOWN_MODE"
           disp == Displacement(t, 1)
           base == Base(t, disp, open)
           indexed == Index(t, base)
           closed == Then(t, indexed, close)
           rule == Index_8BitDisp_Rule(t, 1)
<1>1. rule = BaseMode(closed, ari, rel)
  BY DEF Index_8BitDisp_Rule
<1>2. \A op : op.mode \in {ari, rel} =>
        Notation(op) = DisplacementText(op) ** Text(open) ** BaseText(op) ** Text(comma)
                         ** IndexText(op) ** Text(close)
  BY IndexedNotation DEF Comma
<1>3. ASSUME NEW S1, NEW t1 \in Seq(S1), NEW s, NEW p \in Nat, NEW v, NEW label, NEW pc, NEW sep, NEW X,
         Spells(t1, s, p, X), label # NoLabel => v = ZeroLong,
         Base(t1, Match(p, DatumOp(v, label, pc)), sep).at # 0
      PROVE  \E q \in Nat, n \in -1 .. 7 :
            /\ Base(t1, Match(p, DatumOp(v, label, pc)), sep)
                 = Match(q, AddressOp(unknown, n, label, v, Clear, Null, NoLabel, 0, ZeroLong))
            /\ Spells(t1, s, q, X ** Text(sep) ** BaseOf(n))
  BY <1>3, BaseCovers
<1>4. ASSUME NEW S1, NEW t1 \in Seq(S1), NEW s, NEW p \in Nat, NEW mode, NEW n, NEW label, NEW bd,
         NEW od, NEW X, Spells(t1, s, p, X),
         Index(t1, Match(p, AddressOp(mode, n, label, bd, Clear, Null, NoLabel, 0, od))).at # 0
      PROVE  \E q \in Nat, an \in BOOLEAN, x \in 0 .. 7, size \in Sizes, scale \in 0 .. 3 :
            /\ Index(t1, Match(p, AddressOp(mode, n, label, bd, Clear, Null, NoLabel, 0, od)))
                 = Match(q, AddressOp(mode, n, label, bd, an, x, size, scale, od))
            /\ Spells(t1, s, q, X ** Text(comma) ** IndexOf(an, x, size, scale))
  BY <1>4, IndexCovers
<1> HIDE DEF open, close, comma, ari, rel, unknown, rule
<1>5. closed # Fail
  <2> HIDE DEF closed
  <2> QED
    BY <1>1, BaseModeFails DEF rule
<1>6. indexed.at # 0
  BY <1>5, Shapes, ThenFails
<1>7. base.at # 0
  BY <1>6, IndexFails
<1>8. disp.at # 0
  BY <1>7, BaseFails
<1>9. PICK p \in Nat, v \in Long, label \in Identifiers \cup {NoLabel}, pc \in BOOLEAN :
            /\ disp = Match(p, DatumOp(v, label, pc))
            /\ label # NoLabel => v = ZeroLong
            /\ Spells(t, 1, p, DispText(label, v, pc))
  BY <1>8, DisplacementCovers
<1>10. base = Base(t, Match(p, DatumOp(v, label, pc)), open)
  BY <1>9
<1> HIDE DEF base
<1>11. PICK r \in Nat, n \in -1 .. 7 :
            /\ base = Match(r, AddressOp(unknown, n, label, v, Clear, Null, NoLabel, 0, ZeroLong))
            /\ Spells(t, 1, r, DispText(label, v, pc) ** Text(open) ** BaseOf(n))
  BY <1>3, <1>7, <1>9, <1>10
<1>12. indexed = Index(t, Match(r, AddressOp(unknown, n, label, v, Clear, Null, NoLabel, 0, ZeroLong)))
  BY <1>11
<1> HIDE DEF indexed
<1> DEFINE X == DispText(label, v, pc) ** Text(open) ** BaseOf(n)
<1> HIDE DEF X
<1>13. PICK q \in Nat, an \in BOOLEAN, x \in 0 .. 7, size \in Sizes, scale \in 0 .. 3 :
            /\ indexed = Match(q, AddressOp(unknown, n, label, v, an, x, size, scale, ZeroLong))
            /\ Spells(t, 1, q, X ** Text(comma) ** IndexOf(an, x, size, scale))
  BY <1>4, <1>6, <1>11, <1>12 DEF X
<1> DEFINE Y == X ** Text(comma) ** IndexOf(an, x, size, scale)
<1> HIDE DEF Y
<1>14. closed.at # 0
  <2>1. closed = Match(q + 1, AddressOp(unknown, n, label, v, an, x, size, scale, ZeroLong))
    BY <1>5, <1>13, ThenMade
  <2> HIDE DEF closed
  <2> QED
    BY <2>1, <1>13, MatchIs
<1>15. /\ closed = Match(q + 1, AddressOp(unknown, n, label, v, an, x, size, scale, ZeroLong))
       /\ Spells(t, 1, q + 1, Y ** Text(close))
  BY <1>13, <1>14, ThenCovers DEF Y
<1> HIDE DEF closed
<1> DEFINE mode == IF n = Null THEN rel ELSE ari
           op == AddressOp(mode, n, label, v, an, x, size, scale, ZeroLong)
           whole == WithPc(op, pc)
<1>16. rule = Match(q + 1, op)
  BY <1>1, <1>15, BaseModeMade
<1>17. mode \in {ari, rel}
  OBVIOUS
<1> HIDE DEF mode
<1>18. /\ whole.mode = mode /\ DisplacementText(whole) = DispText(label, v, pc)
       /\ BaseText(whole) = BaseOf(n) /\ IndexText(whole) = IndexOf(an, x, size, scale)
  BY AddressTexts
<1> HIDE DEF whole, op
<1>19. Notation(whole) = Y ** Text(close)
  BY <1>2, <1>17, <1>18 DEF X, Y
<1>20. Spells(t, 1, q + 1, Notation(whole))
  BY <1>15, <1>19
<1> QED
  BY <1>16, <1>20, MatchCovers DEF whole, rule

(* (bd,An,Xn) and (bd,PC,Xn). *)
LEMMA BaseDispRuleCovers ==
  ASSUME NEW S, NEW t \in Seq(S), Index_BaseDisp_Rule(t, 1).at # 0
  PROVE  Covers(t, Index_BaseDisp_Rule(t, 1))
<1> DEFINE open == "("
           close == ")"
           comma == Comma
           ari == "ARI_INDEX_BASE_DISP"
           rel == "PC_INDEX_BASE_DISP"
           unknown == "UNKNOWN_MODE"
           first == Past(t, 1, open)
           disp == Displacement(t, first)
           base == Base(t, disp, comma)
           indexed == Index(t, base)
           closed == Then(t, indexed, close)
           rule == Index_BaseDisp_Rule(t, 1)
<1>1. rule = BaseMode(closed, ari, rel)
  BY DEF Index_BaseDisp_Rule, Comma
<1>2. \A op : op.mode \in {ari, rel} =>
        Notation(op) = Text(open) ** DisplacementText(op) ** Text(comma) ** BaseText(op)
                         ** Text(comma) ** IndexText(op) ** Text(close)
  BY IndexedNotation DEF Comma
<1>3. ASSUME NEW S1, NEW t1 \in Seq(S1), NEW s, NEW p \in Nat, NEW v, NEW label, NEW pc, NEW sep, NEW X,
         Spells(t1, s, p, X), label # NoLabel => v = ZeroLong,
         Base(t1, Match(p, DatumOp(v, label, pc)), sep).at # 0
      PROVE  \E q \in Nat, n \in -1 .. 7 :
            /\ Base(t1, Match(p, DatumOp(v, label, pc)), sep)
                 = Match(q, AddressOp(unknown, n, label, v, Clear, Null, NoLabel, 0, ZeroLong))
            /\ Spells(t1, s, q, X ** Text(sep) ** BaseOf(n))
  BY <1>3, BaseCovers
<1>4. ASSUME NEW S1, NEW t1 \in Seq(S1), NEW s, NEW p \in Nat, NEW mode, NEW n, NEW label, NEW bd,
         NEW od, NEW X, Spells(t1, s, p, X),
         Index(t1, Match(p, AddressOp(mode, n, label, bd, Clear, Null, NoLabel, 0, od))).at # 0
      PROVE  \E q \in Nat, an \in BOOLEAN, x \in 0 .. 7, size \in Sizes, scale \in 0 .. 3 :
            /\ Index(t1, Match(p, AddressOp(mode, n, label, bd, Clear, Null, NoLabel, 0, od)))
                 = Match(q, AddressOp(mode, n, label, bd, an, x, size, scale, od))
            /\ Spells(t1, s, q, X ** Text(comma) ** IndexOf(an, x, size, scale))
  BY <1>4, IndexCovers
<1> HIDE DEF open, close, comma, ari, rel, unknown, rule
<1>5. closed # Fail
  <2> HIDE DEF closed
  <2> QED
    BY <1>1, BaseModeFails DEF rule
<1>6. indexed.at # 0
  BY <1>5, Shapes, ThenFails
<1>7. base.at # 0
  BY <1>6, IndexFails
<1>8. disp.at # 0 /\ first \in Nat
  BY <1>7, BaseFails, AfterToken
<1>9. PICK p \in Nat, v \in Long, label \in Identifiers \cup {NoLabel}, pc \in BOOLEAN :
            /\ disp = Match(p, DatumOp(v, label, pc))
            /\ label # NoLabel => v = ZeroLong
            /\ Spells(t, first, p, DispText(label, v, pc))
  BY <1>8, DisplacementCovers
<1>10. Spells(t, 1, p, Text(open) ** DispText(label, v, pc))
  <2>1. first # 0
    BY <1>9 DEF Spells
  <2>2. Spells(t, 1, first, Text(open))
    BY <2>1, AfterToken
  <2> QED
    BY <1>9, <2>2, SpellsBoth
<1> DEFINE W == Text(open) ** DispText(label, v, pc)
<1> HIDE DEF W
<1>11. base = Base(t, Match(p, DatumOp(v, label, pc)), comma)
  BY <1>9
<1> HIDE DEF base
<1>12. PICK r \in Nat, n \in -1 .. 7 :
            /\ base = Match(r, AddressOp(unknown, n, label, v, Clear, Null, NoLabel, 0, ZeroLong))
            /\ Spells(t, 1, r, W ** Text(comma) ** BaseOf(n))
  BY <1>3, <1>7, <1>9, <1>10, <1>11 DEF W
<1>13. indexed = Index(t, Match(r, AddressOp(unknown, n, label, v, Clear, Null, NoLabel, 0, ZeroLong)))
  BY <1>12
<1> HIDE DEF indexed
<1> DEFINE X == W ** Text(comma) ** BaseOf(n)
<1> HIDE DEF X
<1>14. PICK q \in Nat, an \in BOOLEAN, x \in 0 .. 7, size \in Sizes, scale \in 0 .. 3 :
            /\ indexed = Match(q, AddressOp(unknown, n, label, v, an, x, size, scale, ZeroLong))
            /\ Spells(t, 1, q, X ** Text(comma) ** IndexOf(an, x, size, scale))
  BY <1>4, <1>6, <1>12, <1>13 DEF X
<1> DEFINE Y == X ** Text(comma) ** IndexOf(an, x, size, scale)
<1> HIDE DEF Y
<1>15. closed.at # 0
  <2>1. closed = Match(q + 1, AddressOp(unknown, n, label, v, an, x, size, scale, ZeroLong))
    BY <1>5, <1>14, ThenMade
  <2> HIDE DEF closed
  <2> QED
    BY <2>1, <1>14, MatchIs
<1>16. /\ closed = Match(q + 1, AddressOp(unknown, n, label, v, an, x, size, scale, ZeroLong))
       /\ Spells(t, 1, q + 1, Y ** Text(close))
  BY <1>14, <1>15, ThenCovers DEF Y
<1> HIDE DEF closed
<1> DEFINE mode == IF n = Null THEN rel ELSE ari
           op == AddressOp(mode, n, label, v, an, x, size, scale, ZeroLong)
           whole == WithPc(op, pc)
<1>17. rule = Match(q + 1, op)
  BY <1>1, <1>16, BaseModeMade
<1>18. mode \in {ari, rel}
  OBVIOUS
<1> HIDE DEF mode
<1>19. /\ whole.mode = mode /\ DisplacementText(whole) = DispText(label, v, pc)
       /\ BaseText(whole) = BaseOf(n) /\ IndexText(whole) = IndexOf(an, x, size, scale)
  BY AddressTexts
<1> HIDE DEF whole, op
<1>20. Notation(whole) = Y ** Text(close)
  BY <1>2, <1>18, <1>19 DEF W, X, Y
<1>21. Spells(t, 1, q + 1, Notation(whole))
  BY <1>16, <1>20
<1> QED
  BY <1>17, <1>21, MatchCovers DEF whole, rule

(* What stands inside the brackets, after the opening one. *)
LEMMA InnerBaseCovers ==
  ASSUME NEW S, NEW t \in Seq(S), NEW p \in Nat, InnerBase(t, p).at # 0
  PROVE  \E q \in Nat, n \in -1 .. 7, v \in Long, label \in Identifiers \cup {NoLabel}, pc \in BOOLEAN :
            /\ InnerBase(t, p)
                 = Match(q, AddressOp("UNKNOWN_MODE", n, label, v, Clear, Null, NoLabel, 0, ZeroLong))
            /\ Spells(t, p, p + 1, Text("[")) /\ Spells(t, p + 1, q, InnerOf(label, v, pc, n))
<1> DEFINE bracket == "["
           unknown == "UNKNOWN_MODE"
           r == Past(t, p, bracket)
           disp == OptionalDisplacement(t, r)
           inner == InnerBase(t, p)
<1>1. inner = Base(t, disp, Comma)
  BY DEF InnerBase, Comma
<1>2. ASSUME NEW S1, NEW t1 \in Seq(S1), NEW s, NEW u \in Nat, NEW v, NEW label, NEW pc, NEW sep, NEW X,
         Spells(t1, s, u, X), label # NoLabel => v = ZeroLong,
         Base(t1, Match(u, DatumOp(v, label, pc)), sep).at # 0
      PROVE  \E q \in Nat, n \in -1 .. 7 :
            /\ Base(t1, Match(u, DatumOp(v, label, pc)), sep)
                 = Match(q, AddressOp(unknown, n, label, v, Clear, Null, NoLabel, 0, ZeroLong))
            /\ Spells(t1, s, q, X ** Text(sep) ** BaseOf(n))
  BY <1>2, BaseCovers
<1>3. \A label, v, pc, n : InnerOf(label, v, pc, n)
        = (DispText(label, v, pc) \cup IF label = NoLabel /\ v = ZeroLong THEN NoText ELSE {})
            ** Text(Comma) ** BaseOf(n)
  BY DEF InnerOf, Comma
<1> HIDE DEF bracket, unknown, inner
<1>4. disp.at # 0
  BY <1>1, BaseFails DEF inner
<1>5. r \in Nat
  BY AfterToken
<1>6. disp = Choice(Displacement(t, r), Nothing(r))
  BY DEF OptionalDisplacement
<1> DEFINE Optional(label, v, pc) == DispText(label, v, pc)
              \cup IF label = NoLabel /\ v = ZeroLong THEN NoText ELSE {}
<1>7. \E u \in Nat, v \in Long, label \in Identifiers \cup {NoLabel}, pc \in BOOLEAN :
            /\ disp = Match(u, DatumOp(v, label, pc))
            /\ label # NoLabel => v = ZeroLong
            /\ Spells(t, r, u, Optional(label, v, pc))
  <2>1. CASE Displacement(t, r).at # 0
    <3>1. PICK u \in Nat, v \in Long, label \in Identifiers \cup {NoLabel}, pc \in BOOLEAN :
            /\ Displacement(t, r) = Match(u, DatumOp(v, label, pc))
            /\ label # NoLabel => v = ZeroLong
            /\ Spells(t, r, u, DispText(label, v, pc))
      BY <1>5, <2>1, DisplacementCovers
    <3>2. disp = Match(u, DatumOp(v, label, pc))
      BY <1>6, <2>1, <3>1, ChoiceMade
    <3>3. DispText(label, v, pc) \subseteq Optional(label, v, pc)
      OBVIOUS
    <3> HIDE DEF Optional, disp
    <3>4. Spells(t, r, u, Optional(label, v, pc))
      BY <3>1, <3>3, SpellsMore
    <3> QED
      BY <3>1, <3>2, <3>4
  <2>2. CASE Displacement(t, r).at = 0
    <3>1. disp = Nothing(r)
      BY <1>6, <2>2, ChoiceMade
    <3>2. disp = Match(r, DatumOp(ZeroLong, NoLabel, Clear))
      BY <3>1, Terminals
    <3>3. r # 0
      BY <1>4, <3>2, MatchIs
    <3>4. r \in 1 .. Len(t) + 1
      BY <3>3, AfterToken, LenProperties
    <3>5. Spells(t, r, r, NoText)
      BY <3>4, SpellsNothing
    <3>6. NoText \subseteq Optional(NoLabel, ZeroLong, Clear)
      OBVIOUS
    <3> HIDE DEF Optional, disp
    <3>7. Spells(t, r, r, Optional(NoLabel, ZeroLong, Clear))
      BY <3>5, <3>6, SpellsMore
    <3>8. Clear \in BOOLEAN /\ ZeroLong \in Long
      BY ZeroLongType DEF Clear
    <3> QED
      BY <1>5, <3>2, <3>7, <3>8
  <2> QED
    BY <2>1, <2>2
<1>8. PICK u \in Nat, v \in Long, label \in Identifiers \cup {NoLabel}, pc \in BOOLEAN :
            /\ disp = Match(u, DatumOp(v, label, pc))
            /\ label # NoLabel => v = ZeroLong
            /\ Spells(t, r, u, Optional(label, v, pc))
  BY <1>7
<1>9. \A n : InnerOf(label, v, pc, n) = Optional(label, v, pc) ** Text(Comma) ** BaseOf(n)
  BY <1>3
<1> HIDE DEF Optional
<1>10. inner = Base(t, Match(u, DatumOp(v, label, pc)), Comma) /\ inner.at # 0
  BY <1>1, <1>8 DEF inner
<1>11. PICK q \in Nat, n \in -1 .. 7 :
            /\ inner = Match(q, AddressOp(unknown, n, label, v, Clear, Null, NoLabel, 0, ZeroLong))
            /\ Spells(t, r, q, Optional(label, v, pc) ** Text(Comma) ** BaseOf(n))
  BY <1>2, <1>8, <1>10
<1>12. r = p + 1 /\ Spells(t, p, p + 1, Text(bracket))
  <2>1. r # 0
    BY <1>8 DEF Spells
  <2> QED
    BY <2>1, AfterToken
<1>13. Spells(t, p + 1, q, InnerOf(label, v, pc, n))
  BY <1>9, <1>11, <1>12
<1> QED
  BY <1>8, <1>11, <1>12, <1>13 DEF inner, unknown, bracket

(* What ends with an outer displacement and is no failure has a position. *)
LEMMA OuterMatches ==
  ASSUME NEW S, NEW t \in Seq(S), NEW p \in Nat, NEW op, OuterEnd(t, Match(p, op)) # Fail
  PROVE  OuterEnd(t, Match(p, op)).at # 0
<1> DEFINE disp == Choice(Displacement(t, Past(t, p, Comma)), Nothing(p))
           old == WithOuter(op, disp.op)
<1>1. Match(p, op).at = p /\ Match(p, op).op = op
  BY MatchIs
<1>2. OuterEnd(t, Match(p, op)) = Then(t, Match(disp.at, old), Close)
  BY <1>1 DEF OuterEnd, Outer, Comma, Close
<1>3. disp.at \in Nat
  <2>1. Past(t, p, Comma) \in Nat
    BY AfterToken
  <2>2. CASE Displacement(t, Past(t, p, Comma)).at = 0
    <3>1. Nothing(p).at = p
      BY MatchIs DEF Nothing
    <3>2. disp = Nothing(p)
      BY <2>2, ChoiceMade
    <3> QED
      BY <3>1, <3>2
  <2>3. CASE Displacement(t, Past(t, p, Comma)).at # 0
    <3>1. PICK q \in Nat, v \in Long, label \in Identifiers \cup {NoLabel}, pc \in BOOLEAN :
            /\ Displacement(t, Past(t, p, Comma)) = Match(q, DatumOp(v, label, pc))
            /\ label # NoLabel => v = ZeroLong
            /\ Spells(t, Past(t, p, Comma), q, DispText(label, v, pc))
      BY <2>1, <2>3, DisplacementCovers
    <3>2. disp = Displacement(t, Past(t, p, Comma))
      BY <2>3, ChoiceMade
    <3> QED
      BY <3>1, <3>2, MatchIs
  <2> QED
    BY <2>2, <2>3
<1> HIDE DEF disp, old
<1>4. OuterEnd(t, Match(p, op)) = Match(disp.at + 1, old)
  BY <1>2, ThenMade
<1> QED
  BY <1>3, <1>4, MatchIs

(* A match whose outer displacement is a name that is dropped. *)
LEMMA DroppedCovers ==
  ASSUME NEW S, NEW t \in Seq(S), NEW p \in Nat, NEW q \in p .. Len(t) + 1, NEW op,
         NEW pc \in BOOLEAN, NEW X, Spells(t, 1, p, X), DropsLabel(t, p, q),
         Notation(WithPc(op, pc)) = X ** OuterOf(ZeroLong) ** Text(Close)
  PROVE  Covers(t, Match(q, op))
<1> DEFINE a == SubSeq(t, 1, p - 1)
           end == Text(Close)
           outer == OuterOf(ZeroLong)
           none == << >>
<1>1. a \in X /\ p \in 1 .. Len(t) + 1
  BY DEF Spells
<1>2. <<Close>> \in end /\ none \in outer
  BY DEF Text, OuterOf, NoText
<1>3. a \o none = a
  <2>1. a \in Seq(S)
    <3>1. Len(t) \in Nat
      BY LenProperties
    <3>2. p - 1 \in 0 .. Len(t)
      BY <1>1, <3>1
    <3> QED
      BY <3>2, SubSeqProperties
  <2> HIDE DEF a
  <2> QED
    BY <2>1, ConcatEmptySeq
<1> HIDE DEF a, end, outer, none
<1> DEFINE Y == X ** outer
<1> HIDE DEF Y
<1>4. a \o <<Close>> \in Notation(WithPc(op, pc))
  <2>1. a \o none \in Y
    BY <1>1, <1>2, Joined DEF Y
  <2>2. a \o <<Close>> \in Y ** end
    BY <1>2, <1>3, <2>1, Joined
  <2> QED
    BY <2>2 DEF Y, end, outer
<1> DEFINE N == Notation(WithPc(op, pc))
           m == Match(q, op)
<1>5. m.at = q /\ m.op = op
  BY MatchIs
<1>6. SubSeq(t, 1, p - 1) \o <<")">> \in Notation(WithPc(m.op, pc))
  BY <1>4, <1>5 DEF a, Close
<1> HIDE DEF m
<1> QED
  BY <1>1, <1>5, <1>6 DEF Covers, m

(* ([bd,An],Xn,od) and ([bd,PC],Xn,od). *)
LEMMA PostRuleCovers ==
  ASSUME NEW S, NEW t \in Seq(S), MemIndirect_Post_Rule(t, 1).at # 0
  PROVE  Covers(t, MemIndirect_Post_Rule(t, 1))
<1> DEFINE open == "("
           bracket == "["
           shut == "]"
           ari == "MEMORY_INDIRECT_POST_INDEXED"
           rel == "PC_MEM_INDIRECT_POST_INDEXED"
           unknown == "UNKNOWN_MODE"
           first == Past(t, 1, open)
           inner == InnerBase(t, first)
           ended == Then(t, inner, shut)
           indexed == Index(t, ended)
           last == OuterEnd(t, indexed)
           rule == MemIndirect_Post_Rule(t, 1)
<1>1. rule = BaseMode(last, ari, rel)
  BY DEF MemIndirect_Post_Rule, Inner_PostIndexed
<1>2. \A op : op.mode \in {ari, rel} =>
        Notation(op) = Text(open) ** Text(bracket) ** InnerText(op) ** Text(shut) ** Text(Comma)
                         ** IndexText(op) ** OuterText(op) ** Text(Close)
  BY MemoryNotation DEF Comma, Close
<1>3. ASSUME NEW u \in Nat, InnerBase(t, u).at # 0
      PROVE  \E q \in Nat, n \in -1 .. 7, v \in Long, label \in Identifiers \cup {NoLabel}, pc \in BOOLEAN :
               /\ InnerBase(t, u)
                    = Match(q, AddressOp(unknown, n, label, v, Clear, Null, NoLabel, 0, ZeroLong))
               /\ Spells(t, u, u + 1, Text(bracket)) /\ Spells(t, u + 1, q, InnerOf(label, v, pc, n))
  BY <1>3, InnerBaseCovers
<1>4. inner = Match(inner.at, inner.op)
  BY Shapes DEF InnerBase
<1> HIDE DEF open, bracket, shut, ari, rel, unknown, rule
<1>5. last # Fail
  <2> HIDE DEF last
  <2> QED
    BY <1>1, BaseModeFails DEF rule
<1>6. indexed.at # 0
  BY <1>5, OuterFails
<1>7. ended.at # 0 /\ ended # Fail
  BY <1>6, IndexFails, Failed
<1>8. inner.at # 0
  <2> HIDE DEF inner
  <2> QED
    BY <1>4, <1>7, ThenFails
<1>9. first \in Nat
  BY AfterToken
<1>10. PICK r \in Nat, n \in -1 .. 7, v \in Long, label \in Identifiers \cup {NoLabel}, pc \in BOOLEAN :
            /\ inner = Match(r, AddressOp(unknown, n, label, v, Clear, Null, NoLabel, 0, ZeroLong))
            /\ Spells(t, first, first + 1, Text(bracket)) /\ Spells(t, first + 1, r, InnerOf(label, v, pc, n))
  BY <1>3, <1>8, <1>9
<1> DEFINE X == Text(open) ** Text(bracket) ** InnerOf(label, v, pc, n)
<1>11. Spells(t, 1, r, X)
  <2>1. first # 0
    BY <1>10 DEF Spells
  <2>2. Spells(t, 1, first, Text(open))
    BY <2>1, AfterToken
  <2> QED
    BY <1>10, <2>2, SpellsBoth
<1> HIDE DEF X, inner
<1> DEFINE Y == X ** Text(shut)
<1>12. /\ ended = Match(r + 1, AddressOp(unknown, n, label, v, Clear, Null, NoLabel, 0, ZeroLong))
       /\ r + 1 \in Nat /\ Spells(t, 1, r + 1, Y)
  BY <1>7, <1>10, <1>11, ThenCovers
<1> HIDE DEF Y, ended
<1>13. indexed = Index(t, Match(r + 1, AddressOp(unknown, n, label, v, Clear, Null, NoLabel, 0, ZeroLong)))
  BY <1>12
<1> HIDE DEF indexed
<1>15. PICK e \in Nat, an \in BOOLEAN, x \in 0 .. 7, size \in Sizes, scale \in 0 .. 3 :
            /\ indexed = Match(e, AddressOp(unknown, n, label, v, an, x, size, scale, ZeroLong))
            /\ Spells(t, 1, e, Y ** Text(Comma) ** IndexOf(an, x, size, scale))
  BY <1>6, <1>12, <1>13, IndexCovers
<1> DEFINE Z == Y ** Text(Comma) ** IndexOf(an, x, size, scale)
<1> HIDE DEF Z
<1>14. /\ indexed = Match(e, AddressOp(unknown, n, label, v, an, x, size, scale, ZeroLong))
       /\ Spells(t, 1, e, Z)
  BY <1>15 DEF Z
<1> DEFINE op(od) == AddressOp(unknown, n, label, v, an, x, size, scale, od)
<1>16. last.at # 0
  BY <1>5, <1>14, OuterMatches
<1>17. PICK q \in Nat, od \in Long :
            /\ last = Match(q, op(od))
            /\ \/ Spells(t, 1, q, Z ** OuterOf(od) ** Text(Close))
               \/ od = ZeroLong /\ DropsLabel(t, e, q) /\ q \in e .. Len(t) + 1
  <2>1. last = OuterEnd(t, Match(e, op(ZeroLong)))
    BY <1>14
  <2> HIDE DEF last
  <2> QED
    BY <1>14, <1>16, <2>1, OuterCovers
<1> HIDE DEF last
<1> DEFINE mode == IF n = Null THEN rel ELSE ari
           final == AddressOp(mode, n, label, v, an, x, size, scale, od)
           whole == WithPc(final, pc)
<1>18. rule = Match(q, final)
  BY <1>1, <1>17, BaseModeMade
<1>19. mode \in {ari, rel}
  OBVIOUS
<1> HIDE DEF mode
<1>20. /\ whole.mode = mode /\ InnerText(whole) = InnerOf(label, v, pc, n)
       /\ IndexText(whole) = IndexOf(an, x, size, scale) /\ OuterText(whole) = OuterOf(od)
  BY AddressTexts
<1> HIDE DEF whole, final
<1>21. Notation(whole) = Z ** OuterOf(od) ** Text(Close)
  BY <1>2, <1>19, <1>20 DEF X, Y, Z
<1>22. CASE Spells(t, 1, q, Z ** OuterOf(od) ** Text(Close))
  <2>1. Spells(t, 1, q, Notation(whole))
    BY <1>21, <1>22
  <2> QED
    BY <1>18, <2>1, MatchCovers DEF whole, rule
<1>23. CASE od = ZeroLong /\ DropsLabel(t, e, q) /\ q \in e .. Len(t) + 1
  <2>1. Notation(WithPc(final, pc)) = Z ** OuterOf(ZeroLong) ** Text(Close)
    BY <1>21, <1>23 DEF whole
  <2> QED
    BY <1>14, <1>18, <1>23, <2>1, DroppedCovers DEF rule
<1> QED
  BY <1>17, <1>22, <1>23

(* ([bd,An,Xn],od) and ([bd,PC,Xn],od). *)
LEMMA PreRuleCovers ==
  ASSUME NEW S, NEW t \in Seq(S), MemIndirect_Pre_Rule(t, 1).at # 0
  PROVE  Covers(t, MemIndirect_Pre_Rule(t, 1))
<1> DEFINE open == "("
           bracket == "["
           shut == "]"
           ari == "MEMORY_INDIRECT_PRE_INDEXED"
           rel == "PC_MEM_INDIRECT_PRE_INDEXED"
           unknown == "UNKNOWN_MODE"
           first == Past(t, 1, open)
           inner == InnerBase(t, first)
           indexed == Index(t, inner)
           ended == Then(t, indexed, shut)
           last == OuterEnd(t, ended)
           rule == MemIndirect_Pre_Rule(t, 1)
<1>1. rule = BaseMode(last, ari, rel)
  BY DEF MemIndirect_Pre_Rule, Inner_PreIndexed
<1>2. \A op : op.mode \in {ari, rel} =>
        Notation(op) = Text(open) ** Text(bracket) ** InnerText(op) ** Text(Comma) ** IndexText(op)
                         ** Text(shut) ** OuterText(op) ** Text(Close)
  BY MemoryNotation DEF Comma, Close
<1>3. ASSUME NEW u \in Nat, InnerBase(t, u).at # 0
      PROVE  \E q \in Nat, n \in -1 .. 7, v \in Long, label \in Identifiers \cup {NoLabel}, pc \in BOOLEAN :
               /\ InnerBase(t, u)
                    = Match(q, AddressOp(unknown, n, label, v, Clear, Null, NoLabel, 0, ZeroLong))
               /\ Spells(t, u, u + 1, Text(bracket)) /\ Spells(t, u + 1, q, InnerOf(label, v, pc, n))
  BY <1>3, InnerBaseCovers
<1>4. inner = Match(inner.at, inner.op)
  BY Shapes DEF InnerBase
<1> HIDE DEF open, bracket, shut, ari, rel, unknown, rule
<1>5. last # Fail
  <2> HIDE DEF last
  <2> QED
    BY <1>1, BaseModeFails DEF rule
<1>6. ended.at # 0 /\ ended # Fail
  BY <1>5, OuterFails, Failed
<1>7. indexed.at # 0
  <2>1. indexed = Match(indexed.at, indexed.op)
    BY Shapes
  <2> HIDE DEF indexed
  <2> QED
    BY <1>6, <2>1, ThenFails
<1>8. inner.at # 0
  BY <1>7, IndexFails
<1>9. first \in Nat
  BY AfterToken
<1>10. PICK r \in Nat, n \in -1 .. 7, v \in Long, label \in Identifiers \cup {NoLabel}, pc \in BOOLEAN :
            /\ inner = Match(r, AddressOp(unknown, n, label, v, Clear, Null, NoLabel, 0, ZeroLong))
            /\ Spells(t, first, first + 1, Text(bracket)) /\ Spells(t, first + 1, r, InnerOf(label, v, pc, n))
  BY <1>3, <1>8, <1>9
<1> DEFINE X == Text(open) ** Text(bracket) ** InnerOf(label, v, pc, n)
<1>11. Spells(t, 1, r, X)
  <2>1. first # 0
    BY <1>10 DEF Spells
  <2>2. Spells(t, 1, first, Text(open))
    BY <2>1, AfterToken
  <2> QED
    BY <1>10, <2>2, SpellsBoth
<1> HIDE DEF X, inner
<1>12. indexed = Index(t, Match(r, AddressOp(unknown, n, label, v, Clear, Null, NoLabel, 0, ZeroLong)))
  BY <1>10
<1> HIDE DEF indexed
<1>13. PICK u \in Nat, an \in BOOLEAN, x \in 0 .. 7, size \in Sizes, scale \in 0 .. 3 :
            /\ indexed = Match(u, AddressOp(unknown, n, label, v, an, x, size, scale, ZeroLong))
            /\ Spells(t, 1, u, X ** Text(Comma) ** IndexOf(an, x, size, scale))
  BY <1>7, <1>10, <1>11, <1>12, IndexCovers
<1> DEFINE Y == X ** Text(Comma) ** IndexOf(an, x, size, scale)
           Z == Y ** Text(shut)
           e == u + 1
<1> HIDE DEF Y
<1>14. /\ ended = Match(e, AddressOp(unknown, n, label, v, an, x, size, scale, ZeroLong))
       /\ e \in Nat /\ Spells(t, 1, e, Z)
  BY <1>6, <1>13, ThenCovers DEF Y
<1> HIDE DEF ended, Z, e
<1> DEFINE op(od) == AddressOp(unknown, n, label, v, an, x, size, scale, od)
<1>16. last.at # 0
  BY <1>5, <1>14, OuterMatches
<1>17. PICK q \in Nat, od \in Long :
            /\ last = Match(q, op(od))
            /\ \/ Spells(t, 1, q, Z ** OuterOf(od) ** Text(Close))
               \/ od = ZeroLong /\ DropsLabel(t, e, q) /\ q \in e .. Len(t) + 1
  <2>1. last = OuterEnd(t, Match(e, op(ZeroLong)))
    BY <1>14
  <2> HIDE DEF last
  <2> QED
    BY <1>14, <1>16, <2>1, OuterCovers
<1> HIDE DEF last
<1> DEFINE mode == IF n = Null THEN rel ELSE ari
           final == AddressOp(mode, n, label, v, an, x, size, scale, od)
           whole == WithPc(final, pc)
<1>18. rule = Match(q, final)
  BY <1>1, <1>17, BaseModeMade
<1>19. mode \in {ari, rel}
  OBVIOUS
<1> HIDE DEF mode
<1>20. /\ whole.mode = mode /\ InnerText(whole) = InnerOf(label, v, pc, n)
       /\ IndexText(whole) = IndexOf(an, x, size, scale) /\ OuterText(whole) = OuterOf(od)
  BY AddressTexts
<1> HIDE DEF whole, final
<1>21. Notation(whole) = Z ** OuterOf(od) ** Text(Close)
  BY <1>2, <1>19, <1>20 DEF X, Y, Z
<1>22. CASE Spells(t, 1, q, Z ** OuterOf(od) ** Text(Close))
  <2>1. Spells(t, 1, q, Notation(whole))
    BY <1>21, <1>22
  <2> QED
    BY <1>18, <2>1, MatchCovers DEF whole, rule
<1>23. CASE od = ZeroLong /\ DropsLabel(t, e, q) /\ q \in e .. Len(t) + 1
  <2>1. Notation(WithPc(final, pc)) = Z ** OuterOf(ZeroLong) ** Text(Close)
    BY <1>21, <1>23 DEF whole
  <2> QED
    BY <1>14, <1>18, <1>23, <2>1, DroppedCovers DEF rule
<1> QED
  BY <1>17, <1>22, <1>23

(* Whichever alternative of operand matches, its operand has the text as a notation. *)
LEMMA OperandCovers ==
  ASSUME NEW S, NEW t \in Seq(S), operand(t, 1).at # 0
  PROVE  operand(t, 1).at = Len(t) + 2 \/ Covers(t, operand(t, 1))
<1> DEFINE immediate == Operand_Immediate(t, 1)
           register == Operand_RegisterDirect(t, 1)
           absolute == Operand_Absolute(t, 1)
           post == MemIndirect_Post_Rule(t, 1)
           pre == MemIndirect_Pre_Rule(t, 1)
           based == Index_BaseDisp_Rule(t, 1)
           indexed == Index_8BitDisp_Rule(t, 1)
           decrement == ARI_PreDecrement_Rule(t, 1)
           increment == ARI_PostIncrement_Rule(t, 1)
           displaced == Displacement_Rule(t, 1)
           plain == ARI_Rule(t, 1)
           rule == operand(t, 1)
<1>1. rule = Choice(immediate, Choice(register, Choice(absolute,
               Choice(Choice(post, Choice(pre, Choice(based, indexed))),
                      Choice(decrement, Choice(increment, Choice(displaced, plain)))))))
  BY DEF operand, Operand_Indirect_Complex, Operand_Indirect_Simple
<1>2. \A m \in {immediate, absolute, post, pre, based, indexed, decrement, increment, displaced, plain} :
        m.at # 0 => Covers(t, m)
  BY ImmediateCovers, AbsoluteCovers, PostRuleCovers, PreRuleCovers, BaseDispRuleCovers,
     IndexRuleCovers, SimpleCovers, DisplacementRuleCovers
<1>3. register.at # 0 => register.at = Len(t) + 2 \/ Covers(t, register)
  BY RegisterCovers
<1> HIDE DEF immediate, register, absolute, post, pre, based, indexed, decrement, increment,
             displaced, plain, rule
<1>4. \A a, b : Choice(a, b) = a \/ Choice(a, b) = b
  BY DEF Choice
<1>5. rule \in {immediate, register, absolute, post, pre, based, indexed, decrement, increment,
                displaced, plain}
  BY <1>1, <1>4
<1>6. rule.at # 0
  BY DEF rule
<1> QED
  BY <1>2, <1>3, <1>5, <1>6 DEF rule

(* What parse_operand answers to a text is a notation of the answer.         *)
LEMMA AnswerCovers ==
  ASSUME NEW S, NEW t \in Seq(S), parse_operand(t).status = "parsed"
  PROVE  \E s \in {t} \cup WithoutOuterLabel(t), pc_relative \in BOOLEAN :
            s \in Notation([parse_operand(t).op EXCEPT !.is_pc_relative_label = pc_relative])
<1> DEFINE m == operand(t, 1)
           op == m.op
           end == Len(t) + 1
<1>1. Len(t) \in Nat
  BY LenProperties
<1>2. t # <<>> /\ parse_operand(t) = Answer(root(t))
  BY DEF parse_operand
<1>3. root(t).at # 0
  BY <1>2 DEF parse_operand, Answer
<1>4. root(t) = m /\ m.at = end
  BY <1>3, Failed DEF root, EOT
<1>5. parse_operand(t).op = op
  BY <1>2, <1>3, <1>4 DEF Answer
<1>6. Covers(t, m)
  BY <1>1, <1>4, OperandCovers
<1> HIDE DEF m
<1>7. PICK pc \in BOOLEAN :
        \/ Spells(t, 1, m.at, Notation(WithPc(m.op, pc)))
        \/ \E p \in 1 .. Len(t) + 1 :
             /\ DropsLabel(t, p, m.at)
             /\ m.at \in p .. Len(t) + 1
             /\ SubSeq(t, 1, p - 1) \o <<")">> \in Notation(WithPc(m.op, pc))
  BY <1>6 DEF Covers
<1> DEFINE N == Notation(WithPc(op, pc))
<1>8. N = Notation([parse_operand(t).op EXCEPT !.is_pc_relative_label = pc])
  BY <1>5 DEF WithPc
<1> HIDE DEF N
<1>9. CASE Spells(t, 1, end, N)
  <2>1. t \in N
    BY <1>9, SpellsAll
  <2> QED
    BY <1>8, <2>1
<1>10. CASE \E p \in 1 .. Len(t) + 1 : DropsLabel(t, p, end) /\ SubSeq(t, 1, p - 1) \o <<")">> \in N
  <2>1. PICK p \in 1 .. Len(t) + 1 : DropsLabel(t, p, end) /\ SubSeq(t, 1, p - 1) \o <<")">> \in N
    BY <1>10
  <2> DEFINE n == p - 1
  <2>2. n \in 0 .. Len(t) /\ n + 1 = p /\ end - 1 = Len(t)
    BY <1>1
  <2>3. \E x \in Identifiers : SubSeq(t, n + 1, Len(t)) \in {<<",", x, ")">>, <<",", x, "-", ".", ")">>}
    BY <2>1, <2>2 DEF DropsLabel
  <2>4. SubSeq(t, 1, n) \o <<")">> \in WithoutOuterLabel(t)
    BY <2>2, <2>3 DEF WithoutOuterLabel
  <2> QED
    BY <1>8, <2>1, <2>4
<1> QED
  BY <1>4, <1>7, <1>9, <1>10 DEF N

-----------------------------------------------------------------------------
(* The tokens a text is made of. *)
Tokens == Identifiers \cup Punctuation \cup DOMAIN ScaleToken \cup DOMAIN Decimal \cup DOMAIN Hexadecimal

InTokens(A) == A \subseteq Seq(Tokens)

(* The marks are tokens. *)
LEMMA Punctuated ==
  /\ "#" \in Tokens /\ "(" \in Tokens /\ ")" \in Tokens /\ "[" \in Tokens /\ "]" \in Tokens
  /\ "," \in Tokens /\ "-" \in Tokens /\ "+" \in Tokens /\ "." \in Tokens /\ "*" \in Tokens
  BY DEF Tokens, Punctuation

(* Languages over the tokens: one token, ... *)
LEMMA TextInTokens ==
  ASSUME NEW x \in Tokens
  PROVE  InTokens(Text(x))
  BY DEF InTokens, Text

(* ... two tokens, ... *)
LEMMA PairInTokens ==
  ASSUME NEW x \in Tokens, NEW y \in Tokens
  PROVE  InTokens({<<x, y>>})
  BY DEF InTokens

(* ... no token, ... *)
LEMMA NoTextInTokens == InTokens(NoText) /\ InTokens({})
  BY DEF InTokens, NoText

(* ... the tokens of a table, ... *)
LEMMA NamedInTokens ==
  ASSUME NEW tokens, NEW n, DOMAIN tokens \subseteq Tokens
  PROVE  InTokens(Named(tokens, n))
<1>1. \A x \in Tokens : <<x>> \in Seq(Tokens)
  OBVIOUS
<1> DEFINE named == {y \in DOMAIN tokens : tokens[y] = n}
<1>2. named \subseteq Tokens
  OBVIOUS
<1>3. Named(tokens, n) = {<<x>> : x \in named}
  BY DEF Named
<1> HIDE DEF named
<1> QED
  BY <1>1, <1>2, <1>3 DEF InTokens

(* ... languages joined and united, ... *)
LEMMA JoinedInTokens ==
  ASSUME NEW A, NEW B, InTokens(A), InTokens(B)
  PROVE  InTokens(A ** B) /\ InTokens(A \cup B)
<1>1. ASSUME NEW x \in A ** B PROVE x \in Seq(Tokens)
  <2>1. PICK a \in A, b \in B : x = a \o b
    BY <1>1, Joined
  <2>2. a \in Seq(Tokens) /\ b \in Seq(Tokens)
    BY DEF InTokens
  <2> QED
    BY <2>1, <2>2, ConcatProperties
<1> QED
  BY <1>1 DEF InTokens

(* ... numbers, ... *)
LEMMA NumberInTokens ==
  ASSUME NEW v
  PROVE  InTokens(NumberText(v))
<1> DEFINE minus == "-"
           decimal == Named(Decimal, SubLong(ZeroLong, v))
<1>1. NumberText(v) = Named(Hexadecimal, v) \cup Named(Decimal, v) \cup (Text(minus) ** decimal)
  BY DEF NumberText
<1>2. InTokens(Text(minus))
  BY Punctuated, TextInTokens
<1> HIDE DEF minus
<1>3. DOMAIN Decimal \subseteq Tokens /\ DOMAIN Hexadecimal \subseteq Tokens
  BY DEF Tokens
<1>4. InTokens(Named(Hexadecimal, v)) /\ InTokens(Named(Decimal, v)) /\ InTokens(decimal)
  BY <1>3, NamedInTokens
<1> HIDE DEF decimal
<1>5. InTokens(Text(minus) ** decimal)
  BY <1>2, <1>4, JoinedInTokens
<1>6. InTokens(Named(Hexadecimal, v) \cup Named(Decimal, v))
  BY <1>4, JoinedInTokens
<1>7. InTokens(Named(Hexadecimal, v) \cup Named(Decimal, v) \cup (Text(minus) ** decimal))
  BY <1>5, <1>6, JoinedInTokens
<1> QED
  BY <1>1, <1>7

(* ... and the parts of an operand. *)
LEMMA PartsInTokens ==
  ASSUME NEW op, op.label \in Labels \cup {NoLabel}
  PROVE  /\ InTokens(DatumText(op)) /\ InTokens(DisplacementText(op)) /\ InTokens(BaseText(op))
         /\ InTokens(InnerText(op)) /\ InTokens(OuterText(op))
         /\ op.index_size \in Sizes => InTokens(IndexText(op))
<1> DEFINE minus == "-"
           dot == "."
           star == "*"
           pc == "PC"
<1>1. op.label # NoLabel => op.label \in Tokens
  BY DEF Tokens, Identifiers
<1>2. Comma \in Tokens /\ minus \in Tokens /\ dot \in Tokens /\ star \in Tokens /\ pc \in Tokens
  BY Punctuated DEF Comma, Tokens, Identifiers
<1>3. DatumText(op) = IF op.label # NoLabel THEN Text(op.label) ELSE NumberText(op.value)
  BY DEF DatumText
<1>4. \/ DisplacementText(op) = NumberText(op.base_displacement)
      \/ op.label # NoLabel /\ DisplacementText(op) = {<<op.label, minus, dot>>}
      \/ op.label # NoLabel /\ DisplacementText(op) = Text(op.label)
  BY DEF DisplacementText
<1>5. BaseText(op) = Text(pc) \/ BaseText(op) = Named(AnToken, op.reg_num)
  BY DEF BaseText
<1> DEFINE none == NoText
           name == Named(IF op.index_is_an THEN AnToken ELSE DnToken, op.index_reg_num)
           size == {<<dot, op.index_size>>} \cup IF op.index_size = "W" THEN none ELSE {}
           digits == {x \in DOMAIN ScaleToken : ScaleToken[x] = op.scale}
           scale == {<<star, s>> : s \in digits} \cup IF op.scale = 0 THEN none ELSE {}
           shown == DisplacementText(op)
                      \cup IF op.label = NoLabel /\ op.base_displacement = ZeroLong THEN none ELSE {}
           outer == (Text(Comma) ** NumberText(op.outer_displacement))
                      \cup IF op.outer_displacement = ZeroLong THEN none ELSE {}
<1>6. IndexText(op) = name ** size ** scale
  BY DEF IndexText
<1>7. InnerText(op) = shown ** Text(Comma) ** BaseText(op)
  BY DEF InnerText, Comma
<1>8. OuterText(op) = outer
  BY DEF OuterText, Comma
<1> HIDE DEF minus, dot, star, pc
<1>9. InTokens(none) /\ InTokens({})
  BY NoTextInTokens
<1> HIDE DEF none
<1>10. InTokens(DatumText(op))
  BY <1>1, <1>3, TextInTokens, NumberInTokens
<1>11. InTokens(DisplacementText(op))
  <2>1. ASSUME NEW x \in Tokens PROVE InTokens({<<x, minus, dot>>})
    BY <1>2 DEF InTokens
  <2> QED
    BY <1>1, <1>4, <2>1, TextInTokens, NumberInTokens
<1>12. DOMAIN AnToken \subseteq Tokens /\ DOMAIN DnToken \subseteq Tokens
  BY DEF Tokens, Identifiers
<1>13. InTokens(BaseText(op))
  BY <1>2, <1>5, <1>12, TextInTokens, NamedInTokens
<1>14. InTokens(Text(Comma))
  BY <1>2, TextInTokens
<1>15. InTokens(InnerText(op))
  <2> DEFINE rest == IF op.label = NoLabel /\ op.base_displacement = ZeroLong THEN none ELSE {}
  <2>1. InTokens(rest)
    BY <1>9
  <2> HIDE DEF rest
  <2>2. InTokens(DisplacementText(op) \cup rest)
    BY <1>11, <2>1, JoinedInTokens
  <2>3. InTokens(shown)
    BY <2>2 DEF rest
  <2> HIDE DEF shown
  <2>4. InTokens(shown ** Text(Comma))
    BY <1>14, <2>3, JoinedInTokens
  <2>5. InTokens(shown ** Text(Comma) ** BaseText(op))
    BY <1>13, <2>4, JoinedInTokens
  <2> QED
    BY <1>7, <2>5
<1>16. InTokens(OuterText(op))
  <2> DEFINE rest == IF op.outer_displacement = ZeroLong THEN none ELSE {}
             number == NumberText(op.outer_displacement)
  <2>1. InTokens(rest)
    BY <1>9
  <2>2. InTokens(number)
    BY NumberInTokens
  <2> HIDE DEF rest, number
  <2>3. InTokens(Text(Comma) ** number)
    BY <1>14, <2>2, JoinedInTokens
  <2>4. InTokens((Text(Comma) ** number) \cup rest)
    BY <2>1, <2>3, JoinedInTokens
  <2> QED
    BY <1>8, <2>4 DEF rest, number
<1>17. ASSUME op.index_size \in Sizes PROVE InTokens(IndexText(op))
  <2>1. InTokens(name)
    BY <1>12, NamedInTokens
  <2>2. InTokens(size)
    <3> DEFINE rest == IF op.index_size = "W" THEN none ELSE {}
    <3>1. InTokens(rest)
      BY <1>9
    <3>2. op.index_size \in Tokens
      BY <1>17 DEF Tokens, Identifiers
    <3> HIDE DEF rest
    <3>3. InTokens({<<dot, op.index_size>>})
      BY <1>2, <3>2, PairInTokens
    <3>4. InTokens({<<dot, op.index_size>>} \cup rest)
      BY <3>1, <3>3, JoinedInTokens
    <3> QED
      BY <3>4 DEF rest
  <2>3. InTokens(scale)
    <3> DEFINE rest == IF op.scale = 0 THEN none ELSE {}
               written == {<<star, s>> : s \in digits}
    <3>1. InTokens(rest)
      BY <1>9
    <3>2. digits \subseteq Tokens
      BY DEF Tokens
    <3> HIDE DEF rest, digits
    <3>3. InTokens(written)
      <4>1. \A s \in Tokens : <<star, s>> \in Seq(Tokens)
        BY <1>2
      <4> QED
        BY <3>2, <4>1 DEF InTokens
    <3> HIDE DEF written
    <3>4. InTokens(written \cup rest)
      BY <3>1, <3>3, JoinedInTokens
    <3> QED
      BY <3>4 DEF rest, written, digits
  <2> HIDE DEF name, size, scale
  <2>4. InTokens(name ** size)
    BY <2>1, <2>2, JoinedInTokens
  <2>5. InTokens(name ** size ** scale)
    BY <2>3, <2>4, JoinedInTokens
  <2> QED
    BY <1>6, <2>5 DEF name, size, scale
<1> QED
  BY <1>10, <1>11, <1>13, <1>15, <1>16, <1>17

(* What OperandsAssumption says of the fields. *)
LEMMA OperandParts ==
  ASSUME NEW op \in Operands
  PROVE  /\ op.mode \in Modes /\ op.label \in Labels \cup {NoLabel}
         /\ op.mode \in IndexedModes => op.index_size \in Sizes
         /\ op.mode \in RegisterModes => op.reg_num \in 0 .. 7
  BY OperandsAssumption DEF OperandType, DatumModes, RegisterModes, PcModes

(* A notation is a text of tokens, ... *)
LEMMA NotationInTokens ==
  ASSUME NEW op \in Operands
  PROVE  InTokens(Notation(op))
<1> DEFINE open == "("
           bracket == "["
           shut == "]"
           hash == "#"
           plus == "+"
           minus == "-"
           W == {<<".", "W">>}
           L == {<<".", "L">>}
           datum == DatumText(op)
           disp == DisplacementText(op)
           base == BaseText(op)
           inner == InnerText(op)
           index == IndexText(op)
           outer == OuterText(op)
<1>1. /\ InTokens(Text(open)) /\ InTokens(Text(bracket)) /\ InTokens(Text(shut))
      /\ InTokens(Text(hash)) /\ InTokens(Text(plus)) /\ InTokens(Text(minus))
      /\ InTokens(Text(Comma)) /\ InTokens(Text(Close))
  BY Punctuated, TextInTokens DEF Comma, Close
<1>2. InTokens(W) /\ InTokens(L) /\ InTokens(NoText)
  <2>1. "." \in Tokens /\ "W" \in Tokens /\ "L" \in Tokens
    BY Punctuated DEF Tokens, Identifiers, Sizes
  <2> QED
    BY <2>1, PairInTokens, NoTextInTokens
<1>3. /\ op.mode \in Modes
      /\ op.mode \in IndexedModes => op.index_size \in Sizes
      /\ op.label \in Labels \cup {NoLabel}
  BY OperandParts
<1>4. /\ InTokens(datum) /\ InTokens(disp) /\ InTokens(base) /\ InTokens(inner) /\ InTokens(outer)
      /\ op.index_size \in Sizes => InTokens(index)
  BY <1>3, PartsInTokens
<1>5. /\ op.mode = "DATA_REGISTER_DIRECT" => Notation(op) = Named(DnToken, op.reg_num)
      /\ op.mode = "ADDRESS_REGISTER_DIRECT" => Notation(op) = Named(AnToken, op.reg_num)
      /\ op.mode = "IMMEDIATE" => Notation(op) = Text(hash) ** datum
      /\ op.mode = "ABSOLUTE_SHORT" =>
           Notation(op) = (datum \cup (Text(open) ** datum ** Text(Close))) ** (NoText \cup W)
      /\ op.mode = "ABSOLUTE_LONG" =>
           Notation(op) = (datum \cup (Text(open) ** datum ** Text(Close))) ** L
  BY DirectNotation DEF Close
<1>6. /\ op.mode = "ADDRESS_REGISTER_INDIRECT" => Notation(op) = Text(open) ** base ** Text(Close)
      /\ op.mode = "ARI_POST_INCREMENT" =>
           Notation(op) = Text(open) ** base ** Text(Close) ** Text(plus)
      /\ op.mode = "ARI_PRE_DECREMENT" =>
           Notation(op) = Text(minus) ** Text(open) ** base ** Text(Close)
      /\ op.mode \in {"ARI_DISPLACEMENT", "PC_RELATIVE_DISPLACEMENT"} =>
           Notation(op) = disp ** Text(open) ** base ** Text(Close)
  BY IndirectNotation DEF Close
<1>7. /\ op.mode \in {"ARI_INDEX_8_BIT_DISP", "PC_RELATIVE_INDEX_8_BIT"} =>
           Notation(op) = disp ** Text(open) ** base ** Text(Comma) ** index ** Text(Close)
      /\ op.mode \in {"ARI_INDEX_BASE_DISP", "PC_INDEX_BASE_DISP"} =>
           Notation(op) = Text(open) ** disp ** Text(Comma) ** base ** Text(Comma) ** index
                            ** Text(Close)
  BY IndexedNotation DEF Comma, Close
<1>8. /\ op.mode \in {"MEMORY_INDIRECT_POST_INDEXED", "PC_MEM_INDIRECT_POST_INDEXED"} =>
           Notation(op) = Text(open) ** Text(bracket) ** inner ** Text(shut) ** Text(Comma)
                            ** index ** outer ** Text(Close)
      /\ op.mode \in {"MEMORY_INDIRECT_PRE_INDEXED", "PC_MEM_INDIRECT_PRE_INDEXED"} =>
           Notation(op) = Text(open) ** Text(bracket) ** inner ** Text(Comma) ** index
                            ** Text(shut) ** outer ** Text(Close)
  BY MemoryNotation DEF Comma, Close
<1> HIDE DEF open, bracket, shut, hash, plus, minus, W, L, datum, disp, base, inner, index, outer
<1>9. CASE op.mode \in {"DATA_REGISTER_DIRECT", "ADDRESS_REGISTER_DIRECT"}
  <2>1. DOMAIN AnToken \subseteq Tokens /\ DOMAIN DnToken \subseteq Tokens
    BY DEF Tokens, Identifiers
  <2> QED
    BY <1>5, <1>9, <2>1, NamedInTokens
<1>10. CASE op.mode \in DatumModes
  <2>1. InTokens(Text(open) ** datum ** Text(Close))
    BY <1>1, <1>4, JoinedInTokens
  <2>2. InTokens(datum \cup (Text(open) ** datum ** Text(Close)))
    BY <1>4, <2>1, JoinedInTokens
  <2>3. InTokens(NoText \cup W)
    BY <1>2, JoinedInTokens
  <2>4. CASE op.mode = "IMMEDIATE"
    BY <1>1, <1>4, <1>5, <2>4, JoinedInTokens
  <2>5. CASE op.mode = "ABSOLUTE_SHORT"
    BY <1>5, <2>2, <2>3, <2>5, JoinedInTokens
  <2>6. CASE op.mode = "ABSOLUTE_LONG"
    BY <1>2, <1>5, <2>2, <2>6, JoinedInTokens
  <2> QED
    BY <1>10, <2>4, <2>5, <2>6 DEF DatumModes
<1>11. CASE op.mode \in {"ADDRESS_REGISTER_INDIRECT", "ARI_POST_INCREMENT", "ARI_PRE_DECREMENT",
                        "ARI_DISPLACEMENT", "PC_RELATIVE_DISPLACEMENT"}
  <2>1. InTokens(Text(open) ** base ** Text(Close) ** Text(plus)) /\ InTokens(Text(open) ** base ** Text(Close))
    BY <1>1, <1>4, JoinedInTokens
  <2>2. InTokens(Text(minus) ** Text(open) ** base ** Text(Close))
    BY <1>1, <1>4, JoinedInTokens
  <2>3. InTokens(disp ** Text(open) ** base ** Text(Close))
    BY <1>1, <1>4, JoinedInTokens
  <2> QED
    BY <1>6, <1>11, <2>1, <2>2, <2>3
<1>12. CASE op.mode \in IndexedModes
  <2>1. InTokens(index)
    BY <1>3, <1>4, <1>12
  <2>2. InTokens(disp ** Text(open) ** base ** Text(Comma) ** index ** Text(Close))
    BY <1>1, <1>4, <2>1, JoinedInTokens
  <2>3. InTokens(Text(open) ** disp ** Text(Comma) ** base ** Text(Comma) ** index ** Text(Close))
    BY <1>1, <1>4, <2>1, JoinedInTokens
  <2>4. InTokens(Text(open) ** Text(bracket) ** inner ** Text(shut) ** Text(Comma)
                            ** index ** outer ** Text(Close))
    BY <1>1, <1>4, <2>1, JoinedInTokens
  <2>5. InTokens(Text(open) ** Text(bracket) ** inner ** Text(Comma) ** index
                            ** Text(shut) ** outer ** Text(Close))
    BY <1>1, <1>4, <2>1, JoinedInTokens
  <2> QED
    BY <1>7, <1>8, <1>12, <2>2, <2>3, <2>4, <2>5 DEF IndexedModes, MemoryModes
<1> QED
  BY <1>3, <1>9, <1>10, <1>11, <1>12 DEF Modes, RegisterModes, DisplacedModes

(* ... and so is one with a slip in it. *)
LEMMA SlipsInTokens ==
  ASSUME NEW t \in Seq(Tokens), NEW s \in Slips(t)
  PROVE  s \in Seq(Tokens)
<1>1. Len(t) \in Nat
  BY LenProperties
<1>2. \A i \in 1 .. Len(t) : t[i] \in Tokens
  BY ElementOfSeq
<1>3. CASE \E i \in 1 .. Len(t) : s = SubSeq(t, 1, i - 1) \o SubSeq(t, i + 1, Len(t))
  <2>1. PICK i \in 1 .. Len(t) : s = SubSeq(t, 1, i - 1) \o SubSeq(t, i + 1, Len(t))
    BY <1>3
  <2>2. SubSeq(t, 1, i - 1) \in Seq(Tokens) /\ SubSeq(t, i + 1, Len(t)) \in Seq(Tokens)
    BY <1>1, SubSeqProperties
  <2> QED
    BY <2>1, <2>2, ConcatProperties
<1>4. CASE \E i \in 1 .. Len(t) : s = SubSeq(t, 1, i) \o SubSeq(t, i, Len(t))
  <2>1. PICK i \in 1 .. Len(t) : s = SubSeq(t, 1, i) \o SubSeq(t, i, Len(t))
    BY <1>4
  <2>2. SubSeq(t, 1, i) \in Seq(Tokens) /\ SubSeq(t, i, Len(t)) \in Seq(Tokens)
    BY <1>1, SubSeqProperties
  <2> QED
    BY <2>1, <2>2, ConcatProperties
<1>5. CASE \E i \in 1 .. Len(t), x \in Identifiers : s = [t EXCEPT ![i] = x]
  <2>1. Identifiers \subseteq Tokens
    BY DEF Tokens
  <2> QED
    BY <1>5, <2>1, ExceptSeq
<1>6. CASE \E i \in 1 .. Len(t) - 1 : s = [t EXCEPT ![i] = t[i + 1], ![i + 1] = t[i]]
  <2>1. PICK i \in 1 .. Len(t) - 1 : s = [t EXCEPT ![i] = t[i + 1], ![i + 1] = t[i]]
    BY <1>6
  <2>2. i \in 1 .. Len(t) /\ i + 1 \in 1 .. Len(t)
    BY <1>1
  <2>3. t[i] \in Tokens /\ t[i + 1] \in Tokens
    BY <1>2, <2>2
  <2> DEFINE u == [t EXCEPT ![i] = t[i + 1]]
  <2>4. u \in Seq(Tokens) /\ Len(u) = Len(t)
    BY <2>2, <2>3, ExceptSeq
  <2>5. s = [u EXCEPT ![i + 1] = t[i]]
    BY <2>1
  <2> HIDE DEF u
  <2> QED
    BY <2>2, <2>3, <2>4, <2>5, ExceptSeq
<1> DEFINE Put(i, x) == [t EXCEPT ![i] = x]
           left == {SubSeq(t, 1, i - 1) \o SubSeq(t, i + 1, Len(t)) : i \in 1 .. Len(t)}
           twice == {SubSeq(t, 1, i) \o SubSeq(t, i, Len(t)) : i \in 1 .. Len(t)}
           other == {Put(i, x) : i \in 1 .. Len(t), x \in Identifiers}
           swapped == {[t EXCEPT ![i] = t[i + 1], ![i + 1] = t[i]] : i \in 1 .. Len(t) - 1}
<1>7. Slips(t) = left \cup twice \cup other \cup swapped
  BY DEF Slips
<1>8. CASE s \in left
  BY <1>3, <1>8
<1>9. CASE s \in twice
  BY <1>4, <1>9
<1>10. CASE s \in other
  <2> HIDE DEF Put
  <2>1. \E i \in 1 .. Len(t), x \in Identifiers : s = Put(i, x)
    BY <1>10
  <2> QED
    BY <1>5, <2>1 DEF Put
<1>11. CASE s \in swapped
  BY <1>6, <1>11, Zenon
<1> HIDE DEF left, twice, other, swapped
<1> QED
  BY <1>7, <1>8, <1>9, <1>10, <1>11

-----------------------------------------------------------------------------
(* A text is made of tokens, and an answer is the one that parse_operand gives *)
(* to the text, which no longer changes.                                      *)
Answered ==
  /\ text \in Seq(Tokens)
  /\ answer = Unread \/ answer = parse_operand(text)

(* The invariant holds at first, ... *)
LEMMA InitAnswered == Init => Answered
<1> SUFFICES ASSUME Init PROVE Answered
  OBVIOUS
<1>1. PICK op \in Operands : text \in Notation(op) /\ answer = Unread
  BY DEF Init
<1>2. text \in Seq(Tokens)
  BY <1>1, NotationInTokens DEF InTokens
<1> QED
  BY <1>1, <1>2 DEF Answered

(* ... every step keeps it, ... *)
LEMMA NextAnswered == Answered /\ [Next]_vars => Answered'
<1> SUFFICES ASSUME Answered, [Next]_vars PROVE Answered'
  OBVIOUS
<1>1. CASE Slip
  <2>1. text' \in Slips(text) /\ answer' = answer /\ answer = Unread
    BY <1>1 DEF Slip
  <2>2. text' \in Seq(Tokens)
    BY <2>1, SlipsInTokens DEF Answered
  <2> QED
    BY <2>1, <2>2 DEF Answered
<1>2. CASE Read
  BY <1>2 DEF Read, Answered
<1>3. CASE UNCHANGED vars
  BY <1>3 DEF vars, Answered
<1> QED
  BY <1>1, <1>2, <1>3 DEF Next

(* ... and it says what is accepted. *)
LEMMA AnsweredAccepts == Answered => AcceptsNotationsOnly
<1> SUFFICES ASSUME Answered, answer.status = "parsed"
             PROVE  \E t \in {text} \cup WithoutOuterLabel(text), pc_relative \in BOOLEAN :
                      t \in Notation([answer.op EXCEPT !.is_pc_relative_label = pc_relative])
  BY DEF AcceptsNotationsOnly
<1>1. answer # Unread
  BY DEF Unread
<1>2. answer = parse_operand(text) /\ text \in Seq(Tokens)
  BY <1>1 DEF Answered
<1>3. parse_operand(text).status = "parsed"
  BY <1>2
<1>4. \E t \in {text} \cup WithoutOuterLabel(text), pc_relative \in BOOLEAN :
         t \in Notation([parse_operand(text).op EXCEPT !.is_pc_relative_label = pc_relative])
  BY <1>2, <1>3, AnswerCovers
<1> QED
  BY <1>2, <1>4

(* Whatever the operands and the names, a text that parse_operand accepts is a *)
(* notation of the operand it became, but for the two losses of the grammar:   *)
(* the mark of a label relative to the PC, and a label as outer displacement.  *)
THEOREM OnlyNotationsAreAccepted == Spec => []AcceptsNotationsOnly
<1>1. Init => Answered
  BY InitAnswered
<1>2. Answered /\ [Next]_vars => Answered'
  BY NextAnswered
<1>3. Answered => AcceptsNotationsOnly
  BY AnsweredAccepts
<1> QED
  BY <1>1, <1>2, <1>3, PTL DEF Spec

-----------------------------------------------------------------------------
(* The other direction: what is written is read.  The marks by name, so that  *)
(* they are no more than different tokens to the provers.                     *)
Hash == "#"
Open == "("
LeftBracket == "["
RightBracket == "]"
Minus == "-"
Dot == "."
Star == "*"
ThePC == "PC"

Marks == {Hash, Open, Close, LeftBracket, RightBracket, Comma, Minus, Dot, Star}

(* No mark is another, nor a name or a number. *)
LEMMA MarksAreApart ==
  /\ Open \notin {Hash, Close, LeftBracket, RightBracket, Comma, Minus, Dot, Star}
  /\ Hash \notin {Open, Close, LeftBracket, RightBracket, Comma, Minus, Dot, Star}
  /\ LeftBracket \notin {Hash, Close, Open, RightBracket, Comma, Minus, Dot, Star}
  /\ RightBracket \notin {Hash, Close, Open, LeftBracket, Comma, Minus, Dot, Star}
  /\ Comma \notin {Hash, Close, Open, LeftBracket, RightBracket, Minus, Dot, Star}
  /\ Close \notin {Hash, Comma, Open, LeftBracket, RightBracket, Minus, Dot, Star}
  /\ Minus \notin {Hash, Comma, Open, LeftBracket, RightBracket, Close, Dot, Star}
  /\ Dot \notin {Hash, Comma, Open, LeftBracket, RightBracket, Close, Minus, Star}
  BY DEF Hash, Open, Close, LeftBracket, RightBracket, Comma, Minus, Dot, Star

(* No mark is a name, a number or a register. *)
LEMMA MarksAreNoWords ==
  ASSUME NEW x \in Marks
  PROVE  /\ x \in Tokens
         /\ x \notin Identifiers /\ x \notin DOMAIN Decimal /\ x \notin DOMAIN Hexadecimal
         /\ x \notin RegisterLike /\ x \notin DOMAIN AnToken /\ x \notin DOMAIN DnToken
<1>1. x \in Punctuation
  BY DEF Marks, Punctuation, Hash, Open, Close, LeftBracket, RightBracket, Comma, Minus, Dot, Star
<1>2. x \in Tokens
  BY <1>1 DEF Tokens
<1>3. /\ RegisterLike \subseteq Identifiers /\ DOMAIN AnToken \subseteq Identifiers
      /\ DOMAIN DnToken \subseteq Identifiers
  BY DEF Identifiers
<1> QED
  BY <1>1, <1>2, <1>3, TokensAssumption

(* A name is no number, a label no register, and the PC is neither. *)
LEMMA WordsAreApart ==
  /\ \A x \in Identifiers :
       x \notin DOMAIN Decimal /\ x \notin DOMAIN Hexadecimal /\ x \notin Marks
  /\ \A x \in DOMAIN Decimal :
       x \notin DOMAIN Hexadecimal /\ x \notin Marks
  /\ \A x \in DOMAIN Hexadecimal \cup DOMAIN Decimal :
       x \notin Identifiers /\ x \notin Marks
  /\ \A x \in Labels :
       x \in Identifiers /\ x \notin RegisterLike \cup DOMAIN AnToken \cup DOMAIN DnToken
  /\ \A x \in DOMAIN AnToken :
       x \in Identifiers /\ x # ThePC /\ x \notin RegisterLike \cup DOMAIN DnToken
  /\ \A x \in DOMAIN DnToken :
       x \in Identifiers /\ x \notin RegisterLike \cup DOMAIN AnToken
  /\ ThePC \in Identifiers
<1>1. \A x \in Marks : x \notin Identifiers /\ x \notin DOMAIN Decimal /\ x \notin DOMAIN Hexadecimal
  BY MarksAreNoWords
<1>2. ThePC \in Identifiers /\ ThePC \notin DOMAIN AnToken
  BY TokensAssumption DEF Identifiers, ThePC
<1>3. /\ DOMAIN AnToken \subseteq Identifiers /\ DOMAIN DnToken \subseteq Identifiers
      /\ Labels \subseteq Identifiers
  BY DEF Identifiers
<1> QED
  BY <1>1, <1>2, <1>3, TokensAssumption

(* Where a token stands, it is there or it is not. *)
LEMMA IsThere ==
  ASSUME NEW t \in Seq(Tokens), NEW p \in Int, NEW X
  PROVE  /\ p \in 1 .. Len(t) => (Is(t, p, X) <=> t[p] \in X)
         /\ p \notin 1 .. Len(t) /\ p >= 0 => ~ Is(t, p, X)
<1>1. Len(t) \in Nat
  BY LenProperties
<1> QED
  BY <1>1 DEF Is

(* A part of a text ends where or after it begins. *)
LEMMA SpelledPlaces ==
  ASSUME NEW t \in Seq(Tokens), NEW p, NEW q, NEW X, Spells(t, p, q, X)
  PROVE  p \in Nat /\ q \in Nat /\ 1 <= p /\ p <= q /\ q <= Len(t) + 1 /\ Len(t) \in Nat
<1>1. Len(t) \in Nat
  BY LenProperties
<1> QED
  BY <1>1 DEF Spells

(* Two parts side by side: the first ends somewhere. *)
LEMMA SpelledParts ==
  ASSUME NEW t \in Seq(Tokens), NEW p, NEW r, NEW A, NEW B, Spells(t, p, r, A ** B),
         InTokens(A), InTokens(B)
  PROVE  \E q : Spells(t, p, q, A) /\ Spells(t, q, r, B)
<1>1. \A a \in A \cup B : a \in Seq(Tokens)
  BY DEF InTokens
<1> QED
  BY <1>1, SpellsParts

(* A part of one of two kinds. *)
LEMMA SpelledEither ==
  ASSUME NEW t, NEW p, NEW q, NEW A, NEW B, Spells(t, p, q, A \cup B)
  PROVE  Spells(t, p, q, A) \/ Spells(t, p, q, B)
  BY DEF Spells

(* A part without tokens. *)
LEMMA SpelledNothing ==
  ASSUME NEW t \in Seq(Tokens), NEW p, NEW q, Spells(t, p, q, NoText)
  PROVE  q = p
<1>1. Len(t) \in Nat
  BY LenProperties
<1>2. p \in 1 .. Len(t) + 1 /\ q \in p .. Len(t) + 1 /\ SubSeq(t, p, q - 1) = <<>>
  BY DEF Spells, NoText
<1>3. \A i \in p .. q - 1 : t[i] \in Tokens
  <2> SUFFICES ASSUME NEW i \in p .. q - 1 PROVE t[i] \in Tokens
    OBVIOUS
  <2>1. i \in 1 .. Len(t)
    BY <1>1, <1>2
  <2> QED
    BY <2>1, ElementOfSeq
<1>4. p \in Int /\ q - 1 \in Int
  BY <1>1, <1>2
<1>5. Len(SubSeq(t, p, q - 1)) = IF p <= q - 1 THEN (q - 1) - p + 1 ELSE 0
  BY <1>3, <1>4, SubSeqProperties
<1>6. Len(<<>>) = 0
  OBVIOUS
<1> QED
  BY <1>1, <1>2, <1>5, <1>6

(* A part of two tokens. *)
LEMMA SpelledPair ==
  ASSUME NEW t \in Seq(Tokens), NEW p, NEW q, NEW x \in Tokens, NEW y \in Tokens,
         Spells(t, p, q, {<<x, y>>})
  PROVE  /\ q = p + 2 /\ p \in 1 .. Len(t) /\ p + 1 \in 1 .. Len(t) /\ t[p] = x /\ t[p + 1] = y
<1>1. {<<x, y>>} \subseteq Text(x) ** Text(y)
  <2>1. <<x>> \in Text(x) /\ <<y>> \in Text(y)
    BY DEF Text
  <2>2. <<x, y>> = <<x>> \o <<y>>
    BY TwoTokens
  <2>3. <<x, y>> \in Text(x) ** Text(y)
    BY <2>1, <2>2, Joined
  <2> QED
    BY <2>3
<1>2. Spells(t, p, q, Text(x) ** Text(y))
  BY <1>1, SpellsMore
<1>3. PICK r : Spells(t, p, r, Text(x)) /\ Spells(t, r, q, Text(y))
  BY <1>2, TextInTokens, SpelledParts
<1>4. r = p + 1 /\ p \in 1 .. Len(t) /\ t[p] = x
  BY <1>3, SpelledToken
<1>5. q = r + 1 /\ r \in 1 .. Len(t) /\ t[r] = y
  BY <1>3, SpelledToken
<1>6. p \in Nat
  BY <1>3, SpelledPlaces
<1> QED
  BY <1>4, <1>5, <1>6

(* A part of one token that has a value. *)
LEMMA SpelledNamed ==
  ASSUME NEW t \in Seq(Tokens), NEW p, NEW q, NEW tokens, NEW n, Spells(t, p, q, Named(tokens, n))
  PROVE  /\ q = p + 1 /\ p \in 1 .. Len(t) /\ t[p] \in DOMAIN tokens /\ tokens[t[p]] = n
         /\ Is(t, p, DOMAIN tokens) /\ p \in Nat
<1>1. SubSeq(t, p, q - 1) \in Named(tokens, n)
  BY DEF Spells
<1>2. PICK x \in {y \in DOMAIN tokens : tokens[y] = n} : SubSeq(t, p, q - 1) = <<x>>
  BY <1>1 DEF Named
<1>3. Spells(t, p, q, Text(x))
  BY <1>2 DEF Spells, Text
<1>4. q = p + 1 /\ p \in 1 .. Len(t) /\ t[p] = x
  BY <1>3, SpelledToken
<1>5. p \in Nat
  BY <1>3, SpelledPlaces
<1> QED
  BY <1>2, <1>4, <1>5, IsThere

-----------------------------------------------------------------------------
(* What follows a displacement or an index where it ends. *)
Stops(t, q) == q \in 1 .. Len(t) /\ t[q] \in {Open, Close, RightBracket, Comma}

(* No size, no factor and no minus begins there. *)
LEMMA NothingAtStop ==
  ASSUME NEW t \in Seq(Tokens), NEW q, Stops(t, q)
  PROVE  ~ Is(t, q, {Dot}) /\ ~ Is(t, q, {Star}) /\ ~ Is(t, q, {Minus})
<1>1. t[q] \notin {Dot, Star, Minus} /\ q \in 1 .. Len(t)
  BY MarksAreApart DEF Stops
<1> QED
  BY <1>1 DEF Is

(* No number stands where neither its digits nor a minus before them do, ... *)
LEMMA NoNumber ==
  ASSUME NEW t, NEW p, ~ Is(t, p, DOMAIN Hexadecimal), ~ Is(t, p, DOMAIN Decimal),
         ~ (Is(t, p, {Minus}) /\ Is(t, p + 1, DOMAIN Decimal))
  PROVE  Number(t, p).at = 0
<1>1. HexNumber(t, p).at = 0 /\ PositiveDec(t, p).at = 0
  BY Terminals, Failed
<1> DEFINE r == Past(t, p, Minus)
<1>2. ~ Is(t, r, DOMAIN Decimal)
  BY DEF Past, Is
<1>3. PositiveDec(t, r) = Match(0, DatumOp(ZeroLong, NoLabel, Clear))
  BY <1>2, Terminals, Failed, NothingMade
<1>4. NegativeDec(t, p).at = 0
  BY <1>3, DatumNoted, MatchIs DEF NegativeDec, Minus
<1> QED
  BY <1>1, <1>4, ChoiceMade DEF Number

(* ... and no name or displacement where no name does. *)
LEMMA NoDatum ==
  ASSUME NEW t \in Seq(Tokens), NEW p \in Nat, Number(t, p).at = 0, ~ Is(t, p, Identifiers)
  PROVE  AbsoluteValue(t, p) = Fail /\ Displacement(t, p) = Fail
<1>1. Identifier(t, p) = Fail /\ Fail.at = 0
  BY Terminals, Failed
<1>2. AbsoluteValue(t, p) = Fail
  BY <1>1, ChoiceMade DEF AbsoluteValue
<1> DEFINE dash == Then(t, Fail, "-")
<1>3. ~ Is(t, Fail.at, {"-"}) /\ ~ Is(t, Fail.at, {"."})
  BY <1>1 DEF Is
<1>4. dash = Fail /\ Then(t, dash, ".") = Fail
  BY <1>3 DEF Then
<1>5. PCRelativeLabel(t, p) = PcRelative(Match(0, DatumOp(ZeroLong, NoLabel, Clear)))
  BY <1>1, <1>4, Failed, NothingMade DEF PCRelativeLabel
<1>6. PCRelativeLabel(t, p).at = 0
  BY <1>5, DatumNoted, MatchIs
<1> QED
  BY <1>1, <1>2, <1>6, ChoiceMade DEF Displacement

(* Before the text begins, at a mark, and after its end there is no datum. *)
LEMMA NoDatumAtMark ==
  ASSUME NEW t \in Seq(Tokens), NEW p \in Nat,
         p = 0 \/ p = Len(t) + 1 \/ (p \in 1 .. Len(t) /\ t[p] \in Marks),
         Is(t, p, {Minus}) => ~ Is(t, p + 1, DOMAIN Decimal)
  PROVE  AbsoluteValue(t, p) = Fail /\ Displacement(t, p) = Fail /\ Number(t, p).at = 0
<1>1. CASE p \in 1 .. Len(t) /\ t[p] \in Marks
  <2>1. ~ Is(t, p, DOMAIN Hexadecimal) /\ ~ Is(t, p, DOMAIN Decimal) /\ ~ Is(t, p, Identifiers)
    BY <1>1, IsThere, MarksAreNoWords
  <2> QED
    BY <2>1, NoNumber, NoDatum
<1>2. CASE p = 0 \/ p = Len(t) + 1
  <2>1. Len(t) \in Nat
    BY LenProperties
  <2>2. \A X : ~ Is(t, p, X)
    BY <1>2, <2>1 DEF Is
  <2> QED
    BY <2>2, NoNumber, NoDatum
<1> QED
  BY <1>1, <1>2

(* The first token of a number and that of a datum, and the name in a datum. *)
NumberTokens == DOMAIN Hexadecimal \cup DOMAIN Decimal \cup {Minus}
DatumTokens == NumberTokens \cup Labels
OptionalLabel == Labels \cup {NoLabel}

(* A number is read as its value. *)
LEMMA NumberReads ==
  ASSUME NEW t \in Seq(Tokens), NEW p, NEW q, NEW v \in Long, Spells(t, p, q, NumberText(v))
  PROVE  /\ Number(t, p) = Match(q, DatumOp(v, NoLabel, Clear))
         /\ p \in 1 .. Len(t) /\ q \in Nat /\ q # 0
         /\ t[p] \in NumberTokens
         /\ t[p] = Minus => Is(t, p + 1, DOMAIN Decimal)
<1>0. p \in Nat /\ q \in Nat /\ q # 0
  BY SpelledPlaces
<1> DEFINE d == SubLong(ZeroLong, v)
<1>1. d \in Long /\ SubLong(ZeroLong, d) = v
  BY NegatedTwice
<1> HIDE DEF d
<1>2. \/ Spells(t, p, q, Named(Hexadecimal, v)) \/ Spells(t, p, q, Named(Decimal, v))
      \/ Spells(t, p, q, Text(Minus) ** Named(Decimal, d))
  BY DEF Spells, NumberText, Minus, d
<1>3. CASE Spells(t, p, q, Named(Hexadecimal, v))
  <2>1. /\ q = p + 1 /\ p \in 1 .. Len(t) /\ t[p] \in DOMAIN Hexadecimal
        /\ Hexadecimal[t[p]] = v /\ Is(t, p, DOMAIN Hexadecimal)
    BY <1>3, SpelledNamed
  <2>2. HexNumber(t, p) = Match(q, DatumOp(v, NoLabel, Clear))
    BY <2>1, Terminals
  <2>3. Number(t, p) = Match(q, DatumOp(v, NoLabel, Clear))
    BY <1>0, <2>2, MatchIs, ChoiceMade DEF Number
  <2>4. t[p] # Minus
    BY <2>1, WordsAreApart DEF Marks
  <2> QED
    BY <1>0, <2>1, <2>3, <2>4 DEF NumberTokens
<1>4. CASE Spells(t, p, q, Named(Decimal, v))
  <2>1. /\ q = p + 1 /\ p \in 1 .. Len(t) /\ t[p] \in DOMAIN Decimal
        /\ Decimal[t[p]] = v /\ Is(t, p, DOMAIN Decimal)
    BY <1>4, SpelledNamed
  <2>2. PositiveDec(t, p) = Match(q, DatumOp(v, NoLabel, Clear))
    BY <2>1, Terminals
  <2>3. t[p] # Minus /\ t[p] \notin DOMAIN Hexadecimal
    BY <2>1, WordsAreApart DEF Marks
  <2>4. HexNumber(t, p).at = 0
    BY <1>0, <2>1, <2>3, IsThere, Terminals, Failed
  <2> DEFINE r == Past(t, p, Minus)
  <2>5. r = 0
    BY <1>0, <2>1, <2>3, IsThere DEF Past
  <2>6. PositiveDec(t, r) = Match(0, DatumOp(ZeroLong, NoLabel, Clear))
    <3>1. ~ Is(t, r, DOMAIN Decimal)
      BY <2>5 DEF Is
    <3> QED
      BY <3>1, Terminals, Failed, NothingMade
  <2>7. NegativeDec(t, p).at = 0
    BY <2>6, DatumNoted, MatchIs DEF NegativeDec, Minus
  <2>8. Number(t, p) = Match(q, DatumOp(v, NoLabel, Clear))
    BY <2>2, <2>4, <2>7, ChoiceMade DEF Number
  <2> QED
    BY <1>0, <2>1, <2>3, <2>8 DEF NumberTokens
<1>5. CASE Spells(t, p, q, Text(Minus) ** Named(Decimal, d))
  <2>1. Minus \in Tokens /\ Minus \notin DOMAIN Hexadecimal
    BY MarksAreNoWords DEF Marks
  <2>2. InTokens(Text(Minus)) /\ InTokens(Named(Decimal, d))
    BY <2>1, TextInTokens, NamedInTokens DEF Tokens
  <2>3. PICK r : Spells(t, p, r, Text(Minus)) /\ Spells(t, r, q, Named(Decimal, d))
    BY <1>5, <2>2, SpelledParts
  <2>4. r = p + 1 /\ p \in 1 .. Len(t) /\ t[p] = Minus
    BY <2>3, SpelledToken
  <2>5. q = r + 1 /\ Is(t, r, DOMAIN Decimal) /\ Decimal[t[r]] = d
    BY <2>3, SpelledNamed
  <2>6. Past(t, p, Minus) = r
    BY <1>0, <2>4, IsThere DEF Past
  <2>7. PositiveDec(t, r) = Match(q, DatumOp(d, NoLabel, Clear))
    BY <2>5, Terminals
  <2>8. NegativeDec(t, p) = Match(q, DatumOp(v, NoLabel, Clear))
    BY <1>1, <2>6, <2>7, DatumNoted DEF NegativeDec, Minus
  <2>9. HexNumber(t, p).at = 0
    BY <1>0, <2>1, <2>4, IsThere, Terminals, Failed
  <2>10. Number(t, p) = Match(q, DatumOp(v, NoLabel, Clear))
    BY <1>0, <2>8, <2>9, MatchIs, ChoiceMade DEF Number
  <2> QED
    BY <1>0, <2>4, <2>5, <2>10 DEF NumberTokens
<1> QED
  BY <1>2, <1>3, <1>4, <1>5

(* A name is read as itself. *)
LEMMA NameReads ==
  ASSUME NEW t \in Seq(Tokens), NEW p, NEW q, NEW label \in Labels, Spells(t, p, q, Text(label))
  PROVE  /\ Number(t, p).at = 0 /\ Identifier(t, p) = Match(q, DatumOp(ZeroLong, label, Clear))
         /\ p \in 1 .. Len(t) /\ q \in Nat /\ q # 0 /\ t[p] = label
<1>1. q = p + 1 /\ p \in 1 .. Len(t) /\ t[p] = label
  BY SpelledToken
<1>2. p \in Nat /\ q \in Nat /\ q # 0
  BY SpelledPlaces
<1>3. label \in Identifiers /\ label \notin DOMAIN Hexadecimal \cup DOMAIN Decimal /\ label \notin Marks
  BY WordsAreApart
<1>4. /\ ~ Is(t, p, DOMAIN Hexadecimal) /\ ~ Is(t, p, DOMAIN Decimal) /\ ~ Is(t, p, {Minus})
      /\ Is(t, p, Identifiers)
  BY <1>1, <1>2, <1>3, IsThere DEF Marks
<1>5. Number(t, p).at = 0
  BY <1>4, NoNumber
<1> QED
  BY <1>1, <1>2, <1>4, <1>5, Terminals

(* A datum is read as its value or its name, ... *)
LEMMA DatumReads ==
  ASSUME NEW t \in Seq(Tokens), NEW p, NEW q, NEW v \in Long, NEW label \in OptionalLabel,
         label # NoLabel => v = ZeroLong, Spells(t, p, q, DatumOf(v, label))
  PROVE  /\ AbsoluteValue(t, p) = Match(q, DatumOp(v, label, Clear))
         /\ p \in 1 .. Len(t) /\ q \in Nat /\ q # 0
         /\ t[p] \in DatumTokens
         /\ t[p] = Minus => Is(t, p + 1, DOMAIN Decimal)
<1>1. CASE label = NoLabel
  <2>1. /\ Number(t, p) = Match(q, DatumOp(v, NoLabel, Clear))
        /\ p \in 1 .. Len(t) /\ q \in Nat /\ q # 0
        /\ t[p] \in NumberTokens
        /\ t[p] = Minus => Is(t, p + 1, DOMAIN Decimal)
    BY <1>1, NumberReads DEF DatumOf
  <2>2. AbsoluteValue(t, p) = Match(q, DatumOp(v, label, Clear))
    BY <1>1, <2>1, MatchIs, ChoiceMade DEF AbsoluteValue
  <2> QED
    BY <2>1, <2>2 DEF DatumTokens
<1>2. CASE label # NoLabel
  <2>1. label \in Labels /\ Spells(t, p, q, Text(label))
    BY <1>2 DEF DatumOf, OptionalLabel
  <2>2. /\ Number(t, p).at = 0 /\ Identifier(t, p) = Match(q, DatumOp(ZeroLong, label, Clear))
        /\ p \in 1 .. Len(t) /\ q \in Nat /\ q # 0 /\ t[p] = label
    BY <2>1, NameReads
  <2>3. label # Minus
    BY <2>1, WordsAreApart DEF Marks
  <2>4. AbsoluteValue(t, p) = Match(q, DatumOp(v, label, Clear))
    BY <1>2, <2>2, ChoiceMade DEF AbsoluteValue
  <2> QED
    BY <2>1, <2>2, <2>3, <2>4 DEF DatumTokens
<1> QED
  BY <1>1, <1>2

(* ... and so is a displacement that no minus follows. *)
LEMMA DisplacementReads ==
  ASSUME NEW t \in Seq(Tokens), NEW p, NEW q, NEW v \in Long, NEW label \in OptionalLabel,
         label # NoLabel => v = ZeroLong, Spells(t, p, q, DatumOf(v, label)), Stops(t, q)
  PROVE  Displacement(t, p) = Match(q, DatumOp(v, label, Clear))
<1>1. CASE label = NoLabel
  <2>1. Number(t, p) = Match(q, DatumOp(v, NoLabel, Clear)) /\ q # 0
    BY <1>1, NumberReads DEF DatumOf
  <2> QED
    BY <1>1, <2>1, MatchIs, ChoiceMade DEF Displacement
<1>2. CASE label # NoLabel
  <2>1. label \in Labels /\ Spells(t, p, q, Text(label))
    BY <1>2 DEF DatumOf, OptionalLabel
  <2>2. Number(t, p).at = 0 /\ Identifier(t, p) = Match(q, DatumOp(ZeroLong, label, Clear))
    BY <2>1, NameReads
  <2> DEFINE name == Match(q, DatumOp(ZeroLong, label, Clear))
             dash == Then(t, name, Minus)
  <2>3. dash = Fail
    BY NothingAtStop, ThenMade
  <2>4. Then(t, Fail, Dot) = Fail
    BY Failed DEF Then, Is
  <2>5. PCRelativeLabel(t, p) = PcRelative(Match(0, DatumOp(ZeroLong, NoLabel, Clear)))
    <3>1. PCRelativeLabel(t, p) = PcRelative(Then(t, dash, Dot))
      BY <2>2 DEF PCRelativeLabel, Minus, Dot
    <3> HIDE DEF dash
    <3> QED
      BY <2>3, <2>4, <3>1, Failed, NothingMade
  <2>6. PCRelativeLabel(t, p).at = 0
    BY <2>5, DatumNoted, MatchIs
  <2> QED
    BY <1>2, <2>2, <2>6, ChoiceMade DEF Displacement
<1> QED
  BY <1>1, <1>2

-----------------------------------------------------------------------------
(* A base register is read as its number, ... *)
LEMMA BaseReads ==
  ASSUME NEW t \in Seq(Tokens), NEW p, NEW q, NEW n, Spells(t, p, q, BaseOf(n))
  PROVE  BaseRegister(t, p) = Match(q, RegisterOp(n)) /\ q = p + 1 /\ p \in 1 .. Len(t) /\ q # 0
<1>0. p \in Nat /\ q \in Nat /\ q # 0
  BY SpelledPlaces
<1>1. CASE n = Null
  <2>1. Spells(t, p, q, Text(ThePC))
    BY <1>1 DEF BaseOf, ThePC
  <2>2. q = p + 1 /\ p \in 1 .. Len(t) /\ t[p] = ThePC
    BY <2>1, SpelledToken
  <2>3. ThePC \notin DOMAIN AnToken
    BY WordsAreApart
  <2>4. ~ Is(t, p, DOMAIN AnToken) /\ Past(t, p, ThePC) = q
    BY <1>0, <2>2, <2>3, IsThere DEF Past
  <2>5. AnRegSpecifier(t, p).at = 0
    BY <2>4, Terminals, Failed
  <2>6. BaseRegister(t, p) = Match(q, RegisterOp(Null))
    BY <2>4, <2>5, Terminals, ChoiceMade DEF BaseRegister, ThePC
  <2> QED
    BY <1>0, <1>1, <2>2, <2>6
<1>2. CASE n # Null
  <2>1. Spells(t, p, q, Named(AnToken, n))
    BY <1>2 DEF BaseOf
  <2>2. q = p + 1 /\ p \in 1 .. Len(t) /\ AnToken[t[p]] = n /\ Is(t, p, DOMAIN AnToken)
    BY <2>1, SpelledNamed
  <2>3. AnRegSpecifier(t, p) = Match(q, RegisterOp(n))
    BY <2>2, Terminals
  <2> QED
    BY <1>0, <2>2, <2>3, MatchIs, ChoiceMade DEF BaseRegister
<1> QED
  BY <1>1, <1>2

(* ... and so it is after a displacement and a separator. *)
LEMMA BaseAfterReads ==
  ASSUME NEW t \in Seq(Tokens), NEW p, NEW r, NEW q, NEW sep, NEW n, NEW v, NEW label, NEW pc,
         label # NoLabel => v = ZeroLong,
         Spells(t, p, r, Text(sep)), Spells(t, r, q, BaseOf(n))
  PROVE  Base(t, Match(p, DatumOp(v, label, pc)), sep)
           = Match(q, AddressOp("UNKNOWN_MODE", n, label, v, Clear, Null, NoLabel, 0, ZeroLong))
<1> DEFINE disp == Match(p, DatumOp(v, label, pc))
<1>1. disp.at = p /\ disp.op = DatumOp(v, label, pc)
  BY MatchIs
<1>2. r = p + 1 /\ p \in 1 .. Len(t) /\ t[p] = sep /\ p \in Nat
  BY SpelledToken, SpelledPlaces
<1>3. Past(t, p, sep) = r
  BY <1>2, IsThere DEF Past
<1>4. BaseRegister(t, r) = Match(q, RegisterOp(n))
  BY BaseReads
<1>5. Base(t, disp, sep) = Match(q, WithDisplacement(RegisterOp(n), DatumOp(v, label, pc)))
  BY <1>1, <1>3, <1>4, MatchIs DEF Base, Displaced
<1> QED
  BY <1>5, AddressMade

(* The languages of an index are made of tokens. *)
LEMMA IndexInTokens ==
  ASSUME NEW an, NEW x, NEW size \in Sizes, NEW scale
  PROVE  /\ InTokens(Named(IF an = Raised THEN AnToken ELSE DnToken, x))
         /\ InTokens(SizeOf(size)) /\ InTokens(ScaleOf(scale))
<1>1. InTokens(Named(AnToken, x)) /\ InTokens(Named(DnToken, x))
  <2>1. DOMAIN AnToken \subseteq Tokens /\ DOMAIN DnToken \subseteq Tokens
    BY DEF Tokens, Identifiers
  <2> QED
    BY <2>1, NamedInTokens
<1>2. InTokens(Named(IF an = Raised THEN AnToken ELSE DnToken, x))
  BY <1>1
<1>3. Dot \in Tokens /\ Star \in Tokens /\ size \in Tokens
  BY MarksAreNoWords DEF Marks, Tokens, Identifiers
<1>4. InTokens({<<Dot, size>>})
  BY <1>3, PairInTokens
<1>5. SizeOf(size) = {<<Dot, size>>} \cup NoText \/ SizeOf(size) = {<<Dot, size>>} \cup {}
  BY DEF SizeOf, Dot
<1>6. InTokens(SizeOf(size))
  BY <1>4, <1>5, NoTextInTokens, JoinedInTokens
<1> DEFINE factors == {<<Star, s>> : s \in {y \in DOMAIN ScaleToken : ScaleToken[y] = scale}}
<1>7. InTokens(factors)
  <2>1. DOMAIN ScaleToken \subseteq Tokens
    BY DEF Tokens
  <2>2. \A s \in DOMAIN ScaleToken : <<Star, s>> \in Seq(Tokens)
    BY <1>3, <2>1
  <2> QED
    BY <2>2 DEF InTokens
<1>8. ScaleOf(scale) = factors \cup NoText \/ ScaleOf(scale) = factors \cup {}
  BY DEF ScaleOf, Star
<1> HIDE DEF factors
<1>9. InTokens(ScaleOf(scale))
  BY <1>7, <1>8, NoTextInTokens, JoinedInTokens
<1> QED
  BY <1>2, <1>6, <1>9

(* An index is read as its register, size and factor, where neither the mark  *)
(* of a size nor that of a factor follows.                                    *)
LEMMA IndexReads ==
  ASSUME NEW t \in Seq(Tokens), NEW p, NEW q, NEW an, NEW x, NEW size \in Sizes,
         NEW scale, Spells(t, p, q, IndexOf(an, x, size, scale)), an = Raised \/ an = Clear,
         Stops(t, q)
  PROVE  IndexRegister(t, p) = Match(q, IndexOp(an, x, size, scale))
<1> DEFINE reg == IndexRegSpecifier(t, p)
           sized == IndexSize(t, reg)
           scaled == IndexScale(t, sized)
           name == Named(IF an = Raised THEN AnToken ELSE DnToken, x)
<1>1. /\ InTokens(name) /\ InTokens(SizeOf(size)) /\ InTokens(ScaleOf(scale))
      /\ InTokens(name ** SizeOf(size))
  BY IndexInTokens, JoinedInTokens
<1> HIDE DEF name
<1>2. Spells(t, p, q, name ** SizeOf(size) ** ScaleOf(scale))
  BY DEF IndexOf, name
<1>3. PICK u : Spells(t, p, u, name ** SizeOf(size)) /\ Spells(t, u, q, ScaleOf(scale))
  BY <1>1, <1>2, SpelledParts
<1>4. PICK r : Spells(t, p, r, name) /\ Spells(t, r, u, SizeOf(size))
  BY <1>1, <1>3, SpelledParts
<1>5. p \in Nat /\ r \in Nat /\ u \in Nat /\ q \in Nat /\ r # 0
  BY <1>3, <1>4, SpelledPlaces
<1>6. reg = Match(r, IndexOp(an, x, NoLabel, 0))
  <2>1. CASE an = Raised
    <3>1. Spells(t, p, r, Named(AnToken, x))
      BY <1>4, <2>1 DEF name
    <3>2. r = p + 1 /\ Is(t, p, DOMAIN AnToken) /\ AnToken[t[p]] = x
      BY <3>1, SpelledNamed
    <3>3. AnRegSpecifier(t, p) = Match(r, RegisterOp(x))
      BY <3>2, Terminals
    <3>4. OfAn(AnRegSpecifier(t, p)) = Match(r, IndexOp(Raised, x, NoLabel, 0))
      BY <3>3, RegisterNoted
    <3> QED
      BY <1>5, <2>1, <3>4, MatchIs, ChoiceMade DEF IndexRegSpecifier
  <2>2. CASE an # Raised
    <3>1. Spells(t, p, r, Named(DnToken, x)) /\ an = Clear
      BY <1>4, <2>2 DEF name, Raised, Clear
    <3>2. r = p + 1 /\ p \in 1 .. Len(t) /\ Is(t, p, DOMAIN DnToken) /\ DnToken[t[p]] = x /\ t[p] \in DOMAIN DnToken
      BY <3>1, SpelledNamed
    <3>3. DnRegSpecifier(t, p) = Match(r, RegisterOp(x))
      BY <3>2, Terminals
    <3>4. ~ Is(t, p, DOMAIN AnToken)
      BY <1>5, <3>2, IsThere, WordsAreApart
    <3>5. AnRegSpecifier(t, p) = Match(0, RegisterOp(Null))
      BY <3>4, Terminals, Failed, NothingMade
    <3>6. OfAn(AnRegSpecifier(t, p)) = Match(0, IndexOp(Raised, Null, NoLabel, 0))
      BY <3>5, RegisterNoted
    <3> QED
      BY <3>1, <3>3, <3>6, MatchIs, ChoiceMade, RegisterNoted DEF IndexRegSpecifier
  <2> QED
    BY <2>1, <2>2
<1>7. reg.at = r
  BY <1>6, MatchIs
<1> HIDE DEF reg
<1> DEFINE factors == {<<Star, s>> : s \in {y \in DOMAIN ScaleToken : ScaleToken[y] = scale}}
<1>8. \/ Spells(t, u, q, factors)
      \/ scale = 0 /\ Spells(t, u, q, NoText)
  BY <1>3 DEF ScaleOf, Spells, Star
<1>9. \/ scale = 0 /\ u = q
      \/ \E s \in DOMAIN ScaleToken :
           /\ ScaleToken[s] = scale /\ q = u + 2 /\ u \in 1 .. Len(t) /\ u + 1 \in 1 .. Len(t)
           /\ t[u] = Star /\ t[u + 1] = s
  <2>1. CASE scale = 0 /\ Spells(t, u, q, NoText)
    BY <2>1, SpelledNothing
  <2>2. CASE Spells(t, u, q, factors)
    <3>1. SubSeq(t, u, q - 1) \in factors /\ u \in 1 .. Len(t) + 1 /\ q \in u .. Len(t) + 1
      BY <2>2 DEF Spells
    <3>2. PICK s \in {y \in DOMAIN ScaleToken : ScaleToken[y] = scale} : SubSeq(t, u, q - 1) = <<Star, s>>
      BY <3>1
    <3>3. Spells(t, u, q, {<<Star, s>>})
      BY <3>1, <3>2 DEF Spells
    <3>4. Star \in Tokens /\ s \in Tokens
      BY MarksAreNoWords DEF Marks, Tokens
    <3>5. q = u + 2 /\ u \in 1 .. Len(t) /\ u + 1 \in 1 .. Len(t) /\ t[u] = Star /\ t[u + 1] = s
      BY <3>3, <3>4, SpelledPair
    <3> QED
      BY <3>2, <3>5
  <2> QED
    BY <1>8, <2>1, <2>2
<1> HIDE DEF factors
<1> DEFINE word == "W"
<1>10. \/ Spells(t, r, u, {<<Dot, size>>})
       \/ size = word /\ Spells(t, r, u, NoText)
  BY <1>4 DEF SizeOf, Spells, Dot
<1>11. sized = Match(u, IndexOp(an, x, size, 0))
  <2>1. CASE Spells(t, r, u, {<<Dot, size>>})
    <3>1. Dot \in Tokens /\ size \in Tokens
      BY MarksAreNoWords DEF Marks, Tokens, Identifiers
    <3>2. u = r + 2 /\ r \in 1 .. Len(t) /\ r + 1 \in 1 .. Len(t) /\ t[r] = Dot /\ t[r + 1] = size
      BY <2>1, <3>1, SpelledPair
    <3>3. Is(t, r, {Dot}) /\ Is(t, r + 1, Sizes)
      BY <1>5, <3>2, IsThere
    <3>4. HasSize(t, r)
      BY <3>3 DEF HasSize, Dot
    <3>5. sized = SizedTo(reg, u, size)
      BY <1>7, <3>2, <3>4 DEF IndexSize, SizedTo
    <3> HIDE DEF sized
    <3> QED
      BY <1>6, <3>5, SizeNoted
  <2>2. CASE size = word /\ Spells(t, r, u, NoText)
    <3>1. u = r
      BY <2>2, SpelledNothing
    <3>2. ~ Is(t, r, {Dot})
      <4>1. CASE u = q
        BY <3>1, <4>1, NothingAtStop
      <4>2. CASE u \in 1 .. Len(t) /\ t[u] = Star
        BY <1>5, <3>1, <4>2, IsThere, MarksAreApart
      <4> QED
        BY <1>9, <4>1, <4>2
    <3>3. ~ HasSize(t, r)
      BY <3>2 DEF HasSize, Dot
    <3>4. sized = Sized(reg, word)
      BY <1>7, <3>3 DEF IndexSize, Sized
    <3> HIDE DEF sized, word
    <3> QED
      BY <1>6, <2>2, <3>1, <3>4, WordNoted
  <2> QED
    BY <1>10, <2>1, <2>2
<1>12. sized.at = u
  BY <1>11, MatchIs
<1> HIDE DEF sized, word
<1>13. scaled = Match(q, IndexOp(an, x, size, scale))
  <2>1. CASE scale = 0 /\ u = q
    <3>1. ~ HasScale(t, u)
      BY <2>1, NothingAtStop DEF HasScale, Star
    <3> QED
      BY <1>11, <1>12, <2>1, <3>1 DEF IndexScale
  <2>2. CASE \E s \in DOMAIN ScaleToken :
               /\ ScaleToken[s] = scale /\ q = u + 2 /\ u \in 1 .. Len(t) /\ u + 1 \in 1 .. Len(t)
               /\ t[u] = Star /\ t[u + 1] = s
    <3>1. PICK s \in DOMAIN ScaleToken :
               /\ ScaleToken[s] = scale /\ q = u + 2 /\ u \in 1 .. Len(t) /\ u + 1 \in 1 .. Len(t)
               /\ t[u] = Star /\ t[u + 1] = s
      BY <2>2
    <3>2. Is(t, u, {Star}) /\ Is(t, u + 1, DOMAIN ScaleToken)
      BY <1>5, <3>1, IsThere
    <3>3. HasScale(t, u)
      BY <3>2 DEF HasScale, Star
    <3>4. scaled = ScaledTo(sized, q, scale)
      BY <1>12, <3>1, <3>3 DEF IndexScale, ScaledTo
    <3> HIDE DEF scaled
    <3> QED
      BY <1>11, <3>4, SizeNoted
  <2> QED
    BY <1>9, <2>1, <2>2
<1> QED
  BY <1>13 DEF IndexRegister, scaled, sized, reg

(* ... after a comma. *)
LEMMA IndexAfterReads ==
  ASSUME NEW t \in Seq(Tokens), NEW p, NEW r, NEW q, NEW mode, NEW n, NEW label, NEW bd,
         NEW an, NEW x, NEW size \in Sizes, NEW scale, NEW od, an = Raised \/ an = Clear,
         Spells(t, p, r, Text(Comma)), Spells(t, r, q, IndexOf(an, x, size, scale)),
         Stops(t, q)
  PROVE  Index(t, Match(p, AddressOp(mode, n, label, bd, Clear, Null, NoLabel, 0, od)))
           = Match(q, AddressOp(mode, n, label, bd, an, x, size, scale, od))
<1> DEFINE op == AddressOp(mode, n, label, bd, Clear, Null, NoLabel, 0, od)
<1>1. Match(p, op).at = p /\ Match(p, op).op = op
  BY MatchIs
<1>2. r = p + 1 /\ p \in 1 .. Len(t) /\ t[p] = Comma /\ p \in Nat
  BY SpelledToken, SpelledPlaces
<1>3. Past(t, p, Comma) = r
  BY <1>2, IsThere DEF Past
<1>4. IndexRegister(t, r) = Match(q, IndexOp(an, x, size, scale))
  BY IndexReads
<1>5. Index(t, Match(p, op)) = Indexed(Match(p, op), IndexRegister(t, Past(t, Match(p, op).at, Comma)))
  BY DEF Index, Comma
<1>6. Index(t, Match(p, op)) = Match(q, WithIndex(op, IndexOp(an, x, size, scale)))
  BY <1>1, <1>3, <1>4, <1>5, MatchIs DEF Indexed
<1> HIDE DEF op
<1> QED
  BY <1>6, AddressMade DEF op

(* A token after a match is read, ... *)
LEMMA ThenReads ==
  ASSUME NEW t \in Seq(Tokens), NEW p, NEW q, NEW op, NEW token, Spells(t, p, q, Text(token))
  PROVE  Then(t, Match(p, op), token) = Match(q, op)
<1>1. q = p + 1 /\ p \in 1 .. Len(t) /\ t[p] = token /\ p \in Nat
  BY SpelledToken, SpelledPlaces
<1>2. Is(t, p, {token})
  BY <1>1, IsThere
<1> QED
  BY <1>1, <1>2, ThenMade

(* ... and another one is not. *)
LEMMA ThenMisses ==
  ASSUME NEW t \in Seq(Tokens), NEW p, NEW op, NEW token, ~ Is(t, p, {token})
  PROVE  Then(t, Match(p, op), token) = Fail
  BY ThenMade

(* The outer displacement is read with the parenthesis after it. *)
LEMMA OuterReads ==
  ASSUME NEW t \in Seq(Tokens), NEW p, NEW q, NEW mode, NEW n, NEW label, NEW bd, NEW an, NEW x,
         NEW size, NEW scale, NEW od \in Long, Spells(t, p, q, OuterOf(od) ** Text(Close))
  PROVE  OuterEnd(t, Match(p, AddressOp(mode, n, label, bd, an, x, size, scale, ZeroLong)))
           = Match(q, AddressOp(mode, n, label, bd, an, x, size, scale, od))
<1> DEFINE op == AddressOp(mode, n, label, bd, an, x, size, scale, ZeroLong)
           r == Past(t, p, Comma)
           disp == Choice(Displacement(t, r), Nothing(p))
           m == Match(disp.at, WithOuter(op, disp.op))
<1>1. Match(p, op).at = p /\ Match(p, op).op = op
  BY MatchIs
<1>2. OuterEnd(t, Match(p, op)) = Then(t, m, Close)
  BY <1>1 DEF OuterEnd, Outer, Comma, Close
<1>3. Comma \in Tokens /\ Close \in Tokens
  BY MarksAreNoWords DEF Marks
<1>4. InTokens(Text(Comma)) /\ InTokens(NumberText(od)) /\ InTokens(Text(Close)) /\ InTokens(NoText)
  BY <1>3, TextInTokens, NumberInTokens, NoTextInTokens
<1>5. OuterOf(od) = (Text(Comma) ** NumberText(od)) \cup NoText \/ OuterOf(od) = (Text(Comma) ** NumberText(od)) \cup {}
  BY DEF OuterOf, Comma
<1>6. InTokens(OuterOf(od))
  BY <1>4, <1>5, NoTextInTokens, JoinedInTokens
<1>7. PICK u : Spells(t, p, u, OuterOf(od)) /\ Spells(t, u, q, Text(Close))
  BY <1>4, <1>6, SpelledParts
<1>8. /\ q = u + 1 /\ u \in 1 .. Len(t) /\ t[u] = Close
      /\ u \in Nat /\ q \in Nat /\ p \in Nat
  BY <1>7, SpelledToken, SpelledPlaces
<1>9. \/ Spells(t, p, u, Text(Comma) ** NumberText(od))
      \/ od = ZeroLong /\ Spells(t, p, u, NoText)
  BY <1>7 DEF OuterOf, Spells, Comma
<1>10. CASE Spells(t, p, u, Text(Comma) ** NumberText(od))
  <2>1. PICK s : Spells(t, p, s, Text(Comma)) /\ Spells(t, s, u, NumberText(od))
    BY <1>4, <1>10, SpelledParts
  <2>2. s = p + 1 /\ p \in 1 .. Len(t) /\ t[p] = Comma
    BY <2>1, SpelledToken
  <2>3. r = s
    BY <1>8, <2>2, IsThere DEF Past
  <2>4. Number(t, s) = Match(u, DatumOp(od, NoLabel, Clear)) /\ u # 0
    BY <2>1, NumberReads
  <2>5. Displacement(t, r) = Match(u, DatumOp(od, NoLabel, Clear))
    BY <2>3, <2>4, MatchIs, ChoiceMade DEF Displacement
  <2>6. disp = Match(u, DatumOp(od, NoLabel, Clear))
    BY <2>4, <2>5, MatchIs, ChoiceMade
  <2> HIDE DEF disp
  <2>7. m = Match(u, AddressOp(mode, n, label, bd, an, x, size, scale, od))
    BY <2>6, MatchIs, AddressMade
  <2> HIDE DEF m
  <2> QED
    BY <1>2, <1>7, <2>7, ThenReads
<1>11. CASE od = ZeroLong /\ Spells(t, p, u, NoText)
  <2>1. u = p
    BY <1>11, SpelledNothing
  <2>2. r = 0
    BY <1>8, <2>1, IsThere, MarksAreApart DEF Past
  <2>3. Displacement(t, 0) = Fail
    <3>1. ~ Is(t, 0, {Minus})
      BY DEF Is
    <3> QED
      BY <3>1, NoDatumAtMark
  <2>4. disp = Match(p, DatumOp(ZeroLong, NoLabel, Clear))
    BY <2>2, <2>3, Failed, ChoiceMade, Terminals
  <2> HIDE DEF disp
  <2>5. m = Match(u, AddressOp(mode, n, label, bd, an, x, size, scale, od))
    BY <1>11, <2>1, <2>4, MatchIs, AddressMade
  <2> HIDE DEF m
  <2> QED
    BY <1>2, <1>7, <2>5, ThenReads
<1> QED
  BY <1>9, <1>10, <1>11

-----------------------------------------------------------------------------
(* An alternative that fails: no immediate, ... *)
LEMMA NoImmediate ==
  ASSUME NEW t \in Seq(Tokens), ~ Is(t, 1, {Hash})
  PROVE  Operand_Immediate(t, 1).at = 0
<1>1. Past(t, 1, Hash) = 0
  BY DEF Past
<1>2. AbsoluteValue(t, 0) = Fail
  <2>1. ~ Is(t, 0, {Minus})
    BY DEF Is
  <2> QED
    BY <2>1, NoDatumAtMark
<1> DEFINE mode == "IMMEDIATE"
<1>3. Operand_Immediate(t, 1) = Mode(AbsoluteValue(t, Past(t, 1, Hash)), mode)
  BY DEF Operand_Immediate, Hash
<1> HIDE DEF mode
<1> QED
  BY <1>1, <1>2, <1>3, ModeFails

(* ... no register, ... *)
LEMMA NoRegister ==
  ASSUME NEW t \in Seq(Tokens), ~ Is(t, 1, RegisterLike), ~ Is(t, 1, DOMAIN AnToken),
         ~ Is(t, 1, DOMAIN DnToken)
  PROVE  Operand_RegisterDirect(t, 1).at = 0
<1>1. AnRegSpecifier(t, 1) = Fail /\ DnRegSpecifier(t, 1) = Fail
  BY Terminals
<1> DEFINE data == "DATA_REGISTER_DIRECT"
           address == "ADDRESS_REGISTER_DIRECT"
<1>2. Operand_RegisterDirect(t, 1)
        = Choice(Mode(DnRegSpecifier(t, 1), data), Mode(AnRegSpecifier(t, 1), address))
  BY DEF Operand_RegisterDirect
<1> HIDE DEF data, address
<1> QED
  BY <1>1, <1>2, ModeFails, ChoiceMade

(* ... no address, in parentheses or not, ... *)
LEMMA NoAbsolute ==
  ASSUME NEW t \in Seq(Tokens), AbsoluteValue(t, 1) = Fail,
         Then(t, AbsoluteValue(t, Past(t, 1, Open)), Close) = Fail
  PROVE  Operand_Absolute(t, 1).at = 0
<1>1. Absolute_Form(t, 1) = Choice(Then(t, AbsoluteValue(t, Past(t, 1, Open)), Close), AbsoluteValue(t, 1))
  BY DEF Absolute_Form, Open, Close
<1>2. Absolute_Form(t, 1) = Fail
  BY <1>1, ChoiceMade, Failed
<1>3. ~ HasSize(t, Fail.at)
  BY Failed DEF HasSize, Is
<1> DEFINE mode == "ABSOLUTE_SHORT"
<1>4. Operand_Absolute(t, 1) = Mode(Fail, mode)
  BY <1>2, <1>3 DEF Operand_Absolute, AbsoluteSize
<1> HIDE DEF mode
<1> QED
  BY <1>4, ModeFails

(* ... and no rule of the modes with an index, if no part of it is there. *)
LEMMA NoBaseMode ==
  ASSUME NEW mode, NEW pc_mode
  PROVE  BaseMode(Fail, mode, pc_mode).at = 0
<1>1. BaseMode(Fail, mode, pc_mode) = Mode(Fail, IF Fail.op.reg_num = Null THEN pc_mode ELSE mode)
  BY DEF BaseMode
<1> QED
  BY <1>1, ModeFails

(* What follows a rule that failed fails, ... *)
LEMMA NothingAfterFailure ==
  ASSUME NEW t \in Seq(Tokens), NEW m, m.at = 0
  PROVE  /\ \A sep : Base(t, m, sep).at = 0
         /\ Index(t, m).at = 0 /\ OuterEnd(t, m) = Fail
         /\ \A token : Then(t, m, token) = Fail
<1>1. \A token : Then(t, m, token) = Fail
  BY DEF Then, Is
<1> QED
  BY <1>1, BaseFails, IndexFails, OuterFails

(* ... the memory indirect modes without their bracket, ... *)
LEMMA NoMemoryRule ==
  ASSUME NEW t \in Seq(Tokens), ~ Is(t, Past(t, 1, Open), {LeftBracket})
  PROVE  MemIndirect_Post_Rule(t, 1).at = 0 /\ MemIndirect_Pre_Rule(t, 1).at = 0
<1> DEFINE p == Past(t, 1, Open)
           inner == InnerBase(t, p)
<1>1. Past(t, p, LeftBracket) = 0
  BY DEF Past
<1>2. OptionalDisplacement(t, 0).at = 0
  <2>1. ~ Is(t, 0, {Minus})
    BY DEF Is
  <2>2. Displacement(t, 0) = Fail
    BY <2>1, NoDatumAtMark
  <2> QED
    BY <2>2, Failed, Terminals, MatchIs, ChoiceMade DEF OptionalDisplacement
<1>3. inner = Base(t, OptionalDisplacement(t, Past(t, p, LeftBracket)), Comma)
  BY DEF InnerBase, LeftBracket, Comma
<1>4. inner.at = 0
  BY <1>1, <1>2, <1>3, NothingAfterFailure
<1> HIDE DEF p, inner
<1>5. Index(t, inner).at = 0 /\ \A token : Then(t, inner, token) = Fail
  BY <1>4, NothingAfterFailure
<1>6. \A token : Then(t, Index(t, inner), token) = Fail
  BY <1>5, NothingAfterFailure
<1>7. Inner_PostIndexed(t, p) = Fail /\ Inner_PreIndexed(t, p) = Fail
  BY <1>5, <1>6 DEF Inner_PostIndexed, Inner_PreIndexed, inner
<1>8. Index(t, Fail).at = 0 /\ OuterEnd(t, Fail) = Fail
  BY NothingAfterFailure, Failed
<1>9. OuterEnd(t, Index(t, Fail)) = Fail
  BY <1>8, NothingAfterFailure
<1> DEFINE post == "MEMORY_INDIRECT_POST_INDEXED"
           pc_post == "PC_MEM_INDIRECT_POST_INDEXED"
           pre == "MEMORY_INDIRECT_PRE_INDEXED"
           pc_pre == "PC_MEM_INDIRECT_PRE_INDEXED"
<1>10. MemIndirect_Post_Rule(t, 1) = BaseMode(OuterEnd(t, Index(t, Inner_PostIndexed(t, p))), post, pc_post)
  BY DEF MemIndirect_Post_Rule, p, Open
<1>11. MemIndirect_Pre_Rule(t, 1) = BaseMode(OuterEnd(t, Inner_PreIndexed(t, p)), pre, pc_pre)
  BY DEF MemIndirect_Pre_Rule, p, Open
<1> HIDE DEF post, pc_post, pre, pc_pre
<1> QED
  BY <1>7, <1>8, <1>9, <1>10, <1>11, NoBaseMode

(* ... those with a displacement before the parenthesis without it, ... *)
LEMMA NoIndexRule ==
  ASSUME NEW t \in Seq(Tokens), Displacement(t, 1) = Fail
  PROVE  Index_8BitDisp_Rule(t, 1).at = 0
<1>1. Base(t, Fail, Open).at = 0
  BY NothingAfterFailure, Failed
<1>2. Index(t, Base(t, Fail, Open)).at = 0
  BY <1>1, NothingAfterFailure
<1>3. Then(t, Index(t, Base(t, Fail, Open)), Close) = Fail
  BY <1>2, NothingAfterFailure
<1> DEFINE ari == "ARI_INDEX_8_BIT_DISP"
           rel == "PC_RELATIVE_INDEX_8_BIT"
<1>4. Index_8BitDisp_Rule(t, 1) = BaseMode(Then(t, Index(t, Base(t, Displacement(t, 1), Open)), Close), ari, rel)
  BY DEF Index_8BitDisp_Rule, Open, Close
<1> HIDE DEF ari, rel
<1> QED
  BY <1>3, <1>4, NoBaseMode

(* ... and those in parentheses without them. *)
LEMMA NoBaseDispRule ==
  ASSUME NEW t \in Seq(Tokens), ~ Is(t, 1, {Open})
  PROVE  Index_BaseDisp_Rule(t, 1).at = 0
<1>1. Past(t, 1, Open) = 0
  BY DEF Past
<1>2. Displacement(t, 0) = Fail
  <2>1. ~ Is(t, 0, {Minus})
    BY DEF Is
  <2> QED
    BY <2>1, NoDatumAtMark
<1>3. Base(t, Fail, Comma).at = 0
  BY NothingAfterFailure, Failed
<1>4. Index(t, Base(t, Fail, Comma)).at = 0
  BY <1>3, NothingAfterFailure
<1>5. Then(t, Index(t, Base(t, Fail, Comma)), Close) = Fail
  BY <1>4, NothingAfterFailure
<1> DEFINE ari == "ARI_INDEX_BASE_DISP"
           rel == "PC_INDEX_BASE_DISP"
<1>6. Index_BaseDisp_Rule(t, 1)
        = BaseMode(Then(t, Index(t, Base(t, Displacement(t, Past(t, 1, Open)), Comma)), Close), ari, rel)
  BY DEF Index_BaseDisp_Rule, Open, Comma, Close
<1> HIDE DEF ari, rel
<1> QED
  BY <1>1, <1>2, <1>5, <1>6, NoBaseMode

-----------------------------------------------------------------------------
(* A text is read as the operand that its first matching alternative makes. *)
LEMMA TextReads ==
  ASSUME NEW t \in Seq(Tokens), NEW op, operand(t, 1) = Match(Len(t) + 1, op), 1 \in 1 .. Len(t)
  PROVE  parse_operand(t) = [status |-> "parsed", op |-> op]
<1>1. t # <<>>
  <2>1. Len(<<>>) = 0
    OBVIOUS
  <2> QED
    BY <2>1
<1>2. Len(t) \in Nat
  BY LenProperties
<1>3. root(t) = Match(Len(t) + 1, op)
  BY MatchIs DEF root, EOT
<1>4. parse_operand(t) = Answer(root(t))
  BY <1>1 DEF parse_operand
<1> DEFINE parsed == "parsed"
<1>5. \A m : m.at # 0 => Answer(m) = [status |-> parsed, op |-> m.op]
  BY DEF Answer
<1> HIDE DEF parsed
<1>6. Answer(Match(Len(t) + 1, op)) = [status |-> parsed, op |-> op]
  BY <1>2, <1>5, MatchIs
<1> QED
  BY <1>3, <1>4, <1>6 DEF parsed

(* The alternatives of operand in their order. *)
LEMMA OperandOrder ==
  ASSUME NEW t \in Seq(Tokens), 1 \in 1 .. Len(t)
  PROVE  /\ Operand_Immediate(t, 1).at # 0 => operand(t, 1) = Operand_Immediate(t, 1)
         /\ Operand_Immediate(t, 1).at = 0 =>
              /\ Operand_RegisterDirect(t, 1).at # 0 => operand(t, 1) = Operand_RegisterDirect(t, 1)
              /\ Operand_RegisterDirect(t, 1).at = 0 =>
                   /\ Operand_Absolute(t, 1).at # 0 => operand(t, 1) = Operand_Absolute(t, 1)
                   /\ Operand_Absolute(t, 1).at = 0 =>
                        /\ Operand_Indirect_Complex(t, 1).at # 0 =>
                             operand(t, 1) = Operand_Indirect_Complex(t, 1)
                        /\ Operand_Indirect_Complex(t, 1).at = 0 =>
                             operand(t, 1) = Operand_Indirect_Simple(t, 1)
<1> DEFINE i == Operand_Immediate(t, 1)
           r == Operand_RegisterDirect(t, 1)
           a == Operand_Absolute(t, 1)
           c == Operand_Indirect_Complex(t, 1)
           s == Operand_Indirect_Simple(t, 1)
<1>1. operand(t, 1) = Choice(i, Choice(r, Choice(a, Choice(c, s))))
  BY DEF operand
<1> HIDE DEF i, r, a, c, s
<1> QED
  BY <1>1, ChoiceMade DEF i, r, a, c, s

(* #<data>. *)
LEMMA ImmediateReads ==
  ASSUME NEW t \in Seq(Tokens), NEW v \in Long, NEW label \in OptionalLabel,
         label # NoLabel => v = ZeroLong, t \in Text(Hash) ** DatumOf(v, label)
  PROVE  parse_operand(t) = [status |-> "parsed", op |-> PlacedOp("IMMEDIATE", v, label)]
<1> DEFINE mode == "IMMEDIATE"
           end == Len(t) + 1
<1>1. InTokens(Text(Hash)) /\ InTokens(DatumOf(v, label))
  <2>1. Hash \in Tokens
    BY MarksAreNoWords DEF Marks
  <2>2. label # NoLabel => label \in Tokens
    BY DEF Tokens, Identifiers, OptionalLabel
  <2> QED
    BY <2>1, <2>2, TextInTokens, NumberInTokens DEF DatumOf
<1>2. Spells(t, 1, end, Text(Hash) ** DatumOf(v, label))
  BY SpellsAll
<1>3. PICK p : Spells(t, 1, p, Text(Hash)) /\ Spells(t, p, end, DatumOf(v, label))
  BY <1>1, <1>2, SpelledParts
<1>4. p = 2 /\ 1 \in 1 .. Len(t) /\ t[1] = Hash
  BY <1>3, SpelledToken
<1>5. Past(t, 1, Hash) = p
  BY <1>4, IsThere DEF Past
<1> HIDE DEF mode, end
<1>6. AbsoluteValue(t, p) = Match(end, DatumOp(v, label, Clear)) /\ end # 0
  BY <1>3, DatumReads
<1>7. Operand_Immediate(t, 1) = Mode(AbsoluteValue(t, Past(t, 1, Hash)), mode)
  BY DEF Operand_Immediate, Hash, mode
<1>8. Operand_Immediate(t, 1) = Match(end, PlacedOp(mode, v, label))
  BY <1>5, <1>6, <1>7, PlacedNoted
<1>9. operand(t, 1) = Match(end, PlacedOp(mode, v, label))
  BY <1>4, <1>6, <1>8, MatchIs, OperandOrder
<1> QED
  BY <1>4, <1>9, TextReads DEF end, mode

(* Dn and An. *)
LEMMA RegisterReads ==
  ASSUME NEW t \in Seq(Tokens), NEW n
  PROVE  /\ t \in Named(DnToken, n) =>
              parse_operand(t) = [status |-> "parsed", op |-> IndirectOp("DATA_REGISTER_DIRECT", n)]
         /\ t \in Named(AnToken, n) =>
              parse_operand(t) = [status |-> "parsed", op |-> IndirectOp("ADDRESS_REGISTER_DIRECT", n)]
<1> DEFINE data == "DATA_REGISTER_DIRECT"
           address == "ADDRESS_REGISTER_DIRECT"
           unknown == "UNKNOWN_MODE"
           end == Len(t) + 1
<1>1. ~ Is(t, 1, RegisterLike) =>
        Operand_RegisterDirect(t, 1)
          = Choice(Mode(DnRegSpecifier(t, 1), data), Mode(AnRegSpecifier(t, 1), address))
  BY DEF Operand_RegisterDirect
<1>2. RegisterOp(n) = AddressOp(unknown, n, NoLabel, ZeroLong, Clear, Null, NoLabel, 0, ZeroLong)
  BY RegisterNoted
<1>3. ASSUME NEW mode, NEW p PROVE Mode(Match(p, RegisterOp(n)), mode) = Match(p, IndirectOp(mode, n))
  <2> HIDE DEF unknown
  <2> QED
    BY <1>2, AddressNoted DEF IndirectOp
<1>4. ASSUME NEW tokens, t \in Named(tokens, n), tokens = DnToken \/ tokens = AnToken
      PROVE  /\ 1 \in 1 .. Len(t) /\ end = 1 + 1 /\ t[1] \in DOMAIN tokens /\ tokens[t[1]] = n
             /\ Is(t, 1, DOMAIN tokens) /\ Operand_Immediate(t, 1).at = 0 /\ ~ Is(t, 1, RegisterLike)
  <2>1. Spells(t, 1, end, Named(tokens, n))
    BY <1>4, SpellsAll
  <2>2. /\ 1 \in 1 .. Len(t) /\ end = 1 + 1 /\ t[1] \in DOMAIN tokens /\ tokens[t[1]] = n
        /\ Is(t, 1, DOMAIN tokens)
    BY <2>1, SpelledNamed
  <2>3. t[1] \in Identifiers /\ t[1] \notin RegisterLike
    BY <1>4, <2>2, WordsAreApart
  <2>4. ~ Is(t, 1, {Hash}) /\ ~ Is(t, 1, RegisterLike)
    BY <2>2, <2>3, IsThere, WordsAreApart DEF Marks
  <2> QED
    BY <2>2, <2>4, NoImmediate
<1> HIDE DEF data, address, end
<1>5. CASE t \in Named(DnToken, n)
  <2>1. /\ 1 \in 1 .. Len(t) /\ end = 1 + 1 /\ DnToken[t[1]] = n /\ Is(t, 1, DOMAIN DnToken)
        /\ Operand_Immediate(t, 1).at = 0 /\ ~ Is(t, 1, RegisterLike)
        /\ t[1] \in DOMAIN DnToken
    BY <1>4, <1>5
  <2>2. DnRegSpecifier(t, 1) = Match(end, RegisterOp(n))
    BY <2>1, Terminals
  <2>3. Mode(DnRegSpecifier(t, 1), data) = Match(end, IndirectOp(data, n))
    BY <1>3, <2>2
  <2>4. Operand_RegisterDirect(t, 1) = Match(end, IndirectOp(data, n)) /\ end # 0
    BY <1>1, <2>1, <2>3, MatchIs, ChoiceMade
  <2>5. operand(t, 1) = Match(end, IndirectOp(data, n))
    BY <2>1, <2>4, MatchIs, OperandOrder
  <2>6. parse_operand(t) = [status |-> "parsed", op |-> IndirectOp(data, n)]
    BY <2>1, <2>5, TextReads DEF end
  <2>7. t \notin Named(AnToken, n)
    BY <1>4, <2>1, WordsAreApart
  <2> QED
    BY <2>6, <2>7 DEF data
<1>6. CASE t \in Named(AnToken, n)
  <2>1. /\ 1 \in 1 .. Len(t) /\ end = 1 + 1 /\ AnToken[t[1]] = n /\ Is(t, 1, DOMAIN AnToken)
        /\ Operand_Immediate(t, 1).at = 0 /\ ~ Is(t, 1, RegisterLike)
        /\ t[1] \in DOMAIN AnToken
    BY <1>4, <1>6
  <2>2. AnRegSpecifier(t, 1) = Match(end, RegisterOp(n))
    BY <2>1, Terminals
  <2>3. Mode(AnRegSpecifier(t, 1), address) = Match(end, IndirectOp(address, n))
    BY <1>3, <2>2
  <2>4. ~ Is(t, 1, DOMAIN DnToken)
    BY <2>1, IsThere, WordsAreApart
  <2>5. Mode(DnRegSpecifier(t, 1), data).at = 0
    BY <2>4, Terminals, ModeFails
  <2>6. Operand_RegisterDirect(t, 1) = Match(end, IndirectOp(address, n)) /\ end # 0
    BY <1>1, <2>1, <2>3, <2>5, ChoiceMade
  <2>7. operand(t, 1) = Match(end, IndirectOp(address, n))
    BY <2>1, <2>6, MatchIs, OperandOrder
  <2>8. parse_operand(t) = [status |-> "parsed", op |-> IndirectOp(address, n)]
    BY <2>1, <2>7, TextReads DEF end
  <2>9. t \notin Named(DnToken, n)
    BY <1>4, <2>1, WordsAreApart
  <2> QED
    BY <2>8, <2>9 DEF address
<1> QED
  BY <1>5, <1>6

(* A datum begins with no register, and with no mark but a minus. *)
LEMMA DatumTokensAre ==
  ASSUME NEW x \in DatumTokens
  PROVE  /\ x # Hash /\ x # Open /\ x # LeftBracket /\ x # RightBracket /\ x # Comma
         /\ x # Close /\ x # Dot /\ x # Star
         /\ x \notin RegisterLike /\ x \notin DOMAIN AnToken /\ x \notin DOMAIN DnToken
<1>1. CASE x = Minus
  <2>1. x \notin RegisterLike /\ x \notin DOMAIN AnToken /\ x \notin DOMAIN DnToken
    BY <1>1, MarksAreNoWords DEF Marks
  <2> QED
    BY <1>1, <2>1, MarksAreApart
<1>2. CASE x \in DOMAIN Hexadecimal \cup DOMAIN Decimal
  <2>1. x \notin Identifiers /\ x \notin Marks
    BY <1>2, WordsAreApart
  <2>2. /\ RegisterLike \subseteq Identifiers /\ DOMAIN AnToken \subseteq Identifiers
        /\ DOMAIN DnToken \subseteq Identifiers
    BY DEF Identifiers
  <2> QED
    BY <2>1, <2>2 DEF Marks
<1>3. CASE x \in Labels
  <2>1. x \in Identifiers /\ x \notin RegisterLike \cup DOMAIN AnToken \cup DOMAIN DnToken
    BY <1>3, WordsAreApart
  <2>2. x \notin Marks
    BY <2>1, WordsAreApart
  <2> QED
    BY <2>1, <2>2 DEF Marks
<1> QED
  BY <1>1, <1>2, <1>3 DEF DatumTokens, NumberTokens

(* Neither an immediate nor a register stands where an address or an indirect *)
(* mode begins.                                                              *)
LEMMA NothingEarlier ==
  ASSUME NEW t \in Seq(Tokens), 1 \in 1 .. Len(t), t[1] # Hash,
         t[1] \in DatumTokens \/ t[1] \in Marks
  PROVE  Operand_Immediate(t, 1).at = 0 /\ Operand_RegisterDirect(t, 1).at = 0
<1>1. t[1] \notin RegisterLike /\ t[1] \notin DOMAIN AnToken /\ t[1] \notin DOMAIN DnToken
  BY DatumTokensAre, MarksAreNoWords
<1>2. /\ ~ Is(t, 1, {Hash}) /\ ~ Is(t, 1, RegisterLike) /\ ~ Is(t, 1, DOMAIN AnToken)
      /\ ~ Is(t, 1, DOMAIN DnToken)
  BY <1>1, IsThere
<1> QED
  BY <1>2, NoImmediate, NoRegister

(* The languages of the parts are made of tokens. *)
LEMMA DatumInTokens ==
  ASSUME NEW v, NEW label \in OptionalLabel
  PROVE  InTokens(DatumOf(v, label))
<1>1. label # NoLabel => label \in Tokens
  BY DEF Tokens, Identifiers, OptionalLabel
<1> QED
  BY <1>1, TextInTokens, NumberInTokens DEF DatumOf

(* ... the marks, ... *)
LEMMA MarkInTokens ==
  ASSUME NEW x \in Marks
  PROVE  InTokens(Text(x))
  BY MarksAreNoWords, TextInTokens

(* An address is read in parentheses and without. *)
LEMMA FormReads ==
  ASSUME NEW t \in Seq(Tokens), NEW q, NEW v \in Long, NEW label \in OptionalLabel,
         label # NoLabel => v = ZeroLong, Spells(t, 1, q, FormOf(v, label))
  PROVE  /\ Absolute_Form(t, 1) = Match(q, DatumOp(v, label, Clear))
         /\ 1 \in 1 .. Len(t) /\ q \in Nat /\ q # 0
         /\ t[1] \in DatumTokens \/ t[1] = Open
<1> DEFINE inner == AbsoluteValue(t, Past(t, 1, Open))
<1>1. Absolute_Form(t, 1) = Choice(Then(t, inner, Close), AbsoluteValue(t, 1))
  BY DEF Absolute_Form, Open, Close
<1>2. \/ Spells(t, 1, q, DatumOf(v, label))
      \/ Spells(t, 1, q, Text(Open) ** DatumOf(v, label) ** Text(Close))
  BY SpelledEither DEF FormOf, Open, Close
<1>3. CASE Spells(t, 1, q, DatumOf(v, label))
  <2>1. /\ AbsoluteValue(t, 1) = Match(q, DatumOp(v, label, Clear))
        /\ 1 \in 1 .. Len(t) /\ q \in Nat /\ q # 0 /\ t[1] \in DatumTokens
    BY <1>3, DatumReads
  <2>2. Past(t, 1, Open) = 0
    BY <2>1, DatumTokensAre, IsThere DEF Past
  <2>3. inner = Fail
    <3>1. ~ Is(t, 0, {Minus})
      BY DEF Is
    <3> QED
      BY <2>2, <3>1, NoDatumAtMark
  <2>4. Then(t, inner, Close).at = 0
    BY <2>3, Failed, NothingAfterFailure
  <2> HIDE DEF inner
  <2>5. Absolute_Form(t, 1) = AbsoluteValue(t, 1)
    BY <1>1, <2>4, ChoiceMade
  <2> QED
    BY <2>1, <2>5
<1>4. CASE Spells(t, 1, q, Text(Open) ** DatumOf(v, label) ** Text(Close))
  <2>1. InTokens(Text(Open)) /\ InTokens(Text(Close)) /\ InTokens(DatumOf(v, label))
    BY MarkInTokens, DatumInTokens DEF Marks
  <2>2. PICK r : Spells(t, 1, r, Text(Open) ** DatumOf(v, label)) /\ Spells(t, r, q, Text(Close))
    BY <1>4, <2>1, JoinedInTokens, SpelledParts
  <2>3. PICK p : Spells(t, 1, p, Text(Open)) /\ Spells(t, p, r, DatumOf(v, label))
    BY <2>1, <2>2, SpelledParts
  <2>4. p = 2 /\ 1 \in 1 .. Len(t) /\ t[1] = Open
    BY <2>3, SpelledToken
  <2>5. Past(t, 1, Open) = p
    BY <2>4, IsThere DEF Past
  <2>6. inner = Match(r, DatumOp(v, label, Clear))
    BY <2>3, <2>5, DatumReads
  <2>7. Then(t, inner, Close) = Match(q, DatumOp(v, label, Clear))
    BY <2>2, <2>6, ThenReads
  <2>8. q \in Nat /\ q # 0
    BY <2>2, SpelledPlaces
  <2> HIDE DEF inner
  <2>9. Absolute_Form(t, 1) = Match(q, DatumOp(v, label, Clear))
    BY <1>1, <2>7, <2>8, MatchIs, ChoiceMade
  <2> QED
    BY <2>4, <2>8, <2>9
<1> QED
  BY <1>2, <1>3, <1>4

(* The letters of the sizes. *)
WordSize == "W"
LongSize == "L"

(* They are sizes, and different ones. *)
LEMMA SizesAre ==
  /\ WordSize \in Sizes /\ LongSize \in Sizes /\ WordSize # LongSize
  /\ WordSize \in Tokens /\ LongSize \in Tokens /\ Dot \in Tokens
<1>1. Dot \in Tokens
  BY MarksAreNoWords DEF Marks
<1>2. WordSize \in Sizes /\ LongSize \in Sizes /\ WordSize # LongSize
  BY DEF WordSize, LongSize, Sizes
<1>3. Sizes \subseteq Identifiers
  BY DEF Identifiers
<1> QED
  BY <1>1, <1>2, <1>3 DEF Tokens

(* ... and the forms of an address. *)
LEMMA FormInTokens ==
  ASSUME NEW v, NEW label \in OptionalLabel
  PROVE  InTokens(FormOf(v, label))
<1>1. InTokens(Text(Open)) /\ InTokens(Text(Close)) /\ InTokens(DatumOf(v, label))
  BY MarkInTokens, DatumInTokens DEF Marks
<1>2. FormOf(v, label) = DatumOf(v, label) \cup (Text(Open) ** DatumOf(v, label) ** Text(Close))
  BY DEF FormOf, Open, Close
<1> QED
  BY <1>1, <1>2, JoinedInTokens

(* The size after an address, read and not there. *)
LEMMA SizeReads ==
  ASSUME NEW t \in Seq(Tokens), NEW p \in Nat, NEW q, NEW size \in Sizes, NEW v, NEW label,
         size \in Tokens, Spells(t, p, q, {<<Dot, size>>})
  PROVE  AbsoluteSize(t, Match(p, DatumOp(v, label, Clear)))
           = Match(q, PlacedOp(IF size = LongSize THEN "ABSOLUTE_LONG" ELSE "ABSOLUTE_SHORT", v, label))
<1>1. /\ q = p + 2 /\ p \in 1 .. Len(t) /\ p + 1 \in 1 .. Len(t) /\ t[p] = Dot /\ t[p + 1] = size
  BY SizesAre, SpelledPair
<1>2. HasSize(t, p)
  BY <1>1, IsThere DEF HasSize, Dot
<1> DEFINE long == "ABSOLUTE_LONG"
           short == "ABSOLUTE_SHORT"
           d == Match(p, DatumOp(v, label, Clear))
           m == Mode(d, IF size = LongSize THEN long ELSE short)
<1>3. d.at = p
  BY MatchIs
<1>4. AbsoluteSize(t, d) = [m EXCEPT !.at = @ + 2]
  BY <1>1, <1>2, <1>3 DEF AbsoluteSize, LongSize
<1> DEFINE op == PlacedOp(IF size = LongSize THEN long ELSE short, v, label)
<1> HIDE DEF long, short, d
<1>5. m = Match(p, op)
  BY PlacedNoted DEF d
<1> HIDE DEF m, op
<1>6. m.at = p
  BY <1>5, MatchIs
<1>7. [m EXCEPT !.at = @ + 2] = [m EXCEPT !.at = m.at + 2]
  OBVIOUS
<1>8. [m EXCEPT !.at = @ + 2] = [Match(p, op) EXCEPT !.at = q]
  BY <1>1, <1>5, <1>6, <1>7
<1>9. [Match(p, op) EXCEPT !.at = q] = Match(q, op)
  BY DEF Match
<1> QED
  BY <1>4, <1>8, <1>9 DEF op, d, long, short

(* ... and the word size, where the text ends without one. *)
LEMMA NoSizeReads ==
  ASSUME NEW t \in Seq(Tokens), NEW v, NEW label
  PROVE  AbsoluteSize(t, Match(Len(t) + 1, DatumOp(v, label, Clear)))
           = Match(Len(t) + 1, PlacedOp("ABSOLUTE_SHORT", v, label))
<1> DEFINE short == "ABSOLUTE_SHORT"
           d == Match(Len(t) + 1, DatumOp(v, label, Clear))
<1>1. d.at = Len(t) + 1 /\ Len(t) \in Nat
  BY MatchIs, LenProperties
<1>2. ~ HasSize(t, d.at)
  BY <1>1 DEF HasSize, Is
<1>3. AbsoluteSize(t, d) = Mode(d, short)
  BY <1>2 DEF AbsoluteSize
<1> HIDE DEF short, d
<1>4. Mode(d, short) = Match(Len(t) + 1, PlacedOp(short, v, label))
  BY PlacedNoted DEF d
<1> QED
  BY <1>3, <1>4 DEF short, d

(* <address>, (<address>), and either with a size. *)
LEMMA AbsoluteReads ==
  ASSUME NEW t \in Seq(Tokens), NEW v \in Long, NEW label \in OptionalLabel,
         label # NoLabel => v = ZeroLong
  PROVE  /\ t \in FormOf(v, label) ** (NoText \cup {<<Dot, WordSize>>}) =>
              parse_operand(t) = [status |-> "parsed", op |-> PlacedOp("ABSOLUTE_SHORT", v, label)]
         /\ t \in FormOf(v, label) ** {<<Dot, LongSize>>} =>
              parse_operand(t) = [status |-> "parsed", op |-> PlacedOp("ABSOLUTE_LONG", v, label)]
<1> DEFINE end == Len(t) + 1
           long == "ABSOLUTE_LONG"
           short == "ABSOLUTE_SHORT"
<1>1. /\ InTokens(FormOf(v, label)) /\ InTokens(NoText) /\ InTokens({<<Dot, WordSize>>})
      /\ InTokens({<<Dot, LongSize>>})
  BY FormInTokens, NoTextInTokens, SizesAre, PairInTokens
<1>2. ASSUME NEW q, NEW op, Spells(t, 1, q, FormOf(v, label)),
             AbsoluteSize(t, Match(q, DatumOp(v, label, Clear))) = Match(end, op)
      PROVE  parse_operand(t) = [status |-> "parsed", op |-> op]
  <2>1. /\ Absolute_Form(t, 1) = Match(q, DatumOp(v, label, Clear))
        /\ 1 \in 1 .. Len(t)
    BY <1>2, FormReads
  <2>2. t[1] # Hash /\ (t[1] \in DatumTokens \/ t[1] \in Marks) /\ 1 \in 1 .. Len(t)
    BY <1>2, FormReads, DatumTokensAre, MarksAreApart DEF Marks
  <2>3. Operand_Immediate(t, 1).at = 0 /\ Operand_RegisterDirect(t, 1).at = 0
    BY <2>2, NothingEarlier
  <2>4. Operand_Absolute(t, 1) = Match(end, op)
    BY <1>2, <2>1 DEF Operand_Absolute
  <2>5. end # 0
    BY LenProperties
  <2> HIDE DEF end
  <2>6. operand(t, 1) = Match(end, op)
    BY <2>2, <2>3, <2>4, <2>5, MatchIs, OperandOrder
  <2> QED
    BY <2>2, <2>6, TextReads DEF end
<1>3. ASSUME t \in FormOf(v, label) ** (NoText \cup {<<Dot, WordSize>>})
      PROVE  parse_operand(t) = [status |-> "parsed", op |-> PlacedOp(short, v, label)]
  <2>1. Spells(t, 1, end, FormOf(v, label) ** (NoText \cup {<<Dot, WordSize>>}))
    BY <1>3, SpellsAll
  <2>2. PICK q : Spells(t, 1, q, FormOf(v, label)) /\ Spells(t, q, end, NoText \cup {<<Dot, WordSize>>})
    BY <1>1, <2>1, JoinedInTokens, SpelledParts
  <2>3. CASE Spells(t, q, end, NoText)
    <3>1. q = Len(t) + 1
      BY <2>3, SpelledNothing
    <3> QED
      BY <1>2, <2>2, <3>1, NoSizeReads
  <2>4. CASE Spells(t, q, end, {<<Dot, WordSize>>})
    <3>1. q \in Nat
      BY <2>4, SpelledPlaces
    <3> HIDE DEF end
    <3>2. AbsoluteSize(t, Match(q, DatumOp(v, label, Clear)))
            = Match(end, PlacedOp(short, v, label))
      BY <2>4, <3>1, SizesAre, SizeReads
    <3> QED
      BY <1>2, <2>2, <3>2
  <2> QED
    BY <2>2, <2>3, <2>4, SpelledEither
<1>4. ASSUME t \in FormOf(v, label) ** {<<Dot, LongSize>>}
      PROVE  parse_operand(t) = [status |-> "parsed", op |-> PlacedOp(long, v, label)]
  <2>1. Spells(t, 1, end, FormOf(v, label) ** {<<Dot, LongSize>>})
    BY <1>4, SpellsAll
  <2>2. PICK q : Spells(t, 1, q, FormOf(v, label)) /\ Spells(t, q, end, {<<Dot, LongSize>>})
    BY <1>1, <2>1, SpelledParts
  <2>3. q \in Nat
    BY <2>2, SpelledPlaces
  <2> HIDE DEF end
  <2>4. AbsoluteSize(t, Match(q, DatumOp(v, label, Clear))) = Match(end, PlacedOp(long, v, label))
    BY <2>2, <2>3, SizesAre, SizeReads
  <2> QED
    BY <1>2, <2>2, <2>4
<1> QED
  BY <1>3, <1>4

(* The alternatives of the modes with an index in their order. *)
LEMMA ComplexOrder ==
  ASSUME NEW t
  PROVE  /\ MemIndirect_Post_Rule(t, 1).at # 0 =>
              Operand_Indirect_Complex(t, 1) = MemIndirect_Post_Rule(t, 1)
         /\ MemIndirect_Post_Rule(t, 1).at = 0 =>
              /\ MemIndirect_Pre_Rule(t, 1).at # 0 =>
                   Operand_Indirect_Complex(t, 1) = MemIndirect_Pre_Rule(t, 1)
              /\ MemIndirect_Pre_Rule(t, 1).at = 0 =>
                   /\ Index_BaseDisp_Rule(t, 1).at # 0 =>
                        Operand_Indirect_Complex(t, 1) = Index_BaseDisp_Rule(t, 1)
                   /\ Index_BaseDisp_Rule(t, 1).at = 0 =>
                        Operand_Indirect_Complex(t, 1) = Index_8BitDisp_Rule(t, 1)
<1> DEFINE a == MemIndirect_Post_Rule(t, 1)
           b == MemIndirect_Pre_Rule(t, 1)
           c == Index_BaseDisp_Rule(t, 1)
           d == Index_8BitDisp_Rule(t, 1)
<1>1. Operand_Indirect_Complex(t, 1) = Choice(a, Choice(b, Choice(c, d)))
  BY DEF Operand_Indirect_Complex
<1> HIDE DEF a, b, c, d
<1> QED
  BY <1>1, ChoiceMade DEF a, b, c, d

(* -(An). *)
LEMMA PreDecrementReads ==
  ASSUME NEW t \in Seq(Tokens), NEW n,
         t \in Text(Minus) ** Text(Open) ** Named(AnToken, n) ** Text(Close)
  PROVE  parse_operand(t) = [status |-> "parsed", op |-> IndirectOp("ARI_PRE_DECREMENT", n)]
<1> DEFINE mode == "ARI_PRE_DECREMENT"
           plain == "ADDRESS_REGISTER_INDIRECT"
           unknown == "UNKNOWN_MODE"
           end == Len(t) + 1
<1>1. InTokens(Text(Minus)) /\ InTokens(Text(Open)) /\ InTokens(Text(Close))
  BY MarkInTokens DEF Marks
<1>2. InTokens(Named(AnToken, n))
  BY NamedInTokens DEF Tokens, Identifiers
<1>3. Spells(t, 1, end, Text(Minus) ** Text(Open) ** Named(AnToken, n) ** Text(Close))
  BY SpellsAll
<1> HIDE DEF end
<1>4. PICK r : /\ Spells(t, 1, r, Text(Minus) ** Text(Open) ** Named(AnToken, n))
               /\ Spells(t, r, end, Text(Close))
  BY <1>1, <1>2, <1>3, JoinedInTokens, SpelledParts
<1>5. PICK q : Spells(t, 1, q, Text(Minus) ** Text(Open)) /\ Spells(t, q, r, Named(AnToken, n))
  BY <1>1, <1>2, <1>4, JoinedInTokens, SpelledParts
<1>6. PICK p : Spells(t, 1, p, Text(Minus)) /\ Spells(t, p, q, Text(Open))
  BY <1>1, <1>5, SpelledParts
<1>7. /\ p = 2 /\ 1 \in 1 .. Len(t) /\ t[1] = Minus
      /\ q = p + 1 /\ p \in 1 .. Len(t) /\ t[p] = Open
      /\ end = r + 1 /\ end # 0
  BY <1>4, <1>6, SpelledToken, SpelledPlaces
<1>8. /\ Past(t, 1, Minus) = p /\ Past(t, p, Open) = q /\ Past(t, 1, Open) = 0
  BY <1>7, IsThere, MarksAreApart DEF Past
<1>9. AnRegSpecifier(t, q) = Match(r, RegisterOp(n))
  BY <1>5, SpelledNamed, Terminals
<1>10. Then(t, AnRegSpecifier(t, q), Close) = Match(end, RegisterOp(n))
  BY <1>4, <1>9, ThenReads
<1>11. RegisterOp(n) = AddressOp(unknown, n, NoLabel, ZeroLong, Clear, Null, NoLabel, 0, ZeroLong)
  BY RegisterNoted
<1>12. ARI_Rule(t, p) = Mode(Then(t, AnRegSpecifier(t, Past(t, p, Open)), Close), plain)
  BY DEF ARI_Rule, Open, Close
<1>13. ARI_PreDecrement_Rule(t, 1) = Mode(ARI_Rule(t, Past(t, 1, Minus)), mode)
  BY DEF ARI_PreDecrement_Rule, Minus
<1> HIDE DEF mode, plain, unknown
<1>14. ARI_PreDecrement_Rule(t, 1) = Match(end, IndirectOp(mode, n))
  BY <1>8, <1>10, <1>11, <1>12, <1>13, AddressNoted DEF IndirectOp
<1>15. Operand_Indirect_Simple(t, 1) = Match(end, IndirectOp(mode, n))
  BY <1>7, <1>14, MatchIs, ChoiceMade DEF Operand_Indirect_Simple
<1>16. Operand_Immediate(t, 1).at = 0 /\ Operand_RegisterDirect(t, 1).at = 0
  BY <1>7, MarksAreApart, NothingEarlier DEF Marks
<1>17. ~ Is(t, 1 + 1, DOMAIN Decimal)
  BY <1>7, IsThere, MarksAreNoWords DEF Marks
<1>18. AbsoluteValue(t, 1) = Fail /\ Displacement(t, 1) = Fail
  BY <1>7, <1>17, NoDatumAtMark DEF Marks
<1>19. Operand_Absolute(t, 1).at = 0
  <2>1. AbsoluteValue(t, 0) = Fail
    <3>1. ~ Is(t, 0, {Minus})
      BY DEF Is
    <3> QED
      BY <3>1, NoDatumAtMark
  <2>2. Then(t, AbsoluteValue(t, Past(t, 1, Open)), Close) = Fail
    BY <1>8, <2>1, Failed, NothingAfterFailure
  <2> QED
    BY <1>18, <2>2, NoAbsolute
<1>20. Operand_Indirect_Complex(t, 1).at = 0
  <2>1. ~ Is(t, Past(t, 1, Open), {LeftBracket})
    BY <1>8 DEF Is
  <2>2. ~ Is(t, 1, {Open})
    BY <1>7, IsThere, MarksAreApart
  <2> QED
    BY <1>18, <2>1, <2>2, NoMemoryRule, NoBaseDispRule, NoIndexRule, ComplexOrder
<1>21. operand(t, 1) = Match(end, IndirectOp(mode, n))
  BY <1>7, <1>15, <1>16, <1>19, <1>20, OperandOrder
<1> QED
  BY <1>7, <1>21, TextReads DEF end, mode

(* The mode that a rule gives an operand with a base. *)
LEMMA BaseModeReads ==
  ASSUME NEW t \in Seq(Tokens), 1 \in 1 .. Len(t), NEW m, NEW n, NEW label, NEW bd, NEW an,
         NEW x, NEW size, NEW scale, NEW od, NEW mode, NEW pc_mode,
         m = BaseMode(Match(Len(t) + 1, AddressOp("UNKNOWN_MODE", n, label, bd, an, x, size, scale, od)),
                      mode, pc_mode),
         Operand_Immediate(t, 1).at = 0, Operand_RegisterDirect(t, 1).at = 0,
         Operand_Absolute(t, 1).at = 0, m.at # 0 => Operand_Indirect_Complex(t, 1) = m
  PROVE  parse_operand(t)
           = [status |-> "parsed",
              op |-> AddressOp(IF n = Null THEN pc_mode ELSE mode, n, label, bd, an, x, size, scale, od)]
<1> DEFINE old == "UNKNOWN_MODE"
           end == Len(t) + 1
           op == AddressOp(IF n = Null THEN pc_mode ELSE mode, n, label, bd, an, x, size, scale, od)
<1>1. end # 0
  BY LenProperties
<1> HIDE DEF end
<1>2. m = Match(end, op)
  <2> HIDE DEF old
  <2> QED
    BY BaseModeMade DEF old, end
<1> HIDE DEF op
<1>3. m.at # 0
  BY <1>1, <1>2, MatchIs
<1>4. Operand_Indirect_Complex(t, 1) = Match(end, op)
  BY <1>2, <1>3
<1>5. operand(t, 1) = Match(end, op)
  BY <1>1, <1>4, MatchIs, OperandOrder
<1>6. parse_operand(t) = [status |-> "parsed", op |-> op]
  BY <1>5, TextReads DEF end
<1> QED
  BY <1>6 DEF op

-----------------------------------------------------------------------------
(* A mark where a part ends. *)
LEMMA StopsAtMark ==
  ASSUME NEW t \in Seq(Tokens), NEW p, NEW q, NEW x, Spells(t, p, q, Text(x)),
         x = Close \/ x = Comma \/ x = RightBracket
  PROVE  Stops(t, p) /\ p \in 1 .. Len(t) /\ q = p + 1 /\ t[p] = x
<1>1. p \in 1 .. Len(t) /\ q = p + 1 /\ t[p] = x
  BY SpelledToken
<1> QED
  BY <1>1 DEF Stops

(* The base, ... *)
LEMMA BaseInTokens ==
  ASSUME NEW n
  PROVE  InTokens(BaseOf(n))
<1>1. InTokens(Named(AnToken, n))
  BY NamedInTokens DEF Tokens, Identifiers
<1>2. InTokens(Text(ThePC))
  <2>1. ThePC \in Tokens
    BY DEF Tokens, Identifiers, ThePC
  <2> QED
    BY <2>1, TextInTokens
<1>3. BaseOf(n) = Text(ThePC) \/ BaseOf(n) = Named(AnToken, n)
  BY DEF BaseOf, ThePC
<1> QED
  BY <1>1, <1>2, <1>3

(* ... the index ... *)
LEMMA WholeIndexInTokens ==
  ASSUME NEW an, NEW x, NEW size \in Sizes, NEW scale
  PROVE  InTokens(IndexOf(an, x, size, scale))
  BY IndexInTokens, JoinedInTokens DEF IndexOf

(* ... and the outer displacement are made of tokens. *)
LEMMA OuterInTokens ==
  ASSUME NEW od
  PROVE  InTokens(OuterOf(od))
<1>1. InTokens(Text(Comma)) /\ InTokens(NumberText(od)) /\ InTokens(NoText)
  BY MarkInTokens, NumberInTokens, NoTextInTokens DEF Marks
<1>2. OuterOf(od) = (Text(Comma) ** NumberText(od)) \cup NoText \/ OuterOf(od) = (Text(Comma) ** NumberText(od)) \cup {}
  BY DEF OuterOf, Comma
<1> QED
  BY <1>1, <1>2, NoTextInTokens, JoinedInTokens

(* What follows an opening parenthesis is no address before a comma. *)
LEMMA NoAbsoluteBefore ==
  ASSUME NEW t \in Seq(Tokens), 1 \in 1 .. Len(t), t[1] = Open,
         Then(t, AbsoluteValue(t, 2), Close) = Fail
  PROVE  /\ Operand_Immediate(t, 1).at = 0 /\ Operand_RegisterDirect(t, 1).at = 0
         /\ Operand_Absolute(t, 1).at = 0 /\ Past(t, 1, Open) = 2
<1>1. Past(t, 1, Open) = 2
  BY IsThere DEF Past
<1>2. Operand_Immediate(t, 1).at = 0 /\ Operand_RegisterDirect(t, 1).at = 0
  BY MarksAreApart, NothingEarlier DEF Marks
<1>3. AbsoluteValue(t, 1) = Fail
  <2>1. ~ Is(t, 1, {Minus})
    BY IsThere, MarksAreApart
  <2> QED
    BY <2>1, NoDatumAtMark DEF Marks
<1> QED
  BY <1>1, <1>2, <1>3, NoAbsolute

(* (<displacement>,An,Xn) and (<displacement>,PC,Xn). *)
LEMMA BaseDispReads ==
  ASSUME NEW t \in Seq(Tokens), NEW v \in Long, NEW label \in OptionalLabel,
         label # NoLabel => v = ZeroLong, NEW n, NEW an, NEW x, NEW size \in Sizes,
         NEW scale, an = Raised \/ an = Clear,
         t \in Text(Open) ** DatumOf(v, label) ** Text(Comma) ** BaseOf(n) ** Text(Comma)
                 ** IndexOf(an, x, size, scale) ** Text(Close)
  PROVE  parse_operand(t)
           = [status |-> "parsed",
              op |-> AddressOp(IF n = Null THEN "PC_INDEX_BASE_DISP" ELSE "ARI_INDEX_BASE_DISP",
                               n, label, v, an, x, size, scale, ZeroLong)]
<1> DEFINE ari == "ARI_INDEX_BASE_DISP"
           rel == "PC_INDEX_BASE_DISP"
           old == "UNKNOWN_MODE"
           end == Len(t) + 1
           D == DatumOf(v, label)
           B == BaseOf(n)
           X == IndexOf(an, x, size, scale)
<1>1. /\ InTokens(D) /\ InTokens(B) /\ InTokens(X)
      /\ InTokens(Text(Open)) /\ InTokens(Text(Comma)) /\ InTokens(Text(Close))
  BY DatumInTokens, BaseInTokens, WholeIndexInTokens, MarkInTokens DEF Marks
<1>2. Spells(t, 1, end, Text(Open) ** D ** Text(Comma) ** B ** Text(Comma) ** X ** Text(Close))
  BY SpellsAll
<1> HIDE DEF end, D, B, X
<1>3. PICK w : /\ Spells(t, 1, w, Text(Open) ** D ** Text(Comma) ** B ** Text(Comma) ** X)
               /\ Spells(t, w, end, Text(Close))
  BY <1>1, <1>2, JoinedInTokens, SpelledParts
<1>4. PICK u : /\ Spells(t, 1, u, Text(Open) ** D ** Text(Comma) ** B ** Text(Comma))
               /\ Spells(t, u, w, X)
  BY <1>1, <1>3, JoinedInTokens, SpelledParts
<1>5. PICK s : Spells(t, 1, s, Text(Open) ** D ** Text(Comma) ** B) /\ Spells(t, s, u, Text(Comma))
  BY <1>1, <1>4, JoinedInTokens, SpelledParts
<1>6. PICK r : Spells(t, 1, r, Text(Open) ** D ** Text(Comma)) /\ Spells(t, r, s, B)
  BY <1>1, <1>5, JoinedInTokens, SpelledParts
<1>7. PICK q : Spells(t, 1, q, Text(Open) ** D) /\ Spells(t, q, r, Text(Comma))
  BY <1>1, <1>6, JoinedInTokens, SpelledParts
<1>8. PICK p : Spells(t, 1, p, Text(Open)) /\ Spells(t, p, q, D)
  BY <1>1, <1>7, SpelledParts
<1>9. p = 2 /\ 1 \in 1 .. Len(t) /\ t[1] = Open
  BY <1>8, SpelledToken
<1>10. /\ Stops(t, q) /\ q \in 1 .. Len(t) /\ t[q] = Comma
       /\ Stops(t, w)
  BY <1>3, <1>7, StopsAtMark
<1>11. /\ AbsoluteValue(t, p) = Match(q, DatumOp(v, label, Clear))
       /\ p \in 1 .. Len(t) /\ t[p] \in DatumTokens
  BY <1>8, DatumReads DEF D
<1>12. Displacement(t, p) = Match(q, DatumOp(v, label, Clear))
  BY <1>8, <1>10, DisplacementReads DEF D
<1>13. /\ Operand_Immediate(t, 1).at = 0 /\ Operand_RegisterDirect(t, 1).at = 0
       /\ Operand_Absolute(t, 1).at = 0 /\ Past(t, 1, Open) = p
  <2>1. ~ Is(t, q, {Close})
    BY <1>10, IsThere, MarksAreApart
  <2>2. Then(t, AbsoluteValue(t, p), Close) = Fail
    BY <1>11, <2>1, ThenMisses
  <2> QED
    BY <1>9, <2>2, NoAbsoluteBefore
<1>14. Base(t, Match(q, DatumOp(v, label, Clear)), Comma)
         = Match(s, AddressOp(old, n, label, v, Clear, Null, NoLabel, 0, ZeroLong))
  BY <1>6, <1>7, BaseAfterReads DEF B
<1>15. Index(t, Match(s, AddressOp(old, n, label, v, Clear, Null, NoLabel, 0, ZeroLong)))
         = Match(w, AddressOp(old, n, label, v, an, x, size, scale, ZeroLong))
  BY <1>4, <1>5, <1>10, IndexAfterReads DEF X
<1>16. Then(t, Match(w, AddressOp(old, n, label, v, an, x, size, scale, ZeroLong)), Close)
         = Match(end, AddressOp(old, n, label, v, an, x, size, scale, ZeroLong))
  BY <1>3, ThenReads
<1>17. Index_BaseDisp_Rule(t, 1)
         = BaseMode(Then(t, Index(t, Base(t, Displacement(t, Past(t, 1, Open)), Comma)), Close), ari, rel)
  BY DEF Index_BaseDisp_Rule, Open, Comma, Close
<1> HIDE DEF ari, rel
<1>18. Index_BaseDisp_Rule(t, 1)
         = BaseMode(Match(end, AddressOp(old, n, label, v, an, x, size, scale, ZeroLong)), ari, rel)
  BY <1>12, <1>13, <1>14, <1>15, <1>16, <1>17
<1>19. MemIndirect_Post_Rule(t, 1).at = 0 /\ MemIndirect_Pre_Rule(t, 1).at = 0
  <2>1. ~ Is(t, p, {LeftBracket})
    BY <1>9, <1>11, IsThere, DatumTokensAre
  <2> QED
    BY <1>13, <2>1, NoMemoryRule
<1>20. Index_BaseDisp_Rule(t, 1).at # 0 => Operand_Indirect_Complex(t, 1) = Index_BaseDisp_Rule(t, 1)
  BY <1>19, ComplexOrder
<1> DEFINE m == Index_BaseDisp_Rule(t, 1)
<1>21. m = BaseMode(Match(Len(t) + 1, AddressOp("UNKNOWN_MODE", n, label, v, an, x, size, scale, ZeroLong)), ari, rel)
  BY <1>18 DEF end
<1>22. m.at # 0 => Operand_Indirect_Complex(t, 1) = m
  BY <1>20
<1> HIDE DEF m, old
<1>23. parse_operand(t)
         = [status |-> "parsed",
            op |-> AddressOp(IF n = Null THEN rel ELSE ari, n, label, v, an, x, size, scale, ZeroLong)]
  BY <1>9, <1>13, <1>21, <1>22, BaseModeReads
<1> QED
  BY <1>23 DEF ari, rel

-----------------------------------------------------------------------------
(* What may be left out in the brackets. *)
OptionalDatum(v, label) ==
  DatumOf(v, label) \cup IF label = NoLabel /\ v = ZeroLong THEN NoText ELSE {}

(* Without a mark of the PC the displacement in the brackets is a datum, ... *)
LEMMA InnerIs ==
  ASSUME NEW v, NEW label, NEW n
  PROVE  InnerOf(label, v, Clear, n) = OptionalDatum(v, label) ** Text(Comma) ** BaseOf(n)
<1>1. DispText(label, v, Clear) = DatumOf(v, label)
  BY DEF DispText, DatumOf, Clear, Raised
<1> QED
  BY <1>1 DEF InnerOf, OptionalDatum, Comma

(* ... made of tokens when it is there and when it is not, ... *)
LEMMA OptionalDatumInTokens ==
  ASSUME NEW v, NEW label \in OptionalLabel
  PROVE  InTokens(OptionalDatum(v, label))
<1>1. InTokens(DatumOf(v, label)) /\ InTokens(NoText)
  BY DatumInTokens, NoTextInTokens
<1>2. OptionalDatum(v, label) = DatumOf(v, label) \cup NoText \/ OptionalDatum(v, label) = DatumOf(v, label) \cup {}
  BY DEF OptionalDatum
<1> QED
  BY <1>1, <1>2, NoTextInTokens, JoinedInTokens

(* ... and so is all that stands in the brackets. *)
LEMMA InnerInTokens ==
  ASSUME NEW v, NEW label \in OptionalLabel, NEW n
  PROVE  InTokens(InnerOf(label, v, Clear, n))
<1>1. InTokens(OptionalDatum(v, label)) /\ InTokens(Text(Comma)) /\ InTokens(BaseOf(n))
  BY OptionalDatumInTokens, MarkInTokens, BaseInTokens DEF Marks
<1>2. InTokens(OptionalDatum(v, label) ** Text(Comma) ** BaseOf(n))
  BY <1>1, JoinedInTokens
<1> QED
  BY <1>2, InnerIs

(* The displacement and the base in the brackets are read. *)
LEMMA InnerReads ==
  ASSUME NEW t \in Seq(Tokens), NEW p, NEW r, NEW q, NEW v \in Long,
         NEW label \in OptionalLabel, label # NoLabel => v = ZeroLong, NEW n,
         Spells(t, p, r, Text(LeftBracket)), Spells(t, r, q, InnerOf(label, v, Clear, n))
  PROVE  InnerBase(t, p)
           = Match(q, AddressOp("UNKNOWN_MODE", n, label, v, Clear, Null, NoLabel, 0, ZeroLong))
<1> DEFINE disp == OptionalDisplacement(t, r)
<1>1. r = p + 1 /\ p \in 1 .. Len(t) /\ t[p] = LeftBracket /\ p \in Nat
  BY SpelledToken, SpelledPlaces
<1>2. Past(t, p, LeftBracket) = r
  BY <1>1, IsThere DEF Past
<1>3. Spells(t, r, q, OptionalDatum(v, label) ** Text(Comma) ** BaseOf(n))
  BY InnerIs
<1>4. InTokens(OptionalDatum(v, label)) /\ InTokens(Text(Comma)) /\ InTokens(BaseOf(n))
  BY OptionalDatumInTokens, MarkInTokens, BaseInTokens DEF Marks
<1>5. PICK u : Spells(t, r, u, OptionalDatum(v, label) ** Text(Comma)) /\ Spells(t, u, q, BaseOf(n))
  BY <1>3, <1>4, JoinedInTokens, SpelledParts
<1>6. PICK s : Spells(t, r, s, OptionalDatum(v, label)) /\ Spells(t, s, u, Text(Comma))
  BY <1>4, <1>5, SpelledParts
<1>7. Stops(t, s) /\ s \in 1 .. Len(t) /\ t[s] = Comma /\ s \in Nat /\ s # 0 /\ r \in Nat
  BY <1>6, StopsAtMark, SpelledPlaces
<1>8. \/ Spells(t, r, s, DatumOf(v, label))
      \/ label = NoLabel /\ v = ZeroLong /\ Spells(t, r, s, NoText)
  BY <1>6 DEF OptionalDatum, Spells
<1>9. disp = Match(s, DatumOp(v, label, Clear))
  <2>1. OptionalDisplacement(t, r) = Choice(Displacement(t, r), Nothing(r))
    BY DEF OptionalDisplacement
  <2>2. CASE Spells(t, r, s, DatumOf(v, label))
    <3>1. Displacement(t, r) = Match(s, DatumOp(v, label, Clear))
      BY <1>7, <2>2, DisplacementReads
    <3> QED
      BY <1>7, <2>1, <3>1, MatchIs, ChoiceMade
  <2>3. CASE label = NoLabel /\ v = ZeroLong /\ Spells(t, r, s, NoText)
    <3>1. s = r
      BY <2>3, SpelledNothing
    <3>2. ~ Is(t, r, {Minus})
      BY <1>7, <3>1, NothingAtStop
    <3>3. Displacement(t, r) = Fail
      BY <1>7, <3>1, <3>2, NoDatumAtMark DEF Marks
    <3>4. disp = Nothing(r)
      BY <2>1, <3>3, Failed, ChoiceMade
    <3> QED
      BY <2>3, <3>1, <3>4, Terminals
  <2> QED
    BY <1>8, <2>2, <2>3
<1>10. InnerBase(t, p) = Base(t, OptionalDisplacement(t, Past(t, p, LeftBracket)), Comma)
  BY DEF InnerBase, LeftBracket, Comma
<1> HIDE DEF disp
<1>11. InnerBase(t, p) = Base(t, Match(s, DatumOp(v, label, Clear)), Comma)
  BY <1>2, <1>9, <1>10 DEF disp
<1> DEFINE old == "UNKNOWN_MODE"
<1>12. Base(t, Match(s, DatumOp(v, label, Clear)), Comma)
         = Match(q, AddressOp(old, n, label, v, Clear, Null, NoLabel, 0, ZeroLong))
  BY <1>5, <1>6, BaseAfterReads
<1> QED
  BY <1>11, <1>12

(* An index may end where the outer displacement begins. *)
LEMMA StopsAtOuter ==
  ASSUME NEW t \in Seq(Tokens), NEW p, NEW u, NEW q, NEW od, Spells(t, p, u, OuterOf(od)),
         Spells(t, u, q, Text(Close))
  PROVE  Stops(t, p)
<1>1. \/ Spells(t, p, u, Text(Comma) ** NumberText(od))
      \/ Spells(t, p, u, NoText)
  BY DEF OuterOf, Spells, Comma
<1>2. CASE Spells(t, p, u, Text(Comma) ** NumberText(od))
  <2>1. InTokens(Text(Comma)) /\ InTokens(NumberText(od))
    BY MarkInTokens, NumberInTokens DEF Marks
  <2>2. PICK s : Spells(t, p, s, Text(Comma))
    BY <1>2, <2>1, SpelledParts
  <2> QED
    BY <2>2, StopsAtMark
<1>3. CASE Spells(t, p, u, NoText)
  <2>1. u = p
    BY <1>3, SpelledNothing
  <2> QED
    BY <2>1, StopsAtMark
<1> QED
  BY <1>1, <1>2, <1>3

(* What follows an opening parenthesis is no address if it is a bracket. *)
LEMMA NoAbsoluteAtBracket ==
  ASSUME NEW t \in Seq(Tokens), 1 \in 1 .. Len(t), t[1] = Open, 2 \in 1 .. Len(t),
         t[2] = LeftBracket
  PROVE  /\ Operand_Immediate(t, 1).at = 0 /\ Operand_RegisterDirect(t, 1).at = 0
         /\ Operand_Absolute(t, 1).at = 0 /\ Past(t, 1, Open) = 2
<1>1. ~ Is(t, 2, {Minus})
  BY IsThere, MarksAreApart
<1>2. AbsoluteValue(t, 2) = Fail
  BY <1>1, NoDatumAtMark DEF Marks
<1>3. Then(t, AbsoluteValue(t, 2), Close) = Fail
  BY <1>2, Failed, NothingAfterFailure
<1> QED
  BY <1>3, NoAbsoluteBefore

(* ([<displacement>,An],Xn,<outer displacement>), and with the PC. *)
LEMMA PostReads ==
  ASSUME NEW t \in Seq(Tokens), NEW v \in Long, NEW label \in OptionalLabel,
         label # NoLabel => v = ZeroLong, NEW n, NEW an, NEW x, NEW size \in Sizes,
         NEW scale, an = Raised \/ an = Clear, NEW od \in Long,
         t \in Text(Open) ** Text(LeftBracket) ** InnerOf(label, v, Clear, n) ** Text(RightBracket)
                 ** Text(Comma) ** IndexOf(an, x, size, scale) ** OuterOf(od) ** Text(Close)
  PROVE  parse_operand(t)
           = [status |-> "parsed",
              op |-> AddressOp(IF n = Null THEN "PC_MEM_INDIRECT_POST_INDEXED"
                               ELSE "MEMORY_INDIRECT_POST_INDEXED",
                               n, label, v, an, x, size, scale, od)]
<1> DEFINE ari == "MEMORY_INDIRECT_POST_INDEXED"
           rel == "PC_MEM_INDIRECT_POST_INDEXED"
           old == "UNKNOWN_MODE"
           end == Len(t) + 1
           D == InnerOf(label, v, Clear, n)
           X == IndexOf(an, x, size, scale)
           O == OuterOf(od)
<1>1. /\ InTokens(D) /\ InTokens(X) /\ InTokens(O) /\ InTokens(Text(RightBracket))
      /\ InTokens(Text(Open)) /\ InTokens(Text(LeftBracket)) /\ InTokens(Text(Comma))
      /\ InTokens(Text(Close))
  BY InnerInTokens, WholeIndexInTokens, OuterInTokens, MarkInTokens DEF Marks
<1>2. Spells(t, 1, end, Text(Open) ** Text(LeftBracket) ** D ** Text(RightBracket) ** Text(Comma)
                          ** X ** O ** Text(Close))
  BY SpellsAll
<1> HIDE DEF end, D, X, O
<1>3. PICK z : /\ Spells(t, 1, z, Text(Open) ** Text(LeftBracket) ** D ** Text(RightBracket)
                                    ** Text(Comma) ** X ** O)
               /\ Spells(t, z, end, Text(Close))
  BY <1>1, <1>2, JoinedInTokens, SpelledParts
<1>4. PICK w : /\ Spells(t, 1, w, Text(Open) ** Text(LeftBracket) ** D ** Text(RightBracket)
                                    ** Text(Comma) ** X)
               /\ Spells(t, w, z, O)
  BY <1>1, <1>3, JoinedInTokens, SpelledParts
<1>5. PICK u : /\ Spells(t, 1, u, Text(Open) ** Text(LeftBracket) ** D ** Text(RightBracket)
                                    ** Text(Comma))
               /\ Spells(t, u, w, X)
  BY <1>1, <1>4, JoinedInTokens, SpelledParts
<1>6. PICK s : /\ Spells(t, 1, s, Text(Open) ** Text(LeftBracket) ** D ** Text(RightBracket))
               /\ Spells(t, s, u, Text(Comma))
  BY <1>1, <1>5, JoinedInTokens, SpelledParts
<1>7. PICK r : /\ Spells(t, 1, r, Text(Open) ** Text(LeftBracket) ** D)
               /\ Spells(t, r, s, Text(RightBracket))
  BY <1>1, <1>6, JoinedInTokens, SpelledParts
<1>8. PICK q : Spells(t, 1, q, Text(Open) ** Text(LeftBracket)) /\ Spells(t, q, r, D)
  BY <1>1, <1>7, JoinedInTokens, SpelledParts
<1>9. PICK p : Spells(t, 1, p, Text(Open)) /\ Spells(t, p, q, Text(LeftBracket))
  BY <1>1, <1>8, SpelledParts
<1>10. /\ p = 2 /\ 1 \in 1 .. Len(t) /\ t[1] = Open /\ p \in 1 .. Len(t) /\ t[p] = LeftBracket
  BY <1>9, SpelledToken
<1>11. /\ Operand_Immediate(t, 1).at = 0 /\ Operand_RegisterDirect(t, 1).at = 0
       /\ Operand_Absolute(t, 1).at = 0 /\ Past(t, 1, Open) = p
  BY <1>10, NoAbsoluteAtBracket
<1>12. InnerBase(t, p) = Match(r, AddressOp(old, n, label, v, Clear, Null, NoLabel, 0, ZeroLong))
  BY <1>8, <1>9, InnerReads DEF D
<1>13. Inner_PostIndexed(t, p)
         = Match(s, AddressOp(old, n, label, v, Clear, Null, NoLabel, 0, ZeroLong))
  <2>1. Inner_PostIndexed(t, p) = Then(t, InnerBase(t, p), RightBracket)
    BY DEF Inner_PostIndexed, RightBracket
  <2> HIDE DEF old
  <2> QED
    BY <1>7, <1>12, <2>1, ThenReads
<1>14. Stops(t, w)
  BY <1>3, <1>4, StopsAtOuter DEF O
<1>15. Index(t, Match(s, AddressOp(old, n, label, v, Clear, Null, NoLabel, 0, ZeroLong)))
         = Match(w, AddressOp(old, n, label, v, an, x, size, scale, ZeroLong))
  BY <1>5, <1>6, <1>14, IndexAfterReads DEF X
<1>16. OuterEnd(t, Match(w, AddressOp(old, n, label, v, an, x, size, scale, ZeroLong)))
         = Match(end, AddressOp(old, n, label, v, an, x, size, scale, od))
  <2>1. Spells(t, w, end, O ** Text(Close))
    BY <1>3, <1>4, SpellsBoth
  <2> QED
    BY <2>1, OuterReads DEF O
<1>17. MemIndirect_Post_Rule(t, 1)
         = BaseMode(OuterEnd(t, Index(t, Inner_PostIndexed(t, Past(t, 1, Open)))), ari, rel)
  BY DEF MemIndirect_Post_Rule, Open
<1> HIDE DEF ari, rel
<1>18. MemIndirect_Post_Rule(t, 1)
         = BaseMode(Match(end, AddressOp(old, n, label, v, an, x, size, scale, od)), ari, rel)
  BY <1>11, <1>13, <1>15, <1>16, <1>17
<1> DEFINE m == MemIndirect_Post_Rule(t, 1)
<1>19. m.at # 0 => Operand_Indirect_Complex(t, 1) = m
  BY ComplexOrder
<1>20. m = BaseMode(Match(Len(t) + 1, AddressOp("UNKNOWN_MODE", n, label, v, an, x, size, scale, od)), ari, rel)
  BY <1>18 DEF end
<1> HIDE DEF m, old
<1>21. parse_operand(t)
         = [status |-> "parsed",
            op |-> AddressOp(IF n = Null THEN rel ELSE ari, n, label, v, an, x, size, scale, od)]
  BY <1>10, <1>11, <1>19, <1>20, BaseModeReads
<1> QED
  BY <1>21 DEF ari, rel

(* ([<displacement>,An,Xn],<outer displacement>), and with the PC. *)
LEMMA PreReads ==
  ASSUME NEW t \in Seq(Tokens), NEW v \in Long, NEW label \in OptionalLabel,
         label # NoLabel => v = ZeroLong, NEW n, NEW an, NEW x, NEW size \in Sizes,
         NEW scale, an = Raised \/ an = Clear, NEW od \in Long,
         t \in Text(Open) ** Text(LeftBracket) ** InnerOf(label, v, Clear, n) ** Text(Comma)
                 ** IndexOf(an, x, size, scale) ** Text(RightBracket) ** OuterOf(od) ** Text(Close)
  PROVE  parse_operand(t)
           = [status |-> "parsed",
              op |-> AddressOp(IF n = Null THEN "PC_MEM_INDIRECT_PRE_INDEXED"
                               ELSE "MEMORY_INDIRECT_PRE_INDEXED",
                               n, label, v, an, x, size, scale, od)]
<1> DEFINE ari == "MEMORY_INDIRECT_PRE_INDEXED"
           rel == "PC_MEM_INDIRECT_PRE_INDEXED"
           post == "MEMORY_INDIRECT_POST_INDEXED"
           pc_post == "PC_MEM_INDIRECT_POST_INDEXED"
           old == "UNKNOWN_MODE"
           end == Len(t) + 1
           D == InnerOf(label, v, Clear, n)
           X == IndexOf(an, x, size, scale)
           O == OuterOf(od)
<1>1. /\ InTokens(D) /\ InTokens(X) /\ InTokens(O) /\ InTokens(Text(RightBracket))
      /\ InTokens(Text(Open)) /\ InTokens(Text(LeftBracket)) /\ InTokens(Text(Comma))
      /\ InTokens(Text(Close))
  BY InnerInTokens, WholeIndexInTokens, OuterInTokens, MarkInTokens DEF Marks
<1>2. Spells(t, 1, end, Text(Open) ** Text(LeftBracket) ** D ** Text(Comma) ** X
                          ** Text(RightBracket) ** O ** Text(Close))
  BY SpellsAll
<1> HIDE DEF end, D, X, O
<1>3. PICK z : /\ Spells(t, 1, z, Text(Open) ** Text(LeftBracket) ** D ** Text(Comma) ** X
                                    ** Text(RightBracket) ** O)
               /\ Spells(t, z, end, Text(Close))
  BY <1>1, <1>2, JoinedInTokens, SpelledParts
<1>4. PICK w : /\ Spells(t, 1, w, Text(Open) ** Text(LeftBracket) ** D ** Text(Comma) ** X
                                    ** Text(RightBracket))
               /\ Spells(t, w, z, O)
  BY <1>1, <1>3, JoinedInTokens, SpelledParts
<1>5. PICK u : /\ Spells(t, 1, u, Text(Open) ** Text(LeftBracket) ** D ** Text(Comma) ** X)
               /\ Spells(t, u, w, Text(RightBracket))
  BY <1>1, <1>4, JoinedInTokens, SpelledParts
<1>6. PICK s : /\ Spells(t, 1, s, Text(Open) ** Text(LeftBracket) ** D ** Text(Comma))
               /\ Spells(t, s, u, X)
  BY <1>1, <1>5, JoinedInTokens, SpelledParts
<1>7. PICK r : /\ Spells(t, 1, r, Text(Open) ** Text(LeftBracket) ** D)
               /\ Spells(t, r, s, Text(Comma))
  BY <1>1, <1>6, JoinedInTokens, SpelledParts
<1>8. PICK q : Spells(t, 1, q, Text(Open) ** Text(LeftBracket)) /\ Spells(t, q, r, D)
  BY <1>1, <1>7, JoinedInTokens, SpelledParts
<1>9. PICK p : Spells(t, 1, p, Text(Open)) /\ Spells(t, p, q, Text(LeftBracket))
  BY <1>1, <1>8, SpelledParts
<1>10. /\ p = 2 /\ 1 \in 1 .. Len(t) /\ t[1] = Open /\ p \in 1 .. Len(t) /\ t[p] = LeftBracket
  BY <1>9, SpelledToken
<1>11. /\ Operand_Immediate(t, 1).at = 0 /\ Operand_RegisterDirect(t, 1).at = 0
       /\ Operand_Absolute(t, 1).at = 0 /\ Past(t, 1, Open) = p
  BY <1>10, NoAbsoluteAtBracket
<1>12. InnerBase(t, p) = Match(r, AddressOp(old, n, label, v, Clear, Null, NoLabel, 0, ZeroLong))
  BY <1>8, <1>9, InnerReads DEF D
<1>13. Stops(t, u) /\ r \in 1 .. Len(t) /\ t[r] = Comma
  BY <1>5, <1>7, StopsAtMark
<1>14. MemIndirect_Post_Rule(t, 1).at = 0
  <2>1. Inner_PostIndexed(t, p) = Then(t, InnerBase(t, p), RightBracket)
    BY DEF Inner_PostIndexed, RightBracket
  <2>2. ~ Is(t, r, {RightBracket})
    BY <1>13, IsThere, MarksAreApart
  <2> HIDE DEF old
  <2>3. Inner_PostIndexed(t, p) = Fail
    BY <1>12, <2>1, <2>2, ThenMisses
  <2>4. OuterEnd(t, Index(t, Fail)) = Fail
    BY Failed, NothingAfterFailure
  <2>5. MemIndirect_Post_Rule(t, 1)
          = BaseMode(OuterEnd(t, Index(t, Inner_PostIndexed(t, Past(t, 1, Open)))), post, pc_post)
    BY DEF MemIndirect_Post_Rule, Open
  <2> HIDE DEF post, pc_post
  <2> QED
    BY <1>11, <2>3, <2>4, <2>5, NoBaseMode
<1>15. Index(t, Match(r, AddressOp(old, n, label, v, Clear, Null, NoLabel, 0, ZeroLong)))
         = Match(u, AddressOp(old, n, label, v, an, x, size, scale, ZeroLong))
  BY <1>6, <1>7, <1>13, IndexAfterReads DEF X
<1>16. Inner_PreIndexed(t, p) = Match(w, AddressOp(old, n, label, v, an, x, size, scale, ZeroLong))
  <2>1. Inner_PreIndexed(t, p) = Then(t, Index(t, InnerBase(t, p)), RightBracket)
    BY DEF Inner_PreIndexed, RightBracket
  <2> HIDE DEF old
  <2> QED
    BY <1>5, <1>12, <1>15, <2>1, ThenReads
<1>17. OuterEnd(t, Match(w, AddressOp(old, n, label, v, an, x, size, scale, ZeroLong)))
         = Match(end, AddressOp(old, n, label, v, an, x, size, scale, od))
  <2>1. Spells(t, w, end, O ** Text(Close))
    BY <1>3, <1>4, SpellsBoth
  <2> QED
    BY <2>1, OuterReads DEF O
<1>18. MemIndirect_Pre_Rule(t, 1)
         = BaseMode(OuterEnd(t, Inner_PreIndexed(t, Past(t, 1, Open))), ari, rel)
  BY DEF MemIndirect_Pre_Rule, Open
<1> HIDE DEF ari, rel, post, pc_post
<1>19. MemIndirect_Pre_Rule(t, 1)
         = BaseMode(Match(end, AddressOp(old, n, label, v, an, x, size, scale, od)), ari, rel)
  BY <1>11, <1>16, <1>17, <1>18
<1> DEFINE m == MemIndirect_Pre_Rule(t, 1)
<1>20. m.at # 0 => Operand_Indirect_Complex(t, 1) = m
  BY <1>14, ComplexOrder
<1>21. m = BaseMode(Match(Len(t) + 1, AddressOp("UNKNOWN_MODE", n, label, v, an, x, size, scale, od)), ari, rel)
  BY <1>19 DEF end
<1> HIDE DEF m, old
<1>22. parse_operand(t)
         = [status |-> "parsed",
            op |-> AddressOp(IF n = Null THEN rel ELSE ari, n, label, v, an, x, size, scale, od)]
  BY <1>10, <1>11, <1>20, <1>21, BaseModeReads
<1> QED
  BY <1>22 DEF ari, rel

-----------------------------------------------------------------------------
(* An operand that is written is what its mode says: a field that the mode does *)
(* not use is as create_operand left it.                                     *)
LEMMA ModesAreApart ==
  /\ \A m \in DatumModes :
       m \notin RegisterModes /\ m \notin DisplacedModes /\ m \notin IndexedModes /\ m \notin MemoryModes
  /\ \A m \in RegisterModes :
       m \notin DatumModes /\ m \notin PcModes /\ m \notin DisplacedModes /\ m \notin IndexedModes
         /\ m \notin MemoryModes
  /\ \A m \in DisplacedModes : m \notin DatumModes /\ m \notin RegisterModes
  /\ IndexedModes \subseteq DisplacedModes /\ MemoryModes \subseteq IndexedModes
  BY DEF DatumModes, RegisterModes, DisplacedModes, IndexedModes, MemoryModes, PcModes

(* An operand is made of its fields. *)
LEMMA MadeOperand ==
  ASSUME NEW op \in OperandType
  PROVE  op = Made(op.mode, op.reg_num, op.value, op.label, op.is_pc_relative_label,
                   op.index_is_an, op.index_reg_num, op.index_size, op.scale,
                   op.base_displacement, op.outer_displacement)
  BY DEF OperandType, Made

(* What is known of the fields of an operand that is written. *)
LEMMA OperandFields ==
  ASSUME NEW op \in Operands
  PROVE  /\ op \in OperandType
         /\ op.value \in Long /\ op.base_displacement \in Long /\ op.outer_displacement \in Long
         /\ op.label \in OptionalLabel
         /\ op.label # NoLabel => op.value = ZeroLong /\ op.base_displacement = ZeroLong
         /\ op.index_is_an = Raised \/ op.index_is_an = Clear
         /\ op.is_pc_relative_label = Raised \/ op.is_pc_relative_label = Clear
<1>1. op \in OperandType /\ (op.label # NoLabel => op.value = ZeroLong /\ op.base_displacement = ZeroLong)
  BY OperandsAssumption
<1> QED
  BY <1>1 DEF OperandType, OptionalLabel, Raised, Clear

(* An immediate or an absolute address, ... *)
LEMMA DatumOperand ==
  ASSUME NEW op \in Operands, op.mode \in DatumModes
  PROVE  op = PlacedOp(op.mode, op.value, op.label) /\ DatumText(op) = DatumOf(op.value, op.label)
<1>1. op = Made(op.mode, op.reg_num, op.value, op.label, op.is_pc_relative_label,
                op.index_is_an, op.index_reg_num, op.index_size, op.scale,
                op.base_displacement, op.outer_displacement)
  BY OperandFields, MadeOperand
<1>2. op.mode \notin DisplacedModes /\ op.mode \notin IndexedModes /\ op.mode \notin MemoryModes
  BY ModesAreApart
<1>3. op.reg_num = Null /\ op.base_displacement = ZeroLong /\ op.outer_displacement = ZeroLong
  BY <1>2, OperandsAssumption
<1>4. op.index_reg_num = Null /\ op.index_size = NoLabel /\ ~ op.index_is_an /\ op.scale = 0
  BY <1>2, OperandsAssumption DEF NoLabel
<1>5. ~ op.is_pc_relative_label
  BY <1>2, OperandsAssumption
<1>6. op.index_is_an = Clear /\ op.is_pc_relative_label = Clear
  BY <1>4, <1>5, OperandFields DEF Raised
<1>7. DatumText(op) = DatumOf(op.value, op.label)
  BY DEF DatumText, DatumOf
<1> QED
  BY <1>1, <1>3, <1>4, <1>6, <1>7 DEF PlacedOp

(* ... a register, in parentheses or not, ... *)
LEMMA RegisterOperand ==
  ASSUME NEW op \in Operands, op.mode \in RegisterModes
  PROVE  /\ op = IndirectOp(op.mode, op.reg_num)
         /\ BaseText(op) = Named(AnToken, op.reg_num)
<1>1. op = Made(op.mode, op.reg_num, op.value, op.label, op.is_pc_relative_label,
                op.index_is_an, op.index_reg_num, op.index_size, op.scale,
                op.base_displacement, op.outer_displacement)
  BY OperandFields, MadeOperand
<1>2. /\ op.mode \notin DisplacedModes /\ op.mode \notin IndexedModes /\ op.mode \notin MemoryModes
      /\ op.mode \notin DatumModes /\ op.mode \notin PcModes
  BY ModesAreApart
<1>3. /\ op.reg_num # Null /\ op.base_displacement = ZeroLong /\ op.outer_displacement = ZeroLong
      /\ op.value = ZeroLong /\ op.label = NoLabel
  BY <1>2, OperandsAssumption
<1>4. op.index_reg_num = Null /\ op.index_size = NoLabel /\ ~ op.index_is_an /\ op.scale = 0
  BY <1>2, OperandsAssumption DEF NoLabel
<1>5. ~ op.is_pc_relative_label
  BY <1>2, OperandsAssumption
<1>6. op.index_is_an = Clear /\ op.is_pc_relative_label = Clear
  BY <1>4, <1>5, OperandFields DEF Raised
<1>7. BaseText(op) = Named(AnToken, op.reg_num)
  BY <1>3 DEF BaseText
<1> QED
  BY <1>1, <1>3, <1>4, <1>6, <1>7 DEF IndirectOp, AddressOp

(* ... and an address with an index, by their parts. *)
LEMMA IndexedOperand ==
  ASSUME NEW op \in Operands, op.mode \in IndexedModes, ~ op.is_pc_relative_label
  PROVE  /\ op = AddressOp(op.mode, op.reg_num, op.label, op.base_displacement, op.index_is_an,
                           op.index_reg_num, op.index_size, op.scale, op.outer_displacement)
         /\ op.index_size \in Sizes
         /\ op.mode \notin MemoryModes => op.outer_displacement = ZeroLong
         /\ op.reg_num = Null <=> op.mode \in PcModes
         /\ DisplacementText(op) = DatumOf(op.base_displacement, op.label)
         /\ BaseText(op) = BaseOf(op.reg_num)
         /\ IndexText(op) = IndexOf(op.index_is_an, op.index_reg_num, op.index_size, op.scale)
         /\ OuterText(op) = OuterOf(op.outer_displacement)
         /\ InnerText(op) = InnerOf(op.label, op.base_displacement, Clear, op.reg_num)
<1>1. op = Made(op.mode, op.reg_num, op.value, op.label, op.is_pc_relative_label,
                op.index_is_an, op.index_reg_num, op.index_size, op.scale,
                op.base_displacement, op.outer_displacement)
  BY OperandFields, MadeOperand
<1>2. op.mode \notin DatumModes
  BY ModesAreApart
<1>3. /\ op.value = ZeroLong /\ op.index_size \in Sizes
      /\ op.mode \notin MemoryModes => op.outer_displacement = ZeroLong
      /\ op.reg_num = Null <=> op.mode \in PcModes
  BY <1>2, OperandsAssumption
<1>4. op.is_pc_relative_label = Clear
  BY OperandFields DEF Raised
<1>5. Clear \in BOOLEAN /\ op.index_is_an \in BOOLEAN
  BY OperandFields DEF Clear, Raised
<1>6. /\ DisplacementText(op) = DispText(op.label, op.base_displacement, Clear)
      /\ BaseText(op) = BaseOf(op.reg_num)
      /\ IndexText(op) = IndexOf(op.index_is_an, op.index_reg_num, op.index_size, op.scale)
      /\ OuterText(op) = OuterOf(op.outer_displacement)
      /\ InnerText(op) = InnerOf(op.label, op.base_displacement, Clear, op.reg_num)
  BY <1>4, <1>5, PartsOf
<1>7. DispText(op.label, op.base_displacement, Clear) = DatumOf(op.base_displacement, op.label)
  BY DEF DispText, DatumOf, Clear, Raised
<1>8. op = AddressOp(op.mode, op.reg_num, op.label, op.base_displacement, op.index_is_an,
                     op.index_reg_num, op.index_size, op.scale, op.outer_displacement)
  BY <1>1, <1>3, <1>4 DEF AddressOp
<1> QED
  BY <1>3, <1>6, <1>7, <1>8

(* What is written of an operand of a mode that no earlier choice shadows is  *)
(* read as that operand: an immediate, an address or a register, ...         *)
LEMMA DirectIsRead ==
  ASSUME NEW op \in Operands, NEW t \in Notation(op), op.mode \in DatumModes \cup
           {"DATA_REGISTER_DIRECT", "ADDRESS_REGISTER_DIRECT", "ARI_PRE_DECREMENT"}
  PROVE  parse_operand(t) = [status |-> "parsed", op |-> op]
<1> DEFINE immediate == "IMMEDIATE"
           short == "ABSOLUTE_SHORT"
           long == "ABSOLUTE_LONG"
           data == "DATA_REGISTER_DIRECT"
           address == "ADDRESS_REGISTER_DIRECT"
           pre == "ARI_PRE_DECREMENT"
           parsed == "parsed"
           D == DatumOf(op.value, op.label)
<1>1. t \in Seq(Tokens)
  BY NotationInTokens DEF InTokens
<1>2. /\ op.value \in Long /\ op.label \in OptionalLabel
      /\ op.label # NoLabel => op.value = ZeroLong
  BY OperandFields
<1>3. /\ op.mode = immediate => Notation(op) = Text(Hash) ** DatumText(op)
      /\ op.mode = short =>
           Notation(op) = (DatumText(op) \cup (Text(Open) ** DatumText(op) ** Text(Close)))
                            ** (NoText \cup {<<Dot, WordSize>>})
      /\ op.mode = long =>
           Notation(op) = (DatumText(op) \cup (Text(Open) ** DatumText(op) ** Text(Close)))
                            ** {<<Dot, LongSize>>}
      /\ op.mode = data => Notation(op) = Named(DnToken, op.reg_num)
      /\ op.mode = address => Notation(op) = Named(AnToken, op.reg_num)
      /\ op.mode = pre => Notation(op) = Text(Minus) ** Text(Open) ** BaseText(op) ** Text(Close)
  BY DirectNotation, IndirectNotation DEF Hash, Open, Close, Dot, WordSize, LongSize, Minus
<1>4. D \cup (Text(Open) ** D ** Text(Close)) = FormOf(op.value, op.label)
  BY DEF FormOf, Open, Close
<1>5. /\ immediate \in DatumModes /\ short \in DatumModes /\ long \in DatumModes
      /\ data \in RegisterModes /\ address \in RegisterModes /\ pre \in RegisterModes
  BY DEF DatumModes, RegisterModes
<1>6. op.mode \in {immediate, short, long, data, address, pre}
  BY DEF DatumModes
<1>7. /\ t \in Text(Hash) ** D =>
           parse_operand(t) = [status |-> parsed, op |-> PlacedOp(immediate, op.value, op.label)]
      /\ t \in FormOf(op.value, op.label) ** (NoText \cup {<<Dot, WordSize>>}) =>
           parse_operand(t) = [status |-> parsed, op |-> PlacedOp(short, op.value, op.label)]
      /\ t \in FormOf(op.value, op.label) ** {<<Dot, LongSize>>} =>
           parse_operand(t) = [status |-> parsed, op |-> PlacedOp(long, op.value, op.label)]
  BY <1>1, <1>2, ImmediateReads, AbsoluteReads
<1>8. /\ t \in Named(DnToken, op.reg_num) =>
           parse_operand(t) = [status |-> parsed, op |-> IndirectOp(data, op.reg_num)]
      /\ t \in Named(AnToken, op.reg_num) =>
           parse_operand(t) = [status |-> parsed, op |-> IndirectOp(address, op.reg_num)]
      /\ t \in Text(Minus) ** Text(Open) ** Named(AnToken, op.reg_num) ** Text(Close) =>
           parse_operand(t) = [status |-> parsed, op |-> IndirectOp(pre, op.reg_num)]
  BY <1>1, RegisterReads, PreDecrementReads
<1> HIDE DEF immediate, short, long, data, address, pre, parsed
<1>9. op.mode \in DatumModes => op = PlacedOp(op.mode, op.value, op.label) /\ DatumText(op) = D
  BY DatumOperand
<1>10. op.mode \in RegisterModes =>
         op = IndirectOp(op.mode, op.reg_num) /\ BaseText(op) = Named(AnToken, op.reg_num)
  BY RegisterOperand
<1> HIDE DEF D
<1>11. parse_operand(t) = [status |-> parsed, op |-> op]
  BY <1>3, <1>4, <1>5, <1>6, <1>7, <1>8, <1>9, <1>10
<1> QED
  BY <1>11 DEF parsed

(* ... or an address with an index. *)
LEMMA IndexedIsRead ==
  ASSUME NEW op \in Operands, NEW t \in Notation(op), ~ op.is_pc_relative_label,
         op.mode \in MemoryModes \cup {"ARI_INDEX_BASE_DISP", "PC_INDEX_BASE_DISP"}
  PROVE  parse_operand(t) = [status |-> "parsed", op |-> op]
<1> DEFINE post == "MEMORY_INDIRECT_POST_INDEXED"
           pc_post == "PC_MEM_INDIRECT_POST_INDEXED"
           pre == "MEMORY_INDIRECT_PRE_INDEXED"
           pc_pre == "PC_MEM_INDIRECT_PRE_INDEXED"
           ari == "ARI_INDEX_BASE_DISP"
           rel == "PC_INDEX_BASE_DISP"
           parsed == "parsed"
           n == op.reg_num
           v == op.base_displacement
           label == op.label
           an == op.index_is_an
           x == op.index_reg_num
           size == op.index_size
           scale == op.scale
           od == op.outer_displacement
           D == InnerOf(label, v, Clear, n)
           X == IndexOf(an, x, size, scale)
<1>1. t \in Seq(Tokens)
  BY NotationInTokens DEF InTokens
<1>2. op.mode \in IndexedModes
  BY DEF IndexedModes
<1>3. /\ v \in Long /\ od \in Long /\ label \in OptionalLabel /\ size \in Sizes
      /\ label # NoLabel => v = ZeroLong
      /\ an = Raised \/ an = Clear
  BY <1>2, OperandFields, IndexedOperand
<1>4. /\ op.mode \in {post, pc_post} =>
           Notation(op) = Text(Open) ** Text(LeftBracket) ** InnerText(op) ** Text(RightBracket)
                            ** Text(Comma) ** IndexText(op) ** OuterText(op) ** Text(Close)
      /\ op.mode \in {pre, pc_pre} =>
           Notation(op) = Text(Open) ** Text(LeftBracket) ** InnerText(op) ** Text(Comma)
                            ** IndexText(op) ** Text(RightBracket) ** OuterText(op) ** Text(Close)
      /\ op.mode \in {ari, rel} =>
           Notation(op) = Text(Open) ** DisplacementText(op) ** Text(Comma) ** BaseText(op)
                            ** Text(Comma) ** IndexText(op) ** Text(Close)
  BY MemoryNotation, IndexedNotation DEF Open, Close, LeftBracket, RightBracket, Comma
<1>5. op.mode \in {post, pc_post, pre, pc_pre, ari, rel}
  BY DEF MemoryModes
<1>6. /\ op.mode \in {post, pre, ari} => op.mode \notin PcModes
      /\ op.mode \in {pc_post, pc_pre, rel} => op.mode \in PcModes
      /\ op.mode \in {ari, rel} => op.mode \notin MemoryModes
  BY DEF PcModes, MemoryModes
<1>7. /\ op = AddressOp(op.mode, n, label, v, an, x, size, scale, od)
      /\ op.mode \notin MemoryModes => od = ZeroLong
      /\ n = Null <=> op.mode \in PcModes
      /\ DisplacementText(op) = DatumOf(v, label) /\ BaseText(op) = BaseOf(n)
      /\ IndexText(op) = X /\ OuterText(op) = OuterOf(od) /\ InnerText(op) = D
  BY <1>2, IndexedOperand
<1> HIDE DEF n, v, label, an, x, size, scale, od
<1>8. /\ t \in Text(Open) ** Text(LeftBracket) ** D ** Text(RightBracket)
                 ** Text(Comma) ** X ** OuterOf(od) ** Text(Close) =>
           parse_operand(t) = [status |-> parsed, op |->
             AddressOp(IF n = Null THEN pc_post ELSE post, n, label, v, an, x, size, scale, od)]
      /\ t \in Text(Open) ** Text(LeftBracket) ** D ** Text(Comma)
                 ** X ** Text(RightBracket) ** OuterOf(od) ** Text(Close) =>
           parse_operand(t) = [status |-> parsed, op |->
             AddressOp(IF n = Null THEN pc_pre ELSE pre, n, label, v, an, x, size, scale, od)]
      /\ t \in Text(Open) ** DatumOf(v, label) ** Text(Comma) ** BaseOf(n) ** Text(Comma)
                 ** X ** Text(Close) =>
           parse_operand(t) = [status |-> parsed, op |->
             AddressOp(IF n = Null THEN rel ELSE ari, n, label, v, an, x, size, scale, ZeroLong)]
  <2>1. ASSUME t \in Text(Open) ** Text(LeftBracket) ** D ** Text(RightBracket)
                        ** Text(Comma) ** X ** OuterOf(od) ** Text(Close)
        PROVE  parse_operand(t) = [status |-> parsed, op |->
                 AddressOp(IF n = Null THEN pc_post ELSE post, n, label, v, an, x, size, scale, od)]
    BY <1>1, <1>3, <2>1, PostReads
  <2>2. ASSUME t \in Text(Open) ** Text(LeftBracket) ** D ** Text(Comma)
                        ** X ** Text(RightBracket) ** OuterOf(od) ** Text(Close)
        PROVE  parse_operand(t) = [status |-> parsed, op |->
                 AddressOp(IF n = Null THEN pc_pre ELSE pre, n, label, v, an, x, size, scale, od)]
    BY <1>1, <1>3, <2>2, PreReads
  <2>3. ASSUME t \in Text(Open) ** DatumOf(v, label) ** Text(Comma) ** BaseOf(n) ** Text(Comma)
                        ** X ** Text(Close)
        PROVE  parse_operand(t) = [status |-> parsed, op |->
                 AddressOp(IF n = Null THEN rel ELSE ari, n, label, v, an, x, size, scale, ZeroLong)]
    BY <1>1, <1>3, <2>3, BaseDispReads, SMTT(60)
  <2> QED
    BY <2>1, <2>2, <2>3
<1> HIDE DEF post, pc_post, pre, pc_pre, ari, rel, parsed, D, X
<1>9. CASE op.mode \in {post, pc_post}
  <2>1. op.mode = IF n = Null THEN pc_post ELSE post
    BY <1>6, <1>7, <1>9
  <2>2. parse_operand(t) = [status |-> parsed, op |-> op]
    BY <1>4, <1>7, <1>8, <1>9, <2>1
  <2> QED
    BY <2>2 DEF parsed
<1>10. CASE op.mode \in {pre, pc_pre}
  <2>1. op.mode = IF n = Null THEN pc_pre ELSE pre
    BY <1>6, <1>7, <1>10
  <2>2. parse_operand(t) = [status |-> parsed, op |-> op]
    BY <1>4, <1>7, <1>8, <1>10, <2>1
  <2> QED
    BY <2>2 DEF parsed
<1>11. CASE op.mode \in {ari, rel}
  <2>1. op.mode = (IF n = Null THEN rel ELSE ari) /\ od = ZeroLong
    BY <1>6, <1>7, <1>11
  <2>2. parse_operand(t) = [status |-> parsed, op |-> op]
    BY <1>4, <1>7, <1>8, <1>11, <2>1
  <2> QED
    BY <2>2 DEF parsed
<1> QED
  BY <1>5, <1>9, <1>10, <1>11

(* What is written, and not slipped in, is a notation of what is meant. *)
Meant ==
  /\ Answered
  /\ meant # Unknown => meant \in Operands /\ text \in Notation(meant)

(* It is at first, ... *)
LEMMA InitMeant == Init => Meant
<1> SUFFICES ASSUME Init PROVE Meant
  OBVIOUS
<1>1. Answered
  BY InitAnswered
<1> QED
  BY <1>1 DEF Init, Meant

(* ... after every step, ... *)
LEMMA NextMeant == Meant /\ [Next]_vars => Meant'
<1> SUFFICES ASSUME Meant, [Next]_vars PROVE Meant'
  OBVIOUS
<1>1. Answered'
  BY NextAnswered DEF Meant
<1>2. Unknown' = Unknown
  BY DEF Unknown, create_operand
<1>3. CASE Slip
  <2>1. meant' = Unknown
    BY <1>3 DEF Slip
  <2> QED
    BY <1>1, <1>2, <2>1 DEF Meant
<1>4. CASE Read
  <2>1. text' = text /\ meant' = meant
    BY <1>4 DEF Read
  <2> QED
    BY <1>1, <1>2, <2>1 DEF Meant
<1>5. CASE UNCHANGED vars
  <2>1. text' = text /\ meant' = meant
    BY <1>5 DEF vars
  <2> QED
    BY <1>1, <1>2, <2>1 DEF Meant
<1> QED
  BY <1>3, <1>4, <1>5 DEF Next

(* ... and so it is read as the operand that was meant. *)
LEMMA MeantIsRead == Meant => ReadsWhatWasWritten
<1> SUFFICES ASSUME Meant, WasRead, Written, meant.mode \notin Shadowed, ~ meant.is_pc_relative_label
             PROVE  answer = [status |-> "parsed", op |-> meant]
  BY DEF ReadsWhatWasWritten
<1>1. meant \in Operands /\ text \in Notation(meant) /\ answer = parse_operand(text)
  BY DEF Meant, Written, WasRead, Answered
<1>2. meant.mode \in Modes
  BY <1>1, OperandParts
<1>3. \/ meant.mode \in DatumModes \cup
           {"DATA_REGISTER_DIRECT", "ADDRESS_REGISTER_DIRECT", "ARI_PRE_DECREMENT"}
      \/ meant.mode \in MemoryModes \cup {"ARI_INDEX_BASE_DISP", "PC_INDEX_BASE_DISP"}
  BY <1>2 DEF Modes, Shadowed, DatumModes, RegisterModes, DisplacedModes, IndexedModes, MemoryModes
<1> QED
  BY <1>1, <1>3, DirectIsRead, IndexedIsRead

(* Whatever the operands and the names, a text that was written for an operand *)
(* of a mode that no earlier choice shadows is read as that operand.          *)
THEOREM NotationsAreRead == Spec => []ReadsWhatWasWritten
<1>1. Init => Meant
  BY InitMeant
<1>2. Meant /\ [Next]_vars => Meant'
  BY NextMeant
<1>3. Meant => ReadsWhatWasWritten
  BY MeantIsRead
<1> QED
  BY <1>1, <1>2, <1>3, PTL DEF Spec
==============================================================================
