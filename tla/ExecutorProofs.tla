--------------------------- MODULE ExecutorProofs ---------------------------
(***************************************************************************)
(* Whatever program runs, an instruction does what its name says.  The     *)
(* sections show, in this order: every operator of Executor returns what its*)
(* callers need, so that the registers keep their widths and the memory the*)
(* invariant of MemoryProofs; an instruction changes only the flags and the*)
(* register it is said to change; the program counter follows the words an *)
(* instruction has; the stack pointer stays even; a MOVE stores one operand*)
(* of its size and what is stored is loaded back; the flags tell how an    *)
(* operation changed its register.  Each section ends in a theorem that has*)
(* one step for each action.                                               *)
(***************************************************************************)
EXTENDS Executor, MemoryProofs, WordProofs, TLAPS

(* What the registers hold, and that assigning one leaves registers. *)
LEMMA CpuParts ==
  ASSUME NEW c \in CPU
  PROVE  /\ c.pc \in Long /\ c.sr \in StatusRegister
         /\ c.d \in [RegisterNumber -> Long] /\ c.a \in [RegisterNumber -> Long]
         /\ \A r \in RegisterNumber : c.d[r] \in Long /\ c.a[r] \in Long
  BY DEF CPU

(* The program counter may be any long, ... *)
LEMMA SetPc ==
  ASSUME NEW c \in CPU, NEW x \in Long
  PROVE  [c EXCEPT !.pc = x] \in CPU
  BY DEF CPU

(* ... the flags any set of bits, ... *)
LEMMA SetSr ==
  ASSUME NEW c \in CPU, NEW s \in StatusRegister
  PROVE  [c EXCEPT !.sr = s] \in CPU
  BY DEF CPU

(* ... a data register any long, ... *)
LEMMA SetD ==
  ASSUME NEW c \in CPU, NEW r \in RegisterNumber, NEW x \in Long
  PROVE  [c EXCEPT !.d[r] = x] \in CPU
  BY DEF CPU

(* ... and so may an address register. *)
LEMMA SetA ==
  ASSUME NEW c \in CPU, NEW r \in RegisterNumber, NEW x \in Long
  PROVE  [c EXCEPT !.a[r] = x] \in CPU
  BY DEF CPU

(* An address is reduced into the memory, and what is read there fits. *)
LEMMA IndexType ==
  ASSUME NEW x \in Long
  PROVE  Index(x) \in Nat
<1> DEFINE scale == 65536 % MEMORY_SIZE
           sum == x.hi * scale + x.lo
<1>1. scale \in Nat
  BY MemoryAssumption, SMT
<1>2. x.hi \in Nat /\ x.lo \in Nat
  BY SMT, LongParts
<1> HIDE DEF scale
<1>3. sum \in Nat
  BY SMT, <1>1, <1>2
<1> HIDE DEF sum
<1>4. sum % MEMORY_SIZE \in Nat
  BY <1>3, MemoryAssumption, SMT
<1> QED
  BY <1>4 DEF Index, sum, scale

(* A byte read is a byte, at any address, ... *)
LEMMA ReadByteType ==
  ASSUME NEW m \in MemoryState, NEW a \in Nat
  PROVE  mem_read_byte(m, a) \in Byte
<1>1. a % MEMORY_SIZE \in Cell
  BY SMT, MemoryAssumption DEF Cell
<1>2. m.memory \in [Cell -> Byte]
  BY DEF MemoryState
<1> QED
  BY <1>1, <1>2 DEF mem_read_byte

(* ... two of them are a word, ... *)
LEMMA ReadWordType ==
  ASSUME NEW m \in MemoryState, NEW a \in Nat
  PROVE  mem_read_word(m, a) \in Word
<1> DEFINE h == mem_read_byte(m, a)
           l == mem_read_byte(m, a + 1)
<1>1. h \in Byte /\ l \in Byte
  BY ReadByteType
<1> HIDE DEF h, l
<1>2. 256 * h + l \in Int /\ 0 <= 256 * h + l /\ 256 * h + l < 65536
  BY SMT, <1>1 DEF Byte
<1>3. 256 * h + l \in Word
  BY <1>2, BoundedWord
<1> QED
  BY <1>3 DEF mem_read_word, h, l

(* ... and so are the reads at an address or at the program counter. *)
LEMMA ReadTypes ==
  ASSUME NEW m \in MemoryState, NEW x \in Long
  PROVE  ByteAt(m, x) \in Byte /\ WordAt(m, x) \in Word /\ LongAt(m, x) \in Long
<1>1. Index(x) \in Nat /\ Index(x) + 2 \in Nat
  BY IndexType, SMT
<1>2. /\ mem_read_byte(m, Index(x)) \in Byte
      /\ mem_read_word(m, Index(x)) \in Word
      /\ mem_read_word(m, Index(x) + 2) \in Word
  BY <1>1, ReadByteType, ReadWordType
<1> QED
  BY <1>2, LongPair DEF ByteAt, WordAt, LongAt, mem_read_long

(* The program counter goes on by words. *)
LEMMA AdvanceType ==
  ASSUME NEW c \in CPU, NEW n \in {2, 4}
  PROVE  Advance(c, n) \in CPU
<1>1. n \in Word
  BY SMT, BoundedWord
<1>2. AddLong(c.pc, FromWord(n)) \in Long
  BY <1>1, CpuParts, FromWordType, AddLongType
<1> QED
  BY <1>2, SetPc DEF Advance

-----------------------------------------------------------------------------
(* An address with registers, a value with registers. *)
IsAt(at) == at.cpu \in CPU /\ at.address \in Long
IsRead(read) == read.cpu \in CPU /\ read.value \in Long

(* The parts of the pairs that At and Read make. *)
LEMMA Pairs ==
  ASSUME NEW c \in CPU, NEW x \in Long
  PROVE  /\ IsAt(At(c, x)) /\ At(c, x).cpu = c /\ At(c, x).address = x
         /\ IsRead(Read(c, x)) /\ Read(c, x).cpu = c /\ Read(c, x).value = x
  BY DEF IsAt, IsRead, At, Read

(* The index register, extended or not. *)
LEMMA IndexValueType ==
  ASSUME NEW c \in CPU, NEW w \in Word
  PROVE  index_value(c, w) \in Long
<1> DEFINE reg == Field(w, 12, 3)
           val == IF Bit(w, 15) = 1 THEN c.a[reg] ELSE c.d[reg]
<1>1. reg \in RegisterNumber
  BY SMT, WordBounds, FieldTypes DEF RegisterNumber
<1> HIDE DEF reg
<1>2. val \in Long
  BY <1>1, CpuParts
<1>3. val.lo \in Word
  BY <1>2 DEF Long
<1>4. index_value(c, w) = IF Bit(w, 11) = 1 THEN val ELSE SignExtendWord(val.lo)
  BY DEF index_value, reg
<1> HIDE DEF val
<1> QED
  BY <1>2, <1>3, <1>4, SignExtendType

(* A displacement of any number of words, with the registers it leaves. *)
LEMMA DisplacementType ==
  ASSUME NEW c \in CPU, NEW m \in MemoryState, NEW words
  PROVE  IsRead(displacement(c, m, words))
<1>1. WordAt(m, c.pc) \in Word /\ LongAt(m, c.pc) \in Long
  BY CpuParts, ReadTypes
<1>2. Advance(c, 2) \in CPU /\ Advance(c, 4) \in CPU
  BY AdvanceType
<1>3. SignExtendWord(WordAt(m, c.pc)) \in Long /\ ZeroLong \in Long
  BY <1>1, SignExtendType, ZeroLongType
<1> QED
  BY <1>1, <1>2, <1>3, Pairs DEF displacement

(* The full format of an extension word, through memory or not. *)
LEMMA FullFormatType ==
  ASSUME NEW c \in CPU, NEW m \in MemoryState, NEW b \in Long, NEW w \in Word
  PROVE  IsAt(resolve_full_format_ea(c, m, b, w))
<1> DEFINE iis   == Field(w, 0, 3)
           base  == displacement(c, m, base_words(w))
           index == ShiftLong(index_value(c, w), Field(w, 9, 2))
           temp  == AddLong(b, base.value)
           final == IF iis \in {1, 2, 3} THEN LongAt(m, AddLong(temp, index))
                    ELSE IF iis \in {5, 6, 7} THEN AddLong(LongAt(m, temp), index)
                    ELSE AddLong(temp, index)
           outer == displacement(base.cpu, m, outer_words(iis))
<1>1. IsRead(base)
  BY DisplacementType
<1>2. index \in Long
  <2>1. index_value(c, w) \in Long /\ Field(w, 9, 2) \in 0 .. 3
    BY WordBounds, IndexValueType, FieldTypes
  <2> QED
    BY <2>1, ShiftLongType
<1> HIDE DEF base, index
<1>3. temp \in Long
  BY <1>1, AddLongType DEF IsRead
<1> HIDE DEF temp
<1>4. final \in Long
  <2>1. AddLong(temp, index) \in Long /\ LongAt(m, temp) \in Long
    BY <1>2, <1>3, AddLongType, ReadTypes
  <2>2. LongAt(m, AddLong(temp, index)) \in Long /\ AddLong(LongAt(m, temp), index) \in Long
    BY <1>2, <2>1, AddLongType, ReadTypes
  <2> QED
    BY <2>1, <2>2
<1>5. IsRead(outer)
  BY <1>1, DisplacementType DEF IsRead
<1>6. resolve_full_format_ea(c, m, b, w) = At(outer.cpu, AddLong(final, outer.value))
  BY Zenon DEF resolve_full_format_ea, temp, base, index
<1> HIDE DEF outer, final
<1>7. AddLong(final, outer.value) \in Long /\ outer.cpu \in CPU
  BY <1>4, <1>5, AddLongType DEF IsRead
<1> QED
  BY <1>6, <1>7, Pairs

(* Either format of an extension word. *)
LEMMA IndexedType ==
  ASSUME NEW c \in CPU, NEW m \in MemoryState, NEW b \in Long
  PROVE  IsAt(resolve_indexed(c, m, b))
<1> DEFINE w  == WordAt(m, c.pc)
           c1 == Advance(c, 2)
           disp == SignExtendByte(w % 256)
           sum  == AddLong(AddLong(b, index_value(c1, w)), disp)
<1>1. w \in Word /\ c1 \in CPU
  BY CpuParts, ReadTypes, AdvanceType
<1> HIDE DEF w, c1
<1>2. disp \in Long
  <2>1. w % 256 \in Byte
    BY SMT, <1>1, WordBounds DEF Byte
  <2> QED
    BY <2>1, SignExtendType
<1>3. sum \in Long
  BY <1>1, <1>2, IndexValueType, AddLongType
<1>4. resolve_indexed(c, m, b) = IF Bit(w, 8) = 1
                                 THEN resolve_full_format_ea(c1, m, b, w) ELSE At(c1, sum)
  BY Zenon DEF resolve_indexed, w, c1
<1> HIDE DEF sum
<1> QED
  BY <1>1, <1>3, <1>4, FullFormatType, Pairs

(* The step of (An)+ and -(An). *)
LEMMA IncrementType ==
  ASSUME NEW reg, NEW n
  PROVE  Increment(reg, n) \in {1, 2, 4}
<1>1. CASE n = 0
  BY SMT, <1>1 DEF Increment
<1>2. CASE n = 1
  BY SMT, <1>2 DEF Increment
<1>3. CASE n \notin {0, 1}
  BY SMT, <1>3 DEF Increment
<1> QED
  BY <1>1, <1>2, <1>3

(* Every mode gives an address, also those that have none. *)
LEMMA ResolveType ==
  ASSUME NEW c \in CPU, NEW m \in MemoryState, NEW ea \in Int, NEW n
  PROVE  IsAt(resolve_ea(c, m, ea, n))
<1> DEFINE mode == EaMode(ea)
           reg  == EaReg(ea)
           step == FromWord(Increment(reg, n))
           less == SubLong(c.a[reg], step)
           word == SignExtendWord(WordAt(m, c.pc))
<1>1. reg \in RegisterNumber
  BY FieldTypes, SMT DEF EaReg, RegisterNumber
<1>2. step \in Long
  <2>1. 1 \in Word /\ 2 \in Word /\ 4 \in Word
    BY SMT, BoundedWord
  <2> QED
    BY <2>1, IncrementType, FromWordType
<1> HIDE DEF mode, reg, step
<1>3. c.a[reg] \in Long /\ c.pc \in Long
  BY <1>1, CpuParts
<1>4. less \in Long /\ AddLong(c.a[reg], step) \in Long
  BY <1>2, <1>3, SubLongType, AddLongType
<1>5. word \in Long /\ LongAt(m, c.pc) \in Long /\ ZeroLong \in Long
  BY <1>3, ReadTypes, SignExtendType, ZeroLongType
<1>6. resolve_ea(c, m, ea, n) =
        CASE mode = 2 -> At(c, c.a[reg])
          [] mode = 3 -> At([c EXCEPT !.a[reg] = AddLong(c.a[reg], step)], c.a[reg])
          [] mode = 4 -> At([c EXCEPT !.a[reg] = less], less)
          [] mode = 5 -> At(Advance(c, 2), AddLong(c.a[reg], word))
          [] mode = 6 -> resolve_indexed(c, m, c.a[reg])
          [] mode = 7 /\ reg = 0 -> At(Advance(c, 2), word)
          [] mode = 7 /\ reg = 1 -> At(Advance(c, 4), LongAt(m, c.pc))
          [] mode = 7 /\ reg = 2 -> At(Advance(c, 2), AddLong(c.pc, word))
          [] mode = 7 /\ reg = 3 -> resolve_indexed(c, m, c.pc)
          [] OTHER -> At(c, ZeroLong)
  BY SMT DEF resolve_ea, mode, reg, step
<1> HIDE DEF less, word
<1>7. /\ IsAt(At(c, c.a[reg])) /\ IsAt(At(c, ZeroLong))
      /\ IsAt(At([c EXCEPT !.a[reg] = AddLong(c.a[reg], step)], c.a[reg]))
      /\ IsAt(At([c EXCEPT !.a[reg] = less], less))
  BY <1>1, <1>3, <1>4, <1>5, SetA, Pairs
<1>8. /\ IsAt(At(Advance(c, 2), AddLong(c.a[reg], word)))
      /\ IsAt(At(Advance(c, 2), word))
      /\ IsAt(At(Advance(c, 4), LongAt(m, c.pc)))
      /\ IsAt(At(Advance(c, 2), AddLong(c.pc, word)))
  <2>1. Advance(c, 2) \in CPU /\ Advance(c, 4) \in CPU
    BY AdvanceType
  <2> QED
    BY <1>3, <1>5, <2>1, AddLongType, Pairs
<1>9. IsAt(resolve_indexed(c, m, c.a[reg])) /\ IsAt(resolve_indexed(c, m, c.pc))
  BY <1>3, IndexedType
<1> QED
  <2>1. CASE mode \in 2 .. 6
    BY SMT, <1>6, <1>7, <1>8, <1>9, <2>1
  <2>2. CASE mode = 7 /\ reg \in 0 .. 3
    BY SMT, <1>6, <1>7, <1>8, <1>9, <2>2
  <2>3. CASE mode \notin 2 .. 6 /\ ~(mode = 7 /\ reg \in 0 .. 3)
    BY SMT, <1>6, <1>7, <2>3
  <2> QED
    BY <2>1, <2>2, <2>3

-----------------------------------------------------------------------------
(* Every operand read is a long. *)
LEMMA ReadFromType ==
  ASSUME NEW c \in CPU, NEW m \in MemoryState, NEW ea \in Int, NEW n
  PROVE  IsRead(read_from_ea(c, m, ea, n))
<1> DEFINE mode == EaMode(ea)
           reg  == EaReg(ea)
           at   == resolve_ea(c, m, ea, n)
           loaded == CASE n = 0 -> FromWord(ByteAt(m, at.address))
                       [] n = 1 -> FromWord(WordAt(m, at.address))
                       [] OTHER -> LongAt(m, at.address)
<1>1. reg \in RegisterNumber
  BY FieldTypes, SMT DEF EaReg, RegisterNumber
<1>2. at.cpu \in CPU /\ at.address \in Long
  BY ResolveType DEF IsAt
<1> HIDE DEF mode, reg, at
<1>3. loaded \in Long
  <2>1. /\ FromWord(ByteAt(m, at.address)) \in Long
        /\ FromWord(WordAt(m, at.address)) \in Long
        /\ LongAt(m, at.address) \in Long
    BY <1>2, ReadTypes, ByteIsWord, FromWordType
  <2>2. CASE n = 0
    BY SMT, <2>1, <2>2
  <2>3. CASE n = 1
    BY SMT, <2>1, <2>3
  <2>4. CASE n \notin {0, 1}
    BY SMT, <2>1, <2>4
  <2> QED
    BY <2>2, <2>3, <2>4
<1>4. read_from_ea(c, m, ea, n) =
        CASE mode = 7 /\ reg = 4 /\ n = 2 -> Read(Advance(c, 4), LongAt(m, c.pc))
          [] mode = 7 /\ reg = 4 /\ n # 2 -> Read(Advance(c, 2), FromWord(WordAt(m, c.pc)))
          [] mode = 0 -> Read(c, c.d[reg])
          [] mode = 1 -> Read(c, c.a[reg])
          [] OTHER -> Read(at.cpu, loaded)
  BY SMT DEF read_from_ea, mode, reg, at
<1> HIDE DEF loaded
<1>5. /\ IsRead(Read(c, c.d[reg])) /\ IsRead(Read(c, c.a[reg]))
      /\ IsRead(Read(at.cpu, loaded))
  BY <1>1, <1>2, <1>3, CpuParts, Pairs
<1>6. /\ IsRead(Read(Advance(c, 4), LongAt(m, c.pc)))
      /\ IsRead(Read(Advance(c, 2), FromWord(WordAt(m, c.pc))))
  <2>1. /\ LongAt(m, c.pc) \in Long
        /\ FromWord(WordAt(m, c.pc)) \in Long
    BY CpuParts, ReadTypes, FromWordType
  <2> QED
    BY <2>1, AdvanceType, Pairs
<1> QED
  <2>1. CASE mode = 7 /\ reg = 4
    BY SMT, <1>4, <1>6, <2>1
  <2>2. CASE mode \in {0, 1}
    BY SMT, <1>4, <1>5, <2>2
  <2>3. CASE mode \notin {0, 1} /\ ~(mode = 7 /\ reg = 4)
    BY SMT, <1>4, <1>5, <2>3
  <2> QED
    BY <2>1, <2>2, <2>3

(* Registers, and a memory that its log explains. *)
IsDone(done) == done.cpu \in CPU /\ MemInv(done.mem)

(* The two parts of what an instruction leaves. *)
LEMMA DoneParts ==
  ASSUME NEW c \in CPU, NEW m, MemInv(m)
  PROVE  IsDone(Done(c, m)) /\ Done(c, m).cpu = c /\ Done(c, m).mem = m
  BY DEF IsDone, Done

(* A store goes to a register, or through an operation of Memory. *)
LEMMA WriteToType ==
  ASSUME NEW c \in CPU, NEW m, MemInv(m), NEW ea \in Int, NEW value \in Long, NEW n,
         NEW ok \in BOOLEAN
  PROVE  IsDone(write_to_ea(c, m, ea, value, n, ok))
<1> DEFINE mode == EaMode(ea)
           reg  == EaReg(ea)
           at   == resolve_ea(c, m, ea, n)
           cell == Index(at.address)
           stored == CASE n = 0 -> mem_write_byte(m, cell, value.lo % 256, ok)
                       [] n = 1 -> mem_write_word(m, cell, value.lo, ok)
                       [] OTHER -> mem_write_long(m, cell, value, ok)
<1>1. reg \in RegisterNumber
  BY FieldTypes, SMT DEF EaReg, RegisterNumber
<1>2. at.cpu \in CPU /\ cell \in Nat
  <2>1. m \in MemoryState
    BY DEF MemInv
  <2> QED
    BY <2>1, ResolveType, IndexType DEF IsAt
<1>3. value.lo \in Word /\ value.lo % 256 \in Byte
  <2>1. value.lo \in Word
    BY DEF Long
  <2> QED
    BY <2>1, HalvesOfWord
<1> HIDE DEF mode, reg, at, cell
<1>4. MemInv(stored)
  <2>1. /\ MemInv(mem_write_byte(m, cell, value.lo % 256, ok))
        /\ MemInv(mem_write_word(m, cell, value.lo, ok))
        /\ MemInv(mem_write_long(m, cell, value, ok))
    BY <1>2, <1>3, WriteByteKeeps, WriteWordKeeps, WriteLongKeeps
  <2>2. CASE n = 0
    BY SMT, <2>1, <2>2
  <2>3. CASE n = 1
    BY SMT, <2>1, <2>3
  <2>4. CASE n \notin {0, 1}
    BY SMT, <2>1, <2>4
  <2> QED
    BY <2>2, <2>3, <2>4
<1>5. write_to_ea(c, m, ea, value, n, ok) =
        CASE mode = 0 -> Done([c EXCEPT !.d[reg] = Merge(c.d[reg], value, n)], m)
          [] mode = 1 /\ n = 0 -> Done(c, m)
          [] mode = 1 /\ n = 1 -> Done([c EXCEPT !.a[reg] = SignExtendWord(value.lo)], m)
          [] mode = 1 /\ n \notin {0, 1} -> Done([c EXCEPT !.a[reg] = value], m)
          [] OTHER -> Done(at.cpu, stored)
  BY SMT DEF write_to_ea, mode, reg, at, cell
<1> HIDE DEF stored
<1>6. /\ IsDone(Done([c EXCEPT !.d[reg] = Merge(c.d[reg], value, n)], m))
      /\ IsDone(Done(c, m))
      /\ IsDone(Done([c EXCEPT !.a[reg] = SignExtendWord(value.lo)], m))
      /\ IsDone(Done([c EXCEPT !.a[reg] = value], m))
      /\ IsDone(Done(at.cpu, stored))
  <2>1. SignExtendWord(value.lo) \in Long /\ Merge(c.d[reg], value, n) \in Long
    BY <1>1, <1>3, CpuParts, SignExtendType, MergeType
  <2> QED
    BY <1>1, <1>2, <1>4, <2>1, SetA, SetD, DoneParts
<1> QED
  <2>1. CASE mode = 0
    BY SMT, <1>5, <1>6, <2>1
  <2>2. CASE mode = 1
    BY SMT, <1>5, <1>6, <2>2
  <2>3. CASE mode \notin {0, 1}
    BY SMT, <1>5, <1>6, <2>3
  <2> QED
    BY <2>1, <2>2, <2>3

-----------------------------------------------------------------------------
(* A data register and the flags are what most instructions leave changed. *)
LEMMA SetDSr ==
  ASSUME NEW c \in CPU, NEW r \in RegisterNumber, NEW x \in Long,
         NEW s \in StatusRegister
  PROVE  [c EXCEPT !.d[r] = x, !.sr = s] \in CPU
  BY DEF CPU

(* The registers that an opcode names. *)
LEMMA OpcodeFields ==
  ASSUME NEW op \in Word
  PROVE  /\ Field(op, 0, 3) \in RegisterNumber /\ Field(op, 9, 3) \in RegisterNumber
         /\ op % 64 \in Int /\ MoveDestination(op) \in Int /\ op % 256 \in Byte
<1>1. op \in Int
  BY WordBounds
<1>2. op % 64 \in Int
  BY <1>1, SMT
<1>3. /\ Field(op, 0, 3) \in RegisterNumber /\ Field(op, 9, 3) \in RegisterNumber
      /\ Field(op, 6, 3) \in RegisterNumber
  BY <1>1, FieldTypes DEF RegisterNumber
<1>4. MoveDestination(op) \in Int
  BY <1>3, SMT DEF MoveDestination, RegisterNumber
<1> QED
  BY <1>2, <1>3, <1>4, HalvesOfWord

(* A MOVE of any size between any two operands. *)
LEMMA MoveType ==
  ASSUME NEW c \in CPU, NEW m, MemInv(m), NEW op \in Word, NEW n, NEW ok \in BOOLEAN
  PROVE  IsDone(move(c, m, op, n, ok))
<1> DEFINE src  == read_from_ea(c, m, op % 64, n)
           dest == MoveDestination(op)
           to   == write_to_ea(src.cpu, m, dest, src.value, n, ok)
           sets == EaMode(dest) # 1 \/ n = 0
           sr   == set_logic_flags(to.cpu.sr, src.value, n)
<1>1. src.cpu \in CPU /\ src.value \in Long
  BY OpcodeFields, ReadFromType DEF IsRead, MemInv
<1> HIDE DEF src
<1>2. to.cpu \in CPU /\ MemInv(to.mem)
  BY <1>1, OpcodeFields, WriteToType DEF IsDone
<1>3. sr \in StatusRegister
  BY <1>2, CpuParts, SetFlagsType
<1>4. move(c, m, op, n, ok)
        = IF sets THEN Done([to.cpu EXCEPT !.sr = sr], to.mem) ELSE to
  BY DEF move, src
<1> HIDE DEF to, sr, sets
<1>5. IsDone(Done([to.cpu EXCEPT !.sr = sr], to.mem))
  BY <1>2, <1>3, SetSr, DoneParts
<1> QED
  BY <1>2, <1>4, <1>5 DEF IsDone

(* An addition or a subtraction. *)
LEMMA ArithmeticType ==
  ASSUME NEW c \in CPU, NEW reg \in RegisterNumber, NEW S \in Long, NEW n, NEW is_sub
  PROVE  arithmetic(c, reg, S, n, is_sub) \in CPU
<1> DEFINE D  == c.d[reg]
           R  == IF is_sub THEN SubLong(D, S) ELSE AddLong(D, S)
           x  == Merge(D, R, n)
           sr == set_flags(c.sr, S, D, R, n, is_sub)
<1>1. D \in Long
  BY CpuParts
<1>2. R \in Long
  BY <1>1, AddLongType, SubLongType
<1> HIDE DEF R
<1>3. x \in Long /\ sr \in StatusRegister
  BY <1>1, <1>2, CpuParts, MergeType, SetFlagsType
<1>4. arithmetic(c, reg, S, n, is_sub) = [c EXCEPT !.d[reg] = x, !.sr = sr]
  BY DEF arithmetic, R, CPU
<1> HIDE DEF x, sr
<1>5. [c EXCEPT !.d[reg] = x, !.sr = sr] \in CPU
  BY Zenon, <1>3, SetDSr
<1> QED
  BY Zenon, <1>4, <1>5

(* The datum of an immediate instruction. *)
LEMMA ImmediateType ==
  ASSUME NEW c \in CPU, NEW m \in MemoryState, NEW n
  PROVE  IsRead(immediate(c, m, n))
<1>1. WordAt(m, c.pc) \in Word /\ LongAt(m, c.pc) \in Long
  BY CpuParts, ReadTypes
<1>2. WordAt(m, c.pc) % 256 \in Word
  BY <1>1, HalvesOfWord, ByteIsWord
<1>3. /\ IsRead(Read(Advance(c, 2), FromWord(WordAt(m, c.pc) % 256)))
      /\ IsRead(Read(Advance(c, 2), FromWord(WordAt(m, c.pc))))
      /\ IsRead(Read(Advance(c, 4), LongAt(m, c.pc)))
  <2>1. /\ FromWord(WordAt(m, c.pc) % 256) \in Long
        /\ FromWord(WordAt(m, c.pc)) \in Long
        /\ Advance(c, 2) \in CPU /\ Advance(c, 4) \in CPU
    BY <1>1, <1>2, FromWordType, AdvanceType
  <2> QED
    BY <1>1, <2>1, Pairs
<1>4. CASE n = 0
  BY SMT, <1>3, <1>4 DEF immediate
<1>5. CASE n = 1
  BY SMT, <1>3, <1>5 DEF immediate
<1>6. CASE n \notin {0, 1}
  BY SMT, <1>3, <1>6 DEF immediate
<1> QED
  BY <1>4, <1>5, <1>6

(* The datum of ADDQ and SUBQ. *)
LEMMA QuickDataType ==
  ASSUME NEW op \in Word
  PROVE  QuickData(op) \in Long
<1>1. Field(op, 9, 3) \in RegisterNumber
  BY OpcodeFields
<1>2. \A k \in RegisterNumber : (IF k = 0 THEN 8 ELSE k) \in Word
  BY SMT, BoundedWord DEF RegisterNumber
<1> QED
  BY <1>1, <1>2, FromWordType DEF QuickData

(* The handlers of arithmetic with two operands in the opcode, ... *)
LEMMA RegisterHandlers ==
  ASSUME NEW c \in CPU, NEW op \in Word
  PROVE  /\ handle_addq(c, op) \in CPU /\ handle_subq(c, op) \in CPU
         /\ handle_add_reg(c, op) \in CPU /\ handle_sub_reg(c, op) \in CPU
<1>1. QuickData(op) \in Long
  BY QuickDataType
<1>2. c.d[Field(op, 0, 3)] \in Long
  BY OpcodeFields, CpuParts
<1> QED
  BY <1>1, <1>2, OpcodeFields, ArithmeticType
  DEF handle_addq, handle_subq, handle_add_reg, handle_sub_reg

(* ... with an immediate one, ... *)
LEMMA ImmediateHandlers ==
  ASSUME NEW c \in CPU, NEW m \in MemoryState, NEW op \in Word
  PROVE  /\ handle_addi(c, m, op) \in CPU /\ handle_subi(c, m, op) \in CPU
         /\ handle_andi(c, m, op) \in CPU
<1> DEFINE data == immediate(c, m, SizeField(op))
           reg  == Field(op, 0, 3)
           result == AndLong(c.d[reg], data.value)
           x    == Merge(data.cpu.d[reg], result, SizeField(op))
           sr   == set_logic_flags(data.cpu.sr, result, SizeField(op))
<1>1. data.cpu \in CPU /\ data.value \in Long
  BY ImmediateType DEF IsRead
<1>2. reg \in RegisterNumber
  BY OpcodeFields
<1>3. handle_addi(c, m, op) \in CPU /\ handle_subi(c, m, op) \in CPU
  BY <1>1, <1>2, ArithmeticType DEF handle_addi, handle_subi
<1> HIDE DEF data, reg
<1>4. result \in Long
  BY <1>1, <1>2, CpuParts, AndLongIsLong
<1> HIDE DEF result
<1>5. x \in Long /\ sr \in StatusRegister
  BY <1>1, <1>2, <1>4, CpuParts, MergeType, SetFlagsType
<1>6. handle_andi(c, m, op) = [data.cpu EXCEPT !.d[reg] = x, !.sr = sr]
  BY <1>1 DEF handle_andi, data, reg, result, CPU
<1> HIDE DEF x, sr
<1>7. [data.cpu EXCEPT !.d[reg] = x, !.sr = sr] \in CPU
  BY Zenon, <1>1, <1>2, <1>5, SetDSr
<1> QED
  BY Zenon, <1>3, <1>6, <1>7

(* ... of a bit, whatever the operation makes of it, ... *)
LEMMA BitOperationType ==
  ASSUME NEW c \in CPU, NEW m \in MemoryState, NEW op \in Word,
         NEW change \in [{0, 1} -> {0, 1}]
  PROVE  bit_operation(c, m, op, change) \in CPU
<1> DEFINE reg == Field(op, 0, 3)
           n   == (WordAt(m, c.pc) % 256) % 32
           bit == LongBit(c.d[reg], n)
           c1  == Advance(c, 2)
           x   == SetLongBit(c1.d[reg], n, change[bit])
           sr  == set_sr_flag(c1.sr, SR_Z, bit = 0)
<1>1. reg \in RegisterNumber /\ c1 \in CPU
  BY OpcodeFields, AdvanceType
<1>2. n \in 0 .. 31
  <2>1. WordAt(m, c.pc) \in Int
    BY CpuParts, ReadTypes, WordBounds
  <2> QED
    BY SMT, <2>1
<1> HIDE DEF reg, n, c1
<1>3. bit \in {0, 1}
  BY <1>1, <1>2, CpuParts, LongBitType
<1> HIDE DEF bit
<1>4. change[bit] \in {0, 1}
  BY <1>3
<1>5. c1.d[reg] \in Long /\ c1.sr \in StatusRegister
  BY <1>1, CpuParts
<1>6. x \in Long /\ sr \in StatusRegister
  BY <1>2, <1>4, <1>5, SetLongBitType, SetFlagType, FlagIsBit
<1>7. bit_operation(c, m, op, change) = [c1 EXCEPT !.d[reg] = x, !.sr = sr]
  BY <1>1 DEF bit_operation, reg, n, bit, c1, CPU
<1> HIDE DEF x, sr
<1>8. [c1 EXCEPT !.d[reg] = x, !.sr = sr] \in CPU
  BY Zenon, <1>1, <1>6, SetDSr
<1> QED
  BY Zenon, <1>7, <1>8

(* ... which each of the four decides by the old bit, ... *)
LEMMA BitHandlers ==
  ASSUME NEW c \in CPU, NEW m \in MemoryState, NEW op \in Word
  PROVE  /\ handle_btst_imm(c, m, op) \in CPU /\ handle_bchg_imm(c, m, op) \in CPU
         /\ handle_bclr_imm(c, m, op) \in CPU /\ handle_bset_imm(c, m, op) \in CPU
<1>1. /\ [b \in {0, 1} |-> b] \in [{0, 1} -> {0, 1}]
      /\ [b \in {0, 1} |-> 1 - b] \in [{0, 1} -> {0, 1}]
      /\ [b \in {0, 1} |-> 0] \in [{0, 1} -> {0, 1}]
      /\ [b \in {0, 1} |-> 1] \in [{0, 1} -> {0, 1}]
  BY SMT
<1> QED
  BY <1>1, BitOperationType
  DEF handle_btst_imm, handle_bchg_imm, handle_bclr_imm, handle_bset_imm

(* ... and of a branch. *)
LEMMA BranchType ==
  ASSUME NEW c \in CPU, NEW op \in Word
  PROVE  handle_bcc(c, op) \in CPU
<1>1. AddLong(c.pc, SignExtendByte(op % 256)) \in Long
  BY OpcodeFields, CpuParts, SignExtendType, AddLongType
<1> QED
  BY <1>1, SetPc DEF handle_bcc

-----------------------------------------------------------------------------
ExecInv ==
  /\ MemInv(mem)
  /\ cpu \in CPU
  /\ running \in BOOLEAN
  /\ cycles \in 0 .. MAX_EXECUTION_CYCLES

(* The loop counts a turn only below its limit. *)
LEMMA TurnType ==
  ASSUME ExecInv, NEW handler, Turn(handler)
  PROVE  running' \in BOOLEAN /\ cycles' \in 0 .. MAX_EXECUTION_CYCLES
<1>1. cycles \in 0 .. MAX_EXECUTION_CYCLES /\ ~(cycles >= MAX_EXECUTION_CYCLES)
  BY DEF ExecInv, Turn, Executing, Ended
<1>2. cycles' \in 0 .. MAX_EXECUTION_CYCLES
  BY SMT, <1>1, ExecutorAssumption DEF Turn
<1> QED
  BY <1>2 DEF Turn

(* Reset, the registers have their widths. *)
LEMMA ResetType == cpu_pulse_reset \in CPU
<1>1. {SR_S, SR_I2, SR_I1, SR_I0} \in StatusRegister
  BY SMT DEF SR_S, SR_I2, SR_I1, SR_I0, StatusRegister
<1>2. cpu_init \in CPU
  BY ZeroLongType DEF cpu_init, CPU, StatusRegister
<1> QED
  BY <1>1, <1>2, SetSr DEF cpu_pulse_reset

(* The invariant holds where execution begins, ... *)
LEMMA ExecInvInit == ExecInit => ExecInv
<1> SUFFICES ASSUME ExecInit PROVE ExecInv
  OBVIOUS
<1>1. PICK start \in StartAddresses : cpu = [cpu_pulse_reset EXCEPT !.pc = start]
  BY DEF ExecInit
<1>3. cpu \in CPU
  BY <1>1, ResetType, SetPc, ExecutorAssumption
<1>4. MemInv(mem)
  BY LoadedAssumption DEF ExecInit
<1>5. cycles \in 0 .. MAX_EXECUTION_CYCLES
  BY SMT, ExecutorAssumption DEF ExecInit
<1> QED
  BY <1>3, <1>4, <1>5 DEF ExecInit, ExecInv

(* ... and every turn of the loop keeps it. *)
LEMMA ExecInvStep == ExecInv /\ [ExecNext]_vars => ExecInv'
<1> SUFFICES ASSUME ExecInv, [ExecNext]_vars PROVE ExecInv'
  OBVIOUS
<1>1. /\ opcode \in Word /\ fetched \in CPU
      /\ mem \in MemoryState /\ cpu \in CPU /\ MemInv(mem)
  <2>1. mem \in MemoryState /\ cpu \in CPU /\ MemInv(mem)
    BY DEF ExecInv, MemInv
  <2> QED
    BY <2>1, CpuParts, ReadTypes, AdvanceType DEF opcode, fetched
<1>2. ASSUME NEW handler, NEW after \in CPU, Registers(handler, after)
      PROVE  ExecInv'
  <2>1. running' \in BOOLEAN /\ cycles' \in 0 .. MAX_EXECUTION_CYCLES
    BY <1>2, TurnType DEF Registers
  <2>2. mem' = mem /\ cpu' \in CPU
    BY <1>2 DEF Registers
  <2>3. MemInv(mem')
    BY <1>1, <2>2
  <2> QED
    BY <2>1, <2>2, <2>3 DEF ExecInv, MemInv
<1>3. ASSUME NEW handler, NEW after, IsDone(after), Move(handler, after)
      PROVE  ExecInv'
  <2>1. running' \in BOOLEAN /\ cycles' \in 0 .. MAX_EXECUTION_CYCLES
    BY <1>3, TurnType DEF Move
  <2>2. MemInv(mem') /\ cpu' \in CPU
    BY <1>3 DEF Move, IsDone
  <2> QED
    BY <2>1, <2>2 DEF ExecInv, MemInv
<1> HIDE DEF ExecInv
<1>4. CASE MoveB
  <2>1. PICK ok \in AllocAnswers :
          Move("move_b", handle_move_b(fetched, mem, opcode, ok))
    BY <1>4 DEF MoveB
  <2>2. IsDone(handle_move_b(fetched, mem, opcode, ok))
    BY <1>1, MoveType, ExecutorAssumption DEF handle_move_b
  <2> QED
    BY <1>3, <2>1, <2>2
<1>5. CASE MoveW
  <2>1. PICK ok \in AllocAnswers :
          Move("move_w", handle_move_w(fetched, mem, opcode, ok))
    BY <1>5 DEF MoveW
  <2>2. IsDone(handle_move_w(fetched, mem, opcode, ok))
    BY <1>1, MoveType, ExecutorAssumption DEF handle_move_w
  <2> QED
    BY <1>3, <2>1, <2>2
<1>6. CASE MoveL
  <2>1. PICK ok \in AllocAnswers :
          Move("move_l", handle_move_l(fetched, mem, opcode, ok))
    BY <1>6 DEF MoveL
  <2>2. IsDone(handle_move_l(fetched, mem, opcode, ok))
    BY <1>1, MoveType, ExecutorAssumption DEF handle_move_l
  <2> QED
    BY <1>3, <2>1, <2>2
<1>7. CASE AddQ
  BY <1>1, <1>2, <1>7, RegisterHandlers DEF AddQ
<1>8. CASE SubQ
  BY <1>1, <1>2, <1>8, RegisterHandlers DEF SubQ
<1>9. CASE AddReg
  BY <1>1, <1>2, <1>9, RegisterHandlers DEF AddReg
<1>10. CASE SubReg
  BY <1>1, <1>2, <1>10, RegisterHandlers DEF SubReg
<1>11. CASE AddI
  BY <1>1, <1>2, <1>11, ImmediateHandlers DEF AddI
<1>12. CASE SubI
  BY <1>1, <1>2, <1>12, ImmediateHandlers DEF SubI
<1>13. CASE AndI
  BY <1>1, <1>2, <1>13, ImmediateHandlers DEF AndI
<1>14. CASE BtstImm
  BY <1>1, <1>2, <1>14, BitHandlers DEF BtstImm
<1>15. CASE BchgImm
  BY <1>1, <1>2, <1>15, BitHandlers DEF BchgImm
<1>16. CASE BclrImm
  BY <1>1, <1>2, <1>16, BitHandlers DEF BclrImm
<1>17. CASE BsetImm
  BY <1>1, <1>2, <1>17, BitHandlers DEF BsetImm
<1>18. CASE Bcc
  BY <1>1, <1>2, <1>18, BranchType DEF Bcc
<1>19. CASE Nop
  BY <1>1, <1>2, <1>19 DEF Nop
<1>20. CASE Rts
  BY <1>1, <1>2, <1>20 DEF Rts
<1>21. CASE Unknown
  BY <1>1, <1>2, <1>21 DEF Unknown
<1>22. CASE UNCHANGED vars
  BY <1>22 DEF vars, ExecInv, MemInv
<1> QED
  BY <1>4, <1>5, <1>6, <1>7, <1>8, <1>9, <1>10, <1>11, <1>12, <1>13, <1>14,
     <1>15, <1>16, <1>17, <1>18, <1>19, <1>20, <1>21, <1>22 DEF ExecNext

(* So it holds throughout. *)
LEMMA ExecInvariant == ExecSpec => []ExecInv
  BY ExecInvInit, ExecInvStep, PTL DEF ExecSpec

(* Whatever is in the memory and wherever execution begins, the registers    *)
(* keep their widths, the loop its bound, and the memory, which a program     *)
(* changes only through memory.c, stays inside its log's buffer, explained   *)
(* by that log and recoverable from it.                                      *)
THEOREM ExecutorCorrect ==
  ExecSpec => [](ExecTypeOK /\ BufferFits /\ LogExplainsMemory /\ LogUndoesMemory)
<1>1. ExecInv => ExecTypeOK /\ BufferFits /\ LogExplainsMemory /\ LogUndoesMemory
  BY DEF ExecInv, MemInv, ExecTypeOK, BufferFits, LogExplainsMemory, LogUndoesMemory
<1> QED
  BY <1>1, ExecInvariant, PTL

-----------------------------------------------------------------------------
(* Addressing moves the program counter and address registers, and leaves    *)
(* the data registers and the flags as they were.                            *)
SameData(c, e) == e.d = c.d /\ e.sr = c.sr

LEMMA AdvanceSame ==
  ASSUME NEW c \in CPU, NEW n
  PROVE  SameData(c, Advance(c, n))
  BY DEF SameData, Advance, CPU

LEMMA DisplacementSame ==
  ASSUME NEW c \in CPU, NEW m, NEW words
  PROVE  SameData(c, displacement(c, m, words).cpu)
<1>1. SameData(c, c)
  BY DEF SameData
<1> QED
  BY <1>1, AdvanceSame DEF displacement, Read

LEMMA FullFormatSame ==
  ASSUME NEW c \in CPU, NEW m \in MemoryState, NEW b, NEW w
  PROVE  SameData(c, resolve_full_format_ea(c, m, b, w).cpu)
<1> DEFINE base  == displacement(c, m, base_words(w))
           outer == displacement(base.cpu, m, outer_words(Field(w, 0, 3)))
<1>1. base.cpu \in CPU
  BY DisplacementType DEF IsRead
<1>2. SameData(c, base.cpu)
  BY DisplacementSame
<1>3. SameData(base.cpu, outer.cpu)
  BY <1>1, DisplacementSame
<1>4. resolve_full_format_ea(c, m, b, w).cpu = outer.cpu
  BY Zenon DEF resolve_full_format_ea, At
<1> HIDE DEF base, outer
<1> QED
  BY <1>2, <1>3, <1>4 DEF SameData

LEMMA IndexedSame ==
  ASSUME NEW c \in CPU, NEW m \in MemoryState, NEW b
  PROVE  SameData(c, resolve_indexed(c, m, b).cpu)
<1> DEFINE w  == WordAt(m, c.pc)
           c1 == Advance(c, 2)
           brief == AddLong(AddLong(b, index_value(c1, w)), SignExtendByte(w % 256))
<1>1. c1 \in CPU /\ SameData(c, c1)
  BY AdvanceType, AdvanceSame
<1>2. resolve_indexed(c, m, b) = IF Bit(w, 8) = 1
                                 THEN resolve_full_format_ea(c1, m, b, w)
                                 ELSE At(c1, brief)
  BY Zenon DEF resolve_indexed
<1> HIDE DEF w, c1, brief
<1>3. SameData(c1, resolve_full_format_ea(c1, m, b, w).cpu)
  BY <1>1, FullFormatSame
<1>4. At(c1, brief).cpu = c1
  BY DEF At
<1> QED
  BY <1>1, <1>2, <1>3, <1>4 DEF SameData

LEMMA ResolveSame ==
  ASSUME NEW c \in CPU, NEW m \in MemoryState, NEW ea, NEW n
  PROVE  SameData(c, resolve_ea(c, m, ea, n).cpu)
<1> DEFINE mode == EaMode(ea)
           reg  == EaReg(ea)
           step == FromWord(Increment(reg, n))
           less == SubLong(c.a[reg], step)
           word == SignExtendWord(WordAt(m, c.pc))
           more == AddLong(c.a[reg], step)
<1> HIDE DEF mode, reg, step
<1>1. resolve_ea(c, m, ea, n) =
        CASE mode = 2 -> At(c, c.a[reg])
          [] mode = 3 -> At([c EXCEPT !.a[reg] = more], c.a[reg])
          [] mode = 4 -> At([c EXCEPT !.a[reg] = less], less)
          [] mode = 5 -> At(Advance(c, 2), AddLong(c.a[reg], word))
          [] mode = 6 -> resolve_indexed(c, m, c.a[reg])
          [] mode = 7 /\ reg = 0 -> At(Advance(c, 2), word)
          [] mode = 7 /\ reg = 1 -> At(Advance(c, 4), LongAt(m, c.pc))
          [] mode = 7 /\ reg = 2 -> At(Advance(c, 2), AddLong(c.pc, word))
          [] mode = 7 /\ reg = 3 -> resolve_indexed(c, m, c.pc)
          [] OTHER -> At(c, ZeroLong)
  BY SMT DEF resolve_ea, mode, reg, step
<1> HIDE DEF less, word, more
<1>2. /\ SameData(c, c) /\ SameData(c, Advance(c, 2)) /\ SameData(c, Advance(c, 4))
      /\ SameData(c, [c EXCEPT !.a[reg] = more]) /\ SameData(c, [c EXCEPT !.a[reg] = less])
  BY AdvanceSame DEF SameData, CPU
<1>3. \A e, x : At(e, x).cpu = e
  BY DEF At
<1>4. /\ SameData(c, resolve_indexed(c, m, c.a[reg]).cpu)
      /\ SameData(c, resolve_indexed(c, m, c.pc).cpu)
  BY IndexedSame
<1> QED
  <2>1. CASE mode \in 2 .. 6
    BY SMT, <1>1, <1>2, <1>3, <1>4, <2>1
  <2>2. CASE mode = 7 /\ reg \in 0 .. 3
    BY SMT, <1>1, <1>2, <1>3, <1>4, <2>2
  <2>3. CASE mode \notin 2 .. 6 /\ ~(mode = 7 /\ reg \in 0 .. 3)
    BY SMT, <1>1, <1>2, <1>3, <2>3
  <2> QED
    BY <2>1, <2>2, <2>3

LEMMA ReadFromSame ==
  ASSUME NEW c \in CPU, NEW m \in MemoryState, NEW ea, NEW n
  PROVE  SameData(c, read_from_ea(c, m, ea, n).cpu)
<1> DEFINE mode == EaMode(ea)
           reg  == EaReg(ea)
           at   == resolve_ea(c, m, ea, n)
           loaded == CASE n = 0 -> FromWord(ByteAt(m, at.address))
                       [] n = 1 -> FromWord(WordAt(m, at.address))
                       [] OTHER -> LongAt(m, at.address)
<1>1. SameData(c, at.cpu) /\ SameData(c, Advance(c, 2)) /\ SameData(c, Advance(c, 4))
      /\ SameData(c, c)
  BY ResolveSame, AdvanceSame DEF SameData
<1> HIDE DEF mode, reg, at
<1>2. read_from_ea(c, m, ea, n) =
        CASE mode = 7 /\ reg = 4 /\ n = 2 -> Read(Advance(c, 4), LongAt(m, c.pc))
          [] mode = 7 /\ reg = 4 /\ n # 2 -> Read(Advance(c, 2), FromWord(WordAt(m, c.pc)))
          [] mode = 0 -> Read(c, c.d[reg])
          [] mode = 1 -> Read(c, c.a[reg])
          [] OTHER -> Read(at.cpu, loaded)
  BY SMT DEF read_from_ea, mode, reg, at
<1> HIDE DEF loaded
<1>3. \A e, x : Read(e, x).cpu = e
  BY DEF Read
<1> QED
  <2>1. CASE mode = 7 /\ reg = 4
    BY SMT, <1>1, <1>2, <1>3, <2>1
  <2>2. CASE mode \in {0, 1}
    BY SMT, <1>1, <1>2, <1>3, <2>2
  <2>3. CASE mode \notin {0, 1} /\ ~(mode = 7 /\ reg = 4)
    BY SMT, <1>1, <1>2, <1>3, <2>3
  <2> QED
    BY <2>1, <2>2, <2>3

(* A store changes no flag, one data register at most, and the memory only   *)
(* by writes that are logged.                                                *)
LEMMA WriteToFrame ==
  ASSUME NEW c \in CPU, NEW m, MemInv(m), NEW ea \in Int, NEW value \in Long, NEW n,
         NEW ok \in BOOLEAN
  PROVE  LET done == write_to_ea(c, m, ea, value, n, ok)
         IN  /\ done.cpu.sr = c.sr
             /\ IF EaMode(ea) = 0
                THEN done.cpu.d = [c.d EXCEPT ![EaReg(ea)] = Merge(@, value, n)]
                ELSE done.cpu.d = c.d
             /\ IF EaMode(ea) > 1 THEN Appended(m, done.mem) ELSE done.mem = m
<1> DEFINE mode == EaMode(ea)
           reg  == EaReg(ea)
           at   == resolve_ea(c, m, ea, n)
           cell == Index(at.address)
           stored == CASE n = 0 -> mem_write_byte(m, cell, value.lo % 256, ok)
                       [] n = 1 -> mem_write_word(m, cell, value.lo, ok)
                       [] OTHER -> mem_write_long(m, cell, value, ok)
           done == write_to_ea(c, m, ea, value, n, ok)
           merged == [c.d EXCEPT ![reg] = Merge(c.d[reg], value, n)]
<1>1. mode \in 0 .. 7
  BY FieldTypes DEF EaMode
<1>2. m \in MemoryState /\ cell \in Nat
  <2>1. m \in MemoryState
    BY DEF MemInv
  <2> QED
    BY <2>1, ResolveType, IndexType DEF IsAt
<1>3. value.lo \in Word /\ value.lo % 256 \in Byte
  <2>1. value.lo \in Word
    BY DEF Long
  <2> QED
    BY <2>1, HalvesOfWord
<1>4. SameData(c, at.cpu)
  BY <1>2, ResolveSame
<1> HIDE DEF mode, reg, at, cell
<1>5. Appended(m, stored)
  <2>1. /\ Appended(m, mem_write_byte(m, cell, value.lo % 256, ok))
        /\ Appended(m, mem_write_word(m, cell, value.lo, ok))
        /\ Appended(m, mem_write_long(m, cell, value, ok))
    BY <1>2, <1>3, WriteByteAppends, WriteWordAppends, WriteLongAppends
  <2>2. CASE n = 0
    BY SMT, <2>1, <2>2
  <2>3. CASE n = 1
    BY SMT, <2>1, <2>3
  <2>4. CASE n \notin {0, 1}
    BY SMT, <2>1, <2>4
  <2> QED
    BY <2>2, <2>3, <2>4
<1>6. done =
        CASE mode = 0 -> Done([c EXCEPT !.d[reg] = Merge(c.d[reg], value, n)], m)
          [] mode = 1 /\ n = 0 -> Done(c, m)
          [] mode = 1 /\ n = 1 -> Done([c EXCEPT !.a[reg] = SignExtendWord(value.lo)], m)
          [] mode = 1 /\ n \notin {0, 1} -> Done([c EXCEPT !.a[reg] = value], m)
          [] OTHER -> Done(at.cpu, stored)
  BY SMT DEF write_to_ea, mode, reg, at, cell
<1> HIDE DEF stored, done
<1>7. \A e, x : Done(e, x).cpu = e /\ Done(e, x).mem = x
  BY DEF Done
<1>8. CASE mode = 0
  <2>1. done = Done([c EXCEPT !.d[reg] = Merge(c.d[reg], value, n)], m)
    BY SMT, <1>6, <1>8
  <2>2. done.cpu.sr = c.sr /\ done.cpu.d = merged /\ done.mem = m
    BY <1>7, <2>1 DEF CPU
  <2> QED
    BY <1>8, <2>2 DEF mode, reg, done
<1>9. CASE mode = 1
  <2>1. \/ done = Done(c, m)
        \/ done = Done([c EXCEPT !.a[reg] = SignExtendWord(value.lo)], m)
        \/ done = Done([c EXCEPT !.a[reg] = value], m)
    BY SMT, <1>6, <1>9
  <2>2. done.cpu.sr = c.sr /\ done.cpu.d = c.d /\ done.mem = m
    BY <1>7, <2>1 DEF CPU
  <2> QED
    BY <1>9, <2>2 DEF mode, done
<1>10. CASE mode > 1
  <2>1. done = Done(at.cpu, stored)
    BY SMT, <1>1, <1>6, <1>10
  <2>2. done.cpu.sr = c.sr /\ done.cpu.d = c.d /\ Appended(m, done.mem)
    BY <1>4, <1>5, <1>7, <2>1 DEF SameData
  <2>3. mode # 0
    BY SMT, <1>1, <1>10
  <2> QED
    BY <1>10, <2>2, <2>3 DEF mode, done
<1> QED
  BY SMT, <1>1, <1>8, <1>9, <1>10

(* The flags in which two status registers differ. *)
Changed(s, t) == (s \ t) \cup (t \ s)

LEMMA FlagsChanged ==
  ASSUME NEW s \in StatusRegister, NEW S, NEW D, NEW R, NEW n, NEW is_sub
  PROVE  /\ \A flag, on : Changed(s, set_sr_flag(s, flag, on)) \subseteq {flag}
         /\ Changed(s, set_flags(s, S, D, R, n, is_sub)) \subseteq {SR_X, SR_N, SR_Z, SR_V, SR_C}
         /\ Changed(s, set_logic_flags(s, R, n)) \subseteq {SR_N, SR_Z, SR_V, SR_C}
<1>1. \A t, flag, on : Changed(t, set_sr_flag(t, flag, on)) \subseteq {flag}
  BY Zenon DEF Changed, set_sr_flag
<1>2. \A t, u, v, F, G : Changed(t, u) \subseteq F /\ Changed(u, v) \subseteq G
                          => Changed(t, v) \subseteq F \cup G
  BY Zenon DEF Changed
<1>3. Changed(s, set_flags(s, S, D, R, n, is_sub)) \subseteq {SR_X, SR_N, SR_Z, SR_V, SR_C}
  <2> DEFINE z == set_sr_flag(s, SR_Z, Truncate(R, n) = ZeroLong)
             g == set_sr_flag(z, SR_N, Msb(R, n))
             v == set_sr_flag(g, SR_V, overflow(is_sub, Msb(S, n), Msb(D, n), Msb(R, n)))
             c == set_sr_flag(v, SR_C, carry(is_sub, Msb(S, n), Msb(D, n), Msb(R, n)))
             x == set_sr_flag(c, SR_X, SR_C \in c)
  <2>1. /\ Changed(s, z) \subseteq {SR_Z} /\ Changed(z, g) \subseteq {SR_N}
        /\ Changed(g, v) \subseteq {SR_V} /\ Changed(v, c) \subseteq {SR_C}
        /\ Changed(c, x) \subseteq {SR_X}
    BY <1>1
  <2>2. set_flags(s, S, D, R, n, is_sub) = x
    BY DEF set_flags
  <2> HIDE DEF z, g, v, c, x
  <2>3. Changed(s, g) \subseteq {SR_Z, SR_N}
    BY Zenon, <2>1 DEF Changed
  <2>4. Changed(s, v) \subseteq {SR_Z, SR_N, SR_V}
    BY Zenon, <2>1, <2>3 DEF Changed
  <2>5. Changed(s, c) \subseteq {SR_Z, SR_N, SR_V, SR_C}
    BY Zenon, <2>1, <2>4 DEF Changed
  <2>6. Changed(s, x) \subseteq {SR_X, SR_N, SR_Z, SR_V, SR_C}
    BY Zenon, <2>1, <2>5 DEF Changed
  <2> QED
    BY <2>2, <2>6
<1>4. Changed(s, set_logic_flags(s, R, n)) \subseteq {SR_N, SR_Z, SR_V, SR_C}
  <2> DEFINE cv == s \ {SR_C, SR_V}
             z == set_sr_flag(cv, SR_Z, Truncate(R, n) = ZeroLong)
             g == set_sr_flag(z, SR_N, Msb(R, n))
  <2>1. Changed(s, cv) \subseteq {SR_C, SR_V}
    BY Zenon DEF Changed
  <2>2. Changed(cv, z) \subseteq {SR_Z} /\ Changed(z, g) \subseteq {SR_N}
    BY <1>1
  <2>3. set_logic_flags(s, R, n) = g
    BY DEF set_logic_flags
  <2> HIDE DEF cv, z, g
  <2>4. Changed(s, z) \subseteq {SR_C, SR_V, SR_Z}
    BY Zenon, <2>1, <2>2 DEF Changed
  <2>5. Changed(s, g) \subseteq {SR_N, SR_Z, SR_V, SR_C}
    BY Zenon, <2>2, <2>4 DEF Changed
  <2> QED
    BY <2>3, <2>5
<1> QED
  BY <1>1, <1>3, <1>4

(* A MOVE: its flags, its one data register, its memory. *)
LEMMA MoveFrame ==
  ASSUME NEW c \in CPU, NEW m, MemInv(m), NEW op \in Word, NEW n, NEW ok \in BOOLEAN
  PROVE  LET done == move(c, m, op, n, ok)
             dest == MoveDestination(op)
         IN  /\ Changed(c.sr, done.cpu.sr) \subseteq
                  IF EaMode(dest) = 1 /\ n # 0 THEN {} ELSE {SR_N, SR_Z, SR_V, SR_C}
             /\ IF EaMode(dest) = 0
                THEN \E x \in Long :
                       done.cpu.d = [c.d EXCEPT ![EaReg(dest)] = Merge(@, x, n)]
                ELSE done.cpu.d = c.d
             /\ IF EaMode(dest) > 1 THEN Appended(m, done.mem) ELSE done.mem = m
<1> DEFINE src  == read_from_ea(c, m, op % 64, n)
           dest == MoveDestination(op)
           to   == write_to_ea(src.cpu, m, dest, src.value, n, ok)
           sets == EaMode(dest) # 1 \/ n = 0
           sr   == set_logic_flags(to.cpu.sr, src.value, n)
           done == move(c, m, op, n, ok)
<1>1. src.cpu \in CPU /\ src.value \in Long
  BY OpcodeFields, ReadFromType DEF IsRead, MemInv
<1>2. src.cpu.d = c.d /\ src.cpu.sr = c.sr
  BY ReadFromSame DEF MemInv, SameData
<1> HIDE DEF src
<1>3. to.cpu \in CPU /\ dest \in Int
  BY <1>1, OpcodeFields, WriteToType DEF IsDone
<1> HIDE DEF dest
<1>4. /\ to.cpu.sr = c.sr
      /\ IF EaMode(dest) = 0
         THEN to.cpu.d = [c.d EXCEPT ![EaReg(dest)] = Merge(@, src.value, n)]
         ELSE to.cpu.d = c.d
      /\ IF EaMode(dest) > 1 THEN Appended(m, to.mem) ELSE to.mem = m
  BY <1>1, <1>2, <1>3, WriteToFrame
<1>5. done = IF sets THEN Done([to.cpu EXCEPT !.sr = sr], to.mem) ELSE to
  BY DEF move, src, dest
<1>6. to.cpu.sr \in StatusRegister
  BY <1>3, CpuParts
<1> HIDE DEF to, done
<1>7. Changed(c.sr, sr) \subseteq {SR_N, SR_Z, SR_V, SR_C}
  BY <1>4, <1>6, FlagsChanged
<1> HIDE DEF sr
<1>8. /\ done.cpu.d = to.cpu.d /\ done.mem = to.mem
      /\ done.cpu.sr = IF sets THEN sr ELSE to.cpu.sr
  BY <1>3, <1>5 DEF Done, CPU
<1>9. Changed(c.sr, c.sr) = {}
  BY Zenon DEF Changed
<1>10. Changed(c.sr, done.cpu.sr) \subseteq
         IF EaMode(dest) = 1 /\ n # 0 THEN {} ELSE {SR_N, SR_Z, SR_V, SR_C}
  BY <1>4, <1>7, <1>8, <1>9
<1> QED
  BY <1>1, <1>4, <1>8, <1>10 DEF dest, done

-----------------------------------------------------------------------------
(* The bytes of an operand of a size code. *)
BytesOf(n) == CASE n = 0 -> 1 [] n = 1 -> 2 [] OTHER -> 4

(* e has the data registers of c, but for at most one, in which the bytes    *)
(* above the operand's are as they were.                                     *)
OneRegister(c, e, bytes) ==
  \/ e.d = c.d
  \/ \E r \in RegisterNumber, x \in Long :
       /\ e.d = [c.d EXCEPT ![r] = x]
       /\ bytes <= 2 => x.hi = c.d[r].hi
       /\ bytes = 1 => x.lo \div 256 = c.d[r].lo \div 256

LEMMA MergeFrame ==
  ASSUME NEW old \in Long, NEW x \in Long, NEW n
  PROVE  /\ BytesOf(n) <= 2 => Merge(old, x, n).hi = old.hi
         /\ BytesOf(n) = 1 => Merge(old, x, n).lo \div 256 = old.lo \div 256
<1> DEFINE low == 256 * (old.lo \div 256) + (x.lo % 256)
<1>1. \A l : [old EXCEPT !.lo = l].hi = old.hi /\ [old EXCEPT !.lo = l].lo = l
  BY DEF Long
<1>2. CASE n = 0
  <2>1. Merge(old, x, n) = [old EXCEPT !.lo = low]
    BY SMT, <1>2 DEF Merge
  <2>2. low \div 256 = old.lo \div 256
    <3> DEFINE q == old.lo \div 256
               r == x.lo % 256
    <3>1. q \in Int /\ r \in Int /\ 0 <= r /\ r < 256
      BY SMT, LongParts
    <3> HIDE DEF q, r
    <3>2. (256 * q + r) \div 256 = q
      BY SMT, <3>1
    <3> QED
      BY <3>2 DEF q, r
  <2> HIDE DEF low
  <2> QED
    BY <1>1, <2>1, <2>2
<1>3. CASE n = 1
  <2>1. Merge(old, x, n) = [old EXCEPT !.lo = x.lo]
    BY SMT, <1>3 DEF Merge
  <2>2. BytesOf(n) = 2
    BY SMT, <1>3 DEF BytesOf
  <2>3. ~(BytesOf(n) = 1)
    BY SMT, <2>2
  <2> QED
    BY <1>1, <2>1, <2>3
<1>4. CASE n \notin {0, 1}
  <2>1. BytesOf(n) = 4
    BY SMT, <1>4 DEF BytesOf
  <2>2. ~(BytesOf(n) <= 2) /\ ~(BytesOf(n) = 1)
    BY SMT, <2>1
  <2> QED
    BY <2>2
<1> QED
  BY <1>2, <1>3, <1>4

(* A merge into one register is such a change. *)
LEMMA MergedRegister ==
  ASSUME NEW c \in CPU, NEW e, NEW r \in RegisterNumber, NEW x \in Long, NEW n,
         e.d = [c.d EXCEPT ![r] = Merge(@, x, n)]
  PROVE  OneRegister(c, e, BytesOf(n))
<1> DEFINE y == Merge(c.d[r], x, n)
<1>1. c.d[r] \in Long
  BY CpuParts
<1>2. y \in Long
  BY <1>1, MergeType
<1>3. /\ BytesOf(n) <= 2 => y.hi = c.d[r].hi
      /\ BytesOf(n) = 1 => y.lo \div 256 = c.d[r].lo \div 256
  <2> DEFINE D == c.d[r]
  <2>1. D \in Long
    BY <1>1
  <2> HIDE DEF D
  <2>2. /\ BytesOf(n) <= 2 => Merge(D, x, n).hi = D.hi
        /\ BytesOf(n) = 1 => Merge(D, x, n).lo \div 256 = D.lo \div 256
    BY <2>1, MergeFrame
  <2> QED
    BY <2>2 DEF D
<1>4. e.d = [c.d EXCEPT ![r] = y]
  OBVIOUS
<1> HIDE DEF y
<1> QED
  BY <1>2, <1>3, <1>4 DEF OneRegister

ArithmeticFlags == {SR_X, SR_N, SR_Z, SR_V, SR_C}
LogicFlags == {SR_N, SR_Z, SR_V, SR_C}

(* Some flags and at most one register. *)
Frame(c, e, flags, bytes) ==
  Changed(c.sr, e.sr) \subseteq flags /\ OneRegister(c, e, bytes)

(* What follows addressing is a frame of the registers before it. *)
LEMMA FrameAfter ==
  ASSUME NEW c, NEW b, NEW e, NEW flags, NEW bytes, SameData(c, b), Frame(b, e, flags, bytes)
  PROVE  Frame(c, e, flags, bytes)
  BY DEF SameData, Frame, OneRegister

LEMMA ArithmeticFrame ==
  ASSUME NEW c \in CPU, NEW reg \in RegisterNumber, NEW S \in Long, NEW n, NEW is_sub
  PROVE  Frame(c, arithmetic(c, reg, S, n, is_sub), ArithmeticFlags, BytesOf(n))
<1> DEFINE D  == c.d[reg]
           R  == IF is_sub THEN SubLong(D, S) ELSE AddLong(D, S)
           sr == set_flags(c.sr, S, D, R, n, is_sub)
           x  == Merge(D, R, n)
           e  == arithmetic(c, reg, S, n, is_sub)
<1>1. D \in Long /\ c.sr \in StatusRegister
  BY CpuParts
<1>2. R \in Long
  BY <1>1, AddLongType, SubLongType
<1>3. e = [c EXCEPT !.d[reg] = x, !.sr = sr]
  BY DEF arithmetic, CPU
<1> HIDE DEF R, e
<1>4. Changed(c.sr, sr) \subseteq ArithmeticFlags
  BY <1>1, FlagsChanged DEF ArithmeticFlags
<1> HIDE DEF sr, x
<1>5. e.sr = sr /\ e.d = [c.d EXCEPT ![reg] = x]
  BY <1>3 DEF CPU
<1>6. e.d = [c.d EXCEPT ![reg] = Merge(@, R, n)]
  BY <1>5 DEF x
<1>7. OneRegister(c, e, BytesOf(n))
  BY <1>2, <1>6, MergedRegister
<1> QED
  BY <1>4, <1>5, <1>7 DEF Frame, e

LEMMA RegisterFrames ==
  ASSUME NEW c \in CPU, NEW op \in Word
  PROVE  LET bytes == BytesOf(SizeField(op))
         IN  /\ Frame(c, handle_addq(c, op), ArithmeticFlags, bytes)
             /\ Frame(c, handle_subq(c, op), ArithmeticFlags, bytes)
             /\ Frame(c, handle_add_reg(c, op), ArithmeticFlags, bytes)
             /\ Frame(c, handle_sub_reg(c, op), ArithmeticFlags, bytes)
<1>1. QuickData(op) \in Long
  BY QuickDataType
<1>2. c.d[Field(op, 0, 3)] \in Long
  BY OpcodeFields, CpuParts
<1> QED
  BY <1>1, <1>2, OpcodeFields, ArithmeticFrame
  DEF handle_addq, handle_subq, handle_add_reg, handle_sub_reg

LEMMA ImmediateSame ==
  ASSUME NEW c \in CPU, NEW m, NEW n
  PROVE  SameData(c, immediate(c, m, n).cpu)
<1>1. \A e, x : Read(e, x).cpu = e
  BY DEF Read
<1>2. SameData(c, Advance(c, 2)) /\ SameData(c, Advance(c, 4))
  BY AdvanceSame
<1>3. CASE n = 0
  BY SMT, <1>1, <1>2, <1>3 DEF immediate
<1>4. CASE n = 1
  BY SMT, <1>1, <1>2, <1>4 DEF immediate
<1>5. CASE n \notin {0, 1}
  BY SMT, <1>1, <1>2, <1>5 DEF immediate
<1> QED
  BY <1>3, <1>4, <1>5

LEMMA ImmediateFrames ==
  ASSUME NEW c \in CPU, NEW m \in MemoryState, NEW op \in Word
  PROVE  LET bytes == BytesOf(SizeField(op))
         IN  /\ Frame(c, handle_addi(c, m, op), ArithmeticFlags, bytes)
             /\ Frame(c, handle_subi(c, m, op), ArithmeticFlags, bytes)
             /\ Frame(c, handle_andi(c, m, op), LogicFlags, bytes)
<1> DEFINE n    == SizeField(op)
           data == immediate(c, m, n)
           b    == data.cpu
           reg  == Field(op, 0, 3)
           result == AndLong(c.d[reg], data.value)
           x    == Merge(b.d[reg], result, n)
           sr   == set_logic_flags(b.sr, result, n)
           e    == handle_andi(c, m, op)
<1>1. b \in CPU /\ data.value \in Long /\ SameData(c, b)
  BY ImmediateType, ImmediateSame DEF IsRead
<1>2. reg \in RegisterNumber
  BY OpcodeFields
<1>3. /\ handle_addi(c, m, op) = arithmetic(b, reg, data.value, n, FALSE)
      /\ handle_subi(c, m, op) = arithmetic(b, reg, data.value, n, TRUE)
  BY DEF handle_addi, handle_subi
<1>4. e = [b EXCEPT !.d[reg] = x, !.sr = sr]
  BY <1>1 DEF handle_andi, CPU
<1> HIDE DEF data, b, reg, n, e
<1>5. /\ Frame(c, handle_addi(c, m, op), ArithmeticFlags, BytesOf(n))
      /\ Frame(c, handle_subi(c, m, op), ArithmeticFlags, BytesOf(n))
  BY <1>1, <1>2, <1>3, ArithmeticFrame, FrameAfter
<1>6. result \in Long
  BY <1>1, <1>2, CpuParts, AndLongIsLong
<1> HIDE DEF result
<1>7. Changed(b.sr, sr) \subseteq LogicFlags
  BY <1>1, CpuParts, FlagsChanged DEF LogicFlags
<1> HIDE DEF x, sr
<1>8. e.sr = sr /\ e.d = [b.d EXCEPT ![reg] = x]
  BY <1>1, <1>4 DEF CPU
<1>9. e.d = [b.d EXCEPT ![reg] = Merge(@, result, n)]
  BY <1>8 DEF x
<1>10. OneRegister(b, e, BytesOf(n))
  BY <1>1, <1>2, <1>6, <1>9, MergedRegister
<1>11. Frame(c, e, LogicFlags, BytesOf(n))
  BY <1>1, <1>7, <1>8, <1>10, FrameAfter DEF Frame
<1> QED
  BY <1>5, <1>11 DEF e, n

LEMMA BitFrame ==
  ASSUME NEW c \in CPU, NEW m \in MemoryState, NEW op \in Word,
         NEW change \in [{0, 1} -> {0, 1}]
  PROVE  Frame(c, bit_operation(c, m, op, change), {SR_Z}, 4)
<1> DEFINE reg == Field(op, 0, 3)
           n   == (WordAt(m, c.pc) % 256) % 32
           bit == LongBit(c.d[reg], n)
           c1  == Advance(c, 2)
           x   == SetLongBit(c1.d[reg], n, change[bit])
           sr  == set_sr_flag(c1.sr, SR_Z, bit = 0)
           e   == bit_operation(c, m, op, change)
<1>1. reg \in RegisterNumber /\ c1 \in CPU /\ SameData(c, c1)
  BY OpcodeFields, AdvanceType, AdvanceSame
<1>2. e \in CPU
  BY BitOperationType
<1> HIDE DEF reg, n, c1
<1> HIDE DEF bit
<1>3. e = [c1 EXCEPT !.d[reg] = x, !.sr = sr]
  BY <1>1 DEF bit_operation, reg, n, bit, c1, CPU
<1>4. Changed(c1.sr, sr) \subseteq {SR_Z}
  BY <1>1, CpuParts, FlagsChanged
<1> HIDE DEF x, sr, e
<1>5. e.sr = sr /\ e.d = [c1.d EXCEPT ![reg] = x]
  BY <1>1, <1>3 DEF CPU
<1>6. e.d[reg] = x /\ e.d[reg] \in Long
  BY <1>1, <1>2, <1>5, CpuParts DEF CPU
<1>7. ~(4 <= 2) /\ ~(4 = 1)
  BY SMT
<1>8. OneRegister(c1, e, 4)
  BY <1>1, <1>5, <1>6, <1>7 DEF OneRegister
<1>9. Frame(c, e, {SR_Z}, 4)
  BY <1>1, <1>4, <1>5, <1>8, FrameAfter DEF Frame
<1> QED
  BY <1>9 DEF e

(* BTST puts back the bit it tests. *)
LEMMA BtstSame ==
  ASSUME NEW c \in CPU, NEW m \in MemoryState, NEW op \in Word
  PROVE  handle_btst_imm(c, m, op).d = c.d
<1> DEFINE reg == Field(op, 0, 3)
           n   == (WordAt(m, c.pc) % 256) % 32
           v   == c.d[reg]
           bit == LongBit(v, n)
           c1  == Advance(c, 2)
           keep == [b \in {0, 1} |-> b]
           sr  == set_sr_flag(c1.sr, SR_Z, bit = 0)
           e   == handle_btst_imm(c, m, op)
<1>1. reg \in RegisterNumber /\ c1 \in CPU /\ c1.d = c.d
  BY OpcodeFields, AdvanceType, AdvanceSame DEF SameData
<1>2. n \in 0 .. 31
  <2>1. WordAt(m, c.pc) \in Int
    BY CpuParts, ReadTypes, WordBounds
  <2> QED
    BY SMT, <2>1
<1>3. v \in Long
  BY <1>1, CpuParts
<1>4. keep[0] = 0 /\ keep[1] = 1
  OBVIOUS
<1>5. e = bit_operation(c, m, op, keep)
  BY DEF handle_btst_imm
<1> HIDE DEF reg, n, c1, e, keep
<1>6. bit \in {0, 1}
  BY <1>2, <1>3, LongBitType
<1>7. SetLongBit(v, n, keep[bit]) = v
  BY <1>2, <1>3, <1>4, <1>6, SetSameBit
<1> HIDE DEF bit
<1>8. e = [c1 EXCEPT !.d[reg] = SetLongBit(c1.d[reg], n, keep[bit]), !.sr = sr]
  BY <1>1, <1>5 DEF bit_operation, reg, n, bit, c1, CPU
<1>9. e = [c1 EXCEPT !.d[reg] = v, !.sr = sr]
  BY <1>1, <1>7, <1>8
<1> HIDE DEF sr
<1>10. e.d = [c.d EXCEPT ![reg] = v]
  BY <1>1, <1>9 DEF CPU
<1>11. e.d = c.d
  BY <1>1, <1>10, CpuParts
<1> QED
  BY <1>11 DEF e

LEMMA BitFrames ==
  ASSUME NEW c \in CPU, NEW m \in MemoryState, NEW op \in Word
  PROVE  /\ Frame(c, handle_btst_imm(c, m, op), {SR_Z}, 4)
         /\ Frame(c, handle_bchg_imm(c, m, op), {SR_Z}, 4)
         /\ Frame(c, handle_bclr_imm(c, m, op), {SR_Z}, 4)
         /\ Frame(c, handle_bset_imm(c, m, op), {SR_Z}, 4)
<1>1. /\ [b \in {0, 1} |-> b] \in [{0, 1} -> {0, 1}]
      /\ [b \in {0, 1} |-> 1 - b] \in [{0, 1} -> {0, 1}]
      /\ [b \in {0, 1} |-> 0] \in [{0, 1} -> {0, 1}]
      /\ [b \in {0, 1} |-> 1] \in [{0, 1} -> {0, 1}]
  BY SMT
<1> QED
  BY <1>1, BitFrame
  DEF handle_btst_imm, handle_bchg_imm, handle_bclr_imm, handle_bset_imm

LEMMA SameFrame ==
  ASSUME NEW c, NEW e, SameData(c, e), NEW flags, NEW bytes
  PROVE  Frame(c, e, flags, bytes)
  BY DEF SameData, Frame, OneRegister, Changed

LEMMA BranchSame ==
  ASSUME NEW c \in CPU, NEW op
  PROVE  SameData(c, handle_bcc(c, op))
  BY DEF handle_bcc, SameData, CPU

-----------------------------------------------------------------------------
(* What each handler's opcode allows it to change. *)
LEMMA Allowed ==
  ASSUME NEW op
  PROVE  LET h == handler_of(op)
         IN  /\ h \in Additions \cup Subtractions =>
                  ~IsMove(op) /\ FlagsOf(op) = ArithmeticFlags
                  /\ OperandBytes(op) = BytesOf(SizeField(op))
             /\ h = "andi" => ~IsMove(op) /\ FlagsOf(op) = LogicFlags
                              /\ OperandBytes(op) = BytesOf(SizeField(op))
             /\ h = "btst_imm" => ~IsMove(op) /\ FlagsOf(op) = {SR_Z}
             /\ h \in {"bchg_imm", "bclr_imm", "bset_imm"} =>
                  ~IsMove(op) /\ FlagsOf(op) = {SR_Z} /\ OperandBytes(op) = 4
             /\ h = "move_b" => FlagsOf(op) = LogicFlags /\ OperandBytes(op) = BytesOf(0)
             /\ h = "move_w" => OperandBytes(op) = BytesOf(1)
             /\ h = "move_l" => OperandBytes(op) = BytesOf(2)
             /\ h \in {"move_w", "move_l"} =>
                  FlagsOf(op) = IF EaMode(MoveDestination(op)) = 1 THEN {} ELSE LogicFlags
<1> DEFINE h == handler_of(op)
<1> HIDE DEF h
<1>1. FlagsOf(op) =
        CASE h \in {"move_b", "move_w", "move_l"} ->
               IF EaMode(MoveDestination(op)) = 1 /\ h # "move_b" THEN {} ELSE LogicFlags
          [] h = "andi" -> LogicFlags
          [] h \in {"addq", "subq", "add_reg", "sub_reg", "addi", "subi"} -> ArithmeticFlags
          [] h \in {"btst_imm", "bchg_imm", "bclr_imm", "bset_imm"} -> {SR_Z}
          [] OTHER -> {}
  BY SMT DEF FlagsOf, IsMove, h, LogicFlags, ArithmeticFlags
<1>2. OperandBytes(op) =
        IF h \in {"move_b", "move_w", "move_l"} THEN MoveBytes(op)
        ELSE IF h \in {"bchg_imm", "bclr_imm", "bset_imm"} THEN 4
        ELSE CASE SizeField(op) = 0 -> 1 [] SizeField(op) = 1 -> 2 [] OTHER -> 4
  BY SMT DEF OperandBytes, IsMove, h
<1>3. MoveBytes(op) = CASE h = "move_b" -> 1 [] h = "move_w" -> 2 [] OTHER -> 4
  BY SMT DEF MoveBytes, MoveSize, h
<1>4. BytesOf(0) = 1 /\ BytesOf(1) = 2 /\ BytesOf(2) = 4
  BY SMT DEF BytesOf
<1>5. h \notin {"move_b", "move_w", "move_l"} /\ h \notin {"bchg_imm", "bclr_imm", "bset_imm"}
        => OperandBytes(op) = BytesOf(SizeField(op))
  <2>1. CASE SizeField(op) = 0
    BY SMT, <1>2, <2>1 DEF BytesOf
  <2>2. CASE SizeField(op) = 1
    BY SMT, <1>2, <2>2 DEF BytesOf
  <2>3. CASE SizeField(op) \notin {0, 1}
    BY SMT, <1>2, <2>3 DEF BytesOf
  <2> QED
    BY <2>1, <2>2, <2>3
<1>6. IsMove(op) <=> h \in {"move_b", "move_w", "move_l"}
  BY DEF IsMove, h
<1>7. h \in Additions \cup Subtractions =>
        ~IsMove(op) /\ FlagsOf(op) = ArithmeticFlags /\ OperandBytes(op) = BytesOf(SizeField(op))
  BY SMT, <1>1, <1>5, <1>6 DEF Additions, Subtractions
<1>8. h = "andi" => ~IsMove(op) /\ FlagsOf(op) = LogicFlags
                    /\ OperandBytes(op) = BytesOf(SizeField(op))
  BY SMT, <1>1, <1>5, <1>6
<1>9. h \in {"btst_imm", "bchg_imm", "bclr_imm", "bset_imm"} => ~IsMove(op) /\ FlagsOf(op) = {SR_Z}
  BY SMT, <1>1, <1>6
<1>10. h \in {"bchg_imm", "bclr_imm", "bset_imm"} => OperandBytes(op) = 4
  BY SMT, <1>2
<1>11. h = "move_b" => FlagsOf(op) = LogicFlags /\ OperandBytes(op) = BytesOf(0)
  <2> SUFFICES ASSUME h = "move_b"
               PROVE  FlagsOf(op) = LogicFlags /\ OperandBytes(op) = BytesOf(0)
    OBVIOUS
  <2>1. FlagsOf(op) = LogicFlags
    BY SMT, <1>1
  <2>2. OperandBytes(op) = BytesOf(0)
    BY SMT, <1>2, <1>3, <1>4
  <2> QED
    BY <2>1, <2>2
<1>12. h = "move_w" => OperandBytes(op) = BytesOf(1)
  BY SMT, <1>2, <1>3, <1>4
<1>13. h = "move_l" => OperandBytes(op) = BytesOf(2)
  BY SMT, <1>2, <1>3, <1>4
<1>14. h \in {"move_w", "move_l"} =>
         FlagsOf(op) = IF EaMode(MoveDestination(op)) = 1 THEN {} ELSE LogicFlags
  <2>1. CASE h = "move_w"
    BY SMT, <1>1, <2>1
  <2>2. CASE h = "move_l"
    BY SMT, <1>1, <2>2
  <2> QED
    BY <2>1, <2>2
<1> QED
  BY <1>7, <1>8, <1>9, <1>10, <1>11, <1>12, <1>13, <1>14 DEF h

(* What a step may do: to the flags and the data registers what its opcode    *)
(* allows, and to the memory nothing that is not logged.                     *)
StepFrame ==
  /\ Frame(cpu, cpu', FlagsOf(opcode), OperandBytes(opcode))
  /\ mem' = mem \/ Appended(mem, mem')

LEMMA EveryStepFrame == ExecInv /\ ExecNext => StepFrame
<1> SUFFICES ASSUME ExecInv, ExecNext PROVE StepFrame
  OBVIOUS
<1>1. /\ opcode \in Word /\ fetched \in CPU /\ mem \in MemoryState /\ MemInv(mem)
      /\ SameData(cpu, fetched)
  <2>1. mem \in MemoryState /\ cpu \in CPU /\ MemInv(mem)
    BY DEF ExecInv, MemInv
  <2> QED
    BY <2>1, CpuParts, ReadTypes, AdvanceType, AdvanceSame DEF opcode, fetched
<1> DEFINE allowed(e) == Frame(fetched, e, FlagsOf(opcode), OperandBytes(opcode))
<1>2. ASSUME NEW handler, NEW after, Registers(handler, after), allowed(after)
      PROVE  StepFrame
  <2>1. cpu' = after /\ mem' = mem
    BY <1>2 DEF Registers
  <2> QED
    BY <1>1, <1>2, <2>1, FrameAfter DEF StepFrame
<1>3. ASSUME NEW n \in {0, 1, 2}, NEW ok \in AllocAnswers, NEW handler,
             Move(handler, move(fetched, mem, opcode, n, ok)),
             OperandBytes(opcode) = BytesOf(n),
             FlagsOf(opcode) = IF EaMode(MoveDestination(opcode)) = 1 /\ n # 0
                               THEN {} ELSE LogicFlags
      PROVE  StepFrame
  <2> DEFINE done == move(fetched, mem, opcode, n, ok)
             dest == MoveDestination(opcode)
  <2>1. /\ Changed(fetched.sr, done.cpu.sr) \subseteq
             IF EaMode(dest) = 1 /\ n # 0 THEN {} ELSE {SR_N, SR_Z, SR_V, SR_C}
        /\ IF EaMode(dest) = 0
           THEN \E x \in Long :
                  done.cpu.d = [fetched.d EXCEPT ![EaReg(dest)] = Merge(@, x, n)]
           ELSE done.cpu.d = fetched.d
        /\ IF EaMode(dest) > 1 THEN Appended(mem, done.mem) ELSE done.mem = mem
    BY <1>1, ExecutorAssumption, MoveFrame
  <2>2. cpu' = done.cpu /\ mem' = done.mem
    BY <1>3 DEF Move
  <2>3. EaReg(dest) \in RegisterNumber
    BY <1>1, OpcodeFields, FieldTypes, SMT DEF EaReg, RegisterNumber
  <2> HIDE DEF done, dest
  <2>4. OneRegister(fetched, done.cpu, BytesOf(n))
    <3>1. CASE EaMode(dest) = 0
      BY <1>1, <2>1, <2>3, <3>1, MergedRegister
    <3>2. CASE EaMode(dest) # 0
      BY <2>1, <3>2 DEF OneRegister
    <3> QED
      BY <3>1, <3>2
  <2>5. allowed(done.cpu)
    BY <1>3, <2>1, <2>4 DEF Frame, LogicFlags, dest
  <2> QED
    BY <1>1, <2>1, <2>2, <2>5, FrameAfter DEF StepFrame
<1> HIDE DEF ExecInv
<1>4. CASE MoveB
  <2>1. PICK ok \in AllocAnswers : Move("move_b", move(fetched, mem, opcode, 0, ok))
    BY <1>4 DEF MoveB, handle_move_b
  <2>2. handler_of(opcode) = "move_b"
    BY <2>1 DEF Move, Turn
  <2> QED
    BY <1>3, <2>1, <2>2, Allowed
<1>5. CASE MoveW
  <2>1. PICK ok \in AllocAnswers : Move("move_w", move(fetched, mem, opcode, 1, ok))
    BY <1>5 DEF MoveW, handle_move_w
  <2>2. handler_of(opcode) = "move_w"
    BY <2>1 DEF Move, Turn
  <2> QED
    BY <1>3, <2>1, <2>2, Allowed
<1>6. CASE MoveL
  <2>1. PICK ok \in AllocAnswers : Move("move_l", move(fetched, mem, opcode, 2, ok))
    BY <1>6 DEF MoveL, handle_move_l
  <2>2. handler_of(opcode) = "move_l"
    BY <2>1 DEF Move, Turn
  <2> QED
    BY <1>3, <2>1, <2>2, Allowed
<1>7. CASE AddQ \/ SubQ \/ AddReg \/ SubReg
  <2>1. handler_of(opcode) \in Additions \cup Subtractions
    BY <1>7 DEF AddQ, SubQ, AddReg, SubReg, Registers, Turn, Additions, Subtractions
  <2>2. FlagsOf(opcode) = ArithmeticFlags /\ OperandBytes(opcode) = BytesOf(SizeField(opcode))
    BY <2>1, Allowed
  <2> QED
    BY <1>1, <1>2, <1>7, <2>2, RegisterFrames DEF AddQ, SubQ, AddReg, SubReg
<1>8. CASE AddI \/ SubI
  <2>1. handler_of(opcode) \in Additions \cup Subtractions
    BY <1>8 DEF AddI, SubI, Registers, Turn, Additions, Subtractions
  <2>2. FlagsOf(opcode) = ArithmeticFlags /\ OperandBytes(opcode) = BytesOf(SizeField(opcode))
    BY <2>1, Allowed
  <2> QED
    BY <1>1, <1>2, <1>8, <2>2, ImmediateFrames DEF AddI, SubI
<1>9. CASE AndI
  <2>1. FlagsOf(opcode) = LogicFlags /\ OperandBytes(opcode) = BytesOf(SizeField(opcode))
    BY <1>9, Allowed DEF AndI, Registers, Turn
  <2> QED
    BY <1>1, <1>2, <1>9, <2>1, ImmediateFrames DEF AndI
<1>10. CASE BtstImm
  <2>1. FlagsOf(opcode) = {SR_Z}
    BY <1>10, Allowed DEF BtstImm, Registers, Turn
  <2>2. Frame(fetched, handle_btst_imm(fetched, mem, opcode), {SR_Z}, OperandBytes(opcode))
    BY <1>1, BitFrames, BtstSame DEF Frame, OneRegister
  <2> QED
    BY <1>2, <1>10, <2>1, <2>2 DEF BtstImm
<1>11. CASE BchgImm \/ BclrImm \/ BsetImm
  <2>1. FlagsOf(opcode) = {SR_Z} /\ OperandBytes(opcode) = 4
    BY <1>11, Allowed DEF BchgImm, BclrImm, BsetImm, Registers, Turn
  <2> QED
    BY <1>1, <1>2, <1>11, <2>1, BitFrames DEF BchgImm, BclrImm, BsetImm
<1>12. CASE Bcc
  BY <1>1, <1>2, <1>12, BranchSame, SameFrame DEF Bcc
<1>13. CASE Nop \/ Rts \/ Unknown
  <2>1. allowed(fetched)
    BY SameFrame DEF SameData
  <2> QED
    BY <1>2, <1>13, <2>1 DEF Nop, Rts, Unknown
<1> QED
  BY <1>4, <1>5, <1>6, <1>7, <1>8, <1>9, <1>10, <1>11, <1>12, <1>13 DEF ExecNext

(* Whatever program runs, no instruction touches a flag that is not its own,  *)
(* in particular none above X; none changes two data registers, or the part   *)
(* of one that its size leaves out; and what it stores is logged.             *)
THEOREM InstructionsKeepTheirFrames ==
  ExecSpec => FlagFrame /\ DataRegisterFrame /\ LogAppendOnly
<1> DEFINE changed == { r \in RegisterNumber : cpu'.d[r] # cpu.d[r] }
           Data == /\ \A r, q \in changed : r = q
                   /\ \A r \in changed :
                        /\ OperandBytes(opcode) <= 2 => cpu'.d[r].hi = cpu.d[r].hi
                        /\ OperandBytes(opcode) = 1 =>
                             cpu'.d[r].lo \div 256 = cpu.d[r].lo \div 256
           Flags == (cpu.sr \ cpu'.sr) \cup (cpu'.sr \ cpu.sr) \subseteq FlagsOf(opcode)
<1>1. ExecInv /\ ExecInv' /\ [ExecNext]_vars => [Flags]_vars /\ [Data]_vars /\ [LogKept]_mem
  <2> SUFFICES ASSUME ExecInv, ExecInv', ExecNext
               PROVE  Flags /\ Data /\ [LogKept]_mem
    BY DEF vars
  <2>1. StepFrame
    BY EveryStepFrame
  <2>2. Flags
    BY <2>1 DEF StepFrame, Frame, Changed
  <2>3. Data
    <3> DEFINE bytes == OperandBytes(opcode)
    <3>1. OneRegister(cpu, cpu', bytes)
      BY <2>1 DEF StepFrame, Frame
    <3> HIDE DEF bytes
    <3>2. cpu.d \in [RegisterNumber -> Long]
      BY DEF ExecInv, CPU
    <3>3. CASE cpu'.d = cpu.d
      BY <3>3
    <3>4. CASE \E r \in RegisterNumber, x \in Long :
                 /\ cpu'.d = [cpu.d EXCEPT ![r] = x]
                 /\ bytes <= 2 => x.hi = cpu.d[r].hi
                 /\ bytes = 1 => x.lo \div 256 = cpu.d[r].lo \div 256
      <4>1. PICK r \in RegisterNumber, x \in Long :
              /\ cpu'.d = [cpu.d EXCEPT ![r] = x]
              /\ bytes <= 2 => x.hi = cpu.d[r].hi
              /\ bytes = 1 => x.lo \div 256 = cpu.d[r].lo \div 256
        BY <3>4
      <4>2. cpu'.d[r] = x /\ \A q \in RegisterNumber : q # r => cpu'.d[q] = cpu.d[q]
        BY <3>2, <4>1
      <4>3. \A q \in changed : q = r
        BY <4>2
      <4> QED
        BY <4>1, <4>2, <4>3 DEF bytes
    <3> QED
      BY <3>1, <3>3, <3>4 DEF OneRegister
  <2>4. [LogKept]_mem
    BY <2>1, AppendedIsKept DEF StepFrame, ExecInv
  <2> QED
    BY <2>2, <2>3, <2>4
<1> QED
  BY <1>1, ExecInvariant, PTL DEF ExecSpec, FlagFrame, DataRegisterFrame, LogAppendOnly, LogKept

-----------------------------------------------------------------------------
(* The program counter of e is so many words after that of c. *)
Stepped(c, e, words) == e.pc = AddLong(c.pc, FromWord(2 * words))

(* Words taken one after the other. *)
LEMMA SteppedOn ==
  ASSUME NEW c \in CPU, NEW e, NEW f, NEW j \in 0 .. 10, NEW k \in 0 .. 10,
         Stepped(c, e, j), Stepped(e, f, k)
  PROVE  Stepped(c, f, j + k)
<1>1. 2 * j \in 0 .. 255 /\ 2 * k \in 0 .. 255 /\ 2 * j + 2 * k = 2 * (j + k)
  BY SMT
<1>2. AddLong(AddLong(c.pc, FromWord(2 * j)), FromWord(2 * k))
        = AddLong(c.pc, FromWord(2 * j + 2 * k))
  BY <1>1, CpuParts, AddSteps
<1> QED
  BY <1>1, <1>2 DEF Stepped

(* None taken. *)
LEMMA NotStepped ==
  ASSUME NEW c \in CPU, NEW e, e.pc = c.pc
  PROVE  Stepped(c, e, 0)
<1>1. 2 * 0 = 0
  BY SMT
<1> QED
  BY <1>1, CpuParts, AddNothing DEF Stepped

(* cpu->pc += 2 and += 4 are one word and two, and touch no other register. *)
LEMMA AdvanceSteps ==
  ASSUME NEW c \in CPU
  PROVE  /\ Stepped(c, Advance(c, 2), 1) /\ Advance(c, 2).a = c.a
         /\ Stepped(c, Advance(c, 4), 2) /\ Advance(c, 4).a = c.a
<1>1. 2 * 1 = 2 /\ 2 * 2 = 4
  BY SMT
<1> QED
  BY <1>1 DEF Advance, Stepped, CPU

(* A displacement takes as many words as it has, ... *)
LEMMA DisplacementSteps ==
  ASSUME NEW c \in CPU, NEW m, NEW words \in 0 .. 2
  PROVE  LET e == displacement(c, m, words).cpu
         IN  Stepped(c, e, words) /\ e.a = c.a
<1>1. CASE words = 0
  BY <1>1, NotStepped DEF displacement, Read
<1>2. CASE words = 1
  BY <1>2, AdvanceSteps DEF displacement, Read
<1>3. CASE words = 2
  BY <1>3, AdvanceSteps DEF displacement, Read
<1> QED
  BY <1>1, <1>2, <1>3

(* ... which the fields of the extension word announce, ... *)
LEMMA ExtensionWords ==
  ASSUME NEW w \in Word
  PROVE  /\ base_words(w) \in 0 .. 2 /\ outer_words(Field(w, 0, 3)) \in 0 .. 2
         /\ Bit(w, 8) # 0 =>
              IndexedWords(w) = 1 + (base_words(w) + outer_words(Field(w, 0, 3)))
         /\ IndexedWords(w) \in 1 .. 5
<1> DEFINE bd == Field(w, 4, 2)
           od == Field(w, 0, 2)
           iis == Field(w, 0, 3)
<1>1. bd \in 0 .. 3 /\ od \in 0 .. 3 /\ iis \in 0 .. 7 /\ od = iis % 4
  <2>1. w \in Int
    BY WordBounds
  <2> QED
    BY SMTT(30), <2>1 DEF Field
<1>2. base_words(w) = IF bd < 2 THEN 0 ELSE bd - 1
  BY <1>1 DEF base_words
<1> HIDE DEF bd, od, iis
<1>3. outer_words(iis) = IF od < 2 THEN 0 ELSE od - 1
  BY SMTT(30), <1>1 DEF outer_words
<1>4. IndexedWords(w) = IF Bit(w, 8) = 0 THEN 1
                        ELSE 1 + (IF bd < 2 THEN 0 ELSE bd - 1)
                               + (IF od < 2 THEN 0 ELSE od - 1)
  BY DEF IndexedWords, bd, od
<1> QED
  BY SMTT(30), <1>1, <1>2, <1>3, <1>4 DEF iis

(* An extension word of the full format takes its base and outer displacements*)
(* and moves no address register.                                          *)
LEMMA FullFormatSteps ==
  ASSUME NEW c \in CPU, NEW m \in MemoryState, NEW b, NEW w \in Word
  PROVE  LET e == resolve_full_format_ea(c, m, b, w).cpu
         IN  /\ Stepped(c, e, base_words(w) + outer_words(Field(w, 0, 3)))
             /\ e.a = c.a
<1> DEFINE k     == outer_words(Field(w, 0, 3))
           base  == displacement(c, m, base_words(w))
           outer == displacement(base.cpu, m, k)
<1>1. base_words(w) \in 0 .. 2 /\ k \in 0 .. 2
  BY ExtensionWords
<1>2. base.cpu \in CPU
  BY DisplacementType DEF IsRead
<1>3. Stepped(c, base.cpu, base_words(w)) /\ base.cpu.a = c.a
  BY <1>1, DisplacementSteps
<1>4. resolve_full_format_ea(c, m, b, w).cpu = outer.cpu
  BY Zenon DEF resolve_full_format_ea, At
<1> HIDE DEF base, k
<1>5. Stepped(base.cpu, outer.cpu, k) /\ outer.cpu.a = base.cpu.a
  BY <1>1, <1>2, DisplacementSteps
<1> HIDE DEF outer
<1>6. base_words(w) \in 0 .. 10 /\ k \in 0 .. 10
  BY <1>1
<1>7. Stepped(c, outer.cpu, base_words(w) + k)
  BY <1>3, <1>5, <1>6, SteppedOn
<1> QED
  BY <1>3, <1>4, <1>5, <1>7 DEF k

(* ... and an index its extension word and those that word announces. *)
LEMMA IndexedSteps ==
  ASSUME NEW c \in CPU, NEW m \in MemoryState, NEW b
  PROVE  LET e == resolve_indexed(c, m, b).cpu
         IN  Stepped(c, e, IndexedWords(WordAt(m, c.pc))) /\ e.a = c.a
<1> DEFINE w  == WordAt(m, c.pc)
           c1 == Advance(c, 2)
           brief == AddLong(AddLong(b, index_value(c1, w)), SignExtendByte(w % 256))
           full == resolve_full_format_ea(c1, m, b, w)
           more == base_words(w) + outer_words(Field(w, 0, 3))
           at == resolve_indexed(c, m, b)
<1>1. c1 \in CPU /\ Stepped(c, c1, 1) /\ c1.a = c.a /\ w \in Word
  BY CpuParts, ReadTypes, AdvanceType, AdvanceSteps
<1>2. at = IF Bit(w, 8) = 1 THEN full ELSE At(c1, brief)
  BY Zenon DEF resolve_indexed
<1> HIDE DEF w, c1, brief, at
<1>3. Stepped(c1, full.cpu, more) /\ full.cpu.a = c1.a
  BY <1>1, FullFormatSteps
<1> HIDE DEF full
<1>4. more \in 0 .. 10 /\ 1 \in 0 .. 10 /\ (Bit(w, 8) = 1 => IndexedWords(w) = 1 + more)
  BY <1>1, ExtensionWords
<1>5. Bit(w, 8) # 1 => IndexedWords(w) = 1
  <2>1. w \in Int
    BY <1>1, WordBounds
  <2>2. Bit(w, 8) \in {0, 1}
    BY SMT, <2>1 DEF Bit
  <2> QED
    BY <2>2 DEF IndexedWords
<1> HIDE DEF more
<1>6. Stepped(c, full.cpu, 1 + more)
  BY <1>1, <1>3, <1>4, SteppedOn
<1>7. Stepped(c, at.cpu, IndexedWords(w)) /\ at.cpu.a = c.a
  <2>1. CASE Bit(w, 8) = 1
    BY <1>1, <1>2, <1>3, <1>4, <1>6, <2>1
  <2>2. CASE Bit(w, 8) # 1
    BY <1>1, <1>2, <1>5, <2>2 DEF At
  <2> QED
    BY <2>1, <2>2
<1> QED
  BY <1>7 DEF at, w

(* The mode and the register of six bits. *)
LEMMA EaFields ==
  ASSUME NEW ea \in 0 .. 63
  PROVE  EaMode(ea) = ea \div 8 /\ EaReg(ea) = ea % 8
  BY SMTT(30) DEF EaMode, EaReg, Field

(* Neither a register nor a register's address takes a word, an immediate   *)
(* takes its own.                                                           *)
LEMMA EaWordsOf ==
  ASSUME NEW m, NEW at, NEW ea \in 0 .. 63, NEW n
  PROVE  /\ EaMode(ea) < 5 => EaWords(m, at, ea, n) = 0
         /\ ea = 60 /\ n = 2 => EaWords(m, at, ea, n) = 2
         /\ ea = 60 /\ n # 2 => EaWords(m, at, ea, n) = 1
<1> DEFINE mode == EaMode(ea)
           indexed == IndexedWords(WordAt(m, at))
           words == EaWords(m, at, ea, n)
<1>1. mode = ea \div 8
  BY EaFields
<1>2. words =
        CASE mode < 5 -> 0
          [] ea \in 40 .. 47 \cup {56, 58} -> 1
          [] ea \in 48 .. 55 \cup {59} -> indexed
          [] ea = 57 -> 2
          [] ea = 60 -> IF n = 2 THEN 2 ELSE 1
          [] OTHER -> 0
  BY SMT DEF EaWords
<1> HIDE DEF mode, indexed, words
<1>3. mode < 5 => words = 0
  <2>1. mode < 5 => ea \in 0 .. 39
    BY SMT, <1>1
  <2> QED
    BY SMT, <1>2, <2>1
<1>4. (ea = 60 /\ n = 2 => words = 2) /\ (ea = 60 /\ n # 2 => words = 1)
  BY SMT, <1>1, <1>2
<1> QED
  BY <1>3, <1>4 DEF mode, words

(* Resolving an address takes the words of its encoding, ... *)
LEMMA ResolveSteps ==
  ASSUME NEW c \in CPU, NEW m \in MemoryState, NEW ea \in 0 .. 63, ea # 60, NEW n
  PROVE  Stepped(c, resolve_ea(c, m, ea, n).cpu, EaWords(m, c.pc, ea, n))
<1> DEFINE mode == EaMode(ea)
           reg  == EaReg(ea)
           step == FromWord(Increment(reg, n))
           less == SubLong(c.a[reg], step)
           word == SignExtendWord(WordAt(m, c.pc))
           more == AddLong(c.a[reg], step)
           indexed == IndexedWords(WordAt(m, c.pc))
           at == resolve_ea(c, m, ea, n)
           words == EaWords(m, c.pc, ea, n)
<1>1. mode = ea \div 8 /\ reg = ea % 8
  BY EaFields
<1> HIDE DEF step
<1>2. at =
        CASE mode = 2 -> At(c, c.a[reg])
          [] mode = 3 -> At([c EXCEPT !.a[reg] = more], c.a[reg])
          [] mode = 4 -> At([c EXCEPT !.a[reg] = less], less)
          [] mode = 5 -> At(Advance(c, 2), AddLong(c.a[reg], word))
          [] mode = 6 -> resolve_indexed(c, m, c.a[reg])
          [] mode = 7 /\ reg = 0 -> At(Advance(c, 2), word)
          [] mode = 7 /\ reg = 1 -> At(Advance(c, 4), LongAt(m, c.pc))
          [] mode = 7 /\ reg = 2 -> At(Advance(c, 2), AddLong(c.pc, word))
          [] mode = 7 /\ reg = 3 -> resolve_indexed(c, m, c.pc)
          [] OTHER -> At(c, ZeroLong)
  BY SMT DEF resolve_ea, step
<1>3. words =
        CASE mode < 5 -> 0
          [] ea \in 40 .. 47 \cup {56, 58} -> 1
          [] ea \in 48 .. 55 \cup {59} -> indexed
          [] ea = 57 -> 2
          [] ea = 60 -> IF n = 2 THEN 2 ELSE 1
          [] OTHER -> 0
  BY SMT DEF EaWords
<1>4. \A e, x : At(e, x).cpu = e
  BY DEF At
<1>5. /\ Stepped(c, c, 0)
      /\ Stepped(c, [c EXCEPT !.a[reg] = more], 0)
      /\ Stepped(c, [c EXCEPT !.a[reg] = less], 0)
      /\ Stepped(c, Advance(c, 2), 1) /\ Stepped(c, Advance(c, 4), 2)
  <2>1. [c EXCEPT !.a[reg] = more].pc = c.pc /\ [c EXCEPT !.a[reg] = less].pc = c.pc
    BY DEF CPU
  <2> QED
    BY <2>1, NotStepped, AdvanceSteps
<1>6. /\ Stepped(c, resolve_indexed(c, m, c.a[reg]).cpu, indexed)
      /\ Stepped(c, resolve_indexed(c, m, c.pc).cpu, indexed)
  BY IndexedSteps
<1> HIDE DEF less, word, more, indexed, at, words, mode, reg
<1>7. CASE mode < 5
  <2>1. \/ at = At(c, c.a[reg]) \/ at = At([c EXCEPT !.a[reg] = more], c.a[reg])
        \/ at = At([c EXCEPT !.a[reg] = less], less) \/ at = At(c, ZeroLong)
    <3>1. mode \in 0 .. 4
      BY SMT, <1>1, <1>7
    <3>2. CASE mode \notin 2 .. 6 /\ mode # 7
      BY SMT, <1>2, <3>2
    <3>3. CASE mode = 2
      BY SMT, <1>2, <3>3
    <3>4. CASE mode = 3
      BY SMT, <1>2, <3>4
    <3>5. CASE mode = 4
      BY SMT, <1>2, <3>5
    <3> QED
      BY <3>1, <3>2, <3>3, <3>4, <3>5
  <2>2. words = 0
    BY <1>7, EaWordsOf DEF mode, words
  <2> QED
    BY <1>4, <1>5, <2>1, <2>2 DEF at, words
<1>8. CASE ea \in 40 .. 47 \cup {56, 58}
  <2>1. mode \notin 0 .. 4 /\ words = 1
    BY SMT, <1>1, <1>3, <1>8
  <2>2. mode = 5 \/ (mode = 7 /\ reg = 0) \/ (mode = 7 /\ reg = 2)
    BY SMT, <1>1, <1>8
  <2>3. at.cpu = Advance(c, 2)
    BY SMT, <1>2, <1>4, <2>2
  <2> QED
    BY <1>5, <2>1, <2>3 DEF at, words
<1>9. CASE ea \in 48 .. 55 \cup {59}
  <2>1. words = indexed
    BY SMT, <1>1, <1>3, <1>9
  <2>2. mode = 6 \/ (mode = 7 /\ reg = 3)
    BY SMT, <1>1, <1>9
  <2>3. at = resolve_indexed(c, m, c.a[reg]) \/ at = resolve_indexed(c, m, c.pc)
    BY SMT, <1>2, <2>2
  <2> QED
    BY <1>6, <2>1, <2>3 DEF at, words
<1>10. CASE ea = 57
  <2>1. words = 2
    BY SMT, <1>1, <1>3, <1>10
  <2>2. mode = 7 /\ reg = 1
    BY SMT, <1>1, <1>10
  <2>3. at.cpu = Advance(c, 4)
    BY SMT, <1>2, <1>4, <2>2
  <2> QED
    BY <1>5, <2>1, <2>3 DEF at, words
<1>11. CASE ea \in 61 .. 63
  <2>1. words = 0
    BY SMT, <1>1, <1>3, <1>11
  <2>2. mode = 7 /\ reg \in 5 .. 7
    BY SMT, <1>1, <1>11
  <2>3. at = At(c, ZeroLong)
    BY SMT, <1>2, <2>2
  <2> QED
    BY <1>4, <1>5, <2>1, <2>3 DEF at, words
<1> QED
  <2>1. \/ mode < 5 \/ ea \in 40 .. 47 \cup {56, 58} \/ ea \in 48 .. 55 \cup {59}
        \/ ea = 57 \/ ea \in 61 .. 63
    BY SMT, <1>1
  <2> QED
    BY <1>7, <1>8, <1>9, <1>10, <1>11, <2>1

(* ... and so does reading through it, or reading an immediate. *)
LEMMA ReadFromSteps ==
  ASSUME NEW c \in CPU, NEW m \in MemoryState, NEW ea \in 0 .. 63, NEW n
  PROVE  Stepped(c, read_from_ea(c, m, ea, n).cpu, EaWords(m, c.pc, ea, n))
<1> DEFINE mode == EaMode(ea)
           reg  == EaReg(ea)
           at   == resolve_ea(c, m, ea, n)
           loaded == CASE n = 0 -> FromWord(ByteAt(m, at.address))
                       [] n = 1 -> FromWord(WordAt(m, at.address))
                       [] OTHER -> LongAt(m, at.address)
           read == read_from_ea(c, m, ea, n)
           words == EaWords(m, c.pc, ea, n)
<1>1. mode = ea \div 8 /\ reg = ea % 8
  BY EaFields
<1>2. Stepped(c, Advance(c, 2), 1) /\ Stepped(c, Advance(c, 4), 2) /\ Stepped(c, c, 0)
  BY AdvanceSteps, NotStepped
<1>3. ea # 60 => Stepped(c, at.cpu, words)
  BY ResolveSteps
<1> HIDE DEF at
<1>4. read =
        CASE mode = 7 /\ reg = 4 /\ n = 2 -> Read(Advance(c, 4), LongAt(m, c.pc))
          [] mode = 7 /\ reg = 4 /\ n # 2 -> Read(Advance(c, 2), FromWord(WordAt(m, c.pc)))
          [] mode = 0 -> Read(c, c.d[reg])
          [] mode = 1 -> Read(c, c.a[reg])
          [] OTHER -> Read(at.cpu, loaded)
  BY SMT DEF read_from_ea, at
<1>5. /\ mode < 5 => words = 0
      /\ ea = 60 /\ n = 2 => words = 2
      /\ ea = 60 /\ n # 2 => words = 1
  BY EaWordsOf
<1> HIDE DEF loaded, read, words, mode, reg
<1>6. \A e, x : Read(e, x).cpu = e
  BY DEF Read
<1>7. CASE ea = 60
  <2>1. mode = 7 /\ reg = 4
    BY SMT, <1>1, <1>7
  <2>2. read.cpu = IF n = 2 THEN Advance(c, 4) ELSE Advance(c, 2)
    BY SMT, <1>4, <1>6, <2>1
  <2> QED
    BY <1>2, <1>5, <1>7, <2>2 DEF read, words
<1>8. CASE mode \in {0, 1}
  <2>1. read.cpu = c
    BY SMT, <1>4, <1>6, <1>8
  <2>2. words = 0
    BY SMT, <1>5, <1>8
  <2> QED
    BY <1>2, <2>1, <2>2 DEF read, words
<1>9. CASE ea # 60 /\ mode \notin {0, 1}
  <2>1. ~(mode = 7 /\ reg = 4)
    BY SMT, <1>1, <1>9
  <2>2. read.cpu = at.cpu
    BY SMT, <1>4, <1>6, <1>9, <2>1
  <2> QED
    BY <1>3, <1>9, <2>2 DEF read, words
<1> QED
  BY <1>7, <1>8, <1>9

(* A store takes those of its destination, if that is no immediate. *)
LEMMA WriteToSteps ==
  ASSUME NEW c \in CPU, NEW m, MemInv(m), NEW ea \in 0 .. 63, ea # 60, NEW value, NEW n, NEW ok
  PROVE  Stepped(c, write_to_ea(c, m, ea, value, n, ok).cpu, EaWords(m, c.pc, ea, n))
<1> DEFINE mode == EaMode(ea)
           reg  == EaReg(ea)
           at   == resolve_ea(c, m, ea, n)
           cell == Index(at.address)
           stored == CASE n = 0 -> mem_write_byte(m, cell, value.lo % 256, ok)
                       [] n = 1 -> mem_write_word(m, cell, value.lo, ok)
                       [] OTHER -> mem_write_long(m, cell, value, ok)
           done == write_to_ea(c, m, ea, value, n, ok)
           words == EaWords(m, c.pc, ea, n)
<1>2. Stepped(c, at.cpu, words)
  BY ResolveSteps DEF MemInv
<1>3. mode < 5 => words = 0
  BY EaWordsOf
<1>4. done =
        CASE mode = 0 -> Done([c EXCEPT !.d[reg] = Merge(c.d[reg], value, n)], m)
          [] mode = 1 /\ n = 0 -> Done(c, m)
          [] mode = 1 /\ n = 1 -> Done([c EXCEPT !.a[reg] = SignExtendWord(value.lo)], m)
          [] mode = 1 /\ n \notin {0, 1} -> Done([c EXCEPT !.a[reg] = value], m)
          [] OTHER -> Done(at.cpu, stored)
  BY SMT DEF write_to_ea
<1> HIDE DEF mode, reg, at, stored, done, words
<1>5. \A e, x : Done(e, x).cpu = e
  BY DEF Done
<1>6. CASE mode \in {0, 1}
  <2>1. \/ done = Done([c EXCEPT !.d[reg] = Merge(c.d[reg], value, n)], m)
        \/ done = Done(c, m)
        \/ done = Done([c EXCEPT !.a[reg] = SignExtendWord(value.lo)], m)
        \/ done = Done([c EXCEPT !.a[reg] = value], m)
    BY SMT, <1>4, <1>6
  <2>2. done.cpu.pc = c.pc
    BY <1>5, <2>1 DEF CPU
  <2>3. words = 0
    BY SMT, <1>3, <1>6
  <2> QED
    BY <2>2, <2>3, NotStepped DEF done, words
<1>7. CASE mode \notin {0, 1}
  <2>1. done.cpu = at.cpu
    BY SMT, <1>4, <1>5, <1>7
  <2> QED
    BY <1>2, <2>1 DEF done, words
<1> QED
  BY <1>6, <1>7

(* The words of an operand are few. *)
LEMMA EaWordsType ==
  ASSUME NEW m \in MemoryState, NEW at \in Long, NEW ea \in 0 .. 63, NEW n
  PROVE  EaWords(m, at, ea, n) \in 0 .. 5
<1> DEFINE mode == EaMode(ea)
           indexed == IndexedWords(WordAt(m, at))
           words == EaWords(m, at, ea, n)
<1>1. indexed \in 0 .. 5
  <2>1. indexed \in 1 .. 5
    BY ReadTypes, ExtensionWords
  <2> HIDE DEF indexed
  <2> QED
    BY <2>1
<1>2. words =
        CASE mode < 5 -> 0
          [] ea \in 40 .. 47 \cup {56, 58} -> 1
          [] ea \in 48 .. 55 \cup {59} -> indexed
          [] ea = 57 -> 2
          [] ea = 60 -> IF n = 2 THEN 2 ELSE 1
          [] OTHER -> 0
  BY SMT DEF EaWords
<1> HIDE DEF mode, indexed, words
<1>3. words \in {0, 1, 2} \cup {indexed}
  BY SMT, <1>2
<1>4. words \in 0 .. 5
  BY SMT, <1>1, <1>3
<1> QED
  BY <1>4 DEF words

(* The operands of a MOVE are of six bits each. *)
LEMMA MoveOperands ==
  ASSUME NEW op \in Word
  PROVE  op % 64 \in 0 .. 63 /\ MoveDestination(op) \in 0 .. 63
<1>1. op \in Int
  BY WordBounds
<1>2. Field(op, 6, 3) \in 0 .. 7 /\ Field(op, 9, 3) \in 0 .. 7
  BY <1>1, FieldTypes
<1> QED
  BY SMT, <1>1, <1>2 DEF MoveDestination

(* A MOVE takes the words of its source and then those of its destination. *)
LEMMA MoveSteps ==
  ASSUME NEW c \in CPU, NEW m, MemInv(m), NEW op \in Word, NEW n, NEW ok \in BOOLEAN,
         ~IntoImmediate(op)
  PROVE  LET source == EaWords(m, c.pc, op % 64, n)
             next   == AddLong(c.pc, FromWord(2 * source))
             dest   == EaWords(m, next, MoveDestination(op), n)
         IN  source \in 0 .. 5 /\ dest \in 0 .. 5 /\ source + dest \in 0 .. 10
             /\ Stepped(c, move(c, m, op, n, ok).cpu, source + dest)
<1> DEFINE source == EaWords(m, c.pc, op % 64, n)
           next   == AddLong(c.pc, FromWord(2 * source))
           ea     == MoveDestination(op)
           dest   == EaWords(m, next, ea, n)
           src    == read_from_ea(c, m, op % 64, n)
           to     == write_to_ea(src.cpu, m, ea, src.value, n, ok)
           done   == move(c, m, op, n, ok)
<1>1. op % 64 \in 0 .. 63 /\ ea # 60 /\ ea \in 0 .. 63 /\ ea \in Int /\ op % 64 \in Int
  BY SMT, MoveOperands DEF IntoImmediate
<1>2. m \in MemoryState /\ c.pc \in Long
  BY CpuParts DEF MemInv
<1>3. src.cpu \in CPU /\ src.value \in Long
  BY <1>1, <1>2, ReadFromType DEF IsRead
<1>4. Stepped(c, src.cpu, source) /\ source \in 0 .. 5
  BY <1>1, <1>2, ReadFromSteps, EaWordsType
<1>5. src.cpu.pc = next
  BY <1>4 DEF Stepped
<1> HIDE DEF src, source
<1>6. Stepped(src.cpu, to.cpu, dest)
  BY <1>1, <1>3, <1>5, WriteToSteps
<1>7. dest \in 0 .. 5
  BY <1>1, <1>2, <1>3, <1>5, CpuParts, EaWordsType
<1>8. to.cpu \in CPU
  BY <1>1, <1>3, WriteToType DEF IsDone
<1>9. done = to \/ done = Done([to.cpu EXCEPT !.sr = set_logic_flags(@, src.value, n)], to.mem)
  BY DEF move, src
<1> HIDE DEF to, dest, next, ea, done
<1>10. done.cpu.pc = to.cpu.pc
  BY <1>8, <1>9 DEF Done, CPU
<1>11. source \in 0 .. 10 /\ dest \in 0 .. 10
  BY <1>4, <1>7
<1>12. Stepped(c, to.cpu, source + dest)
  BY <1>4, <1>6, <1>11, SteppedOn
<1>13. Stepped(c, done.cpu, source + dest)
  BY <1>10, <1>12 DEF Stepped
<1>14. source + dest \in 0 .. 10
  BY <1>4, <1>7
<1> QED
  BY <1>4, <1>7, <1>13, <1>14 DEF source, next, ea, dest, done

(* An immediate takes the words of its size, a bit's number one, and what is  *)
(* computed in registers none.                                               *)
LEMMA HandlerSteps ==
  ASSUME NEW c \in CPU, NEW m, NEW op, NEW reg, NEW S, NEW n, NEW is_sub, NEW change
  PROVE  /\ Stepped(c, arithmetic(c, reg, S, n, is_sub), 0)
         /\ Stepped(c, immediate(c, m, n).cpu, IF n \in {0, 1} THEN 1 ELSE 2)
         /\ Stepped(c, bit_operation(c, m, op, change), 1)
<1>1. arithmetic(c, reg, S, n, is_sub).pc = c.pc
  BY DEF arithmetic, CPU
<1>2. Stepped(c, immediate(c, m, n).cpu, IF n \in {0, 1} THEN 1 ELSE 2)
  <2>1. CASE n = 0
    <3>1. immediate(c, m, n).cpu = Advance(c, 2)
      BY SMT, <2>1 DEF immediate, Read
    <3> QED
      BY <2>1, <3>1, AdvanceSteps
  <2>2. CASE n = 1
    <3>1. immediate(c, m, n).cpu = Advance(c, 2)
      BY SMT, <2>2 DEF immediate, Read
    <3> QED
      BY <2>2, <3>1, AdvanceSteps
  <2>3. CASE n \notin {0, 1}
    <3>1. immediate(c, m, n).cpu = Advance(c, 4)
      BY SMT, <2>3 DEF immediate, Read
    <3> QED
      BY <2>3, <3>1, AdvanceSteps
  <2> QED
    BY <2>1, <2>2, <2>3
<1>3. bit_operation(c, m, op, change).pc = Advance(c, 2).pc
  <2> DEFINE c1 == Advance(c, 2)
  <2>1. c1 \in CPU
    BY AdvanceType
  <2> HIDE DEF c1
  <2>2. \A x, s, r : [c1 EXCEPT !.sr = s, !.d[r] = x].pc = c1.pc
    BY <2>1 DEF CPU
  <2> QED
    BY <2>2 DEF bit_operation, c1
<1> QED
  BY <1>1, <1>2, <1>3, NotStepped, AdvanceSteps DEF Stepped

(* Every immediate instruction, of the data and of the status alike. *)
LEMMA ImmediateSteps ==
  ASSUME NEW c \in CPU, NEW m \in MemoryState, NEW op \in Word
  PROVE  LET words == IF SizeField(op) < 2 THEN 1 ELSE 2
         IN  /\ Stepped(c, handle_addi(c, m, op), words)
             /\ Stepped(c, handle_subi(c, m, op), words)
             /\ Stepped(c, handle_andi(c, m, op), words)
<1> DEFINE n    == SizeField(op)
           data == immediate(c, m, n)
           reg  == Field(op, 0, 3)
<1>1. data.cpu \in CPU
  BY ImmediateType DEF IsRead
<1>2. n \in {0, 1} <=> n < 2
  <2>1. n \in 0 .. 3
    <3>1. op \in Int
      BY WordBounds
    <3> QED
      BY SMT, <3>1 DEF SizeField, Field
  <2> HIDE DEF n
  <2> QED
    BY SMT, <2>1
<1>3. Stepped(c, data.cpu, IF n < 2 THEN 1 ELSE 2)
  BY <1>2, HandlerSteps
<1> HIDE DEF data, n
<1>4. /\ handle_addi(c, m, op).pc = data.cpu.pc
      /\ handle_subi(c, m, op).pc = data.cpu.pc
  BY <1>1 DEF handle_addi, handle_subi, arithmetic, data, n, CPU
<1>5. handle_andi(c, m, op).pc = data.cpu.pc
  BY <1>1 DEF handle_andi, data, n, CPU
<1> QED
  BY <1>3, <1>4, <1>5 DEF Stepped, n

(* The words of an instruction, handler by handler. *)
LEMMA InstructionWordsOf ==
  ASSUME NEW m, NEW pc, NEW op, NEW next, next = AddLong(pc, FromWord(2))
  PROVE  LET h == handler_of(op)
             words == InstructionWords(m, pc, op)
             moved(n) == LET source == EaWords(m, next, op % 64, n)
                         IN  1 + source + EaWords(m, AddLong(next, FromWord(2 * source)),
                                                  MoveDestination(op), n)
         IN  /\ h = "move_b" => words = moved(0)
             /\ h = "move_w" => words = moved(1)
             /\ h = "move_l" => words = moved(2)
             /\ h \in {"addi", "subi", "andi"} => words = IF SizeField(op) < 2 THEN 2 ELSE 3
             /\ h \in {"btst_imm", "bchg_imm", "bclr_imm", "bset_imm"} => words = 2
             /\ h \in {"addq", "subq", "add_reg", "sub_reg", "bcc", "nop", "rts", "none"} => words = 1
<1> DEFINE h == handler_of(op)
           n == CASE h = "move_b" -> 0 [] h = "move_w" -> 1 [] OTHER -> 2
           source(k) == EaWords(m, next, op % 64, k)
           dest(k) == EaWords(m, AddLong(next, FromWord(2 * source(k))), MoveDestination(op), k)
           words == InstructionWords(m, pc, op)
<1>1. words = CASE h \in {"move_b", "move_w", "move_l"} -> 1 + source(n) + dest(n)
                [] h \in {"addi", "subi", "andi"} -> IF SizeField(op) < 2 THEN 2 ELSE 3
                [] h \in {"btst_imm", "bchg_imm", "bclr_imm", "bset_imm"} -> 2
                [] OTHER -> 1
  BY SMT DEF InstructionWords
<1> HIDE DEF words, h, source, dest
<1>2. (h = "move_b" => n = 0) /\ (h = "move_w" => n = 1) /\ (h = "move_l" => n = 2)
  BY SMT
<1> HIDE DEF n
<1>3. h \in {"move_b", "move_w", "move_l"} => words = 1 + source(n) + dest(n)
  BY SMT, <1>1
<1>4. h \in {"addi", "subi", "andi"} => words = IF SizeField(op) < 2 THEN 2 ELSE 3
  BY SMT, <1>1
<1>5. h \in {"btst_imm", "bchg_imm", "bclr_imm", "bset_imm"} => words = 2
  BY SMT, <1>1
<1>6. h \in {"addq", "subq", "add_reg", "sub_reg", "bcc", "nop", "rts", "none"} => words = 1
  BY SMT, <1>1
<1> QED
  BY <1>2, <1>3, <1>4, <1>5, <1>6 DEF words, h, source, dest

(* Where an instruction leaves the program counter. *)
FollowsInstruction ==
  \/ IsMove(opcode) /\ IntoImmediate(opcode)
  \/ cpu'.pc = AddLong(cpu.pc, FromWord(2 * InstructionWords(mem, cpu.pc, opcode)))
  \/ /\ handler_of(opcode) = "bcc"
     /\ cpu'.pc = AddLong(AddLong(cpu.pc, FromWord(2)), SignExtendByte(opcode % 256))

LEMMA EveryStepFollows == ExecInv /\ ExecNext => FollowsInstruction
<1> SUFFICES ASSUME ExecInv, ExecNext PROVE FollowsInstruction
  OBVIOUS
<1> DEFINE c == fetched
           words == InstructionWords(mem, cpu.pc, opcode)
<1>1. opcode \in Word /\ c \in CPU /\ mem \in MemoryState /\ MemInv(mem) /\ cpu \in CPU
  <2>1. mem \in MemoryState /\ cpu \in CPU /\ MemInv(mem)
    BY DEF ExecInv, MemInv
  <2> QED
    BY <2>1, CpuParts, ReadTypes, AdvanceType DEF opcode, fetched
<1>2. Stepped(cpu, c, 1) /\ c.pc = AddLong(cpu.pc, FromWord(2))
  <2>1. 2 * 1 = 2
    BY SMT
  <2> QED
    BY <1>1, <2>1, AdvanceSteps DEF fetched, Stepped
<1>3. ASSUME NEW k \in 0 .. 10, NEW e, Stepped(c, e, k), words = 1 + k, cpu' = e
      PROVE  FollowsInstruction
  <2>1. 1 \in 0 .. 10
    BY SMT
  <2>2. Stepped(cpu, e, 1 + k)
    BY <1>1, <1>2, <1>3, <2>1, SteppedOn
  <2> QED
    BY <1>3, <2>2 DEF Stepped, FollowsInstruction
<1> HIDE DEF words, ExecInv
<1>4. ASSUME NEW n \in {0, 1, 2}, NEW ok \in AllocAnswers, NEW handler,
             Move(handler, move(c, mem, opcode, n, ok)),
             handler = CASE n = 0 -> "move_b" [] n = 1 -> "move_w" [] OTHER -> "move_l"
      PROVE  FollowsInstruction
  <2> DEFINE source == EaWords(mem, c.pc, opcode % 64, n)
             dest == EaWords(mem, AddLong(c.pc, FromWord(2 * source)), MoveDestination(opcode), n)
             done == move(c, mem, opcode, n, ok)
  <2>1. handler_of(opcode) = handler /\ cpu' = done.cpu
    BY <1>4 DEF Move, Turn
  <2>2. \/ n = 0 /\ handler = "move_b"
        \/ n = 1 /\ handler = "move_w"
        \/ n = 2 /\ handler = "move_l"
    BY SMT, <1>4
  <2>3. CASE IntoImmediate(opcode)
    BY <2>1, <2>2, <2>3 DEF FollowsInstruction, IsMove
  <2>4. CASE ~IntoImmediate(opcode)
    <3>1. /\ source \in 0 .. 5 /\ dest \in 0 .. 5 /\ source + dest \in 0 .. 10
          /\ Stepped(c, done.cpu, source + dest)
      BY <1>1, <2>4, MoveSteps, ExecutorAssumption
    <3>2. words = 1 + source + dest
      BY <1>2, <2>1, <2>2, InstructionWordsOf DEF words
    <3> HIDE DEF source, dest, done
    <3>3. words = 1 + (source + dest)
      BY <3>1, <3>2
    <3> QED
      BY <1>3, <2>1, <3>1, <3>3
  <2> QED
    BY <2>3, <2>4
<1>5. CASE MoveB
  <2>1. PICK ok \in AllocAnswers : Move("move_b", move(c, mem, opcode, 0, ok))
    BY <1>5 DEF MoveB, handle_move_b
  <2> QED
    BY <1>4, <2>1
<1>6. CASE MoveW
  <2>1. PICK ok \in AllocAnswers : Move("move_w", move(c, mem, opcode, 1, ok))
    BY <1>6 DEF MoveW, handle_move_w
  <2> QED
    BY <1>4, <2>1
<1>7. CASE MoveL
  <2>1. PICK ok \in AllocAnswers : Move("move_l", move(c, mem, opcode, 2, ok))
    BY <1>7 DEF MoveL, handle_move_l
  <2> QED
    BY <1>4, <2>1
<1>8. CASE AddQ \/ SubQ \/ AddReg \/ SubReg
  <2>1. words = 1 + 0
    <3>1. handler_of(opcode) \in {"addq", "subq", "add_reg", "sub_reg"}
      BY <1>8 DEF AddQ, SubQ, AddReg, SubReg, Registers, Turn
    <3> QED
      BY <1>2, <3>1, InstructionWordsOf DEF words
  <2>2. Stepped(c, cpu', 0)
    BY <1>1, <1>8, HandlerSteps
    DEF AddQ, SubQ, AddReg, SubReg, Registers,
        handle_addq, handle_subq, handle_add_reg, handle_sub_reg
  <2>3. 0 \in 0 .. 10
    BY SMT
  <2> QED
    BY <1>3, <2>1, <2>2, <2>3
<1>9. CASE AddI \/ SubI \/ AndI
  <2> DEFINE k == IF SizeField(opcode) < 2 THEN 1 ELSE 2
  <2>1. words = 1 + k
    <3>1. handler_of(opcode) \in {"addi", "subi", "andi"}
      BY <1>9 DEF AddI, SubI, AndI, Registers, Turn
    <3> QED
      BY <1>2, <3>1, InstructionWordsOf DEF words
  <2>2. Stepped(c, cpu', k)
    BY <1>1, <1>9, ImmediateSteps DEF AddI, SubI, AndI, Registers
  <2>3. k \in 0 .. 10
    BY SMT
  <2> HIDE DEF k
  <2> QED
    BY <1>3, <2>1, <2>2, <2>3
<1>10. CASE BtstImm \/ BchgImm \/ BclrImm \/ BsetImm
  <2>1. words = 1 + 1
    <3>1. handler_of(opcode) \in {"btst_imm", "bchg_imm", "bclr_imm", "bset_imm"}
      BY <1>10 DEF BtstImm, BchgImm, BclrImm, BsetImm, Registers, Turn
    <3> QED
      BY <1>2, <3>1, InstructionWordsOf DEF words
  <2>2. Stepped(c, cpu', 1)
    BY <1>1, <1>10, HandlerSteps
    DEF BtstImm, BchgImm, BclrImm, BsetImm, Registers,
        handle_btst_imm, handle_bchg_imm, handle_bclr_imm, handle_bset_imm
  <2>3. 1 \in 0 .. 10
    BY SMT
  <2> QED
    BY <1>3, <2>1, <2>2, <2>3
<1>11. CASE Nop \/ Rts \/ Unknown
  <2>1. words = 1 + 0
    <3>1. handler_of(opcode) \in {"nop", "rts", "none"}
      BY <1>11 DEF Nop, Rts, Unknown, Registers, Turn
    <3> QED
      BY <1>2, <3>1, InstructionWordsOf DEF words
  <2>2. Stepped(c, cpu', 0)
    BY <1>1, <1>11, NotStepped DEF Nop, Rts, Unknown, Registers
  <2>3. 0 \in 0 .. 10
    BY SMT
  <2> QED
    BY <1>3, <2>1, <2>2, <2>3
<1>12. CASE Bcc
  <2>1. handler_of(opcode) = "bcc" /\ cpu' = handle_bcc(c, opcode)
    BY <1>12 DEF Bcc, Registers, Turn
  <2>2. CASE branch_taken(Field(opcode, 8, 4), c.sr)
    <3>1. cpu'.pc = AddLong(c.pc, SignExtendByte(opcode % 256))
      BY <1>1, <2>1, <2>2 DEF handle_bcc, CPU
    <3> QED
      BY <1>2, <2>1, <3>1 DEF FollowsInstruction
  <2>3. CASE ~branch_taken(Field(opcode, 8, 4), c.sr)
    <3>1. words = 1 + 0
      BY <1>2, <2>1, InstructionWordsOf DEF words
    <3>2. 0 \in 0 .. 10 /\ Stepped(c, cpu', 0)
      BY <1>1, <2>1, <2>3, NotStepped DEF handle_bcc
    <3> QED
      BY <1>3, <3>1, <3>2
  <2> QED
    BY <2>2, <2>3
<1> QED
  BY <1>5, <1>6, <1>7, <1>8, <1>9, <1>10, <1>11, <1>12 DEF ExecNext

(* Every instruction leaves the program counter behind the words that its     *)
(* encoding announces, however many its operands took from the stream, and   *)
(* only a branch sends it elsewhere; so no operand is run as an instruction.   *)
THEOREM InstructionsFollowEachOther == ExecSpec => PcFollowsInstruction
<1> DEFINE Follows ==
             \/ UNCHANGED vars
             \/ IntoImmediate(opcode) /\ handler_of(opcode) \in {"move_b", "move_w", "move_l"}
             \/ cpu'.pc = AddLong(cpu.pc, FromWord(2 * InstructionWords(mem, cpu.pc, opcode)))
             \/ /\ handler_of(opcode) = "bcc"
                /\ cpu'.pc = AddLong(AddLong(cpu.pc, FromWord(2)), SignExtendByte(opcode % 256))
<1>1. ExecInv /\ [ExecNext]_vars => [Follows]_vars
  BY EveryStepFollows DEF FollowsInstruction, IsMove
<1> QED
  BY <1>1, ExecInvariant, PTL DEF ExecSpec, PcFollowsInstruction

-----------------------------------------------------------------------------
(* The registers f with x in the register r. *)
Put(f, r, x) == [f EXCEPT ![r] = x]

(* Only a post-increment and a pre-decrement move an address register when an *)
(* operand is resolved.                                                      *)
LEMMA ResolveAddresses ==
  ASSUME NEW c \in CPU, NEW m \in MemoryState, NEW ea \in Int, NEW n
  PROVE  LET reg  == EaReg(ea)
             step == FromWord(Increment(reg, n))
             at   == resolve_ea(c, m, ea, n)
         IN  /\ EaMode(ea) = 3 => /\ at.cpu.a = Put(c.a, reg, AddLong(c.a[reg], step))
                                  /\ at.address = c.a[reg]
             /\ EaMode(ea) = 4 => /\ at.cpu.a = Put(c.a, reg, SubLong(c.a[reg], step))
                                  /\ at.address = SubLong(c.a[reg], step)
             /\ EaMode(ea) \notin {3, 4} => at.cpu.a = c.a
<1> DEFINE mode == EaMode(ea)
           reg  == EaReg(ea)
           step == FromWord(Increment(reg, n))
           less == SubLong(c.a[reg], step)
           word == SignExtendWord(WordAt(m, c.pc))
           more == AddLong(c.a[reg], step)
           at == resolve_ea(c, m, ea, n)
<1> HIDE DEF mode, reg, step
<1>1. at =
        CASE mode = 2 -> At(c, c.a[reg])
          [] mode = 3 -> At([c EXCEPT !.a[reg] = more], c.a[reg])
          [] mode = 4 -> At([c EXCEPT !.a[reg] = less], less)
          [] mode = 5 -> At(Advance(c, 2), AddLong(c.a[reg], word))
          [] mode = 6 -> resolve_indexed(c, m, c.a[reg])
          [] mode = 7 /\ reg = 0 -> At(Advance(c, 2), word)
          [] mode = 7 /\ reg = 1 -> At(Advance(c, 4), LongAt(m, c.pc))
          [] mode = 7 /\ reg = 2 -> At(Advance(c, 2), AddLong(c.pc, word))
          [] mode = 7 /\ reg = 3 -> resolve_indexed(c, m, c.pc)
          [] OTHER -> At(c, ZeroLong)
  BY SMT DEF resolve_ea, mode, reg, step
<1> HIDE DEF less, word, more, at
<1>2. \A e, x : At(e, x).cpu = e /\ At(e, x).address = x
  BY DEF At
<1>3. /\ Advance(c, 2).a = c.a /\ Advance(c, 4).a = c.a
      /\ resolve_indexed(c, m, c.a[reg]).cpu.a = c.a
      /\ resolve_indexed(c, m, c.pc).cpu.a = c.a
  BY AdvanceSteps, IndexedSteps
<1>4. CASE mode = 3
  <2>1. at = At([c EXCEPT !.a[reg] = more], c.a[reg])
    BY SMT, <1>1, <1>4
  <2>2. at.cpu.a = Put(c.a, reg, more) /\ at.address = c.a[reg]
    BY <1>2, <2>1 DEF CPU, Put
  <2>3. mode # 4
    BY SMT, <1>4
  <2> QED
    BY <1>4, <2>2, <2>3 DEF mode, reg, step, more, at
<1>5. CASE mode = 4
  <2>1. at = At([c EXCEPT !.a[reg] = less], less)
    BY SMT, <1>1, <1>5
  <2>2. at.cpu.a = Put(c.a, reg, less) /\ at.address = less
    BY <1>2, <2>1 DEF CPU, Put
  <2>3. mode # 3
    BY SMT, <1>5
  <2> QED
    BY <1>5, <2>2, <2>3 DEF mode, reg, step, less, at
<1>6. CASE mode \notin {3, 4}
  <2>1. at.cpu.a = c.a
    <3>1. CASE mode \in {2, 5, 6}
      BY SMT, <1>1, <1>2, <1>3, <3>1
    <3>2. CASE mode = 7 /\ reg \in 0 .. 3
      BY SMT, <1>1, <1>2, <1>3, <3>2
    <3>3. CASE mode \notin 2 .. 6 /\ ~(mode = 7 /\ reg \in 0 .. 3)
      BY SMT, <1>1, <1>2, <3>3
    <3> QED
      BY SMT, <1>6, <3>1, <3>2, <3>3
  <2> QED
    BY <1>6, <2>1 DEF mode, at
<1> QED
  BY <1>4, <1>5, <1>6

(* The step of the stack pointer is even, also for a byte. *)
LEMMA StackIncrement ==
  ASSUME NEW n
  PROVE  Increment(7, n) \in {2, 4}
<1>1. CASE n = 0
  BY SMT, <1>1 DEF Increment
<1>2. CASE n = 1
  BY SMT, <1>2 DEF Increment
<1>3. CASE n \notin {0, 1}
  BY SMT, <1>3 DEF Increment
<1> QED
  BY <1>1, <1>2, <1>3

(* The stack pointers of c and e are both even or both odd. *)
SameParity(c, e) == e.a[7].lo % 2 = c.a[7].lo % 2

(* Resolving an operand keeps the parity of the stack pointer, ... *)
LEMMA ResolveParity ==
  ASSUME NEW c \in CPU, NEW m \in MemoryState, NEW ea \in Int, NEW n
  PROVE  SameParity(c, resolve_ea(c, m, ea, n).cpu)
<1> DEFINE reg  == EaReg(ea)
           step == FromWord(Increment(reg, n))
           e    == resolve_ea(c, m, ea, n).cpu
<1>1. /\ 7 \in RegisterNumber /\ c.a \in [RegisterNumber -> Long]
      /\ reg \in RegisterNumber
  BY CpuParts, FieldTypes, SMT DEF EaReg, RegisterNumber
<1>2. \/ e.a = c.a
      \/ e.a = Put(c.a, reg, AddLong(c.a[reg], step))
      \/ e.a = Put(c.a, reg, SubLong(c.a[reg], step))
  BY ResolveAddresses
<1> HIDE DEF e
<1>3. CASE reg = 7
  <2>1. /\ AddLong(c.a[7], step).lo % 2 = c.a[7].lo % 2
        /\ SubLong(c.a[7], step).lo % 2 = c.a[7].lo % 2
    BY <1>1, <1>3, StackIncrement, EvenStep
  <2> HIDE DEF step
  <2>2. e.a[7] \in {c.a[7], AddLong(c.a[7], step), SubLong(c.a[7], step)}
    BY <1>1, <1>2, <1>3 DEF Put
  <2> QED
    BY <2>1, <2>2 DEF SameParity, e
<1>4. CASE reg # 7
  <2>1. e.a[7] = c.a[7]
    BY <1>1, <1>2, <1>4 DEF Put
  <2> QED
    BY <2>1 DEF SameParity, e
<1> QED
  BY <1>3, <1>4

(* Registers whose address registers are the same. *)
LEMMA SameAddresses ==
  ASSUME NEW c, NEW e, e.a = c.a
  PROVE  SameParity(c, e)
  BY DEF SameParity

(* ... and so does reading it, ... *)
LEMMA ReadFromParity ==
  ASSUME NEW c \in CPU, NEW m \in MemoryState, NEW ea \in Int, NEW n
  PROVE  SameParity(c, read_from_ea(c, m, ea, n).cpu)
<1> DEFINE mode == EaMode(ea)
           reg  == EaReg(ea)
           at   == resolve_ea(c, m, ea, n)
           loaded == CASE n = 0 -> FromWord(ByteAt(m, at.address))
                       [] n = 1 -> FromWord(WordAt(m, at.address))
                       [] OTHER -> LongAt(m, at.address)
           read == read_from_ea(c, m, ea, n)
<1>1. SameParity(c, at.cpu)
  BY ResolveParity
<1> HIDE DEF mode, reg, at
<1>2. read =
        CASE mode = 7 /\ reg = 4 /\ n = 2 -> Read(Advance(c, 4), LongAt(m, c.pc))
          [] mode = 7 /\ reg = 4 /\ n # 2 -> Read(Advance(c, 2), FromWord(WordAt(m, c.pc)))
          [] mode = 0 -> Read(c, c.d[reg])
          [] mode = 1 -> Read(c, c.a[reg])
          [] OTHER -> Read(at.cpu, loaded)
  BY SMT DEF read_from_ea, mode, reg, at
<1> HIDE DEF loaded, read
<1>3. \A e, x : Read(e, x).cpu = e
  BY DEF Read
<1>4. read.cpu \in {c, Advance(c, 2), Advance(c, 4), at.cpu}
  <2>1. CASE mode = 7 /\ reg = 4
    BY SMT, <1>2, <1>3, <2>1
  <2>2. CASE mode \in {0, 1}
    BY SMT, <1>2, <1>3, <2>2
  <2>3. CASE mode \notin {0, 1} /\ ~(mode = 7 /\ reg = 4)
    BY SMT, <1>2, <1>3, <2>3
  <2> QED
    BY <2>1, <2>2, <2>3
<1> QED
  BY <1>1, <1>4, AdvanceSteps, SameAddresses DEF read

(* A MOVE to A7 is the only store that can make it odd. *)
LEMMA WriteToParity ==
  ASSUME NEW c \in CPU, NEW m, MemInv(m), NEW ea \in 0 .. 63, ea # 15, NEW value, NEW n, NEW ok
  PROVE  SameParity(c, write_to_ea(c, m, ea, value, n, ok).cpu)
<1> DEFINE mode == EaMode(ea)
           reg  == EaReg(ea)
           at   == resolve_ea(c, m, ea, n)
           cell == Index(at.address)
           stored == CASE n = 0 -> mem_write_byte(m, cell, value.lo % 256, ok)
                       [] n = 1 -> mem_write_word(m, cell, value.lo, ok)
                       [] OTHER -> mem_write_long(m, cell, value, ok)
           done == write_to_ea(c, m, ea, value, n, ok)
<1>1. SameParity(c, at.cpu)
  BY ResolveParity DEF MemInv
<1>2. mode = ea \div 8 /\ reg = ea % 8
  BY EaFields
<1>3. done =
        CASE mode = 0 -> Done([c EXCEPT !.d[reg] = Merge(c.d[reg], value, n)], m)
          [] mode = 1 /\ n = 0 -> Done(c, m)
          [] mode = 1 /\ n = 1 -> Done([c EXCEPT !.a[reg] = SignExtendWord(value.lo)], m)
          [] mode = 1 /\ n \notin {0, 1} -> Done([c EXCEPT !.a[reg] = value], m)
          [] OTHER -> Done(at.cpu, stored)
  BY SMT DEF write_to_ea
<1> HIDE DEF mode, reg, at, stored, done
<1>4. \A e, x : Done(e, x).cpu = e
  BY DEF Done
<1>5. CASE mode = 0
  <2>1. done = Done([c EXCEPT !.d[reg] = Merge(c.d[reg], value, n)], m)
    BY SMT, <1>3, <1>5
  <2>2. done.cpu.a = c.a
    BY <1>4, <2>1 DEF CPU
  <2> QED
    BY <2>2, SameAddresses DEF done
<1>6. CASE mode = 1
  <2>1. reg # 7 /\ 7 \in RegisterNumber
    BY SMT, <1>2, <1>6 DEF RegisterNumber
  <2>2. \/ done = Done(c, m)
        \/ done = Done([c EXCEPT !.a[reg] = SignExtendWord(value.lo)], m)
        \/ done = Done([c EXCEPT !.a[reg] = value], m)
    BY SMT, <1>3, <1>6
  <2>3. \A x : [c EXCEPT !.a[reg] = x].a[7] = c.a[7]
    BY <2>1 DEF CPU
  <2>4. CASE done = Done(c, m)
    BY <1>4, <2>4 DEF SameParity, done
  <2>5. CASE done = Done([c EXCEPT !.a[reg] = SignExtendWord(value.lo)], m)
    <3>1. done.cpu = [c EXCEPT !.a[reg] = SignExtendWord(value.lo)]
      BY <1>4, <2>5
    <3>2. done.cpu.a[7] = c.a[7]
      BY <2>3, <3>1
    <3> QED
      BY <3>2 DEF SameParity, done
  <2>6. CASE done = Done([c EXCEPT !.a[reg] = value], m)
    <3>1. done.cpu = [c EXCEPT !.a[reg] = value]
      BY <1>4, <2>6
    <3>2. done.cpu.a[7] = c.a[7]
      BY <2>3, <3>1
    <3> QED
      BY <3>2 DEF SameParity, done
  <2> QED
    BY <2>2, <2>4, <2>5, <2>6
<1>7. CASE mode \notin {0, 1}
  <2>1. done.cpu = at.cpu
    BY SMT, <1>3, <1>4, <1>7
  <2> QED
    BY <1>1, <2>1 DEF done
<1> QED
  BY <1>5, <1>6, <1>7

(* ... and a MOVE that does not load the stack pointer. *)
LEMMA MoveParity ==
  ASSUME NEW c \in CPU, NEW m, MemInv(m), NEW op \in Word, NEW n, NEW ok \in BOOLEAN,
         MoveDestination(op) # 15
  PROVE  SameParity(c, move(c, m, op, n, ok).cpu)
<1> DEFINE ea   == MoveDestination(op)
           src  == read_from_ea(c, m, op % 64, n)
           to   == write_to_ea(src.cpu, m, ea, src.value, n, ok)
           done == move(c, m, op, n, ok)
<1>1. op % 64 \in Int /\ ea \in 0 .. 63 /\ ea \in Int /\ m \in MemoryState
  BY MoveOperands DEF MemInv
<1>2. src.cpu \in CPU /\ src.value \in Long /\ SameParity(c, src.cpu)
  BY <1>1, ReadFromType, ReadFromParity DEF IsRead
<1> HIDE DEF src
<1>3. to.cpu \in CPU /\ SameParity(src.cpu, to.cpu)
  BY <1>1, <1>2, WriteToType, WriteToParity DEF IsDone
<1>4. done = to \/ done = Done([to.cpu EXCEPT !.sr = set_logic_flags(@, src.value, n)], to.mem)
  BY DEF move, src
<1> HIDE DEF to, done
<1>5. done.cpu.a = to.cpu.a
  BY <1>3, <1>4 DEF Done, CPU
<1> QED
  BY <1>2, <1>3, <1>5 DEF SameParity, done

(* No handler but those of MOVE touches an address register. *)
LEMMA HandlerAddresses ==
  ASSUME NEW c \in CPU, NEW m \in MemoryState, NEW op \in Word, NEW change
  PROVE  /\ handle_addq(c, op).a = c.a /\ handle_subq(c, op).a = c.a
         /\ handle_add_reg(c, op).a = c.a /\ handle_sub_reg(c, op).a = c.a
         /\ handle_addi(c, m, op).a = c.a /\ handle_subi(c, m, op).a = c.a
         /\ handle_andi(c, m, op).a = c.a
         /\ bit_operation(c, m, op, change).a = c.a
         /\ handle_bcc(c, op).a = c.a
<1>1. /\ handle_addq(c, op).a = c.a /\ handle_subq(c, op).a = c.a
      /\ handle_add_reg(c, op).a = c.a /\ handle_sub_reg(c, op).a = c.a
      /\ handle_bcc(c, op).a = c.a
  BY DEF handle_addq, handle_subq, handle_add_reg, handle_sub_reg, arithmetic, handle_bcc, CPU
<1>2. \A k : immediate(c, m, k).cpu \in CPU /\ immediate(c, m, k).cpu.a = c.a
  <2> SUFFICES ASSUME NEW k PROVE immediate(c, m, k).cpu.a = c.a
    BY ImmediateType DEF IsRead
  <2>1. immediate(c, m, k).cpu \in {Advance(c, 2), Advance(c, 4)}
    <3>1. CASE k = 0
      BY SMT, <3>1 DEF immediate, Read
    <3>2. CASE k = 1
      BY SMT, <3>2 DEF immediate, Read
    <3>3. CASE k \notin {0, 1}
      BY SMT, <3>3 DEF immediate, Read
    <3> QED
      BY <3>1, <3>2, <3>3
  <2> QED
    BY <2>1, AdvanceSteps
<1> DEFINE data == immediate(c, m, SizeField(op))
<1>3. data.cpu \in CPU /\ data.cpu.a = c.a
  BY <1>2
<1> HIDE DEF data
<1>4. /\ handle_addi(c, m, op).a = data.cpu.a
      /\ handle_subi(c, m, op).a = data.cpu.a
  BY <1>3 DEF handle_addi, handle_subi, arithmetic, CPU, data
<1>5. handle_andi(c, m, op).a = data.cpu.a
  <2>1. \A r, x, s : [data.cpu EXCEPT !.d[r] = x, !.sr = s].a = data.cpu.a
    BY <1>3 DEF CPU
  <2> QED
    BY <2>1 DEF handle_andi, data
<1>6. bit_operation(c, m, op, change).a = c.a
  <2> DEFINE e == Advance(c, 2)
  <2>1. e \in CPU /\ e.a = c.a
    BY AdvanceType, AdvanceSteps
  <2> HIDE DEF e
  <2>2. \A r, x, s : [e EXCEPT !.sr = s, !.d[r] = x].a = e.a
    BY <2>1 DEF CPU
  <2> QED
    BY <2>1, <2>2 DEF bit_operation, e
<1> QED
  BY <1>1, <1>3, <1>4, <1>5, <1>6

(* Hence every instruction does. *)
LEMMA EveryStepKeepsParity ==
  ExecInv /\ ExecNext => SameParity(cpu, cpu') \/ MoveDestination(opcode) = 15
<1> SUFFICES ASSUME ExecInv, ExecNext, MoveDestination(opcode) # 15
             PROVE  SameParity(cpu, cpu')
  OBVIOUS
<1> DEFINE c == fetched
<1>1. opcode \in Word /\ c \in CPU /\ mem \in MemoryState /\ MemInv(mem) /\ c.a = cpu.a
  <2>1. mem \in MemoryState /\ cpu \in CPU /\ MemInv(mem)
    BY DEF ExecInv, MemInv
  <2> QED
    BY <2>1, CpuParts, ReadTypes, AdvanceType, AdvanceSteps DEF opcode, fetched
<1> HIDE DEF c
<1>2. \A e : SameParity(c, e) => SameParity(cpu, e)
  BY <1>1 DEF SameParity
<1>3. CASE MoveB \/ MoveW \/ MoveL
  <2>1. PICK n \in {0, 1, 2}, ok \in AllocAnswers : cpu' = move(c, mem, opcode, n, ok).cpu
    BY <1>3 DEF MoveB, MoveW, MoveL, handle_move_b, handle_move_w, handle_move_l, Move, c
  <2> QED
    BY <1>1, <1>2, <2>1, MoveParity, ExecutorAssumption
<1>4. CASE AddQ \/ SubQ \/ AddReg \/ SubReg
  <2>1. cpu'.a = c.a
    BY <1>1, <1>4, HandlerAddresses DEF AddQ, SubQ, AddReg, SubReg, Registers, c
  <2> QED
    BY <1>2, <2>1, SameAddresses
<1>5. CASE AddI \/ SubI
  <2>1. cpu'.a = c.a
    BY <1>1, <1>5, HandlerAddresses DEF AddI, SubI, Registers, c
  <2> QED
    BY <1>2, <2>1, SameAddresses
<1>6. CASE AndI \/ Bcc
  <2>1. cpu'.a = c.a
    BY <1>1, <1>6, HandlerAddresses DEF AndI, Bcc, Registers, c
  <2> QED
    BY <1>2, <2>1, SameAddresses
<1>7. CASE BtstImm \/ BchgImm \/ BclrImm \/ BsetImm
  <2>1. cpu'.a = c.a
    BY <1>1, <1>7, HandlerAddresses
    DEF BtstImm, BchgImm, BclrImm, BsetImm, Registers, c,
        handle_btst_imm, handle_bchg_imm, handle_bclr_imm, handle_bset_imm
  <2> QED
    BY <1>2, <2>1, SameAddresses
<1>8. CASE Nop \/ Rts \/ Unknown
  <2>1. cpu' = c
    BY <1>8 DEF Nop, Rts, Unknown, Registers, c
  <2> QED
    BY <1>2, <2>1, SameAddresses
<1> QED
  BY <1>3, <1>4, <1>5, <1>6, <1>7, <1>8 DEF ExecNext

(* Only a MOVE to A7 itself can make the stack pointer odd: (A7)+ and -(A7)   *)
(* step by a word for a byte, and no other instruction writes A7.             *)
THEOREM TheStackStaysAligned == ExecSpec => StackStaysAligned
<1>1. ExecInv /\ [ExecNext]_vars =>
        [cpu'.a[7].lo % 2 = cpu.a[7].lo % 2 \/ MoveDestination(opcode) = 15]_vars
  BY EveryStepKeepsParity DEF SameParity
<1> QED
  BY <1>1, ExecInvariant, PTL DEF ExecSpec, StackStaysAligned

-----------------------------------------------------------------------------
(* The memory after the low part of a value is stored at an address, and the *)
(* value loaded from there, in the size of an operation.                     *)
Store(m, x, value, n, ok) ==
  CASE n = 0 -> mem_write_byte(m, Index(x), value.lo % 256, ok)
    [] n = 1 -> mem_write_word(m, Index(x), value.lo, ok)
    [] OTHER -> mem_write_long(m, Index(x), value, ok)

Load(m, x, n) ==
  CASE n = 0 -> FromWord(ByteAt(m, x))
    [] n = 1 -> FromWord(WordAt(m, x))
    [] OTHER -> LongAt(m, x)

(* A store logs one entry for each byte of its operand. *)
LEMMA StoreLogs ==
  ASSUME NEW m, MemInv(m), NEW x \in Long, NEW value \in Long, NEW n, NEW ok \in BOOLEAN
  PROVE  Logged(m, Store(m, x, value, n, ok), Index(x), BytesOf(n))
<1>1. /\ Index(x) \in Nat /\ value.lo \in Word /\ value.lo % 256 \in Byte
  BY IndexType, HalvesOfWord DEF Long
<1>2. /\ Logged(m, mem_write_byte(m, Index(x), value.lo % 256, ok), Index(x), 1)
      /\ Logged(m, mem_write_word(m, Index(x), value.lo, ok), Index(x), 2)
      /\ Logged(m, mem_write_long(m, Index(x), value, ok), Index(x), 4)
  BY <1>1, WriteByteLogs, WriteWordLogs, WriteLongLogs
<1>3. CASE n = 0
  BY SMT, <1>2, <1>3 DEF Store, BytesOf
<1>4. CASE n = 1
  BY SMT, <1>2, <1>4 DEF Store, BytesOf
<1>5. CASE n \notin {0, 1}
  BY SMT, <1>2, <1>5 DEF Store, BytesOf
<1> QED
  BY <1>3, <1>4, <1>5

(* A store to no register is one through the resolved address. *)
LEMMA WriteToMemory ==
  ASSUME NEW c, NEW m, NEW ea, EaMode(ea) \notin {0, 1}, NEW value, NEW n, NEW ok
  PROVE  LET at   == resolve_ea(c, m, ea, n)
             done == write_to_ea(c, m, ea, value, n, ok)
         IN  done.cpu = at.cpu /\ done.mem = Store(m, at.address, value, n, ok)
<1> DEFINE mode == EaMode(ea)
           reg  == EaReg(ea)
           at   == resolve_ea(c, m, ea, n)
           stored == Store(m, at.address, value, n, ok)
           done == write_to_ea(c, m, ea, value, n, ok)
<1> HIDE DEF mode, reg, at
<1>1. done =
        CASE mode = 0 -> Done([c EXCEPT !.d[reg] = Merge(c.d[reg], value, n)], m)
          [] mode = 1 /\ n = 0 -> Done(c, m)
          [] mode = 1 /\ n = 1 -> Done([c EXCEPT !.a[reg] = SignExtendWord(value.lo)], m)
          [] mode = 1 /\ n \notin {0, 1} -> Done([c EXCEPT !.a[reg] = value], m)
          [] OTHER -> Done(at.cpu, stored)
  BY SMT DEF write_to_ea, Store, mode, reg, at
<1> HIDE DEF stored, done
<1>2. mode \notin {0, 1}
  BY DEF mode
<1>3. done = Done(at.cpu, stored)
  BY SMT, <1>1, <1>2
<1> QED
  BY <1>3 DEF Done, done, at, stored

(* A MOVE to memory stores the value it read where its destination resolves  *)
(* after its source.                                                         *)
LEMMA MoveToMemory ==
  ASSUME NEW c \in CPU, NEW m, MemInv(m), NEW op \in Word, NEW n, NEW ok \in BOOLEAN,
         EaMode(MoveDestination(op)) \notin {0, 1}
  PROVE  LET src  == read_from_ea(c, m, op % 64, n)
             at   == resolve_ea(src.cpu, m, MoveDestination(op), n)
             done == move(c, m, op, n, ok)
         IN  /\ src.cpu \in CPU /\ src.value \in Long /\ at.cpu \in CPU /\ at.address \in Long
             /\ done.cpu.a = at.cpu.a /\ done.cpu.pc = at.cpu.pc /\ done.cpu.d = at.cpu.d
             /\ done.mem = Store(m, at.address, src.value, n, ok)
<1> DEFINE ea   == MoveDestination(op)
           src  == read_from_ea(c, m, op % 64, n)
           at   == resolve_ea(src.cpu, m, ea, n)
           to   == write_to_ea(src.cpu, m, ea, src.value, n, ok)
           done == move(c, m, op, n, ok)
<1>1. op % 64 \in Int /\ ea \in Int /\ m \in MemoryState
  BY OpcodeFields DEF MemInv
<1>2. src.cpu \in CPU /\ src.value \in Long
  BY <1>1, ReadFromType DEF IsRead
<1> HIDE DEF src
<1>3. at.cpu \in CPU /\ at.address \in Long
  BY <1>1, <1>2, ResolveType DEF IsAt
<1>4. to.cpu = at.cpu /\ to.mem = Store(m, at.address, src.value, n, ok)
  BY WriteToMemory
<1>5. done = to \/ done = Done([to.cpu EXCEPT !.sr = set_logic_flags(@, src.value, n)], to.mem)
  BY DEF move, src
<1> HIDE DEF at, to, done
<1>6. /\ done.cpu.a = to.cpu.a /\ done.cpu.pc = to.cpu.pc /\ done.cpu.d = to.cpu.d
      /\ done.mem = to.mem
  BY <1>3, <1>4, <1>5 DEF Done, CPU
<1> QED
  BY <1>2, <1>3, <1>4, <1>6 DEF src, at, done

(* What StoresOneOperand says of a step. *)
OneOperandStored ==
  mem'.lost \/ mem'.faulted \/
  IF IsMove(opcode) /\ EaMode(MoveDestination(opcode)) > 1
  THEN /\ Len(mem'.changes) = Len(mem.changes) + MoveBytes(opcode)
       /\ \A i \in Len(mem.changes) + 1 .. Len(mem'.changes) - 1 :
            mem'.changes[i + 1].address
              = (mem'.changes[i].address + 1) % MEMORY_SIZE
  ELSE mem' = mem

(* The handler of a MOVE of each size. *)
MoveHandler(n) == CASE n = 0 -> "move_b" [] n = 1 -> "move_w" [] OTHER -> "move_l"

(* The size of a MOVE is the one its handler is called for. *)
LEMMA HandlersOfMove ==
  ASSUME NEW n \in {0, 1, 2}, handler_of(opcode) = MoveHandler(n)
  PROVE  IsMove(opcode) /\ MoveSize(opcode) = n /\ MoveBytes(opcode) = BytesOf(n)
<1>1. CASE n = 0
  BY <1>1 DEF MoveHandler, IsMove, MoveSize, MoveBytes, BytesOf
<1>2. CASE n = 1
  BY <1>2 DEF MoveHandler, IsMove, MoveSize, MoveBytes, BytesOf
<1>3. CASE n = 2
  BY <1>3 DEF MoveHandler, IsMove, MoveSize, MoveBytes, BytesOf
<1> QED
  BY <1>1, <1>2, <1>3

(* A step is a MOVE of some size, or leaves the memory alone. *)
LEMMA MoveOrNot ==
  ASSUME ExecInv, ExecNext
  PROVE  \/ \E n \in {0, 1, 2}, ok \in BOOLEAN :
              /\ handler_of(opcode) = MoveHandler(n)
              /\ cpu' = move(fetched, mem, opcode, n, ok).cpu
              /\ mem' = move(fetched, mem, opcode, n, ok).mem
         \/ ~IsMove(opcode) /\ mem' = mem
<1>1. AllocAnswers \subseteq BOOLEAN
  BY ExecutorAssumption
<1>2. ASSUME NEW n \in {0, 1, 2}, NEW ok \in AllocAnswers,
             Move(MoveHandler(n), move(fetched, mem, opcode, n, ok))
      PROVE  \E k \in {0, 1, 2}, answer \in BOOLEAN :
               /\ handler_of(opcode) = MoveHandler(k)
               /\ cpu' = move(fetched, mem, opcode, k, answer).cpu
               /\ mem' = move(fetched, mem, opcode, k, answer).mem
  BY <1>1, <1>2 DEF Move, Turn
<1>3. /\ MoveHandler(0) = "move_b" /\ MoveHandler(1) = "move_w" /\ MoveHandler(2) = "move_l"
  BY DEF MoveHandler
<1>4. CASE MoveB \/ MoveW \/ MoveL
  BY <1>2, <1>3, <1>4 DEF MoveB, MoveW, MoveL, handle_move_b, handle_move_w, handle_move_l
<1>5. CASE ~(MoveB \/ MoveW \/ MoveL)
  <2>1. \E after : /\ mem' = mem
                   /\ handler_of(opcode) \in
                        {"addq", "subq", "add_reg", "sub_reg", "addi", "subi", "andi", "btst_imm",
                         "bchg_imm", "bclr_imm", "bset_imm", "bcc", "nop", "rts", "none"}
    BY <1>5 DEF ExecNext, AddQ, SubQ, AddReg, SubReg, AddI, SubI, AndI, BtstImm, BchgImm,
                BclrImm, BsetImm, Bcc, Nop, Rts, Unknown, Registers, Turn
  <2> QED
    BY <2>1 DEF IsMove
<1> QED
  BY <1>4, <1>5

(* A MOVE stores one operand at most, no other instruction stores any. *)
LEMMA EveryStepStores == ExecInv /\ ExecNext => OneOperandStored
<1> SUFFICES ASSUME ExecInv, ExecNext PROVE OneOperandStored
  OBVIOUS
<1>1. opcode \in Word /\ fetched \in CPU /\ mem \in MemoryState /\ MemInv(mem)
  <2>1. mem \in MemoryState /\ cpu \in CPU /\ MemInv(mem)
    BY DEF ExecInv, MemInv
  <2> QED
    BY <2>1, CpuParts, ReadTypes, AdvanceType DEF opcode, fetched
<1>2. CASE ~IsMove(opcode) /\ mem' = mem
  BY <1>2 DEF OneOperandStored
<1>3. ASSUME NEW n \in {0, 1, 2}, NEW ok \in BOOLEAN,
             handler_of(opcode) = MoveHandler(n),
             mem' = move(fetched, mem, opcode, n, ok).mem
      PROVE  OneOperandStored
  <2> DEFINE dest == MoveDestination(opcode)
             src  == read_from_ea(fetched, mem, opcode % 64, n)
             at   == resolve_ea(src.cpu, mem, dest, n)
             cell == Index(at.address)
             k    == BytesOf(n)
             before == Len(mem.changes)
             after  == Len(mem'.changes)
  <2>1. IsMove(opcode) /\ MoveBytes(opcode) = k
    BY <1>3, HandlersOfMove
  <2>2. EaMode(dest) \in 0 .. 7
    BY <1>1, OpcodeFields, FieldTypes DEF EaMode
  <2>3. CASE ~(EaMode(dest) > 1)
    <3>1. mem' = mem
      BY <1>1, <1>3, <2>3, MoveFrame
    <3> QED
      BY <2>3, <3>1 DEF OneOperandStored
  <2>4. CASE EaMode(dest) > 1
    <3>1. EaMode(dest) \notin {0, 1}
      BY <2>2, <2>4
    <3>2. /\ src.value \in Long /\ at.address \in Long
          /\ mem' = Store(mem, at.address, src.value, n, ok)
      BY <1>1, <1>3, <3>1, MoveToMemory
    <3>3. Logged(mem, mem', cell, k) /\ cell \in Nat
      BY <1>1, <3>2, StoreLogs, IndexType
    <3>4. k \in {1, 2, 4} /\ before \in Nat
      <4>1. k \in {1, 2, 4}
        BY DEF BytesOf
      <4> QED
        BY <1>1, <4>1, InvLog
    <3> HIDE DEF cell, k, src, at
    <3>5. ASSUME ~mem'.lost, ~mem'.faulted
          PROVE  /\ after = before + k
                 /\ \A i \in before + 1 .. after - 1 :
                      mem'.changes[i + 1].address = (mem'.changes[i].address + 1) % MEMORY_SIZE
      <4>1. /\ after = before + k
            /\ \A j \in 0 .. k - 1 :
                 mem'.changes[before + 1 + j].address = (cell + j) % MEMORY_SIZE
        BY <3>3, <3>5 DEF Logged
      <4>2. ASSUME NEW i \in before + 1 .. after - 1
            PROVE  mem'.changes[i + 1].address = (mem'.changes[i].address + 1) % MEMORY_SIZE
        <5> DEFINE j == i - before - 1
        <5> HIDE DEF before, after
        <5>1. /\ j \in 0 .. k - 1 /\ j + 1 \in 0 .. k - 1 /\ j \in Int
              /\ before + 1 + j = i /\ before + 1 + (j + 1) = i + 1
          BY SMT, <3>4, <4>1
        <5> HIDE DEF j
        <5>2. /\ mem'.changes[i].address = (cell + j) % MEMORY_SIZE
              /\ mem'.changes[i + 1].address = (cell + (j + 1)) % MEMORY_SIZE
          BY <4>1, <5>1
        <5>3. (((cell + j) % MEMORY_SIZE) + 1) % MEMORY_SIZE = (cell + j + 1) % MEMORY_SIZE
          <6>1. cell + j \in Nat
            BY SMT, <3>3, <5>1
          <6>2. 1 \in 0 .. 3
            OBVIOUS
          <6> QED
            BY <6>1, <6>2, CellsApart
        <5>4. cell + (j + 1) = cell + j + 1
          BY SMT, <3>3, <5>1
        <5> QED
          BY <5>2, <5>3, <5>4
      <4> QED
        BY <4>1, <4>2
    <3> QED
      BY <2>1, <2>4, <3>5 DEF OneOperandStored
  <2> QED
    BY <2>3, <2>4
<1> QED
  BY <1>2, <1>3, MoveOrNot

(* A MOVE to memory logs one entry for each byte of its operand, at           *)
(* consecutive cells that wrap where the memory ends, and no other           *)
(* instruction touches the memory.                                           *)
THEOREM OneOperandIsStored == ExecSpec => StoresOneOperand
<1>1. ExecInv /\ [ExecNext]_vars => [OneOperandStored]_vars
  BY EveryStepStores
<1> QED
  BY <1>1, ExecInvariant, PTL DEF ExecSpec, StoresOneOperand, OneOperandStored

-----------------------------------------------------------------------------
(* A store that survives is loaded back, cut to the size of the operation. *)
LEMMA StoreLoads ==
  ASSUME NEW m, MemInv(m), NEW x \in Long, NEW value \in Long, NEW n, NEW ok \in BOOLEAN,
         NEW after, after = Store(m, x, value, n, ok), ~after.faulted
  PROVE  Load(after, x, n) = Truncate(value, n)
<1> DEFINE cell == Index(x)
           C(i) == (cell + i) % MEMORY_SIZE
<1>1. /\ cell \in Nat /\ value.lo \in Word /\ value.hi \in Word /\ value.lo % 256 \in Byte
  BY IndexType, HalvesOfWord DEF Long
<1>2. CASE n = 0
  <2>1. after = mem_write_byte(m, cell, value.lo % 256, ok)
    BY SMT, <1>2 DEF Store
  <2>2. after.memory[cell % MEMORY_SIZE] = value.lo % 256
    BY <1>1, <2>1, WriteByteStores DEF Stored
  <2> HIDE DEF cell
  <2>3. mem_read_byte(after, cell) = value.lo % 256
    BY <2>2 DEF mem_read_byte
  <2>4. Load(after, x, n) = FromWord(mem_read_byte(after, cell))
    BY SMT, <1>2 DEF Load, ByteAt, cell
  <2>5. Truncate(value, n) = FromWord(value.lo % 256)
    BY SMT, <1>2 DEF Truncate
  <2> QED
    BY <2>3, <2>4, <2>5
<1> HIDE DEF cell
<1>3. CASE n = 1
  <2>1. after = mem_write_word(m, cell, value.lo, ok)
    BY SMT, <1>3 DEF Store, cell
  <2>2. /\ after.memory[cell % MEMORY_SIZE] = value.lo \div 256
        /\ after.memory[(cell + 1) % MEMORY_SIZE] = value.lo % 256
    BY <1>1, <2>1, WriteWordStores
  <2>3. mem_read_word(after, cell) = value.lo
    BY <1>1, <2>2, BytesOfWord DEF mem_read_word, mem_read_byte
  <2>4. Load(after, x, n) = FromWord(mem_read_word(after, cell))
    BY SMT, <1>3 DEF Load, WordAt, cell
  <2>5. Truncate(value, n) = FromWord(value.lo)
    BY SMT, <1>3 DEF Truncate
  <2> QED
    BY <2>3, <2>4, <2>5
<1>4. CASE n \notin {0, 1}
  <2>1. after = mem_write_long(m, cell, value, ok)
    BY SMT, <1>4 DEF Store, cell
  <2>2. /\ after.memory[cell % MEMORY_SIZE] = value.hi \div 256
        /\ after.memory[(cell + 1) % MEMORY_SIZE] = value.hi % 256
        /\ after.memory[(cell + 2) % MEMORY_SIZE] = value.lo \div 256
        /\ after.memory[(cell + 3) % MEMORY_SIZE] = value.lo % 256
    BY <1>1, <2>1, WriteLongStores
  <2>3. cell + 2 + 1 = cell + 3
    BY <1>1
  <2>4. mem_read_word(after, cell) = value.hi /\ mem_read_word(after, cell + 2) = value.lo
    BY <1>1, <2>2, <2>3, BytesOfWord DEF mem_read_word, mem_read_byte
  <2>5. [hi |-> value.hi, lo |-> value.lo] = value
    BY DEF Long
  <2>6. Load(after, x, n) = [hi |-> mem_read_word(after, cell),
                             lo |-> mem_read_word(after, cell + 2)]
    BY SMT, <1>4 DEF Load, LongAt, mem_read_long, cell
  <2>7. Truncate(value, n) = value
    BY SMT, <1>4 DEF Truncate
  <2> QED
    BY <2>4, <2>5, <2>6, <2>7
<1> QED
  BY <1>2, <1>3, <1>4

(* The two bytes of a word put together. *)
LEMMA WordOfBytes ==
  ASSUME NEW h \in Byte, NEW l \in Byte
  PROVE  /\ 256 * h + l \in Word
         /\ (256 * h + l) \div 256 = h /\ (256 * h + l) % 256 = l
<1>1. h \in Int /\ l \in Int /\ 0 <= h /\ h < 256 /\ 0 <= l /\ l < 256
  BY DEF Byte
<1>2. 256 * h + l \in Word
  BY SMT, <1>1, BoundedWord
<1>3. (256 * h + l) \div 256 = h /\ (256 * h + l) % 256 = l
  BY SMT, <1>1
<1> QED
  BY <1>2, <1>3

(* What was loaded is stored back byte for byte. *)
LEMMA LoadStores ==
  ASSUME NEW m, MemInv(m), NEW x \in Long, NEW n, NEW ok \in BOOLEAN,
         NEW after, after = Store(m, x, Load(m, x, n), n, ok), ~after.faulted
  PROVE  \A c \in Cell : after.memory[c] = m.memory[c]
<1> DEFINE cell == Index(x)
           value == Load(m, x, n)
           B(i) == m.memory[(cell + i) % MEMORY_SIZE]
<1>1. /\ cell \in Nat /\ m \in MemoryState /\ m.memory \in [Cell -> Byte]
  BY IndexType DEF MemInv, MemoryState
<1>2. \A i \in 0 .. 3 : (cell + i) % MEMORY_SIZE \in Cell /\ B(i) \in Byte
  BY <1>1, CellsApart
<1>3. cell + 0 = cell
  BY <1>1
<1> HIDE DEF cell, value
<1>4. CASE n = 0
  <2>1. value = FromWord(mem_read_byte(m, cell))
    BY SMT, <1>4 DEF value, Load, ByteAt, cell
  <2>2. value.lo = B(0)
    BY <1>3, <2>1 DEF FromWord, mem_read_byte
  <2>3. B(0) \in Byte /\ B(0) % 256 = B(0)
    BY <1>2 DEF Byte
  <2>4. after = mem_write_byte(m, cell, value.lo % 256, ok)
    BY SMT, <1>4 DEF Store, cell, value
  <2>5. Stored(m, after, cell, B(0))
    BY <1>1, <2>2, <2>3, <2>4, WriteByteStores
  <2> QED
    BY <1>3, <2>5 DEF Stored
<1>5. CASE n = 1
  <2>1. value = FromWord(mem_read_word(m, cell))
    BY SMT, <1>5 DEF value, Load, WordAt, cell
  <2>2. value.lo = 256 * B(0) + B(1)
    BY <1>3, <2>1 DEF FromWord, mem_read_word, mem_read_byte
  <2> HIDE DEF B
  <2>3. B(0) \in Byte /\ B(1) \in Byte
    BY <1>2
  <2>4. value.lo \in Word /\ value.lo \div 256 = B(0) /\ value.lo % 256 = B(1)
    BY <2>2, <2>3, WordOfBytes
  <2>5. after = mem_write_word(m, cell, value.lo, ok)
    BY SMT, <1>5 DEF Store, cell, value
  <2>6. /\ \A c \in Cell : c \notin Touched(cell, 2) => after.memory[c] = m.memory[c]
        /\ after.memory[cell % MEMORY_SIZE] = B(0)
        /\ after.memory[(cell + 1) % MEMORY_SIZE] = B(1)
    BY <1>1, <2>4, <2>5, WriteWordStores
  <2>7. \A c \in Touched(cell, 2) : c = cell % MEMORY_SIZE \/ c = (cell + 1) % MEMORY_SIZE
    BY <1>1, <1>3 DEF Touched
  <2> QED
    BY <1>3, <2>6, <2>7 DEF B
<1>6. CASE n \notin {0, 1}
  <2>1. value = [hi |-> mem_read_word(m, cell), lo |-> mem_read_word(m, cell + 2)]
    BY SMT, <1>6 DEF value, Load, LongAt, mem_read_long, cell
  <2>2. cell + 2 + 1 = cell + 3
    BY <1>1
  <2>3. value.hi = 256 * B(0) + B(1) /\ value.lo = 256 * B(2) + B(3)
    BY <1>3, <2>1, <2>2 DEF mem_read_word, mem_read_byte
  <2> HIDE DEF B
  <2>4. B(0) \in Byte /\ B(1) \in Byte /\ B(2) \in Byte /\ B(3) \in Byte
    BY <1>2
  <2>5. /\ value.hi \in Word /\ value.hi \div 256 = B(0) /\ value.hi % 256 = B(1)
        /\ value.lo \in Word /\ value.lo \div 256 = B(2) /\ value.lo % 256 = B(3)
    BY <2>3, <2>4, WordOfBytes
  <2>6. value \in Long
    BY <2>1, <2>5, LongPair
  <2>7. after = mem_write_long(m, cell, value, ok)
    BY SMT, <1>6 DEF Store, cell, value
  <2>8. /\ \A c \in Cell : c \notin Touched(cell, 4) => after.memory[c] = m.memory[c]
        /\ after.memory[cell % MEMORY_SIZE] = B(0)
        /\ after.memory[(cell + 1) % MEMORY_SIZE] = B(1)
        /\ after.memory[(cell + 2) % MEMORY_SIZE] = B(2)
        /\ after.memory[(cell + 3) % MEMORY_SIZE] = B(3)
    BY <1>1, <2>5, <2>6, <2>7, WriteLongStores
  <2>9. \A c \in Touched(cell, 4) : \/ c = cell % MEMORY_SIZE \/ c = (cell + 1) % MEMORY_SIZE
                                    \/ c = (cell + 2) % MEMORY_SIZE
                                    \/ c = (cell + 3) % MEMORY_SIZE
    BY <1>1, <1>3 DEF Touched
  <2> QED
    BY <1>3, <2>8, <2>9 DEF B
<1> QED
  BY <1>4, <1>5, <1>6

(* An operand in no register, and no immediate, is loaded through its address. *)
LEMMA ReadFromMemory ==
  ASSUME NEW c, NEW m, NEW ea, EaMode(ea) \notin {0, 1, 7}, NEW n
  PROVE  LET at == resolve_ea(c, m, ea, n)
         IN  read_from_ea(c, m, ea, n) = Read(at.cpu, Load(m, at.address, n))
<1> DEFINE mode == EaMode(ea)
           reg  == EaReg(ea)
           at   == resolve_ea(c, m, ea, n)
           loaded == Load(m, at.address, n)
           read == read_from_ea(c, m, ea, n)
<1> HIDE DEF mode, reg, at
<1>1. read =
        CASE mode = 7 /\ reg = 4 /\ n = 2 -> Read(Advance(c, 4), LongAt(m, c.pc))
          [] mode = 7 /\ reg = 4 /\ n # 2 -> Read(Advance(c, 2), FromWord(WordAt(m, c.pc)))
          [] mode = 0 -> Read(c, c.d[reg])
          [] mode = 1 -> Read(c, c.a[reg])
          [] OTHER -> Read(at.cpu, loaded)
  BY SMT DEF read_from_ea, Load, mode, reg, at
<1> HIDE DEF loaded, read
<1>2. mode \notin {0, 1, 7}
  BY DEF mode
<1>3. read = Read(at.cpu, loaded)
  BY SMT, <1>1, <1>2
<1> QED
  BY <1>3 DEF read, loaded, at

(* The registers that the effective addresses of a MOVE name. *)
LEMMA EaRegisters ==
  ASSUME NEW ea \in Int
  PROVE  /\ EaReg(ea) \in RegisterNumber
         /\ \A reg \in RegisterNumber :
              EaMode(8 * 3 + reg) = 3 /\ EaReg(8 * 3 + reg) = reg /\ 8 * 3 + reg \in Int
<1>1. EaReg(ea) \in RegisterNumber
  BY FieldTypes DEF EaReg, RegisterNumber
<1>2. ASSUME NEW reg \in RegisterNumber
      PROVE  EaMode(8 * 3 + reg) = 3 /\ EaReg(8 * 3 + reg) = reg /\ 8 * 3 + reg \in Int
  <2>1. 8 * 3 + reg \in 0 .. 63 /\ reg \in 0 .. 7
    BY SMT DEF RegisterNumber
  <2>2. (8 * 3 + reg) \div 8 = 3 /\ (8 * 3 + reg) % 8 = reg
    BY SMT, <2>1
  <2> QED
    BY <2>1, <2>2, EaFields
<1> QED
  BY <1>1, <1>2

(* A post-increment and a pre-decrement, of a register known by its number. *)
LEMMA PostIncrement ==
  ASSUME NEW c \in CPU, NEW m \in MemoryState, NEW ea \in Int, NEW n, NEW reg,
         EaReg(ea) = reg, EaMode(ea) = 3
  PROVE  LET at   == resolve_ea(c, m, ea, n)
             step == FromWord(Increment(reg, n))
         IN  at.cpu.a = Put(c.a, reg, AddLong(c.a[reg], step)) /\ at.address = c.a[reg]
<1> SUFFICES
      LET at   == resolve_ea(c, m, ea, n)
          step == FromWord(Increment(EaReg(ea), n))
      IN  /\ at.cpu.a = Put(c.a, EaReg(ea), AddLong(c.a[EaReg(ea)], step))
          /\ at.address = c.a[EaReg(ea)]
  OBVIOUS
<1> QED
  BY ResolveAddresses

(* A pre-decrement moves its register and uses the address it moved to. *)
LEMMA PreDecrement ==
  ASSUME NEW c \in CPU, NEW m \in MemoryState, NEW ea \in Int, NEW n, NEW reg,
         EaReg(ea) = reg, EaMode(ea) = 4
  PROVE  LET at   == resolve_ea(c, m, ea, n)
             less == SubLong(c.a[reg], FromWord(Increment(reg, n)))
         IN  at.cpu.a = Put(c.a, reg, less) /\ at.address = less
<1> SUFFICES
      LET at   == resolve_ea(c, m, ea, n)
          less == SubLong(c.a[EaReg(ea)], FromWord(Increment(EaReg(ea), n)))
      IN  at.cpu.a = Put(c.a, EaReg(ea), less) /\ at.address = less
  OBVIOUS
<1> QED
  BY ResolveAddresses

(* The step of an address register is a long. *)
LEMMA StepType ==
  ASSUME NEW reg, NEW n
  PROVE  FromWord(Increment(reg, n)) \in Long
<1>1. \A k \in {1, 2, 4} : k \in Word
  BY SMT, BoundedWord
<1> QED
  BY <1>1, IncrementType, FromWordType

(* MOVE Dm,-(An) and then MOVE (An)+,... *)
LEMMA PushAndPop ==
  ASSUME NEW c \in CPU, NEW m, MemInv(m), NEW op \in Word, NEW n, NEW ok \in BOOLEAN,
         EaMode(MoveDestination(op)) = 4, EaMode(op % 64) = 0,
         NEW e \in CPU, NEW after, e = move(c, m, op, n, ok).cpu,
         after = move(c, m, op, n, ok).mem, MemInv(after), ~after.faulted
  PROVE  LET reg    == EaReg(MoveDestination(op))
             popped == read_from_ea(e, after, 8 * 3 + reg, n)
         IN  /\ popped.value = Truncate(c.d[EaReg(op % 64)], n)
             /\ popped.cpu.a[reg] = c.a[reg]
<1> DEFINE ea   == MoveDestination(op)
           reg  == EaReg(ea)
           src  == read_from_ea(c, m, op % 64, n)
           at   == resolve_ea(src.cpu, m, ea, n)
           step == FromWord(Increment(reg, n))
           less == SubLong(c.a[reg], step)
           back == resolve_ea(e, after, 8 * 3 + reg, n)
           popped == read_from_ea(e, after, 8 * 3 + reg, n)
<1>1. /\ op % 64 \in Int /\ ea \in Int /\ reg \in RegisterNumber
      /\ m \in MemoryState /\ after \in MemoryState
      /\ 8 * 3 + reg \in Int /\ EaMode(8 * 3 + reg) = 3 /\ EaReg(8 * 3 + reg) = reg
  BY OpcodeFields, EaRegisters DEF MemInv
<1>2. src.cpu = c /\ src.value = c.d[EaReg(op % 64)]
  <2> DEFINE mode == EaMode(op % 64)
  <2>1. mode = 0
    OBVIOUS
  <2> HIDE DEF mode
  <2>2. src = Read(c, c.d[EaReg(op % 64)])
    BY SMT, <2>1 DEF read_from_ea, mode
  <2> QED
    BY <2>2 DEF Read
<1>3. /\ src.value \in Long /\ at.address \in Long /\ e.a = at.cpu.a
      /\ after = Store(m, at.address, src.value, n, ok)
  BY MoveToMemory
<1>4. at.cpu.a = Put(c.a, reg, less) /\ at.address = less
  BY <1>1, <1>2, PreDecrement
<1> HIDE DEF src, at
<1>5. e.a[reg] = less /\ c.a[reg] \in Long /\ step \in Long /\ less \in Long
  <2>1. c.a \in [RegisterNumber -> Long]
    BY CpuParts
  <2> HIDE DEF less
  <2>2. e.a[reg] = less
    BY <1>1, <1>3, <1>4, <2>1 DEF Put
  <2> QED
    BY <1>1, <2>1, <2>2, StepType, SubLongType DEF less
<1>6. back.cpu.a = Put(e.a, reg, AddLong(e.a[reg], step)) /\ back.address = less
  BY <1>1, <1>5, PostIncrement
<1>7. popped = Read(back.cpu, Load(after, less, n))
  <2>1. EaMode(8 * 3 + reg) \notin {0, 1, 7}
    BY <1>1
  <2> QED
    BY <1>6, <2>1, ReadFromMemory
<1>8. popped.value = Truncate(c.d[EaReg(op % 64)], n)
  <2>1. Load(after, less, n) = Truncate(src.value, n)
    BY <1>3, <1>4, StoreLoads
  <2> QED
    BY <1>2, <1>7, <2>1 DEF Read
<1>9. popped.cpu.a[reg] = c.a[reg]
  <2>1. AddLong(less, step) = c.a[reg]
    BY <1>5, AddSubLong DEF less
  <2>2. e.a \in [RegisterNumber -> Long]
    BY CpuParts
  <2>3. popped.cpu = back.cpu
    BY <1>7 DEF Read
  <2> HIDE DEF popped, back, less, step
  <2> QED
    BY <1>1, <1>5, <1>6, <2>1, <2>2, <2>3 DEF Put
<1> QED
  BY <1>8, <1>9

(* MOVE (An)+,-(An). *)
LEMMA MoveToItself ==
  ASSUME NEW c \in CPU, NEW m, MemInv(m), NEW op \in Word, NEW n, NEW ok \in BOOLEAN,
         EaMode(MoveDestination(op)) = 4, EaMode(op % 64) = 3,
         EaReg(MoveDestination(op)) = EaReg(op % 64),
         NEW e \in CPU, NEW after, e = move(c, m, op, n, ok).cpu,
         after = move(c, m, op, n, ok).mem, MemInv(after), ~after.faulted
  PROVE  LET reg == EaReg(op % 64)
         IN  /\ after.memory = m.memory /\ e.a = c.a
             /\ Logged(m, after, Index(c.a[reg]), BytesOf(n))
<1> DEFINE ea   == MoveDestination(op)
           reg  == EaReg(op % 64)
           from == resolve_ea(c, m, op % 64, n)
           src  == read_from_ea(c, m, op % 64, n)
           at   == resolve_ea(src.cpu, m, ea, n)
           step == FromWord(Increment(reg, n))
           x    == c.a[reg]
<1>1. /\ op % 64 \in Int /\ ea \in Int /\ reg \in RegisterNumber
      /\ m \in MemoryState /\ after \in MemoryState
  BY OpcodeFields, EaRegisters DEF MemInv
<1>2. c.a \in [RegisterNumber -> Long] /\ x \in Long /\ step \in Long
  BY <1>1, CpuParts, StepType
<1>3. from.cpu.a = Put(c.a, reg, AddLong(x, step)) /\ from.address = x
  BY <1>1, PostIncrement
<1>4. src = Read(from.cpu, Load(m, x, n))
  <2>1. EaMode(op % 64) \notin {0, 1, 7}
    OBVIOUS
  <2> QED
    BY <1>3, <2>1, ReadFromMemory
<1>5. src.cpu.a = Put(c.a, reg, AddLong(x, step)) /\ src.value = Load(m, x, n)
  BY <1>3, <1>4 DEF Read
<1>6. /\ src.cpu \in CPU /\ src.value \in Long /\ at.address \in Long /\ e.a = at.cpu.a
      /\ after = Store(m, at.address, src.value, n, ok)
  BY MoveToMemory
<1> HIDE DEF src, from
<1>7. /\ at.cpu.a = Put(src.cpu.a, reg, SubLong(src.cpu.a[reg], step))
      /\ at.address = SubLong(src.cpu.a[reg], step)
  BY <1>1, <1>6, PreDecrement
<1> HIDE DEF at, step
<1>8. src.cpu.a[reg] = AddLong(x, step)
  BY <1>1, <1>2, <1>5 DEF Put
<1>9. SubLong(src.cpu.a[reg], step) = x
  BY <1>2, <1>8, AddSubLong
<1>10. e.a = c.a
  BY <1>1, <1>2, <1>5, <1>6, <1>7, <1>9 DEF Put
<1>11. after = Store(m, x, Load(m, x, n), n, ok) /\ Load(m, x, n) \in Long
  BY <1>5, <1>6, <1>7, <1>9
<1> HIDE DEF x
<1>12. after.memory = m.memory
  <2>1. \A cell \in Cell : after.memory[cell] = m.memory[cell]
    BY <1>2, <1>11, LoadStores
  <2>2. after.memory \in [Cell -> Byte] /\ m.memory \in [Cell -> Byte]
    BY <1>1 DEF MemoryState
  <2> QED
    BY <2>1, <2>2
<1>13. Logged(m, after, Index(x), BytesOf(n))
  BY <1>2, <1>11, StoreLogs
<1> QED
  BY <1>10, <1>12, <1>13 DEF x

-----------------------------------------------------------------------------
(* What the two properties say of a step. *)
PushedIsPopped ==
  LET dest == MoveDestination(opcode)
      src  == opcode % 64
      reg  == EaReg(dest)
      size == MoveSize(opcode)
      popped == read_from_ea(cpu', mem', 8 * 3 + reg, size)
  IN  IsMove(opcode) /\ EaMode(dest) = 4 /\ EaMode(src) = 0 /\ ~mem'.faulted =>
        /\ popped.value = Truncate(cpu.d[EaReg(src)], size)
        /\ popped.cpu.a[reg] = cpu.a[reg]

MovedOntoItself ==
  LET dest == MoveDestination(opcode)
      src  == opcode % 64
      reg  == EaReg(src)
      operand == Touched(Index(cpu.a[reg]), MoveBytes(opcode))
  IN  /\ IsMove(opcode) /\ EaMode(src) = 3 /\ EaMode(dest) = 4 /\ EaReg(dest) = reg
      /\ ~mem'.lost /\ ~mem'.faulted
      => /\ mem'.memory = mem.memory /\ cpu'.a = cpu.a
         /\ \A i \in Len(mem.changes) + 1 .. Len(mem'.changes) :
              mem'.changes[i].address \in operand

(* Each MOVE through the same register, a push and a pop or an operand moved*)
(* onto itself, leaves what these properties say.                          *)
LEMMA EveryMoveIsUndone ==
  ASSUME ExecInv, ExecInv', ExecNext
  PROVE  PushedIsPopped /\ MovedOntoItself
<1>1. /\ opcode \in Word /\ fetched \in CPU /\ MemInv(mem) /\ MemInv(mem') /\ cpu' \in CPU
      /\ fetched.a = cpu.a /\ fetched.d = cpu.d
  <2>1. mem \in MemoryState /\ cpu \in CPU /\ MemInv(mem) /\ MemInv(mem') /\ cpu' \in CPU
    BY DEF ExecInv, MemInv, MemoryState, BufferInv, LogExplains, LogChains
  <2> QED
    BY <2>1, CpuParts, ReadTypes, AdvanceType, AdvanceSteps, AdvanceSame
    DEF opcode, fetched, SameData
<1>2. CASE ~IsMove(opcode)
  BY <1>2 DEF PushedIsPopped, MovedOntoItself
<1>3. ASSUME NEW n \in {0, 1, 2}, NEW ok \in BOOLEAN,
             handler_of(opcode) = MoveHandler(n),
             cpu' = move(fetched, mem, opcode, n, ok).cpu,
             mem' = move(fetched, mem, opcode, n, ok).mem
      PROVE  PushedIsPopped /\ MovedOntoItself
  <2> DEFINE dest == MoveDestination(opcode)
             src  == opcode % 64
             reg  == EaReg(src)
             operand == Touched(Index(cpu.a[reg]), BytesOf(n))
  <2>1. MoveSize(opcode) = n /\ MoveBytes(opcode) = BytesOf(n)
    BY <1>3, HandlersOfMove
  <2>2. PushedIsPopped
    <3>1. ASSUME EaMode(dest) = 4, EaMode(src) = 0, ~mem'.faulted
          PROVE  LET popped == read_from_ea(cpu', mem', 8 * 3 + EaReg(dest), n)
                 IN  /\ popped.value = Truncate(cpu.d[EaReg(src)], n)
                     /\ popped.cpu.a[EaReg(dest)] = cpu.a[EaReg(dest)]
      BY <1>1, <1>3, <3>1, PushAndPop
    <3> QED
      BY <2>1, <3>1 DEF PushedIsPopped
  <2>3. MovedOntoItself
    <3>1. ASSUME EaMode(src) = 3, EaMode(dest) = 4, EaReg(dest) = reg,
                 ~mem'.lost, ~mem'.faulted
          PROVE  /\ mem'.memory = mem.memory /\ cpu'.a = cpu.a
                 /\ \A i \in Len(mem.changes) + 1 .. Len(mem'.changes) :
                      mem'.changes[i].address \in operand
      <4> DEFINE cell == Index(cpu.a[reg])
                 k == BytesOf(n)
                 before == Len(mem.changes)
                 after == Len(mem'.changes)
      <4>1. /\ mem'.memory = mem.memory /\ cpu'.a = cpu.a
            /\ Logged(mem, mem', cell, k)
        BY <1>1, <1>3, <3>1, MoveToItself
      <4>2. k \in {1, 2, 4} /\ before \in Nat
        <5>1. k \in {1, 2, 4}
          BY DEF BytesOf
        <5> QED
          BY <1>1, <5>1, InvLog
      <4> HIDE DEF cell, k
      <4>3. /\ after = before + k
            /\ \A j \in 0 .. k - 1 :
                 mem'.changes[before + 1 + j].address = (cell + j) % MEMORY_SIZE
        BY <3>1, <4>1 DEF Logged
      <4> HIDE DEF before, after
      <4>4. ASSUME NEW i \in before + 1 .. after
            PROVE  mem'.changes[i].address \in Touched(cell, k)
        <5> DEFINE j == i - before - 1
        <5>1. j \in 0 .. k - 1 /\ before + 1 + j = i
          BY SMT, <4>2, <4>3
        <5> HIDE DEF j
        <5> QED
          BY <4>3, <5>1 DEF Touched
      <4> QED
        BY <4>1, <4>4 DEF cell, k, before, after
    <3> QED
      BY <2>1, <3>1 DEF MovedOntoItself
  <2> QED
    BY <2>2, <2>3
<1> QED
  BY <1>2, <1>3, MoveOrNot

(* A data register pushed at -(An) is popped from (An)+ as it was, and the    *)
(* register comes back to where it was: in every size, wherever the address   *)
(* or the bytes wrap, unless the process dies of a lost log.                  *)
THEOREM WhatIsPushedIsPopped == ExecSpec => PopReturnsPushed
<1>1. ExecInv /\ ExecInv' /\ [ExecNext]_vars => [PushedIsPopped]_vars
  BY EveryMoveIsUndone
<1> QED
  BY <1>1, ExecInvariant, PTL DEF ExecSpec, PopReturnsPushed, PushedIsPopped

(* MOVE (An)+,-(An) changes no cell and no address register, and logs only    *)
(* the cells of its operand: the source is read and its register moved        *)
(* before the destination is resolved.                                        *)
THEOREM MoveOntoItselfIsNothing == ExecSpec => MoveOntoItself
<1>1. ExecInv /\ ExecInv' /\ [ExecNext]_vars => [MovedOntoItself]_vars
  BY EveryMoveIsUndone
<1> QED
  BY <1>1, ExecInvariant, PTL DEF ExecSpec, MoveOntoItself, MovedOntoItself

-----------------------------------------------------------------------------
(* The flags after an addition, and after a subtraction, tell how the        *)
(* register reg changed from c to e, as a number of size n.                  *)
ZeroTold(e, reg, n) ==
  /\ SR_Z \in e.sr <=> Truncate(e.d[reg], n) = ZeroLong
  /\ SR_X \in e.sr <=> SR_C \in e.sr

AdditionTold(c, e, reg, n) ==
  /\ SR_C \in e.sr <=> IsLess(Truncate(e.d[reg], n), Truncate(c.d[reg], n))
  /\ ZeroTold(e, reg, n)

SubtractionTold(c, e, reg, n) ==
  /\ SR_C \in e.sr <=> IsLess(Truncate(c.d[reg], n), Truncate(e.d[reg], n))
  /\ ZeroTold(e, reg, n)

(* An addition shrinks the register exactly over a carry. *)
LEMMA AdditionTells ==
  ASSUME NEW c \in CPU, NEW reg \in RegisterNumber, NEW S \in Long, NEW n \in SizeCodes,
         NEW e, e = arithmetic(c, reg, S, n, FALSE)
  PROVE  AdditionTold(c, e, reg, n)
<1> DEFINE D  == c.d[reg]
           R  == AddLong(D, S)
           sr == set_flags(c.sr, S, D, R, n, FALSE)
           x  == Merge(D, R, n)
<1>1. /\ D \in Long /\ R \in Long /\ c.d \in [RegisterNumber -> Long]
  BY CpuParts, AddLongType
<1>2. e = [c EXCEPT !.d[reg] = x, !.sr = sr]
  BY DEF arithmetic
<1> HIDE DEF x, sr
<1>3. e.d[reg] = x /\ e.sr = sr
  BY <1>1, <1>2 DEF CPU
<1>5. /\ SR_C \in sr <=> Value(R, n) < Value(D, n)
      /\ SR_Z \in sr <=> Value(R, n) = 0
      /\ SR_X \in sr <=> SR_C \in sr
  BY <1>1, CarryOfAddition DEF sr
<1> HIDE DEF R, D
<1>4. Truncate(x, n) = Truncate(R, n)
  BY <1>1, MergeTruncate DEF x
<1>6. /\ IsLess(Truncate(R, n), Truncate(D, n)) <=> Value(R, n) < Value(D, n)
      /\ Truncate(R, n) = ZeroLong <=> Value(R, n) = 0
  BY <1>1, ValueOrder, ZeroValue DEF IsLess
<1> QED
  BY Zenon, <1>3, <1>4, <1>5, <1>6 DEF AdditionTold, ZeroTold, D

(* A subtraction makes it grow exactly over a borrow. *)
LEMMA SubtractionTells ==
  ASSUME NEW c \in CPU, NEW reg \in RegisterNumber, NEW S \in Long, NEW n \in SizeCodes,
         NEW e, e = arithmetic(c, reg, S, n, TRUE)
  PROVE  SubtractionTold(c, e, reg, n)
<1> DEFINE D  == c.d[reg]
           R  == SubLong(D, S)
           sr == set_flags(c.sr, S, D, R, n, TRUE)
           x  == Merge(D, R, n)
           d  == Value(D, n)
           s  == Value(S, n)
           r  == Value(R, n)
           h  == Half(n)
<1>1. /\ D \in Long /\ R \in Long /\ c.d \in [RegisterNumber -> Long]
  BY CpuParts, SubLongType
<1>2. e = [c EXCEPT !.d[reg] = x, !.sr = sr]
  BY DEF arithmetic
<1> HIDE DEF x, sr
<1>3. e.d[reg] = x /\ e.sr = sr
  BY <1>1, <1>2 DEF CPU
<1>5. /\ SR_C \in sr <=> d < s
      /\ SR_Z \in sr <=> r = 0
      /\ SR_X \in sr <=> SR_C \in sr
  BY <1>1, BorrowOfSubtraction DEF sr
<1>6. r = IF s <= d THEN d - s ELSE d - s + 2 * h
  BY <1>1, ValueSub
<1>7. /\ s \in Int /\ 0 <= s /\ s < 2 * h /\ d \in Int /\ 0 <= d /\ d < 2 * h
  BY <1>1, ValueSign
<1>8. h \in Int
  BY SMT DEF Half
<1> HIDE DEF R, D
<1>4. Truncate(x, n) = Truncate(R, n)
  BY <1>1, MergeTruncate DEF x
<1>9. /\ IsLess(Truncate(D, n), Truncate(R, n)) <=> d < r
      /\ Truncate(R, n) = ZeroLong <=> r = 0
  BY <1>1, ValueOrder, ZeroValue DEF IsLess
<1> HIDE DEF d, s, r, h
<1>10. d < s <=> d < r
  BY SMT, <1>6, <1>7, <1>8
<1> QED
  BY Zenon, <1>3, <1>4, <1>5, <1>9, <1>10 DEF SubtractionTold, ZeroTold, D

(* The operands of the six arithmetic handlers. *)
LEMMA OperandsOfArithmetic ==
  ASSUME NEW c \in CPU, NEW m \in MemoryState, NEW op \in Word
  PROVE  LET low  == Field(op, 0, 3)
             high == Field(op, 9, 3)
             data == immediate(c, m, SizeField(op))
         IN  /\ low \in RegisterNumber /\ high \in RegisterNumber
             /\ SizeField(op) \in SizeCodes
             /\ QuickData(op) \in Long /\ c.d[low] \in Long
             /\ data.cpu \in CPU /\ data.value \in Long /\ data.cpu.d = c.d
<1>1. SizeField(op) \in SizeCodes
  <2>1. op \in Int
    BY WordBounds
  <2> QED
    BY SMT, <2>1 DEF SizeField, Field, SizeCodes
<1>2. Field(op, 0, 3) \in RegisterNumber /\ Field(op, 9, 3) \in RegisterNumber
  BY OpcodeFields
<1> QED
  BY <1>1, <1>2, QuickDataType, CpuParts, ImmediateType, ImmediateSame DEF IsRead, SameData

(* What FlagsTellTheChange says of a step. *)
ChangeTold ==
  LET handler == handler_of(opcode)
      reg  == Field(opcode, IF handler \in {"add_reg", "sub_reg"} THEN 9 ELSE 0, 3)
      old  == Truncate(cpu.d[reg], SizeField(opcode))
      new  == Truncate(cpu'.d[reg], SizeField(opcode))
  IN  /\ handler \in Additions => (SR_C \in cpu'.sr <=> IsLess(new, old))
      /\ handler \in Subtractions => (SR_C \in cpu'.sr <=> IsLess(old, new))
      /\ handler \in Additions \cup Subtractions =>
           /\ SR_Z \in cpu'.sr <=> new = ZeroLong
           /\ SR_X \in cpu'.sr <=> SR_C \in cpu'.sr

(* Each of the arithmetic handlers leaves flags that tell its change. *)
LEMMA EveryStepTells == ExecInv /\ ExecNext => ChangeTold
<1> SUFFICES ASSUME ExecInv, ExecNext PROVE ChangeTold
  OBVIOUS
<1> DEFINE c == fetched
           n == SizeField(opcode)
           low == Field(opcode, 0, 3)
           high == Field(opcode, 9, 3)
           data == immediate(c, mem, n)
<1>1. opcode \in Word /\ c \in CPU /\ mem \in MemoryState /\ c.d = cpu.d
  <2>1. mem \in MemoryState /\ cpu \in CPU
    BY DEF ExecInv, MemInv
  <2> QED
    BY <2>1, CpuParts, ReadTypes, AdvanceType, AdvanceSame DEF opcode, fetched, SameData
<1> HIDE DEF c
<1>2. /\ low \in RegisterNumber /\ high \in RegisterNumber /\ n \in SizeCodes
      /\ QuickData(opcode) \in Long /\ c.d[low] \in Long
      /\ data.cpu \in CPU /\ data.value \in Long /\ data.cpu.d = c.d
  BY <1>1, OperandsOfArithmetic
<1> HIDE DEF n, low, high, data
<1>3. CASE AddQ
  <2>1. /\ cpu' = arithmetic(c, low, QuickData(opcode), n, FALSE)
        /\ handler_of(opcode) = "addq"
    BY <1>3 DEF AddQ, Registers, Turn, handle_addq, c, n, low
  <2>2. AdditionTold(cpu, cpu', low, n)
    <3>1. AdditionTold(c, cpu', low, n)
      BY <1>1, <1>2, <2>1, AdditionTells
    <3> QED
      BY <1>1, <3>1 DEF AdditionTold
  <2> QED
    BY <2>1, <2>2 DEF ChangeTold, AdditionTold, ZeroTold, Additions, Subtractions, n, low
<1>4. CASE SubQ
  <2>1. /\ cpu' = arithmetic(c, low, QuickData(opcode), n, TRUE)
        /\ handler_of(opcode) = "subq"
    BY <1>4 DEF SubQ, Registers, Turn, handle_subq, c, n, low
  <2>2. SubtractionTold(cpu, cpu', low, n)
    <3>1. SubtractionTold(c, cpu', low, n)
      BY <1>1, <1>2, <2>1, SubtractionTells
    <3> QED
      BY <1>1, <3>1 DEF SubtractionTold
  <2> QED
    BY <2>1, <2>2 DEF ChangeTold, SubtractionTold, ZeroTold, Additions, Subtractions, n, low
<1>5. CASE AddReg
  <2>1. /\ cpu' = arithmetic(c, high, c.d[low], n, FALSE)
        /\ handler_of(opcode) = "add_reg"
    BY <1>5 DEF AddReg, Registers, Turn, handle_add_reg, c, n, low, high
  <2>2. AdditionTold(cpu, cpu', high, n)
    <3>1. AdditionTold(c, cpu', high, n)
      BY <1>1, <1>2, <2>1, AdditionTells
    <3> QED
      BY <1>1, <3>1 DEF AdditionTold
  <2> QED
    BY <2>1, <2>2 DEF ChangeTold, AdditionTold, ZeroTold, Additions, Subtractions, n, high
<1>6. CASE SubReg
  <2>1. /\ cpu' = arithmetic(c, high, c.d[low], n, TRUE)
        /\ handler_of(opcode) = "sub_reg"
    BY <1>6 DEF SubReg, Registers, Turn, handle_sub_reg, c, n, low, high
  <2>2. SubtractionTold(cpu, cpu', high, n)
    <3>1. SubtractionTold(c, cpu', high, n)
      BY <1>1, <1>2, <2>1, SubtractionTells
    <3> QED
      BY <1>1, <3>1 DEF SubtractionTold
  <2> QED
    BY <2>1, <2>2 DEF ChangeTold, SubtractionTold, ZeroTold, Additions, Subtractions, n, high
<1>7. CASE AddI
  <2>1. /\ cpu' = arithmetic(data.cpu, low, data.value, n, FALSE)
        /\ handler_of(opcode) = "addi"
    BY <1>7 DEF AddI, Registers, Turn, handle_addi, c, n, low, data
  <2>2. AdditionTold(cpu, cpu', low, n)
    <3>1. AdditionTold(data.cpu, cpu', low, n)
      BY <1>2, <2>1, AdditionTells
    <3> QED
      BY <1>1, <1>2, <3>1 DEF AdditionTold
  <2> QED
    BY <2>1, <2>2 DEF ChangeTold, AdditionTold, ZeroTold, Additions, Subtractions, n, low
<1>8. CASE SubI
  <2>1. /\ cpu' = arithmetic(data.cpu, low, data.value, n, TRUE)
        /\ handler_of(opcode) = "subi"
    BY <1>8 DEF SubI, Registers, Turn, handle_subi, c, n, low, data
  <2>2. SubtractionTold(cpu, cpu', low, n)
    <3>1. SubtractionTold(data.cpu, cpu', low, n)
      BY <1>2, <2>1, SubtractionTells
    <3> QED
      BY <1>1, <1>2, <3>1 DEF SubtractionTold
  <2> QED
    BY <2>1, <2>2 DEF ChangeTold, SubtractionTold, ZeroTold, Additions, Subtractions, n, low
<1>9. CASE ~(AddQ \/ SubQ \/ AddReg \/ SubReg \/ AddI \/ SubI)
  <2>1. handler_of(opcode) \in {"move_b", "move_w", "move_l", "andi", "btst_imm", "bchg_imm",
                                "bclr_imm", "bset_imm", "bcc", "nop", "rts", "none"}
    BY <1>9 DEF ExecNext, MoveB, MoveW, MoveL, AndI, BtstImm, BchgImm, BclrImm, BsetImm,
                Bcc, Nop, Rts, Unknown, Move, Registers, Turn
  <2> QED
    BY <2>1 DEF ChangeTold, Additions, Subtractions
<1> QED
  BY <1>3, <1>4, <1>5, <1>6, <1>7, <1>8, <1>9

(* After an addition C is set exactly when the register, as an unsigned       *)
(* number of the operation's size, has become smaller; after a subtraction,  *)
(* when it has become larger; Z says that it is zero, and X is C: for every   *)
(* pair of operands, though the code looks at three sign bits alone.          *)
THEOREM FlagsTell == ExecSpec => FlagsTellTheChange
<1>1. ExecInv /\ [ExecNext]_vars => [ChangeTold]_vars
  BY EveryStepTells
<1> QED
  BY <1>1, ExecInvariant, PTL DEF ExecSpec, FlagsTellTheChange, ChangeTold
=============================================================================
