------------------------------ MODULE Executor ------------------------------
(***************************************************************************)
(* executor.c: the effective addresses, the handlers and the loop of        *)
(* execute_program, over the memory of Memory, the registers of Cpu and the *)
(* decoding of InstructionTable.                                           *)
(*                                                                         *)
(* The C functions share the CPU and the memory by pointer.  Here each is   *)
(* an operator from the registers c and the memory m to a record of what    *)
(* it changes and returns, and a handler is their composition in the order  *)
(* of the calls: an extension word is fetched, and the program counter      *)
(* moved, at the point where the code does it.                              *)
(*                                                                         *)
(* In every size_code 0 is a byte and 1 a word.  The handlers that take the *)
(* code from the opcode can meet a 3, which each of their tests treats as    *)
(* a long.                                                                 *)
(***************************************************************************)
EXTENDS Memory, Cpu, InstructionTable

CONSTANTS
  MAX_EXECUTION_CYCLES,  \* 5000 in executor.c
  LoadedMemories,        \* the memories a program can be loaded in
  StartAddresses,        \* where execution can begin
  AllocAnswers           \* what realloc can answer while the program runs

ASSUME ExecutorAssumption ==
  /\ MAX_EXECUTION_CYCLES \in Nat
  /\ StartAddresses \subseteq Long
  /\ AllocAnswers \subseteq BOOLEAN

(* Loading a program writes it through the operations of Memory. *)
ASSUME LoadedAssumption == \A m \in LoadedMemories : MemInv(m)

VARIABLES
  cpu,      \* the registers
  running,  \* the loop's flag, FALSE after RTS or an unknown opcode
  cycles    \* the instructions executed

vars == <<mem, cpu, running, cycles>>

-----------------------------------------------------------------------------
(* mem_read_ at an address, or at the program counter. *)
ByteAt(m, x) == mem_read_byte(m, Index(x))
WordAt(m, x) == mem_read_word(m, Index(x))
LongAt(m, x) == mem_read_long(m, Index(x))

(* cpu->pc += n *)
Advance(c, n) == [c EXCEPT !.pc = AddLong(@, FromWord(n))]

(* The index register of an extension word, sign-extended unless bit 11     *)
(* makes it long.                                                           *)
index_value(c, extension_word) ==
  LET reg == Field(extension_word, 12, 3)
      val == IF Bit(extension_word, 15) = 1 THEN c.a[reg] ELSE c.d[reg]
  IN  IF Bit(extension_word, 11) = 1 THEN val ELSE SignExtendWord(val.lo)

(* An address, and a value, with the registers after the words they took. *)
At(c, address) == [cpu |-> c, address |-> address]
Read(c, value) == [cpu |-> c, value |-> value]

(* A displacement of no word, of one, sign-extended, or of two. *)
displacement(c, m, words) ==
  IF words = 0 THEN Read(c, ZeroLong)
  ELSE IF words = 1 THEN Read(Advance(c, 2), SignExtendWord(WordAt(m, c.pc)))
  ELSE Read(Advance(c, 4), LongAt(m, c.pc))

base_words(extension_word) ==
  LET bd_size_code == Field(extension_word, 4, 2)
  IN  IF bd_size_code = 2 THEN 1 ELSE IF bd_size_code = 3 THEN 2 ELSE 0

(* Mistake: the size of the outer displacement is bit 2 of the indirection   *)
(* field, as a comment of resolve_full_format_ea has it.                     *)
outer_words_bit2(iis) ==
  IF iis \notin {2, 3, 6, 7} THEN 0 ELSE IF iis >= 4 THEN 2 ELSE 1

outer_words(iis) ==
  IF iis \notin {2, 3, 6, 7} THEN 0 ELSE IF iis % 2 = 1 THEN 2 ELSE 1

resolve_full_format_ea(c, m, base_reg_val, extension_word) ==
  LET iis   == Field(extension_word, 0, 3)
      base  == displacement(c, m, base_words(extension_word))
      index == ShiftLong(index_value(c, extension_word), Field(extension_word, 9, 2))
      temp_addr == AddLong(base_reg_val, base.value)
      final_ea  == IF iis \in {1, 2, 3} THEN LongAt(m, AddLong(temp_addr, index))
                   ELSE IF iis \in {5, 6, 7} THEN AddLong(LongAt(m, temp_addr), index)
                   ELSE AddLong(temp_addr, index)
      outer == displacement(base.cpu, m, outer_words(iis))
  IN  At(outer.cpu, AddLong(final_ea, outer.value))

(* d8(An,Xn) and d8(PC,Xn), brief or full. *)
resolve_indexed(c, m, base) ==
  LET extension_word == WordAt(m, c.pc)
      c1   == Advance(c, 2)
      disp == SignExtendByte(extension_word % 256)
  IN  IF Bit(extension_word, 8) = 1
      THEN resolve_full_format_ea(c1, m, base, extension_word)
      ELSE At(c1, AddLong(AddLong(base, index_value(c1, extension_word)), disp))

EaMode(ea) == Field(ea, 3, 3)
EaReg(ea)  == Field(ea, 0, 3)

(* Mistake: A7 moves by one for a byte. *)
Increment_odd_stack(reg, size_code) ==
  CASE size_code = 0 -> 1 [] size_code = 1 -> 2 [] OTHER -> 4

(* What (An)+ adds and -(An) subtracts: A7 moves by words, also for a byte. *)
Increment(reg, size_code) ==
  CASE size_code = 0 -> IF reg = 7 THEN 2 ELSE 1
    [] size_code = 1 -> 2
    [] OTHER -> 4

resolve_ea(c, m, ea, size_code) ==
  LET mode == EaMode(ea)
      reg  == EaReg(ea)
      step == FromWord(Increment(reg, size_code))
      less == SubLong(c.a[reg], step)
      word == SignExtendWord(WordAt(m, c.pc))
  IN  CASE mode = 2 -> At(c, c.a[reg])
        [] mode = 3 -> At([c EXCEPT !.a[reg] = AddLong(@, step)], c.a[reg])
        [] mode = 4 -> At([c EXCEPT !.a[reg] = less], less)
        [] mode = 5 -> At(Advance(c, 2), AddLong(c.a[reg], word))
        [] mode = 6 -> resolve_indexed(c, m, c.a[reg])
        [] mode = 7 /\ reg = 0 -> At(Advance(c, 2), word)
        [] mode = 7 /\ reg = 1 -> At(Advance(c, 4), LongAt(m, c.pc))
        [] mode = 7 /\ reg = 2 -> At(Advance(c, 2), AddLong(c.pc, word))
        [] mode = 7 /\ reg = 3 -> resolve_indexed(c, m, c.pc)
        [] OTHER -> At(c, ZeroLong)

read_from_ea(c, m, ea, size_code) ==
  LET mode == EaMode(ea)
      reg  == EaReg(ea)
      at   == resolve_ea(c, m, ea, size_code)
  IN  CASE mode = 7 /\ reg = 4 /\ size_code = 2 -> Read(Advance(c, 4), LongAt(m, c.pc))
        [] mode = 7 /\ reg = 4 /\ size_code # 2 ->
             Read(Advance(c, 2), FromWord(WordAt(m, c.pc)))
        [] mode = 0 -> Read(c, c.d[reg])
        [] mode = 1 -> Read(c, c.a[reg])
        [] OTHER ->
             Read(at.cpu, CASE size_code = 0 -> FromWord(ByteAt(m, at.address))
                            [] size_code = 1 -> FromWord(WordAt(m, at.address))
                            [] OTHER -> LongAt(m, at.address))

(* The registers and the memory after an instruction. *)
Done(c, m) == [cpu |-> c, mem |-> m]

(* A destination that is no address (an immediate, mode 7 with a register   *)
(* above 4) is written at address 0, where resolve_ea sends it.             *)
write_to_ea(c, m, ea, value, size_code, ok) ==
  LET mode == EaMode(ea)
      reg  == EaReg(ea)
      at   == resolve_ea(c, m, ea, size_code)
      cell == Index(at.address)
  IN  CASE mode = 0 -> Done([c EXCEPT !.d[reg] = Merge(@, value, size_code)], m)
        [] mode = 1 /\ size_code = 0 -> Done(c, m)
        [] mode = 1 /\ size_code = 1 -> Done([c EXCEPT !.a[reg] = SignExtendWord(value.lo)], m)
        [] mode = 1 /\ size_code \notin {0, 1} -> Done([c EXCEPT !.a[reg] = value], m)
        [] OTHER ->
             Done(at.cpu,
                  CASE size_code = 0 -> mem_write_byte(m, cell, value.lo % 256, ok)
                    [] size_code = 1 -> mem_write_word(m, cell, value.lo, ok)
                    [] OTHER -> mem_write_long(m, cell, value, ok))

-----------------------------------------------------------------------------
(* The handlers.  The three of MOVE: the source is read, with its            *)
(* extension words and its post-increment, before the destination is        *)
(* resolved; a word moved to an address register is extended and moved as a *)
(* long, and no move to one touches a flag, except the byte that moves       *)
(* nothing.                                                                  *)
MoveDestination(opcode) == 8 * Field(opcode, 6, 3) + Field(opcode, 9, 3)

(* Mistakes: the destination is resolved first; a move to an address register *)
(* sets the flags.                                                            *)
move_destination_first(c, m, opcode, size_code, ok) ==
  LET dest == resolve_ea(c, m, MoveDestination(opcode), size_code)
      src  == read_from_ea(dest.cpu, m, opcode % 64, size_code)
      to   == write_to_ea(c, m, MoveDestination(opcode), src.value, size_code, ok)
  IN  Done([src.cpu EXCEPT !.sr = set_logic_flags(@, src.value, size_code),
                           !.d = to.cpu.d], to.mem)

movea_sets_flags(c, m, opcode, size_code, ok) ==
  LET src == read_from_ea(c, m, opcode % 64, size_code)
      to  == write_to_ea(src.cpu, m, MoveDestination(opcode), src.value, size_code, ok)
  IN  Done([to.cpu EXCEPT !.sr = set_logic_flags(@, src.value, size_code)], to.mem)

move(c, m, opcode, size_code, ok) ==
  LET src  == read_from_ea(c, m, opcode % 64, size_code)
      dest == MoveDestination(opcode)
      to   == write_to_ea(src.cpu, m, dest, src.value, size_code, ok)
      sets == EaMode(dest) # 1 \/ size_code = 0
  IN  IF sets
      THEN Done([to.cpu EXCEPT !.sr = set_logic_flags(@, src.value, size_code)], to.mem)
      ELSE to

handle_move_b(c, m, opcode, ok) == move(c, m, opcode, 0, ok)
handle_move_w(c, m, opcode, ok) == move(c, m, opcode, 1, ok)
handle_move_l(c, m, opcode, ok) == move(c, m, opcode, 2, ok)

(* Mistake: the flags of S - D. *)
arithmetic_swapped(c, reg, S, size_code, is_sub) ==
  LET D == c.d[reg]
      R == IF is_sub THEN SubLong(D, S) ELSE AddLong(D, S)
  IN  [c EXCEPT !.d[reg] = Merge(D, R, size_code),
                !.sr = set_flags(@, D, S, R, size_code, is_sub)]

(* D + S or D - S into the data register reg, with the flags of the whole   *)
(* result: what the six arithmetic handlers do with their operands.         *)
arithmetic(c, reg, S, size_code, is_sub) ==
  LET D == c.d[reg]
      R == IF is_sub THEN SubLong(D, S) ELSE AddLong(D, S)
  IN  [c EXCEPT !.d[reg] = Merge(D, R, size_code),
                !.sr = set_flags(@, S, D, R, size_code, is_sub)]

SizeField(opcode) == Field(opcode, 6, 2)

(* The 3-bit datum of ADDQ and SUBQ, 0 meaning 8. *)
QuickData(opcode) ==
  FromWord(IF Field(opcode, 9, 3) = 0 THEN 8 ELSE Field(opcode, 9, 3))

handle_addq(c, opcode) ==
  arithmetic(c, Field(opcode, 0, 3), QuickData(opcode), SizeField(opcode), FALSE)

handle_subq(c, opcode) ==
  arithmetic(c, Field(opcode, 0, 3), QuickData(opcode), SizeField(opcode), TRUE)

handle_add_reg(c, opcode) ==
  arithmetic(c, Field(opcode, 9, 3), c.d[Field(opcode, 0, 3)], SizeField(opcode), FALSE)

handle_sub_reg(c, opcode) ==
  arithmetic(c, Field(opcode, 9, 3), c.d[Field(opcode, 0, 3)], SizeField(opcode), TRUE)

(* Mistake: the datum is a word whatever the size. *)
immediate_word(c, m, size_code) ==
  Read(Advance(c, 2), FromWord(WordAt(m, c.pc) % (IF size_code = 0 THEN 256 ELSE 65536)))

(* The datum that follows ADDI, SUBI and ANDI: a long takes two words. *)
immediate(c, m, size_code) ==
  CASE size_code = 0 -> Read(Advance(c, 2), FromWord(WordAt(m, c.pc) % 256))
    [] size_code = 1 -> Read(Advance(c, 2), FromWord(WordAt(m, c.pc)))
    [] OTHER -> Read(Advance(c, 4), LongAt(m, c.pc))

handle_addi(c, m, opcode) ==
  LET data == immediate(c, m, SizeField(opcode))
  IN  arithmetic(data.cpu, Field(opcode, 0, 3), data.value, SizeField(opcode), FALSE)

handle_subi(c, m, opcode) ==
  LET data == immediate(c, m, SizeField(opcode))
  IN  arithmetic(data.cpu, Field(opcode, 0, 3), data.value, SizeField(opcode), TRUE)

handle_andi(c, m, opcode) ==
  LET data   == immediate(c, m, SizeField(opcode))
      reg    == Field(opcode, 0, 3)
      result == AndLong(c.d[reg], data.value)
  IN  [data.cpu EXCEPT !.d[reg] = Merge(@, result, SizeField(opcode)),
                       !.sr = set_logic_flags(@, result, SizeField(opcode))]

(* BTST, BCHG, BCLR and BSET test a bit of a data register and leave in it  *)
(* what change makes of it.                                                 *)
bit_operation(c, m, opcode, change) ==
  LET reg == Field(opcode, 0, 3)
      n   == (WordAt(m, c.pc) % 256) % 32
      bit == LongBit(c.d[reg], n)
      c1  == Advance(c, 2)
  IN  [c1 EXCEPT !.sr = set_sr_flag(@, SR_Z, bit = 0),
                 !.d[reg] = SetLongBit(@, n, change[bit])]

handle_btst_imm(c, m, opcode) == bit_operation(c, m, opcode, [b \in {0, 1} |-> b])
handle_bchg_imm(c, m, opcode) == bit_operation(c, m, opcode, [b \in {0, 1} |-> 1 - b])
handle_bclr_imm(c, m, opcode) == bit_operation(c, m, opcode, [b \in {0, 1} |-> 0])
handle_bset_imm(c, m, opcode) == bit_operation(c, m, opcode, [b \in {0, 1} |-> 1])

(* The displacement counts from the word after the opcode, where the        *)
(* program counter already is.  A displacement of 0 or -1 is one like any    *)
(* other: no extension word is read.                                        *)
handle_bcc(c, opcode) ==
  IF branch_taken(Field(opcode, 8, 4), c.sr)
  THEN [c EXCEPT !.pc = AddLong(@, SignExtendByte(opcode % 256))]
  ELSE c

-----------------------------------------------------------------------------
(* execute_program.  One turn of the loop fetches the opcode, advances the  *)
(* program counter and runs the handler; RTS and an opcode without an entry  *)
(* end the loop after the turn, the cycle limit before the next.  Mistakes:  *)
(* a limit reached one turn late, a turn that is not counted.               *)
Ended_late == ~running \/ cycles > MAX_EXECUTION_CYCLES

Ended == ~running \/ cycles >= MAX_EXECUTION_CYCLES

Executing == ~Ended /\ ~mem.faulted

opcode == WordAt(mem, cpu.pc)
fetched == Advance(cpu, 2)

Turn_uncounted(handler) ==
  /\ Executing
  /\ handler_of(opcode) = handler
  /\ running' = (opcode # RTS /\ handler # "none")
  /\ UNCHANGED cycles

Turn(handler) ==
  /\ Executing
  /\ handler_of(opcode) = handler
  /\ cycles' = cycles + 1
  /\ running' = (opcode # RTS /\ handler # "none")

(* A turn whose handler only touches registers, and one that moves. *)
Registers(handler, after) ==
  Turn(handler) /\ cpu' = after /\ UNCHANGED mem

Move(handler, after) ==
  Turn(handler) /\ cpu' = after.cpu /\ mem' = after.mem

MoveB == \E ok \in AllocAnswers : Move("move_b", handle_move_b(fetched, mem, opcode, ok))
MoveW == \E ok \in AllocAnswers : Move("move_w", handle_move_w(fetched, mem, opcode, ok))
MoveL == \E ok \in AllocAnswers : Move("move_l", handle_move_l(fetched, mem, opcode, ok))

AddQ == Registers("addq", handle_addq(fetched, opcode))
SubQ == Registers("subq", handle_subq(fetched, opcode))
AddReg == Registers("add_reg", handle_add_reg(fetched, opcode))
SubReg == Registers("sub_reg", handle_sub_reg(fetched, opcode))
AddI == Registers("addi", handle_addi(fetched, mem, opcode))
SubI == Registers("subi", handle_subi(fetched, mem, opcode))
AndI == Registers("andi", handle_andi(fetched, mem, opcode))
BtstImm == Registers("btst_imm", handle_btst_imm(fetched, mem, opcode))
BchgImm == Registers("bchg_imm", handle_bchg_imm(fetched, mem, opcode))
BclrImm == Registers("bclr_imm", handle_bclr_imm(fetched, mem, opcode))
BsetImm == Registers("bset_imm", handle_bset_imm(fetched, mem, opcode))
Bcc == Registers("bcc", handle_bcc(fetched, opcode))
Nop == Registers("nop", fetched)
Rts == Registers("rts", fetched)
Unknown == Registers("none", fetched)

(* Reset has set the registers, main the program counter. *)
ExecInit ==
  /\ mem \in LoadedMemories
  /\ \E start \in StartAddresses : cpu = [cpu_pulse_reset EXCEPT !.pc = start]
  /\ running = TRUE
  /\ cycles = 0

ExecNext ==
  \/ MoveB \/ MoveW \/ MoveL
  \/ AddQ \/ SubQ \/ AddReg \/ SubReg \/ AddI \/ SubI \/ AndI
  \/ BtstImm \/ BchgImm \/ BclrImm \/ BsetImm
  \/ Bcc \/ Nop \/ Rts \/ Unknown

ExecSpec == ExecInit /\ [][ExecNext]_vars

(* The loop runs in the only thread of the program and no handler waits or  *)
(* loops: while the loop may turn, it turns.  (A turn's own variables are    *)
(* enough to say so: every action of ExecNext is one turn.)                  *)
FairExecSpec == ExecSpec /\ WF_<<cycles, running>>(Turn(handler_of(opcode)))

-----------------------------------------------------------------------------
ExecTypeOK ==
  /\ mem \in MemoryState
  /\ cpu \in CPU
  /\ running \in BOOLEAN
  /\ cycles \in 0 .. MAX_EXECUTION_CYCLES

(* How long an instruction is, from its encoding alone: an effective address *)
(* at the word after `at' takes this many extension words, and MOVE those of *)
(* its source and then those of its destination.                             *)
IndexedWords(word) ==
  IF Bit(word, 8) = 0 THEN 1
  ELSE LET bd == Field(word, 4, 2)
           od == Field(word, 0, 2)
       IN  1 + (IF bd < 2 THEN 0 ELSE bd - 1) + (IF od < 2 THEN 0 ELSE od - 1)

EaWords(m, at, ea, size_code) ==
  CASE EaMode(ea) < 5 -> 0
    [] ea \in 40 .. 47 \cup {56, 58} -> 1
    [] ea \in 48 .. 55 \cup {59} -> IndexedWords(WordAt(m, at))
    [] ea = 57 -> 2
    [] ea = 60 -> IF size_code = 2 THEN 2 ELSE 1
    [] OTHER -> 0

InstructionWords(m, pc, op) ==
  LET handler == handler_of(op)
      next    == AddLong(pc, FromWord(2))
      size    == CASE handler = "move_b" -> 0 [] handler = "move_w" -> 1 [] OTHER -> 2
      source  == EaWords(m, next, op % 64, size)
      dest    == EaWords(m, AddLong(next, FromWord(2 * source)), MoveDestination(op), size)
  IN  CASE handler \in {"move_b", "move_w", "move_l"} -> 1 + source + dest
        [] handler \in {"addi", "subi", "andi"} -> IF SizeField(op) < 2 THEN 2 ELSE 3
        [] handler \in {"btst_imm", "bchg_imm", "bclr_imm", "bset_imm"} -> 2
        [] OTHER -> 1

(* A MOVE into an immediate, which fetches none of its words. *)
IntoImmediate(op) == MoveDestination(op) = 60

(* After an instruction the program counter is at the next one, however many *)
(* operands took words from the stream; only a branch goes elsewhere, and    *)
(* then by its displacement.  A source that took a word too few would make   *)
(* its own operand the next opcode.                                          *)
PcFollowsInstruction ==
  [][ \/ UNCHANGED vars
      \/ IntoImmediate(opcode) /\ handler_of(opcode) \in {"move_b", "move_w", "move_l"}
      \/ cpu'.pc = AddLong(cpu.pc, FromWord(2 * InstructionWords(mem, cpu.pc, opcode)))
      \/ /\ handler_of(opcode) = "bcc"
         /\ cpu'.pc = AddLong(AddLong(cpu.pc, FromWord(2)), SignExtendByte(opcode % 256))
    ]_vars

IsMove(op) == handler_of(op) \in {"move_b", "move_w", "move_l"}

MoveSize(op) ==
  CASE handler_of(op) = "move_b" -> 0 [] handler_of(op) = "move_w" -> 1 [] OTHER -> 2

MoveBytes(op) == CASE MoveSize(op) = 0 -> 1 [] MoveSize(op) = 1 -> 2 [] OTHER -> 4

(* A step stores exactly the bytes of its destination: a MOVE to memory logs *)
(* one entry for each byte of its size, at consecutive cells, and whatever    *)
(* else runs leaves the memory alone.                                        *)
StoresOneOperand ==
  [][LET before == Len(mem.changes)
         after  == Len(mem'.changes)
     IN  mem'.lost \/ mem'.faulted \/
         IF IsMove(opcode) /\ EaMode(MoveDestination(opcode)) > 1
         THEN /\ after = before + MoveBytes(opcode)
              /\ \A i \in before + 1 .. after - 1 :
                   mem'.changes[i + 1].address
                     = (mem'.changes[i].address + 1) % MEMORY_SIZE
         ELSE mem' = mem]_vars

(* The flags an instruction may change: a MOVE to an address register (other *)
(* than of a byte) none, a bit operation Z, a move or a logic operation not  *)
(* X, and nothing the bits above X: the reset's supervisor state and mask     *)
(* stay for the whole run.                                                   *)
FlagsOf(op) ==
  LET handler == handler_of(op)
  IN  CASE IsMove(op) ->
             IF EaMode(MoveDestination(op)) = 1 /\ handler # "move_b" THEN {}
             ELSE {SR_N, SR_Z, SR_V, SR_C}
        [] handler = "andi" -> {SR_N, SR_Z, SR_V, SR_C}
        [] handler \in {"addq", "subq", "add_reg", "sub_reg", "addi", "subi"} ->
             {SR_X, SR_N, SR_Z, SR_V, SR_C}
        [] handler \in {"btst_imm", "bchg_imm", "bclr_imm", "bset_imm"} -> {SR_Z}
        [] OTHER -> {}

FlagFrame ==
  [][ (cpu.sr \ cpu'.sr) \cup (cpu'.sr \ cpu.sr) \subseteq FlagsOf(opcode) ]_vars

(* A byte or a word put into a data register leaves the rest of the register *)
(* as it was, and no instruction changes two data registers.                 *)
OperandBytes(op) ==
  IF IsMove(op) THEN MoveBytes(op)
  ELSE IF handler_of(op) \in {"bchg_imm", "bclr_imm", "bset_imm"} THEN 4
  ELSE CASE SizeField(op) = 0 -> 1 [] SizeField(op) = 1 -> 2 [] OTHER -> 4

DataRegisterFrame ==
  [][LET changed == { r \in RegisterNumber : cpu'.d[r] # cpu.d[r] }
     IN  /\ \A r, q \in changed : r = q
         /\ \A r \in changed :
              /\ OperandBytes(opcode) <= 2 => cpu'.d[r].hi = cpu.d[r].hi
              /\ OperandBytes(opcode) = 1 =>
                   cpu'.d[r].lo \div 256 = cpu.d[r].lo \div 256]_vars

IsLess(x, y) == x.hi < y.hi \/ (x.hi = y.hi /\ x.lo < y.lo)

(* After an addition or a subtraction the flags tell what happened to the   *)
(* register as an unsigned number of the operation's size: it grew over a   *)
(* borrow, it shrank over a carry, it is zero.  The code computes carry and   *)
(* borrow from the signs of the two operands and the result alone.           *)
Additions == {"addq", "add_reg", "addi"}
Subtractions == {"subq", "sub_reg", "subi"}

FlagsTellTheChange ==
  [][LET handler == handler_of(opcode)
         reg  == Field(opcode, IF handler \in {"add_reg", "sub_reg"} THEN 9 ELSE 0, 3)
         old  == Truncate(cpu.d[reg], SizeField(opcode))
         new  == Truncate(cpu'.d[reg], SizeField(opcode))
     IN  /\ handler \in Additions => (SR_C \in cpu'.sr <=> IsLess(new, old))
         /\ handler \in Subtractions => (SR_C \in cpu'.sr <=> IsLess(old, new))
         /\ handler \in Additions \cup Subtractions =>
              /\ SR_Z \in cpu'.sr <=> new = ZeroLong
              /\ SR_X \in cpu'.sr <=> SR_C \in cpu'.sr]_vars

(* Only a MOVE to A7 itself can make the stack pointer odd: a byte pushed or *)
(* popped moves it by a word.                                                *)
StackStaysAligned ==
  [][cpu'.a[7].lo % 2 = cpu.a[7].lo % 2 \/ MoveDestination(opcode) = 15]_vars

(* What MOVE pushes at -(An), a MOVE from (An)+ would pop: the same value,   *)
(* and the register back where it was, also when the address or the bytes    *)
(* wrap.                                                                     *)
PopReturnsPushed ==
  [][LET dest == MoveDestination(opcode)
         src  == opcode % 64
         reg  == EaReg(dest)
         size == MoveSize(opcode)
         popped == read_from_ea(cpu', mem', 8 * 3 + reg, size)
     IN  IsMove(opcode) /\ EaMode(dest) = 4 /\ EaMode(src) = 0 /\ ~mem'.faulted =>
           /\ popped.value = Truncate(cpu.d[EaReg(src)], size)
           /\ popped.cpu.a[reg] = cpu.a[reg]]_vars

(* The source of a MOVE is read, and its register incremented, before the    *)
(* destination is resolved: MOVE (An)+,-(An) stores what it read where it     *)
(* read it, at the address that the register had and has again.              *)
MoveOntoItself ==
  [][LET dest == MoveDestination(opcode)
         src  == opcode % 64
         reg  == EaReg(src)
         operand == Touched(Index(cpu.a[reg]), MoveBytes(opcode))
     IN  /\ IsMove(opcode) /\ EaMode(src) = 3 /\ EaMode(dest) = 4 /\ EaReg(dest) = reg
         /\ ~mem'.lost /\ ~mem'.faulted
         => /\ mem'.memory = mem.memory /\ cpu'.a = cpu.a
            /\ \A i \in Len(mem.changes) + 1 .. Len(mem'.changes) :
                 mem'.changes[i].address \in operand]_vars

(* Every program ends: at RTS, at an opcode without an entry, or at the      *)
(* cycle limit, unless the process dies.                                     *)
EveryRunEnds == <>(Ended \/ mem.faulted)

=============================================================================
