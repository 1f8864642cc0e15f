------------------------------- MODULE Memory -------------------------------
(***************************************************************************)
(* memory.c: a byte array of MEMORY_SIZE cells that every address is       *)
(* reduced into, and the log of every byte written (record_change), kept   *)
(* in a buffer that doubles when it is full.  realloc may fail: the buffer *)
(* pointer is then NULL, the doubled capacity and the count stay, and the  *)
(* next entry is stored through the NULL pointer.                          *)
(*                                                                         *)
(* The module's state is one record, so that the operations are operators  *)
(* from record to record and a client (Executor, Loader) chains them       *)
(* exactly as the C functions call each other.  `lost' is "changes is      *)
(* NULL", `faulted' is the process stopped by an access through NULL.      *)
(*                                                                         *)
(* The argument alloc_ok of a write is the answer of the only realloc that *)
(* it can make: doubling a capacity of at least 4 leaves room for the at   *)
(* most 4 entries of one write.                                            *)
(***************************************************************************)
EXTENDS Words, Sequences

CONSTANTS
  MEMORY_SIZE,       \* 16 MB in memory.h
  INITIAL_CAPACITY,  \* 1024 in mem_init
  MAX_CHANGES,       \* bound on the entries a checked behaviour logs
  WriteAddresses,    \* the addresses, bytes, words and longs that the
  Bytes, WordValues, \* stand-alone specification MemSpec writes
  Longs

ASSUME MemoryAssumption ==
  /\ MEMORY_SIZE \in Nat /\ MEMORY_SIZE >= 4
  /\ INITIAL_CAPACITY \in Nat /\ INITIAL_CAPACITY >= 4
  /\ MAX_CHANGES \in Nat

ASSUME MemoryInputs ==
  /\ WriteAddresses \subseteq Nat
  /\ Bytes \subseteq Byte
  /\ WordValues \subseteq Word
  /\ Longs \subseteq Long

VARIABLE mem

Cell == 0 .. MEMORY_SIZE - 1

MemoryChange == [address : Cell, old_value : Byte, new_value : Byte]

MemoryState ==
  [memory : [Cell -> Byte], changes : Seq(MemoryChange), change_count : Nat,
   change_capacity : Nat, lost : BOOLEAN, faulted : BOOLEAN]

-----------------------------------------------------------------------------
(* uint32_t address % MEMORY_SIZE.  Reducing 65536 first changes no residue *)
(* and keeps the product small.                                             *)
Index(x) == (x.hi * (65536 % MEMORY_SIZE) + x.lo) % MEMORY_SIZE

mem_init ==
  [memory |-> [c \in Cell |-> 0], changes |-> <<>>, change_count |-> 0,
   change_capacity |-> INITIAL_CAPACITY, lost |-> FALSE, faulted |-> FALSE]

(* The mistakes each property is meant to find, one beside each operation:   *)
(* here the test for a full buffer off by one, a log that begins again in    *)
(* the old buffer when realloc fails, and the two values in each other's     *)
(* place.                                                                    *)
record_change_off_by_one(m, address, old_val, new_val, alloc_ok) ==
  LET full == m.change_count > m.change_capacity
      c    == IF full THEN 2 * m.change_capacity ELSE m.change_capacity
  IN  [m EXCEPT !.change_capacity = c, !.change_count = @ + 1,
         !.changes = Append(@, [address |-> address, old_value |-> old_val,
                                new_value |-> new_val])]

record_change_restart(m, address, old_val, new_val, alloc_ok) ==
  LET full == m.change_count >= m.change_capacity
      over == full /\ ~alloc_ok
  IN  [m EXCEPT !.change_capacity = IF full /\ alloc_ok THEN 2 * @ ELSE @,
         !.change_count = IF over THEN 1 ELSE @ + 1,
         !.changes = Append(IF over THEN <<>> ELSE @,
                            [address |-> address, old_value |-> old_val,
                             new_value |-> new_val])]

record_change_swapped(m, address, old_val, new_val, alloc_ok) ==
  [m EXCEPT !.change_count = @ + 1, !.change_capacity = 1 + @,
     !.changes = Append(@, [address |-> address, old_value |-> new_val,
                            new_value |-> old_val])]

record_change(m, address, old_val, new_val, alloc_ok) ==
  LET full  == m.change_count >= m.change_capacity
      grown == IF full THEN [m EXCEPT !.change_capacity = 2 * @] ELSE m
  IN  IF full /\ ~alloc_ok
      THEN [grown EXCEPT !.lost = TRUE, !.changes = <<>>]
      ELSE IF ~full /\ m.lost
      THEN [m EXCEPT !.faulted = TRUE]
      ELSE [grown EXCEPT
              !.changes = Append(@, [address   |-> address,
                                     old_value |-> old_val,
                                     new_value |-> new_val]),
              !.change_count = @ + 1]

mem_read_byte(m, address) == m.memory[address % MEMORY_SIZE]

(* The addresses that follow wrap at 2^32 in the code; MEMORY_SIZE divides  *)
(* 2^32, so the wrap does not change the cell.                              *)
mem_read_word(m, address) ==
  256 * mem_read_byte(m, address) + mem_read_byte(m, address + 1)

mem_read_long(m, address) ==
  [hi |-> mem_read_word(m, address), lo |-> mem_read_word(m, address + 2)]

(* Mistakes: the log gets the address before its reduction; the old value    *)
(* is read after the store.                                                  *)
mem_write_byte_raw_address(m, address, value, alloc_ok) ==
  LET addr == address % MEMORY_SIZE
  IN  [record_change(m, address, m.memory[addr], value, alloc_ok)
         EXCEPT !.memory[addr] = value]

mem_write_byte_store_first(m, address, value, alloc_ok) ==
  LET addr == address % MEMORY_SIZE
  IN  [record_change(m, addr, value, value, alloc_ok)
         EXCEPT !.memory[addr] = value]

mem_write_byte(m, address, value, alloc_ok) ==
  LET addr == address % MEMORY_SIZE
      r    == record_change(m, addr, m.memory[addr], value, alloc_ok)
  IN  IF m.faulted \/ r.faulted
      THEN [m EXCEPT !.faulted = TRUE]
      ELSE [r EXCEPT !.memory[addr] = value]

(* Mistake: both bytes go to the same cell. *)
mem_write_word_same_cell(m, address, value, alloc_ok) ==
  LET addr == address % MEMORY_SIZE
      high == mem_write_byte(m, addr, value \div 256, alloc_ok)
  IN  mem_write_byte(high, addr, value % 256, alloc_ok)

mem_write_word(m, address, value, alloc_ok) ==
  LET addr == address % MEMORY_SIZE
      high == mem_write_byte(m, addr, value \div 256, alloc_ok)
  IN  mem_write_byte(high, addr + 1, value % 256, alloc_ok)

(* Mistake: the two middle bytes in each other's place. *)
mem_write_long_mixed(m, address, value, alloc_ok) ==
  LET addr == address % MEMORY_SIZE
      b0   == mem_write_byte(m, addr, value.hi \div 256, alloc_ok)
      b1   == mem_write_byte(b0, addr + 1, value.lo \div 256, alloc_ok)
      b2   == mem_write_byte(b1, addr + 2, value.hi % 256, alloc_ok)
  IN  mem_write_byte(b2, addr + 3, value.lo % 256, alloc_ok)

mem_write_long(m, address, value, alloc_ok) ==
  LET addr == address % MEMORY_SIZE
      high == mem_write_word(m, addr, value.hi, alloc_ok)
      b2   == mem_write_byte(high, addr + 2, value.lo \div 256, alloc_ok)
  IN  mem_write_byte(b2, addr + 3, value.lo % 256, alloc_ok)

(* mem_dump_changes reads every entry it counts, also when they are lost,   *)
(* once its file is open.                                                   *)
mem_dump_changes(m, opened) ==
  IF m.change_count > 0 /\ opened /\ m.lost THEN [m EXCEPT !.faulted = TRUE] ELSE m

-----------------------------------------------------------------------------
(* A client that writes bytes, words and longs anywhere and dumps the log. *)
MemInit == mem = mem_init

RoomFor(n) == ~mem.faulted /\ mem.change_count + n <= MAX_CHANGES

WriteByte(a, b, ok) ==
  RoomFor(1) /\ mem' = mem_write_byte(mem, a, b, ok)

WriteWord(a, w, ok) ==
  RoomFor(2) /\ mem' = mem_write_word(mem, a, w, ok)

WriteLong(a, x, ok) ==
  RoomFor(4) /\ mem' = mem_write_long(mem, a, x, ok)

DumpChanges ==
  ~mem.faulted /\ \E opened \in BOOLEAN : mem' = mem_dump_changes(mem, opened)

MemNext ==
  \/ \E a \in WriteAddresses, b \in Bytes, ok \in BOOLEAN : WriteByte(a, b, ok)
  \/ \E a \in WriteAddresses, w \in WordValues, ok \in BOOLEAN : WriteWord(a, w, ok)
  \/ \E a \in WriteAddresses, x \in Longs, ok \in BOOLEAN : WriteLong(a, x, ok)
  \/ DumpChanges

MemSpec == MemInit /\ [][MemNext]_mem

-----------------------------------------------------------------------------
(* The type of the state. *)
MemTypeOK == mem \in MemoryState

(* record_change stores inside the buffer it has: the entries fit the       *)
(* capacity, the count is their number, and a capacity that has lost its    *)
(* buffer was doubled for it, so the next entry will not ask again.         *)
BufferInv(m) ==
  /\ INITIAL_CAPACITY <= m.change_capacity
  /\ m.change_count <= m.change_capacity
  /\ m.lost => m.change_count < m.change_capacity /\ m.changes = <<>>
  /\ ~m.lost => m.change_count = Len(m.changes)

(* Entry i is the last one before entry k for the cell c. *)
LastBefore(log, c, i, k) ==
  /\ i \in 1 .. k - 1 /\ log[i].address = c
  /\ \A j \in i + 1 .. k - 1 : log[j].address # c

(* The cell c holds b once the entries before entry k are made: b is what   *)
(* the last of them wrote, or the zero of mem_init.                         *)
HoldsBefore(log, c, b, k) ==
  \/ \E i \in 1 .. k - 1 : LastBefore(log, c, i, k) /\ b = log[i].new_value
  \/ (\A i \in 1 .. k - 1 : log[i].address # c) /\ b = 0

(* The dump of mem_dump_changes is the whole story of the memory: replayed  *)
(* on zeros it gives every byte of it.                                      *)
LogExplains(m) ==
  ~m.lost => \A c \in Cell : HoldsBefore(m.changes, c, m.memory[c], Len(m.changes) + 1)

(* ... and each entry's old_value is what the entries before it left, so    *)
(* that the dump can be undone entry by entry.                              *)
LogChains(m) ==
  ~m.lost => \A k \in 1 .. Len(m.changes) :
    HoldsBefore(m.changes, m.changes[k].address, m.changes[k].old_value, k)

(* A memory that only the operations above have touched since mem_init. *)
MemInv(m) ==
  /\ m \in MemoryState
  /\ BufferInv(m)
  /\ LogExplains(m)
  /\ LogChains(m)

BufferFits == BufferInv(mem)
LogExplainsMemory == LogExplains(mem)
LogUndoesMemory == LogChains(mem)

-----------------------------------------------------------------------------
(* The n cells that a write at address a touches. *)
Touched(a, n) == { (a + i) % MEMORY_SIZE : i \in 0 .. n - 1 }

OnlyTouched(a, n) ==
  \A c \in Cell \ Touched(a, n) : mem'.memory[c] = mem.memory[c]

(* A write of any width that survives reads back as written, whether it     *)
(* wraps at the top of the memory or not, and no other cell changes, also   *)
(* when the write dies half way.                                            *)
WritesReadBack ==
  [][/\ \A a \in WriteAddresses, b \in Bytes, ok \in BOOLEAN :
          WriteByte(a, b, ok) =>
            OnlyTouched(a, 1) /\ (~mem'.faulted => mem_read_byte(mem', a) = b)
     /\ \A a \in WriteAddresses, w \in WordValues, ok \in BOOLEAN :
          WriteWord(a, w, ok) =>
            OnlyTouched(a, 2) /\ (~mem'.faulted => mem_read_word(mem', a) = w)
     /\ \A a \in WriteAddresses, x \in Longs, ok \in BOOLEAN :
          WriteLong(a, x, ok) =>
            OnlyTouched(a, 4) /\ (~mem'.faulted => mem_read_long(mem', a) = x)
    ]_mem

(* The log never forgets or rewrites an entry while it has its buffer; once *)
(* the buffer is lost, no write survives, nor a dump of a counted entry.    *)
LogAppendOnly ==
  [][/\ ~mem'.lost => /\ Len(mem.changes) <= Len(mem'.changes)
                      /\ SubSeq(mem'.changes, 1, Len(mem.changes)) = mem.changes
     /\ mem.lost => mem'.faulted]_mem

(* memory.c:40, of a failed realloc: "Not a fatal error, we just lose change *)
(* tracking".                                                                *)
LossIsNotFatal == ~mem.faulted

=============================================================================
