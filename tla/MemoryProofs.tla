---------------------------- MODULE MemoryProofs ----------------------------
(***************************************************************************)
(* The memory is always explained by its change log, for every memory size *)
(* and initial capacity of at least four and every sequence of writes,      *)
(* whatever realloc answers.  The invariant is a predicate of the memory's *)
(* record, so that a client that only writes through the operations of     *)
(* Memory inherits it (see the lemmas WriteByteKeeps .. WriteLongKeeps).   *)
(***************************************************************************)
EXTENDS Memory, TLAPS

(* Every entry of a longer log before its end is an entry of the log. *)
LEMMA AppendEntry ==
  ASSUME NEW log \in Seq(MemoryChange), NEW e \in MemoryChange
  PROVE  /\ Append(log, e) \in Seq(MemoryChange)
         /\ Len(Append(log, e)) = Len(log) + 1
         /\ Append(log, e)[Len(log) + 1] = e
         /\ \A i \in 1 .. Len(log) : Append(log, e)[i] = log[i]
  OBVIOUS

(* What a cell holds before entry k does not depend on what is appended     *)
(* after it.                                                                *)
LEMMA HoldsBeforeAppend ==
  ASSUME NEW log \in Seq(MemoryChange), NEW e \in MemoryChange,
         NEW c \in Cell, NEW b \in Byte, NEW k \in 1 .. Len(log) + 1,
         HoldsBefore(log, c, b, k)
  PROVE  HoldsBefore(Append(log, e), c, b, k)
<1> DEFINE longer == Append(log, e)
<1>1. Len(log) \in Nat
  OBVIOUS
<1>2. \A i \in 1 .. k - 1 : longer[i] = log[i]
  BY <1>1, AppendEntry
<1> HIDE DEF longer
<1>3. CASE \E i \in 1 .. k - 1 : LastBefore(log, c, i, k) /\ b = log[i].new_value
  <2>1. PICK i \in 1 .. k - 1 : LastBefore(log, c, i, k) /\ b = log[i].new_value
    BY <1>3
  <2>2. LastBefore(longer, c, i, k) /\ b = longer[i].new_value
    BY <1>1, <1>2, <2>1 DEF LastBefore
  <2> QED
    BY <2>2 DEF HoldsBefore, longer
<1>4. CASE (\A i \in 1 .. k - 1 : log[i].address # c) /\ b = 0
  BY <1>2, <1>4 DEF HoldsBefore, longer
<1> QED
  BY <1>3, <1>4 DEF HoldsBefore

(* An entry made last decides its own cell ... *)
LEMMA HoldsOwn ==
  ASSUME NEW log \in Seq(MemoryChange), NEW e \in MemoryChange
  PROVE  HoldsBefore(Append(log, e), e.address, e.new_value, Len(log) + 2)
<1> DEFINE n == Len(log) + 1
           longer == Append(log, e)
<1>1. n \in Nat /\ n \in 1 .. (Len(log) + 2) - 1 /\ (Len(log) + 2) - 1 = n
  OBVIOUS
<1>2. longer[n] = e
  OBVIOUS
<1> HIDE DEF n, longer
<1>3. LastBefore(longer, e.address, n, Len(log) + 2)
  BY <1>1, <1>2 DEF LastBefore
<1> QED
  BY <1>1, <1>2, <1>3 DEF HoldsBefore, longer

(* ... and no other. *)
LEMMA HoldsOther ==
  ASSUME NEW log \in Seq(MemoryChange), NEW e \in MemoryChange,
         NEW c \in Cell, NEW b \in Byte, c # e.address,
         HoldsBefore(log, c, b, Len(log) + 1)
  PROVE  HoldsBefore(Append(log, e), c, b, Len(log) + 2)
<1> DEFINE n == Len(log) + 1
           longer == Append(log, e)
<1>1. n \in Nat /\ n - 1 = Len(log) /\ (Len(log) + 2) - 1 = n /\ Len(log) \in Nat
  OBVIOUS
<1>2. longer[n] = e /\ \A i \in 1 .. n - 1 : longer[i] = log[i]
  BY <1>1, AppendEntry
<1> HIDE DEF longer, n
<1>3. CASE \E i \in 1 .. n - 1 : LastBefore(log, c, i, n) /\ b = log[i].new_value
  <2>1. PICK i \in 1 .. n - 1 : LastBefore(log, c, i, n) /\ b = log[i].new_value
    BY <1>3
  <2>2. i \in 1 .. (Len(log) + 2) - 1
    BY <1>1
  <2>3. \A j \in i + 1 .. n : longer[j].address # c
    BY <1>1, <1>2, <2>1 DEF LastBefore
  <2>4. LastBefore(longer, c, i, Len(log) + 2) /\ b = longer[i].new_value
    BY <1>1, <1>2, <2>1, <2>2, <2>3 DEF LastBefore
  <2> QED
    BY <2>2, <2>4 DEF HoldsBefore, longer
<1>4. CASE (\A i \in 1 .. n - 1 : log[i].address # c) /\ b = 0
  <2>1. \A i \in 1 .. n : longer[i].address # c
    BY <1>1, <1>2, <1>4
  <2> QED
    BY <1>1, <1>4, <2>1 DEF HoldsBefore, longer
<1> QED
  BY <1>3, <1>4 DEF HoldsBefore, n

-----------------------------------------------------------------------------
(* The fields of the record of a log that lost its buffer. *)
LEMMA BufferLost ==
  ASSUME NEW g \in MemoryState, NEW r,
         r = [g EXCEPT !.lost = TRUE, !.changes = <<>>]
  PROVE  /\ r \in MemoryState /\ r.changes = <<>> /\ r.lost = TRUE
         /\ r.change_count = g.change_count
         /\ r.memory = g.memory /\ r.change_capacity = g.change_capacity
         /\ r.faulted = g.faulted
<1>1. <<>> \in Seq(MemoryChange)
  OBVIOUS
<1> QED
  BY <1>1 DEF MemoryState

(* A byte written by mem_write_byte keeps the invariant: the log loses its  *)
(* buffer, or the process dies at the NULL pointer, or the entry is made    *)
(* and the cell stored.                                                     *)
LEMMA WriteByteKeeps ==
  ASSUME NEW m, MemInv(m), NEW address \in Nat, NEW value \in Byte,
         NEW alloc_ok \in BOOLEAN
  PROVE  MemInv(mem_write_byte(m, address, value, alloc_ok))
<1> DEFINE addr == address % MEMORY_SIZE
           r    == record_change(m, addr, m.memory[addr], value, alloc_ok)
           m1   == mem_write_byte(m, address, value, alloc_ok)
           full == m.change_count >= m.change_capacity
           e    == [address |-> addr, old_value |-> m.memory[addr], new_value |-> value]
<1>1. addr \in Cell
  BY MemoryAssumption DEF Cell
<1>2. /\ m \in MemoryState /\ m.memory[addr] \in Byte /\ e \in MemoryChange
      /\ Len(m.changes) \in Nat /\ m.changes \in Seq(MemoryChange)
      /\ m.change_count \in Nat /\ m.change_capacity \in Nat
      /\ m.memory \in [Cell -> Byte]
  BY <1>1 DEF MemInv, MemoryState, MemoryChange
<1>3. CASE m.faulted
  <2>1. m1 = [m EXCEPT !.faulted = TRUE]
    BY <1>3 DEF mem_write_byte
  <2>2. m1 \in MemoryState
    BY <1>2, <2>1 DEF MemoryState
  <2>3. /\ m1.changes = m.changes /\ m1.memory = m.memory /\ m1.lost = m.lost
        /\ m1.change_count = m.change_count /\ m1.change_capacity = m.change_capacity
    BY <1>2, <2>1 DEF MemoryState
  <2> QED
    BY <2>2, <2>3 DEF MemInv, BufferInv, LogExplains, LogChains
<1>4. CASE ~m.faulted /\ ~full /\ m.lost
  <2>1. r = [m EXCEPT !.faulted = TRUE]
    BY <1>4 DEF record_change
  <2>2. m1 = [m EXCEPT !.faulted = TRUE]
    BY <1>2, <2>1 DEF mem_write_byte, MemoryState
  <2>3. m1 \in MemoryState
    BY <1>2, <2>2 DEF MemoryState
  <2>4. /\ m1.changes = m.changes /\ m1.memory = m.memory /\ m1.lost = m.lost
        /\ m1.change_count = m.change_count /\ m1.change_capacity = m.change_capacity
    BY <1>2, <2>2 DEF MemoryState
  <2> QED
    BY <2>3, <2>4 DEF MemInv, BufferInv, LogExplains, LogChains
<1>5. CASE ~m.faulted /\ full /\ ~alloc_ok
  <2> DEFINE grown == [m EXCEPT !.change_capacity = 2 * m.change_capacity]
  <2>a. /\ grown \in MemoryState /\ grown.change_capacity = 2 * m.change_capacity
        /\ grown.memory = m.memory /\ grown.change_count = m.change_count
        /\ ~grown.faulted
    BY <1>2, <1>5 DEF MemoryState
  <2>b. r = [grown EXCEPT !.lost = TRUE, !.changes = <<>>]
    BY <1>5 DEF record_change
  <2> HIDE DEF grown
  <2>1. /\ r \in MemoryState /\ r.lost /\ r.changes = <<>> /\ ~r.faulted
        /\ r.change_count = m.change_count
        /\ r.change_capacity = 2 * m.change_capacity
    BY <2>a, <2>b, BufferLost
  <2>2. m1 = [r EXCEPT !.memory[addr] = value]
    BY <1>5, <2>1 DEF mem_write_byte
  <2>3. /\ m1 \in MemoryState
        /\ m1.lost /\ m1.changes = <<>> /\ m1.change_count = m.change_count
        /\ m1.change_capacity = 2 * m.change_capacity
    BY <1>1, <1>2, <2>1, <2>2 DEF MemoryState
  <2>4. BufferInv(m1)
    BY <1>2, <1>5, <2>3, MemoryAssumption DEF MemInv, BufferInv
  <2> QED
    BY <2>3, <2>4 DEF MemInv, LogExplains, LogChains
<1>6. CASE ~m.faulted /\ ~(full /\ ~alloc_ok) /\ ~(~full /\ m.lost)
  <2> DEFINE log == m.changes
  <2>1. ~m.lost /\ m.change_count = Len(log)
    BY <1>2, <1>6 DEF MemInv, BufferInv
  <2> DEFINE grown == IF full THEN [m EXCEPT !.change_capacity = 2 * m.change_capacity] ELSE m
  <2>a. /\ grown \in MemoryState /\ grown.memory = m.memory /\ grown.changes = log
        /\ grown.change_count = m.change_count /\ ~grown.lost /\ ~grown.faulted
        /\ grown.change_capacity = IF full THEN 2 * m.change_capacity ELSE m.change_capacity
    BY <1>2, <1>6, <2>1 DEF MemoryState
  <2>b. r = [grown EXCEPT !.changes = Append(log, e), !.change_count = m.change_count + 1]
    <3>1. r = [grown EXCEPT !.changes = Append(grown.changes, e),
                            !.change_count = grown.change_count + 1]
      BY <1>6, <2>1 DEF record_change
    <3> QED
      BY <2>a, <3>1
  <2> HIDE DEF grown
  <2>c. Append(log, e) \in Seq(MemoryChange)
    BY <1>2, AppendEntry
  <2>2. /\ r \in MemoryState
        /\ r.memory = m.memory /\ r.changes = Append(log, e) /\ ~r.lost /\ ~r.faulted
        /\ r.change_count = m.change_count + 1
        /\ r.change_capacity = IF full THEN 2 * m.change_capacity ELSE m.change_capacity
    <3> DEFINE longer == Append(log, e)
               n      == m.change_count + 1
    <3>1. n \in Nat /\ longer \in Seq(MemoryChange)
          /\ r = [grown EXCEPT !.changes = longer, !.change_count = n]
      BY <1>2, <2>b, <2>c
    <3> HIDE DEF r, e, full, longer, n, log
    <3>2. /\ r \in MemoryState /\ r.changes = longer /\ r.change_count = n
          /\ r.memory = grown.memory /\ r.change_capacity = grown.change_capacity
          /\ r.lost = grown.lost /\ r.faulted = grown.faulted
      BY <2>a, <3>1 DEF MemoryState
    <3> QED
      BY <2>a, <3>2 DEF longer, n
  <2>3. m1 = [r EXCEPT !.memory[addr] = value]
    BY <1>6, <2>2 DEF mem_write_byte
  <2>4. /\ m1 \in MemoryState
        /\ m1.memory = [m.memory EXCEPT ![addr] = value]
        /\ m1.changes = Append(log, e) /\ ~m1.lost
        /\ m1.change_count = m.change_count + 1
        /\ m1.change_capacity = r.change_capacity
    BY <1>1, <1>2, <2>2, <2>3 DEF MemoryState
  <2>5. BufferInv(m1)
    BY <1>2, <2>1, <2>2, <2>4, AppendEntry, MemoryAssumption DEF MemInv, BufferInv
  <2>6. Len(m1.changes) = Len(log) + 1
    BY <1>2, <2>4, AppendEntry
  <2>7. LogExplains(m1)
    <3>1. SUFFICES ASSUME NEW c \in Cell
                   PROVE  HoldsBefore(m1.changes, c, m1.memory[c], Len(log) + 2)
      BY <1>2, <2>6 DEF LogExplains
    <3>2. CASE c = addr
      BY <1>1, <1>2, <2>4, <3>2, HoldsOwn
    <3>3. CASE c # addr
      <4>1. m1.memory[c] = m.memory[c] /\ m.memory[c] \in Byte
        BY <1>2, <2>4, <3>3
      <4>2. HoldsBefore(log, c, m.memory[c], Len(log) + 1)
        BY <2>1 DEF MemInv, LogExplains
      <4> QED
        BY <1>2, <2>4, <3>3, <4>1, <4>2, HoldsOther
    <3> QED
      BY <3>2, <3>3
  <2>8. LogChains(m1)
    <3>1. SUFFICES ASSUME NEW k \in 1 .. Len(log) + 1
                   PROVE  HoldsBefore(m1.changes, m1.changes[k].address,
                                      m1.changes[k].old_value, k)
      BY <2>6 DEF LogChains
    <3>2. CASE k = Len(log) + 1
      <4>1. HoldsBefore(log, addr, m.memory[addr], Len(log) + 1)
        BY <1>1, <2>1 DEF MemInv, LogExplains
      <4>2. HoldsBefore(Append(log, e), addr, m.memory[addr], Len(log) + 1)
        BY <1>1, <1>2, <4>1, HoldsBeforeAppend
      <4> QED
        BY <1>2, <2>4, <3>2, <4>2, AppendEntry
    <3>3. CASE k \in 1 .. Len(log)
      <4>1. HoldsBefore(log, log[k].address, log[k].old_value, k)
        BY <2>1, <3>3 DEF MemInv, LogChains
      <4>a. log[k] \in MemoryChange
        BY <1>2, <3>3
      <4>2. log[k].address \in Cell /\ log[k].old_value \in Byte
        BY <4>a DEF MemoryChange
      <4>3. HoldsBefore(Append(log, e), log[k].address, log[k].old_value, k)
        BY <1>2, <4>1, <4>2, HoldsBeforeAppend
      <4> QED
        BY <1>2, <2>4, <3>3, <4>3, AppendEntry
    <3> QED
      BY <1>2, <3>2, <3>3
  <2> QED
    BY <2>4, <2>5, <2>7, <2>8 DEF MemInv
<1> QED
  BY <1>3, <1>4, <1>5, <1>6

(* The two bytes of a word. *)
LEMMA HalvesOfWord ==
  ASSUME NEW w \in Word
  PROVE  w \div 256 \in Byte /\ w % 256 \in Byte
<1>1. w \in Nat /\ w <= 65535
  BY DEF Word
<1>2. w = 256 * (w \div 256) + (w % 256) /\ w % 256 \in 0 .. 255 /\ w \div 256 \in Int
  BY <1>1
<1>3. w \div 256 >= 0 /\ w \div 256 <= 255
  BY <1>1, <1>2
<1> QED
  BY <1>2, <1>3 DEF Byte

(* A wider write is a chain of byte writes.  Each of its bytes is a byte,   *)
(* and the cells after the first are reduced again by mem_write_byte.       *)
LEMMA WriteWordKeeps ==
  ASSUME NEW m, MemInv(m), NEW address \in Nat, NEW value \in Word,
         NEW alloc_ok \in BOOLEAN
  PROVE  MemInv(mem_write_word(m, address, value, alloc_ok))
<1> DEFINE addr == address % MEMORY_SIZE
           high == mem_write_byte(m, addr, value \div 256, alloc_ok)
<1>1. addr \in Nat /\ addr + 1 \in Nat
  BY MemoryAssumption
<1>2. value \div 256 \in Byte /\ value % 256 \in Byte
  BY HalvesOfWord
<1>3. MemInv(high)
  BY <1>1, <1>2, WriteByteKeeps
<1>4. MemInv(mem_write_byte(high, addr + 1, value % 256, alloc_ok))
  BY <1>1, <1>2, <1>3, WriteByteKeeps
<1> QED
  BY <1>4 DEF mem_write_word

(* ... and so does a long. *)
LEMMA WriteLongKeeps ==
  ASSUME NEW m, MemInv(m), NEW address \in Nat, NEW value \in Long,
         NEW alloc_ok \in BOOLEAN
  PROVE  MemInv(mem_write_long(m, address, value, alloc_ok))
<1> DEFINE addr == address % MEMORY_SIZE
           high == mem_write_word(m, addr, value.hi, alloc_ok)
           b2   == mem_write_byte(high, addr + 2, value.lo \div 256, alloc_ok)
<1>1. addr \in Nat /\ addr + 2 \in Nat /\ addr + 3 \in Nat
  BY MemoryAssumption
<1>2. value.hi \in Word /\ value.lo \div 256 \in Byte /\ value.lo % 256 \in Byte
  <2>1. value.hi \in Word /\ value.lo \in Word
    BY DEF Long
  <2> QED
    BY <2>1, HalvesOfWord
<1>3. MemInv(high)
  BY <1>1, <1>2, WriteWordKeeps
<1>4. MemInv(b2)
  BY <1>1, <1>2, <1>3, WriteByteKeeps
<1>5. MemInv(mem_write_byte(b2, addr + 3, value.lo % 256, alloc_ok))
  BY <1>1, <1>2, <1>4, WriteByteKeeps
<1> QED
  BY <1>5 DEF mem_write_long

(* A fault changes neither the memory nor the log. *)
LEMMA FaultKeeps ==
  ASSUME NEW m, MemInv(m)
  PROVE  MemInv([m EXCEPT !.faulted = TRUE])
<1> DEFINE m1 == [m EXCEPT !.faulted = TRUE]
<1>1. m \in MemoryState
  BY DEF MemInv
<1>2. /\ m1 \in MemoryState
      /\ m1.changes = m.changes /\ m1.memory = m.memory /\ m1.lost = m.lost
      /\ m1.change_count = m.change_count /\ m1.change_capacity = m.change_capacity
  BY <1>1 DEF MemoryState
<1> QED
  BY <1>2 DEF MemInv, BufferInv, LogExplains, LogChains

(* A dump only reads. *)
LEMMA DumpKeeps ==
  ASSUME NEW m, NEW opened, MemInv(m)
  PROVE  MemInv(mem_dump_changes(m, opened))
BY FaultKeeps DEF mem_dump_changes

(* A fresh memory is all zeros and its log is empty. *)
LEMMA InitMemInv == MemInv(mem_init)
<1>1. mem_init \in MemoryState
  BY MemoryAssumption DEF mem_init, MemoryState, Byte
<1>2. BufferInv(mem_init)
  BY MemoryAssumption DEF mem_init, BufferInv
<1>3. LogExplains(mem_init) /\ LogChains(mem_init)
  BY DEF mem_init, LogExplains, LogChains, HoldsBefore
<1> QED
  BY <1>1, <1>2, <1>3 DEF MemInv

(* The invariant is inductive. *)
LEMMA MemInvariant == MemSpec => []MemInv(mem)
<1>1. MemInit => MemInv(mem)
  BY InitMemInv DEF MemInit
<1>2. MemInv(mem) /\ [MemNext]_mem => MemInv(mem)'
  <2> SUFFICES ASSUME MemInv(mem), [MemNext]_mem PROVE MemInv(mem')
    BY DEF MemInv, MemoryState, BufferInv, LogExplains, LogChains
  <2>1. ASSUME NEW a \in WriteAddresses, NEW b \in Bytes, NEW ok \in BOOLEAN,
               WriteByte(a, b, ok)
        PROVE  MemInv(mem')
    BY <2>1, WriteByteKeeps, MemoryInputs DEF WriteByte
  <2>2. ASSUME NEW a \in WriteAddresses, NEW w \in WordValues, NEW ok \in BOOLEAN,
               WriteWord(a, w, ok)
        PROVE  MemInv(mem')
    BY <2>2, WriteWordKeeps, MemoryInputs DEF WriteWord
  <2>3. ASSUME NEW a \in WriteAddresses, NEW x \in Longs, NEW ok \in BOOLEAN,
               WriteLong(a, x, ok)
        PROVE  MemInv(mem')
    BY <2>3, WriteLongKeeps, MemoryInputs DEF WriteLong
  <2>4. CASE DumpChanges
    BY <2>4, DumpKeeps DEF DumpChanges
  <2>5. CASE UNCHANGED mem
    BY <2>5
  <2> QED
    BY <2>1, <2>2, <2>3, <2>4, <2>5 DEF MemNext
<1> QED
  BY <1>1, <1>2, PTL DEF MemSpec

(* Whatever a client writes, and whatever realloc answers, the log stays    *)
(* inside its buffer, explains every byte of the memory, and can be undone. *)
THEOREM MemoryCorrect ==
  MemSpec => [](MemTypeOK /\ BufferFits /\ LogExplainsMemory /\ LogUndoesMemory)
<1>1. MemInv(mem) => MemTypeOK /\ BufferFits /\ LogExplainsMemory /\ LogUndoesMemory
  BY DEF MemInv, MemTypeOK, BufferFits, LogExplainsMemory, LogUndoesMemory
<1> QED
  BY <1>1, MemInvariant, PTL

-----------------------------------------------------------------------------
(* What an operation may do to the log: append to it, or lose it and with it  *)
(* the process's next write.                                                 *)
Appended(m, n) ==
  /\ m.lost => n.lost /\ n.faulted
  /\ ~n.lost => /\ Len(m.changes) <= Len(n.changes)
                /\ \A k \in 1 .. Len(m.changes) : n.changes[k] = m.changes[k]

(* Appending goes on from one byte of a write to the next. *)
LEMMA AppendedOn ==
  ASSUME NEW m, NEW n, NEW p, m.changes \in Seq(MemoryChange),
         n.changes \in Seq(MemoryChange), p.changes \in Seq(MemoryChange),
         Appended(m, n), Appended(n, p)
  PROVE  Appended(m, p)
<1>1. Len(m.changes) \in Nat /\ Len(n.changes) \in Nat /\ Len(p.changes) \in Nat
  OBVIOUS
<1>2. m.lost => p.lost /\ p.faulted
  BY DEF Appended
<1>3. ASSUME ~p.lost
      PROVE  /\ Len(m.changes) <= Len(p.changes)
             /\ \A k \in 1 .. Len(m.changes) : p.changes[k] = m.changes[k]
  <2>1. ~n.lost
    BY <1>3 DEF Appended
  <2>2. /\ Len(m.changes) <= Len(n.changes) /\ Len(n.changes) <= Len(p.changes)
        /\ \A k \in 1 .. Len(m.changes) : n.changes[k] = m.changes[k]
        /\ \A k \in 1 .. Len(n.changes) : p.changes[k] = n.changes[k]
    BY <1>3, <2>1 DEF Appended
  <2> QED
    BY <1>1, <2>2
<1> QED
  BY <1>2, <1>3 DEF Appended

(* A lost buffer has room for the next entry, so the write that makes it      *)
(* faults instead of asking for a buffer again.                              *)
LEMMA WriteByteAppends ==
  ASSUME NEW m, MemInv(m), NEW address \in Nat, NEW value \in Byte,
         NEW alloc_ok \in BOOLEAN
  PROVE  Appended(m, mem_write_byte(m, address, value, alloc_ok))
<1> DEFINE addr == address % MEMORY_SIZE
           e == [address |-> addr, old_value |-> m.memory[addr], new_value |-> value]
           r == record_change(m, addr, m.memory[addr], value, alloc_ok)
           n == mem_write_byte(m, address, value, alloc_ok)
<1>1. /\ m \in MemoryState /\ BufferInv(m) /\ addr \in Cell
      /\ m.memory \in [Cell -> Byte] /\ m.changes \in Seq(MemoryChange)
  BY MemoryAssumption DEF MemInv, MemoryState, Cell
<1>2. e \in MemoryChange
  BY <1>1 DEF MemoryChange
<1>3. CASE m.faulted \/ r.faulted
  <2>1. n.changes = m.changes /\ n.lost = m.lost /\ n.faulted
    BY <1>1, <1>3 DEF mem_write_byte, MemoryState
  <2> QED
    BY <1>1, <2>1 DEF Appended
<1>4. CASE ~m.faulted /\ ~r.faulted
  <2>1. n.changes = r.changes /\ n.lost = r.lost
    <3>1. n = [r EXCEPT !.memory[addr] = value]
      BY <1>4 DEF mem_write_byte
    <3> QED
      BY <1>1, <3>1 DEF record_change, MemoryState
  <2>2. CASE m.change_count >= m.change_capacity /\ ~alloc_ok
    <3>1. r.lost
      BY <1>1, <2>2 DEF record_change, MemoryState
    <3>2. ~m.lost
      BY <1>1, <2>2 DEF BufferInv, MemoryState
    <3> QED
      BY <2>1, <3>1, <3>2 DEF Appended
  <2>3. CASE ~(m.change_count >= m.change_capacity /\ ~alloc_ok)
    <3>1. ~m.lost
      <4>1. SUFFICES ASSUME m.lost PROVE FALSE
        OBVIOUS
      <4>2. ~(m.change_count >= m.change_capacity)
        BY <1>1, <4>1 DEF BufferInv, MemoryState
      <4>3. r = [m EXCEPT !.faulted = TRUE]
        BY <4>1, <4>2 DEF record_change
      <4>4. r.faulted
        BY <1>1, <4>3 DEF MemoryState
      <4> QED
        BY <1>4, <4>4
    <3>2. r.changes = Append(m.changes, e)
      BY <1>1, <2>3, <3>1 DEF record_change, MemoryState
    <3> QED
      BY <1>1, <1>2, <2>1, <3>1, <3>2, AppendEntry DEF Appended
  <2> QED
    BY <2>2, <2>3
<1> QED
  BY <1>3, <1>4

(* The invariant gives the log of a memory its type. *)
LEMMA InvLog ==
  ASSUME NEW m, MemInv(m)
  PROVE  m.changes \in Seq(MemoryChange)
  BY DEF MemInv, MemoryState

LEMMA WriteWordAppends ==
  ASSUME NEW m, MemInv(m), NEW address \in Nat, NEW value \in Word,
         NEW alloc_ok \in BOOLEAN
  PROVE  Appended(m, mem_write_word(m, address, value, alloc_ok))
<1> DEFINE addr == address % MEMORY_SIZE
           high == mem_write_byte(m, addr, value \div 256, alloc_ok)
           n == mem_write_byte(high, addr + 1, value % 256, alloc_ok)
<1>1. addr \in Nat /\ addr + 1 \in Nat
  BY MemoryAssumption
<1>2. value \div 256 \in Byte /\ value % 256 \in Byte
  BY HalvesOfWord
<1>3. MemInv(high) /\ Appended(m, high)
  BY <1>1, <1>2, WriteByteKeeps, WriteByteAppends
<1>4. MemInv(n) /\ Appended(high, n)
  BY <1>1, <1>2, <1>3, WriteByteKeeps, WriteByteAppends
<1>5. n = mem_write_word(m, address, value, alloc_ok)
  BY DEF mem_write_word
<1> HIDE DEF high, n
<1> QED
  BY <1>3, <1>4, <1>5, InvLog, AppendedOn

LEMMA WriteLongAppends ==
  ASSUME NEW m, MemInv(m), NEW address \in Nat, NEW value \in Long,
         NEW alloc_ok \in BOOLEAN
  PROVE  Appended(m, mem_write_long(m, address, value, alloc_ok))
<1> DEFINE addr == address % MEMORY_SIZE
           high == mem_write_word(m, addr, value.hi, alloc_ok)
           b2   == mem_write_byte(high, addr + 2, value.lo \div 256, alloc_ok)
           n    == mem_write_byte(b2, addr + 3, value.lo % 256, alloc_ok)
<1>1. addr \in Nat /\ addr + 2 \in Nat /\ addr + 3 \in Nat
  BY MemoryAssumption
<1>2. value.hi \in Word /\ value.lo \div 256 \in Byte /\ value.lo % 256 \in Byte
  <2>1. value.hi \in Word /\ value.lo \in Word
    BY DEF Long
  <2> QED
    BY <2>1, HalvesOfWord
<1>3. MemInv(high) /\ Appended(m, high)
  BY <1>1, <1>2, WriteWordKeeps, WriteWordAppends
<1>4. MemInv(b2) /\ Appended(high, b2)
  BY <1>1, <1>2, <1>3, WriteByteKeeps, WriteByteAppends
<1>5. MemInv(n) /\ Appended(b2, n)
  BY <1>1, <1>2, <1>4, WriteByteKeeps, WriteByteAppends
<1>6. n = mem_write_long(m, address, value, alloc_ok)
  BY DEF mem_write_long
<1> HIDE DEF high, b2, n
<1>7. Appended(m, b2)
  BY <1>3, <1>4, InvLog, AppendedOn
<1> QED
  BY <1>4, <1>5, <1>6, <1>7, InvLog, AppendedOn

(* What LogAppendOnly says of a step. *)
LogKept ==
  /\ ~mem'.lost => /\ Len(mem.changes) <= Len(mem'.changes)
                   /\ SubSeq(mem'.changes, 1, Len(mem.changes)) = mem.changes
  /\ mem.lost => mem'.faulted

LEMMA AppendedIsKept ==
  ASSUME MemInv(mem), MemInv(mem'), Appended(mem, mem')
  PROVE  LogKept
<1>1. mem.changes \in Seq(MemoryChange) /\ mem'.changes \in Seq(MemoryChange)
  BY InvLog
<1>2. ASSUME ~mem'.lost
      PROVE  /\ Len(mem.changes) <= Len(mem'.changes)
             /\ SubSeq(mem'.changes, 1, Len(mem.changes)) = mem.changes
  BY <1>1, <1>2 DEF Appended
<1> QED
  BY <1>2 DEF LogKept, Appended

(* As long as memory.c has the buffer of its log it forgets and rewrites     *)
(* nothing of it, and once the buffer is lost no write survives.              *)
THEOREM LogIsAppendOnly == MemSpec => LogAppendOnly
<1>1. MemInv(mem) /\ MemInv(mem)' /\ [MemNext]_mem => [LogKept]_mem
  <2> SUFFICES ASSUME MemInv(mem), MemInv(mem'), MemNext, mem' # mem
               PROVE  Appended(mem, mem')
    BY AppendedIsKept DEF MemInv, MemoryState, BufferInv, LogExplains, LogChains
  <2>1. ASSUME NEW a \in WriteAddresses, NEW b \in Bytes, NEW ok \in BOOLEAN,
               WriteByte(a, b, ok)
        PROVE  Appended(mem, mem')
    BY <2>1, WriteByteAppends, MemoryInputs DEF WriteByte
  <2>2. ASSUME NEW a \in WriteAddresses, NEW w \in WordValues, NEW ok \in BOOLEAN,
               WriteWord(a, w, ok)
        PROVE  Appended(mem, mem')
    BY <2>2, WriteWordAppends, MemoryInputs DEF WriteWord
  <2>3. ASSUME NEW a \in WriteAddresses, NEW x \in Longs, NEW ok \in BOOLEAN,
               WriteLong(a, x, ok)
        PROVE  Appended(mem, mem')
    BY <2>3, WriteLongAppends, MemoryInputs DEF WriteLong
  <2>4. CASE DumpChanges
    <3>1. mem.lost /\ mem' = [mem EXCEPT !.faulted = TRUE]
      BY <2>4 DEF DumpChanges, mem_dump_changes
    <3>2. mem'.faulted /\ mem'.lost
      BY <3>1 DEF MemInv, MemoryState
    <3> QED
      BY <3>1, <3>2 DEF Appended
  <2> QED
    BY <2>1, <2>2, <2>3, <2>4 DEF MemNext
<1> QED
  BY <1>1, MemInvariant, PTL DEF MemSpec, LogAppendOnly, LogKept

-----------------------------------------------------------------------------
(* Arithmetic modulo a number M that the provers do not know: they have no   *)
(* laws of % for a variable divisor but its definition.                      *)
LEMMA DivisionByM ==
  ASSUME NEW M \in Int, M > 0, NEW x \in Int
  PROVE  /\ x % M \in Int /\ 0 <= x % M /\ x % M < M /\ x \div M \in Int
         /\ x = M * (x \div M) + (x % M)
  BY SMT

(* A quotient and a remainder in its range are \div and %. *)
LEMMA RemainderIsUnique ==
  ASSUME NEW M \in Int, M > 0, NEW x \in Int, NEW q \in Int, NEW r \in Int,
         0 <= r, r < M, x = M * q + r
  PROVE  x % M = r
<1> DEFINE d == x \div M
           e == x % M
<1>1. d \in Int /\ e \in Int /\ 0 <= e /\ e < M /\ x = M * d + e
  BY DivisionByM
<1> HIDE DEF d, e
<1>2. M * (d - q) = r - e
  BY SMT, <1>1
<1>3. d = q
  <2>1. CASE d - q >= 1
    <3>1. M * (d - q) >= M
      BY SMT, <1>1, <2>1
    <3> QED
      BY SMT, <1>1, <1>2, <3>1
  <2>2. CASE d - q <= -1
    <3>1. M * (d - q) <= -M
      BY SMT, <1>1, <2>2
    <3> QED
      BY SMT, <1>1, <1>2, <3>1
  <2> QED
    BY SMT, <1>1, <2>1, <2>2
<1>4. e = r
  BY SMT, <1>1, <1>3
<1> QED
  BY <1>4 DEF e

(* A step shorter than M from a reduced number leaves it in range or wraps   *)
(* once, and reduces to what the same step from the number does.             *)
LEMMA StepModM ==
  ASSUME NEW M \in Int, M > 0, NEW a \in Int, NEW i \in Int, 0 <= i, i < M
  PROVE  /\ ((a % M) + i) % M = (a + i) % M
         /\ (a + i) % M = IF (a % M) + i < M THEN (a % M) + i ELSE (a % M) + i - M
<1> DEFINE d == a \div M
           e == a % M
<1>1. d \in Int /\ e \in Int /\ 0 <= e /\ e < M /\ a = M * d + e
  BY DivisionByM
<1> HIDE DEF d, e
<1>2. ASSUME NEW k \in Int, NEW r \in Int, 0 <= r, r < M, e + i = M * k + r
      PROVE  (a + i) % M = r /\ (e + i) % M = r
  <2>1. a + i = M * (d + k) + r /\ d + k \in Int /\ a + i \in Int /\ e + i \in Int
    BY SMT, <1>1, <1>2
  <2> QED
    BY <1>2, <2>1, RemainderIsUnique
<1>3. CASE e + i < M
  <2>1. (a + i) % M = e + i /\ (e + i) % M = e + i
    <3>1. e + i \in Int /\ 0 <= e + i /\ e + i = M * 0 + (e + i)
      BY SMT, <1>1
    <3> QED
      BY <1>2, <1>3, <3>1
  <2> QED
    BY <1>3, <2>1 DEF e
<1>4. CASE ~(e + i < M)
  <2>1. (a + i) % M = e + i - M /\ (e + i) % M = e + i - M
    <3>1. /\ e + i - M \in Int /\ 0 <= e + i - M /\ e + i - M < M
          /\ e + i = M * 1 + (e + i - M)
      BY SMT, <1>1, <1>4
    <3> QED
      BY <1>2, <3>1
  <2> QED
    BY <1>4, <2>1 DEF e
<1> QED
  BY <1>3, <1>4

(* The cells of a write are its own: four in a row are different whether    *)
(* they wrap or not, because the memory has at least four.                   *)
LEMMA CellsApart ==
  ASSUME NEW a \in Nat
  PROVE  /\ \A i \in 0 .. 3 :
              /\ (a + i) % MEMORY_SIZE \in Cell
              /\ ((a % MEMORY_SIZE) + i) % MEMORY_SIZE = (a + i) % MEMORY_SIZE
         /\ \A i \in 0 .. 3, j \in 0 .. 3 :
              i # j => (a + i) % MEMORY_SIZE # (a + j) % MEMORY_SIZE
<1> DEFINE M == MEMORY_SIZE
           e == a % M
<1>1. M \in Int /\ M >= 4 /\ e \in Int /\ 0 <= e /\ e < M
  BY MemoryAssumption, DivisionByM
<1>2. ASSUME NEW i \in 0 .. 3
      PROVE  /\ (e + i) % M = (a + i) % M
             /\ (a + i) % M = IF e + i < M THEN e + i ELSE e + i - M
  <2>1. i \in Int /\ 0 <= i /\ i < M /\ M > 0 /\ a \in Int
    BY <1>1
  <2> HIDE DEF M
  <2> QED
    BY <1>1, <2>1, StepModM
<1> HIDE DEF M, e
<1>3. ASSUME NEW i \in 0 .. 3 PROVE (a + i) % M \in 0 .. M - 1
  BY SMT, <1>1, <1>2
<1>4. ASSUME NEW i \in 0 .. 3, NEW j \in 0 .. 3, i # j
      PROVE  (a + i) % M # (a + j) % M
  BY SMT, <1>1, <1>2, <1>4
<1> QED
  BY <1>2, <1>3, <1>4 DEF Cell, M, e

-----------------------------------------------------------------------------
(* What a byte written at address a does: the cell holds it unless the       *)
(* process died, and no other cell changes.                                  *)
Stored(m, n, a, b) ==
  /\ \A c \in Cell : c # a % MEMORY_SIZE => n.memory[c] = m.memory[c]
  /\ ~n.faulted => ~m.faulted /\ n.memory[a % MEMORY_SIZE] = b

LEMMA WriteByteStores ==
  ASSUME NEW m, MemInv(m), NEW a \in Nat, NEW b \in Byte, NEW ok \in BOOLEAN
  PROVE  Stored(m, mem_write_byte(m, a, b, ok), a, b)
<1> DEFINE c == a % MEMORY_SIZE
           r == record_change(m, c, m.memory[c], b, ok)
           n == mem_write_byte(m, a, b, ok)
<1>1. m \in MemoryState /\ m.memory \in [Cell -> Byte] /\ c \in Cell
  BY MemoryAssumption DEF MemInv, MemoryState, Cell
<1>2. r.memory = m.memory
  BY <1>1 DEF record_change, MemoryState
<1>3. CASE m.faulted \/ r.faulted
  BY <1>1, <1>3 DEF mem_write_byte, MemoryState, Stored
<1>4. CASE ~m.faulted /\ ~r.faulted
  <2>1. n = [r EXCEPT !.memory[c] = b]
    BY <1>4 DEF mem_write_byte
  <2>2. n.memory = [m.memory EXCEPT ![c] = b] /\ n.faulted = r.faulted
    BY <1>1, <1>2, <2>1 DEF record_change, MemoryState
  <2> QED
    BY <1>1, <1>4, <2>2 DEF Stored
<1> QED
  BY <1>3, <1>4

(* A word's second byte goes to another cell than its first. *)
LEMMA WriteWordStores ==
  ASSUME NEW m, MemInv(m), NEW a \in Nat, NEW w \in Word, NEW ok \in BOOLEAN,
         NEW n, n = mem_write_word(m, a, w, ok)
  PROVE  /\ \A c \in Cell : c \notin Touched(a, 2) => n.memory[c] = m.memory[c]
         /\ ~n.faulted => /\ ~m.faulted
                          /\ n.memory[a % MEMORY_SIZE] = w \div 256
                          /\ n.memory[(a + 1) % MEMORY_SIZE] = w % 256
<1> DEFINE addr == a % MEMORY_SIZE
           high == mem_write_byte(m, addr, w \div 256, ok)
<1>1. /\ addr \in Nat /\ addr + 1 \in Nat /\ addr \in Cell
      /\ w \div 256 \in Byte /\ w % 256 \in Byte
  BY HalvesOfWord, MemoryAssumption DEF Cell
<1>2. /\ addr % MEMORY_SIZE = addr
      /\ (addr + 1) % MEMORY_SIZE = (a + 1) % MEMORY_SIZE
      /\ (a + 1) % MEMORY_SIZE # addr
  <2>1. a + 0 = a /\ addr + 0 = addr /\ 0 \in 0 .. 3 /\ 1 \in 0 .. 3 /\ 0 # 1
    BY <1>1
  <2> QED
    BY <2>1, CellsApart
<1>3. n = mem_write_byte(high, addr + 1, w % 256, ok)
  BY DEF mem_write_word
<1>4. Stored(m, high, addr, w \div 256) /\ MemInv(high)
  BY <1>1, WriteByteStores, WriteByteKeeps
<1>5. Stored(high, n, addr + 1, w % 256)
  BY <1>1, <1>3, <1>4, WriteByteStores
<1>6. addr \in Touched(a, 2) /\ (a + 1) % MEMORY_SIZE \in Touched(a, 2)
  BY DEF Touched
<1> HIDE DEF addr, high
<1> QED
  BY <1>1, <1>2, <1>4, <1>5, <1>6 DEF Stored, addr

(* ... and so do the four bytes of a long. *)
LEMMA WriteLongStores ==
  ASSUME NEW m, MemInv(m), NEW a \in Nat, NEW x \in Long, NEW ok \in BOOLEAN,
         NEW n, n = mem_write_long(m, a, x, ok)
  PROVE  /\ \A c \in Cell : c \notin Touched(a, 4) => n.memory[c] = m.memory[c]
         /\ ~n.faulted => /\ ~m.faulted
                          /\ n.memory[a % MEMORY_SIZE] = x.hi \div 256
                          /\ n.memory[(a + 1) % MEMORY_SIZE] = x.hi % 256
                          /\ n.memory[(a + 2) % MEMORY_SIZE] = x.lo \div 256
                          /\ n.memory[(a + 3) % MEMORY_SIZE] = x.lo % 256
<1> DEFINE addr == a % MEMORY_SIZE
           high == mem_write_word(m, addr, x.hi, ok)
           b2   == mem_write_byte(high, addr + 2, x.lo \div 256, ok)
           C(i) == (a + i) % MEMORY_SIZE
<1>1. /\ addr \in Nat /\ addr + 1 \in Nat /\ addr + 2 \in Nat /\ addr + 3 \in Nat
      /\ x.hi \in Word /\ x.lo \in Word
  BY MemoryAssumption DEF Long
<1>2. x.lo \div 256 \in Byte /\ x.lo % 256 \in Byte
  BY <1>1, HalvesOfWord
<1>3. /\ addr % MEMORY_SIZE = C(0) /\ addr = C(0)
      /\ (addr + 1) % MEMORY_SIZE = C(1)
      /\ (addr + 2) % MEMORY_SIZE = C(2)
      /\ (addr + 3) % MEMORY_SIZE = C(3)
  <2>1. a + 0 = a /\ addr + 0 = addr
    BY <1>1
  <2> QED
    BY <2>1, CellsApart
<1>4. /\ C(0) # C(1) /\ C(0) # C(2) /\ C(0) # C(3)
      /\ C(1) # C(2) /\ C(1) # C(3) /\ C(2) # C(3)
      /\ C(0) \in Cell /\ C(1) \in Cell /\ C(2) \in Cell /\ C(3) \in Cell
  BY CellsApart
<1>5. Touched(a, 4) = {C(0), C(1), C(2), C(3)}
  BY DEF Touched
<1>6. Touched(addr, 2) = {C(0), C(1)}
  <2>1. 0 .. 2 - 1 = {0, 1} /\ addr + 0 = addr
    BY <1>1
  <2> HIDE DEF addr, C
  <2>2. Touched(addr, 2) = {(addr + 0) % MEMORY_SIZE, (addr + 1) % MEMORY_SIZE}
    BY <2>1 DEF Touched
  <2> QED
    BY <1>3, <2>1, <2>2
<1>7. n = mem_write_byte(b2, addr + 3, x.lo % 256, ok)
  BY DEF mem_write_long
<1> HIDE DEF C
<1>8. /\ \A c \in Cell : c \notin Touched(addr, 2) => high.memory[c] = m.memory[c]
      /\ ~high.faulted => /\ ~m.faulted
                          /\ high.memory[C(0)] = x.hi \div 256
                          /\ high.memory[C(1)] = x.hi % 256
  BY <1>1, <1>3, WriteWordStores
<1>9. MemInv(high) /\ MemInv(b2)
  BY <1>1, <1>2, WriteWordKeeps, WriteByteKeeps
<1> HIDE DEF high
<1>10. Stored(high, b2, addr + 2, x.lo \div 256)
  BY <1>1, <1>2, <1>9, WriteByteStores
<1>11. Stored(b2, n, addr + 3, x.lo % 256)
  BY <1>1, <1>2, <1>7, <1>9, WriteByteStores
<1> HIDE DEF b2, addr
<1>12. \A c \in Cell : c \notin Touched(a, 4) => n.memory[c] = m.memory[c]
  BY <1>3, <1>5, <1>6, <1>8, <1>10, <1>11 DEF Stored
<1>13. ASSUME ~n.faulted
       PROVE  /\ ~m.faulted
              /\ n.memory[C(0)] = x.hi \div 256 /\ n.memory[C(1)] = x.hi % 256
              /\ n.memory[C(2)] = x.lo \div 256 /\ n.memory[C(3)] = x.lo % 256
  BY <1>3, <1>4, <1>8, <1>10, <1>11, <1>13 DEF Stored
<1> QED
  BY <1>3, <1>12, <1>13 DEF C, addr

(* A word is its two bytes. *)
LEMMA BytesOfWord ==
  ASSUME NEW w \in Word
  PROVE  256 * (w \div 256) + (w % 256) = w
<1>1. w \in Int
  BY DEF Word
<1> QED
  BY SMT, <1>1

(* What WritesReadBack says of a step. *)
ReadBack ==
  /\ \A a \in WriteAddresses, b \in Bytes, ok \in BOOLEAN :
       WriteByte(a, b, ok) =>
         OnlyTouched(a, 1) /\ (~mem'.faulted => mem_read_byte(mem', a) = b)
  /\ \A a \in WriteAddresses, w \in WordValues, ok \in BOOLEAN :
       WriteWord(a, w, ok) =>
         OnlyTouched(a, 2) /\ (~mem'.faulted => mem_read_word(mem', a) = w)
  /\ \A a \in WriteAddresses, x \in Longs, ok \in BOOLEAN :
       WriteLong(a, x, ok) =>
         OnlyTouched(a, 4) /\ (~mem'.faulted => mem_read_long(mem', a) = x)

(* A byte, word or long that memory.c writes anywhere, across the top of the *)
(* memory too, is what it reads there afterwards, and a write changes no     *)
(* cell but its own, also when it dies half way.                             *)
THEOREM WhatIsWrittenIsRead == MemSpec => WritesReadBack
<1>1. MemInv(mem) => ReadBack
  <2> SUFFICES ASSUME MemInv(mem) PROVE ReadBack
    OBVIOUS
  <2>1. ASSUME NEW a \in WriteAddresses, NEW b \in Bytes, NEW ok \in BOOLEAN,
               WriteByte(a, b, ok)
        PROVE  OnlyTouched(a, 1) /\ (~mem'.faulted => mem_read_byte(mem', a) = b)
    <3>1. a \in Nat /\ b \in Byte
      BY MemoryInputs
    <3>2. Stored(mem, mem', a, b)
      BY <2>1, <3>1, WriteByteStores DEF WriteByte
    <3>3. a % MEMORY_SIZE \in Touched(a, 1)
      <4>1. a = a + 0 /\ 0 \in 0 .. 1 - 1
        BY <3>1
      <4> QED
        BY <4>1 DEF Touched
    <3> QED
      BY <3>2, <3>3 DEF OnlyTouched, Stored, mem_read_byte
  <2>2. ASSUME NEW a \in WriteAddresses, NEW w \in WordValues, NEW ok \in BOOLEAN,
               WriteWord(a, w, ok)
        PROVE  OnlyTouched(a, 2) /\ (~mem'.faulted => mem_read_word(mem', a) = w)
    <3>1. a \in Nat /\ w \in Word
      BY MemoryInputs
    <3>2. mem' = mem_write_word(mem, a, w, ok)
      BY <2>2 DEF WriteWord
    <3>3. OnlyTouched(a, 2)
      BY <3>1, <3>2, WriteWordStores DEF OnlyTouched
    <3>4. ASSUME ~mem'.faulted PROVE mem_read_word(mem', a) = w
      <4>1. /\ mem_read_byte(mem', a) = w \div 256
            /\ mem_read_byte(mem', a + 1) = w % 256
        BY <3>1, <3>2, <3>4, WriteWordStores DEF mem_read_byte
      <4> QED
        BY <3>1, <4>1, BytesOfWord DEF mem_read_word
    <3> QED
      BY <3>3, <3>4
  <2>3. ASSUME NEW a \in WriteAddresses, NEW x \in Longs, NEW ok \in BOOLEAN,
               WriteLong(a, x, ok)
        PROVE  OnlyTouched(a, 4) /\ (~mem'.faulted => mem_read_long(mem', a) = x)
    <3>1. a \in Nat /\ x \in Long
      BY MemoryInputs
    <3>2. mem' = mem_write_long(mem, a, x, ok)
      BY <2>3 DEF WriteLong
    <3>3. OnlyTouched(a, 4)
      BY <3>1, <3>2, WriteLongStores DEF OnlyTouched
    <3>4. ASSUME ~mem'.faulted PROVE mem_read_long(mem', a) = x
      <4>1. (a + 2) + 1 = a + 3
        BY <3>1
      <4>2. /\ mem_read_byte(mem', a) = x.hi \div 256
            /\ mem_read_byte(mem', a + 1) = x.hi % 256
            /\ mem_read_byte(mem', a + 2) = x.lo \div 256
            /\ mem_read_byte(mem', (a + 2) + 1) = x.lo % 256
        BY <3>1, <3>2, <3>4, <4>1, WriteLongStores DEF mem_read_byte
      <4>3. x.hi \in Word /\ x.lo \in Word /\ x = [hi |-> x.hi, lo |-> x.lo]
        BY <3>1 DEF Long
      <4>4. mem_read_word(mem', a) = x.hi /\ mem_read_word(mem', a + 2) = x.lo
        BY <4>2, <4>3, BytesOfWord DEF mem_read_word
      <4> QED
        BY <4>3, <4>4 DEF mem_read_long
    <3> QED
      BY <3>3, <3>4
  <2> QED
    BY <2>1, <2>2, <2>3 DEF ReadBack
<1> QED
  BY <1>1, MemInvariant, PTL DEF WritesReadBack, ReadBack

-----------------------------------------------------------------------------
(* What k bytes written from address a on leave in the log that survives: k   *)
(* entries behind those that were there, for consecutive cells.              *)
Logged(m, n, a, k) ==
  ~n.lost /\ ~n.faulted =>
    /\ ~m.lost /\ ~m.faulted
    /\ Len(n.changes) = Len(m.changes) + k
    /\ \A i \in 0 .. k - 1 :
         n.changes[Len(m.changes) + 1 + i].address = (a + i) % MEMORY_SIZE

(* One byte logs one entry. *)
LEMMA WriteByteLogs ==
  ASSUME NEW m, MemInv(m), NEW a \in Nat, NEW b \in Byte, NEW ok \in BOOLEAN
  PROVE  Logged(m, mem_write_byte(m, a, b, ok), a, 1)
<1> DEFINE addr == a % MEMORY_SIZE
           e == [address |-> addr, old_value |-> m.memory[addr], new_value |-> b]
           r == record_change(m, addr, m.memory[addr], b, ok)
           n == mem_write_byte(m, a, b, ok)
<1>1. /\ m \in MemoryState /\ BufferInv(m) /\ addr \in Cell
      /\ m.memory \in [Cell -> Byte] /\ m.changes \in Seq(MemoryChange)
  BY MemoryAssumption DEF MemInv, MemoryState, Cell
<1>2. e \in MemoryChange /\ e.address = addr
  BY <1>1 DEF MemoryChange
<1>3. CASE m.faulted \/ r.faulted
  <2>1. n.faulted
    BY <1>1, <1>3 DEF mem_write_byte, MemoryState
  <2> QED
    BY <2>1 DEF Logged
<1>4. CASE ~m.faulted /\ ~r.faulted
  <2>1. n.changes = r.changes /\ n.lost = r.lost
    <3>1. n = [r EXCEPT !.memory[addr] = b]
      BY <1>4 DEF mem_write_byte
    <3> QED
      BY <1>1, <3>1 DEF record_change, MemoryState
  <2>2. CASE m.change_count >= m.change_capacity /\ ~ok
    <3>1. r.lost
      BY <1>1, <2>2 DEF record_change, MemoryState
    <3> QED
      BY <2>1, <3>1 DEF Logged
  <2>3. CASE ~(m.change_count >= m.change_capacity /\ ~ok)
    <3>1. CASE m.lost
      <4>1. r.lost
        BY <1>1, <2>3, <3>1 DEF record_change, MemoryState
      <4> QED
        BY <2>1, <4>1 DEF Logged
    <3>2. CASE ~m.lost
      <4>1. r.changes = Append(m.changes, e)
        BY <1>1, <2>3, <3>2 DEF record_change, MemoryState
      <4> HIDE DEF n, r, e
      <4>2. /\ Len(n.changes) = Len(m.changes) + 1
            /\ n.changes[Len(m.changes) + 1] = e
            /\ Len(m.changes) \in Nat
        BY <1>1, <1>2, <2>1, <4>1, AppendEntry
      <4>3. \A i \in 0 .. 1 - 1 : n.changes[Len(m.changes) + 1 + i] = e /\ a + i = a
        BY <4>2
      <4> QED
        BY <1>2, <1>4, <3>2, <4>2, <4>3 DEF Logged, n, e
    <3> QED
      BY <3>1, <3>2
  <2> QED
    BY <2>2, <2>3
<1> QED
  BY <1>3, <1>4

(* Writes go on in the log as they do in the memory. *)
LEMMA LoggedOn ==
  ASSUME NEW m, NEW n, NEW p, MemInv(m), MemInv(n), MemInv(p),
         NEW a \in Nat, NEW b \in Nat, NEW j \in Nat, NEW k \in Nat,
         \A i \in 0 .. k - 1 : (b + i) % MEMORY_SIZE = (a + j + i) % MEMORY_SIZE,
         Logged(m, n, a, j), Logged(n, p, b, k), Appended(n, p)
  PROVE  Logged(m, p, a, j + k)
<1> SUFFICES ASSUME ~p.lost, ~p.faulted
             PROVE  /\ ~m.lost /\ ~m.faulted
                    /\ Len(p.changes) = Len(m.changes) + (j + k)
                    /\ \A i \in 0 .. (j + k) - 1 :
                         p.changes[Len(m.changes) + 1 + i].address = (a + i) % MEMORY_SIZE
  BY DEF Logged
<1>1. Len(m.changes) \in Nat /\ Len(n.changes) \in Nat
  BY InvLog
<1>2. /\ ~n.lost /\ ~n.faulted
      /\ Len(p.changes) = Len(n.changes) + k
      /\ \A i \in 0 .. k - 1 :
           p.changes[Len(n.changes) + 1 + i].address = (b + i) % MEMORY_SIZE
  BY DEF Logged
<1>3. /\ ~m.lost /\ ~m.faulted
      /\ Len(n.changes) = Len(m.changes) + j
      /\ \A i \in 0 .. j - 1 :
           n.changes[Len(m.changes) + 1 + i].address = (a + i) % MEMORY_SIZE
  BY <1>2 DEF Logged
<1>4. \A i \in 1 .. Len(n.changes) : p.changes[i] = n.changes[i]
  BY DEF Appended
<1> DEFINE before == Len(m.changes)
           middle == Len(n.changes)
<1> HIDE DEF before, middle
<1>5. ASSUME NEW i \in 0 .. (j + k) - 1
      PROVE  p.changes[before + 1 + i].address = (a + i) % MEMORY_SIZE
  <2>1. CASE i < j
    <3>1. before + 1 + i \in 1 .. middle /\ i \in 0 .. j - 1
      BY <1>1, <1>3, <2>1 DEF before, middle
    <3> QED
      BY <1>3, <1>4, <3>1 DEF before, middle
  <2>2. CASE i >= j
    <3> DEFINE h == i - j
    <3>1. h \in 0 .. k - 1 /\ before + 1 + i = middle + 1 + h /\ a + j + h = a + i
      BY <1>1, <1>3, <2>2 DEF before, middle
    <3> HIDE DEF h
    <3>2. p.changes[middle + 1 + h].address = (b + h) % MEMORY_SIZE
      BY <1>2, <3>1 DEF middle
    <3>3. (b + h) % MEMORY_SIZE = (a + j + h) % MEMORY_SIZE
      BY <3>1
    <3> QED
      BY <3>1, <3>2, <3>3
  <2> QED
    BY <2>1, <2>2
<1>6. Len(p.changes) = before + (j + k)
  <2> DEFINE after == Len(p.changes)
  <2>1. /\ j \in Int /\ k \in Int /\ before \in Int /\ middle \in Int /\ after \in Int
        /\ after = middle + k /\ middle = before + j
    BY <1>1, <1>2, <1>3, InvLog DEF before, middle
  <2> HIDE DEF after
  <2>2. after = before + (j + k)
    BY SMT, <2>1
  <2> QED
    BY <2>2 DEF after
<1> QED
  BY <1>3, <1>5, <1>6 DEF before

(* A word logs two entries, ... *)
LEMMA WriteWordLogs ==
  ASSUME NEW m, MemInv(m), NEW a \in Nat, NEW w \in Word, NEW ok \in BOOLEAN
  PROVE  Logged(m, mem_write_word(m, a, w, ok), a, 2)
<1> DEFINE addr == a % MEMORY_SIZE
           high == mem_write_byte(m, addr, w \div 256, ok)
           n == mem_write_byte(high, addr + 1, w % 256, ok)
<1>1. /\ addr \in Nat /\ addr + 1 \in Nat
      /\ w \div 256 \in Byte /\ w % 256 \in Byte
  BY HalvesOfWord, MemoryAssumption
<1>2. /\ MemInv(high) /\ Logged(m, high, addr, 1)
      /\ MemInv(n) /\ Logged(high, n, addr + 1, 1) /\ Appended(high, n)
  BY <1>1, WriteByteKeeps, WriteByteLogs, WriteByteAppends
<1>3. n = mem_write_word(m, a, w, ok)
  BY DEF mem_write_word
<1>4. \A i \in 0 .. 1 - 1 : /\ (addr + i) % MEMORY_SIZE = (a + i) % MEMORY_SIZE
                            /\ (addr + 1 + i) % MEMORY_SIZE = (a + 1 + i) % MEMORY_SIZE
  <2>1. \A i \in 0 .. 1 - 1 : /\ i \in 0 .. 3 /\ 1 + i \in 0 .. 3
                              /\ addr + 1 + i = addr + (1 + i) /\ a + 1 + i = a + (1 + i)
    BY <1>1
  <2> QED
    BY <2>1, CellsApart
<1> HIDE DEF high, n, addr
<1>5. Logged(m, high, a, 1)
  BY <1>2, <1>4 DEF Logged
<1>6. 1 \in Nat /\ 1 + 1 = 2
  OBVIOUS
<1>7. Logged(m, n, a, 1 + 1)
  BY <1>1, <1>2, <1>4, <1>5, <1>6, LoggedOn
<1> QED
  BY <1>3, <1>6, <1>7

(* ... and a long logs four. *)
LEMMA WriteLongLogs ==
  ASSUME NEW m, MemInv(m), NEW a \in Nat, NEW x \in Long, NEW ok \in BOOLEAN
  PROVE  Logged(m, mem_write_long(m, a, x, ok), a, 4)
<1> DEFINE addr == a % MEMORY_SIZE
           high == mem_write_word(m, addr, x.hi, ok)
           b2   == mem_write_byte(high, addr + 2, x.lo \div 256, ok)
           n    == mem_write_byte(b2, addr + 3, x.lo % 256, ok)
<1>1. /\ addr \in Nat /\ addr + 2 \in Nat /\ addr + 3 \in Nat
      /\ x.hi \in Word /\ x.lo \div 256 \in Byte /\ x.lo % 256 \in Byte
  <2>1. x.hi \in Word /\ x.lo \in Word
    BY DEF Long
  <2> QED
    BY <2>1, HalvesOfWord, MemoryAssumption
<1>2. MemInv(high) /\ Logged(m, high, addr, 2)
  BY <1>1, WriteWordKeeps, WriteWordLogs
<1> HIDE DEF high
<1>3. MemInv(b2) /\ Logged(high, b2, addr + 2, 1) /\ Appended(high, b2)
  BY <1>1, <1>2, WriteByteKeeps, WriteByteLogs, WriteByteAppends
<1> HIDE DEF b2
<1>4. MemInv(n) /\ Logged(b2, n, addr + 3, 1) /\ Appended(b2, n)
  BY <1>1, <1>3, WriteByteKeeps, WriteByteLogs, WriteByteAppends
<1>5. n = mem_write_long(m, a, x, ok)
  BY DEF mem_write_long, high, b2
<1>6. /\ \A i \in 0 .. 2 - 1 : (addr + i) % MEMORY_SIZE = (a + i) % MEMORY_SIZE
      /\ \A i \in 0 .. 1 - 1 : /\ (addr + 2 + i) % MEMORY_SIZE = (a + 2 + i) % MEMORY_SIZE
                               /\ (addr + 3 + i) % MEMORY_SIZE = (a + 3 + i) % MEMORY_SIZE
  <2>1. /\ \A i \in 0 .. 2 - 1 : i \in 0 .. 3
        /\ \A i \in 0 .. 1 - 1 : /\ 2 + i \in 0 .. 3 /\ 3 + i \in 0 .. 3
                                 /\ addr + 2 + i = addr + (2 + i) /\ a + 2 + i = a + (2 + i)
                                 /\ addr + 3 + i = addr + (3 + i) /\ a + 3 + i = a + (3 + i)
    BY <1>1
  <2> QED
    BY <2>1, CellsApart
<1> HIDE DEF n, addr
<1>7. Logged(m, high, a, 2)
  BY <1>2, <1>6 DEF Logged
<1>8. 1 \in Nat /\ 2 \in Nat /\ 3 \in Nat /\ 2 + 1 = 3 /\ 3 + 1 = 4
  OBVIOUS
<1>9. Logged(m, b2, a, 2 + 1)
  BY <1>1, <1>2, <1>3, <1>6, <1>7, <1>8, LoggedOn
<1>10. Logged(m, b2, a, 3)
  BY <1>8, <1>9
<1>11. Logged(m, n, a, 3 + 1)
  BY <1>1, <1>3, <1>4, <1>6, <1>8, <1>10, LoggedOn
<1> QED
  BY <1>5, <1>8, <1>11
-----------------------------------------------------------------------------
(* A memory that writes alone have made: one stops only where the log is     *)
(* lost, so a log that is there has every write.                             *)
Sound(m) == MemInv(m) /\ (m.faulted => m.lost)

(* k bytes written from address a on, none of them or all. *)
Wrote(m, n, a, k) ==
  Sound(n) /\ IF k = 0 THEN n = m ELSE Logged(m, n, a, k) /\ Appended(m, n)

LEMMA InitSound == Sound(mem_init)
  BY InitMemInv DEF Sound, mem_init

(* A byte's write stops at a log that is lost, ... *)
LEMMA WriteByteSound ==
  ASSUME NEW m, Sound(m), NEW a \in Nat, NEW b \in Byte, NEW ok \in BOOLEAN
  PROVE  Sound(mem_write_byte(m, a, b, ok))
<1> DEFINE addr == a % MEMORY_SIZE
           r == record_change(m, addr, m.memory[addr], b, ok)
           n == mem_write_byte(m, a, b, ok)
<1>1. MemInv(n) /\ MemInv(m) /\ m \in MemoryState
  BY WriteByteKeeps DEF Sound, MemInv
<1>2. CASE m.faulted \/ r.faulted
  <2>1. n = [m EXCEPT !.faulted = TRUE]
    BY <1>2 DEF mem_write_byte
  <2>2. n.lost = m.lost
    BY <1>1, <2>1 DEF MemoryState
  <2>3. m.lost
    <3>1. CASE m.faulted
      BY <3>1 DEF Sound
    <3>2. CASE ~m.faulted /\ ~m.lost
      <4>1. ~r.faulted
        BY <1>1, <3>2 DEF record_change, MemoryState
      <4> QED
        BY <1>2, <3>2, <4>1
    <3> QED
      BY <3>1, <3>2
  <2> QED
    BY <1>1, <2>2, <2>3 DEF Sound
<1>3. CASE ~m.faulted /\ ~r.faulted
  <2>1. n = [r EXCEPT !.memory[addr] = b]
    BY <1>3 DEF mem_write_byte
  <2>2. ~n.faulted
    BY <1>1, <1>3, <2>1 DEF record_change, MemoryState
  <2> QED
    BY <1>1, <2>2 DEF Sound
<1> QED
  BY <1>2, <1>3

(* ... so does that of a word or of a long. *)
LEMMA WriteWordSound ==
  ASSUME NEW m, Sound(m), NEW a \in Nat, NEW w \in Word, NEW ok \in BOOLEAN
  PROVE  Sound(mem_write_word(m, a, w, ok))
<1> DEFINE addr == a % MEMORY_SIZE
           high == mem_write_byte(m, addr, w \div 256, ok)
<1>1. /\ addr \in Nat /\ addr + 1 \in Nat
      /\ w \div 256 \in Byte /\ w % 256 \in Byte
  BY HalvesOfWord, MemoryAssumption
<1>2. Sound(high)
  BY <1>1, WriteByteSound
<1>3. mem_write_word(m, a, w, ok) = mem_write_byte(high, addr + 1, w % 256, ok)
  BY DEF mem_write_word
<1> HIDE DEF high, addr
<1> QED
  BY <1>1, <1>2, <1>3, WriteByteSound

LEMMA WriteLongSound ==
  ASSUME NEW m, Sound(m), NEW a \in Nat, NEW x \in Long, NEW ok \in BOOLEAN
  PROVE  Sound(mem_write_long(m, a, x, ok))
<1> DEFINE addr == a % MEMORY_SIZE
           high == mem_write_word(m, addr, x.hi, ok)
           b2   == mem_write_byte(high, addr + 2, x.lo \div 256, ok)
<1>1. /\ addr \in Nat /\ addr + 2 \in Nat /\ addr + 3 \in Nat
      /\ x.hi \in Word /\ x.lo \div 256 \in Byte /\ x.lo % 256 \in Byte
  <2>1. x.hi \in Word /\ x.lo \in Word
    BY DEF Long
  <2> QED
    BY <2>1, HalvesOfWord, MemoryAssumption
<1>2. Sound(high)
  BY <1>1, WriteWordSound
<1>3. mem_write_long(m, a, x, ok) = mem_write_byte(b2, addr + 3, x.lo % 256, ok)
  BY DEF mem_write_long
<1> HIDE DEF high, addr
<1>4. Sound(b2)
  BY <1>1, <1>2, WriteByteSound
<1> HIDE DEF b2
<1> QED
  BY <1>1, <1>3, <1>4, WriteByteSound

(* What each of them wrote, ... *)
LEMMA WriteByteWrote ==
  ASSUME NEW m, Sound(m), NEW a \in Nat, NEW b \in Byte, NEW ok \in BOOLEAN
  PROVE  Wrote(m, mem_write_byte(m, a, b, ok), a, 1)
  BY WriteByteSound, WriteByteLogs, WriteByteAppends DEF Wrote, Sound

LEMMA WriteWordWrote ==
  ASSUME NEW m, Sound(m), NEW a \in Nat, NEW w \in Word, NEW ok \in BOOLEAN
  PROVE  Wrote(m, mem_write_word(m, a, w, ok), a, 2)
  BY WriteWordSound, WriteWordLogs, WriteWordAppends DEF Wrote, Sound

LEMMA WriteLongWrote ==
  ASSUME NEW m, Sound(m), NEW a \in Nat, NEW x \in Long, NEW ok \in BOOLEAN
  PROVE  Wrote(m, mem_write_long(m, a, x, ok), a, 4)
  BY WriteLongSound, WriteLongLogs, WriteLongAppends DEF Wrote, Sound

(* ... and what one after another did. *)
LEMMA WroteOn ==
  ASSUME NEW m, NEW n, NEW p, NEW a \in Nat, NEW j \in Nat, NEW k \in Nat,
         Sound(m), Wrote(m, n, a, j), Wrote(n, p, a + j, k)
  PROVE  Wrote(m, p, a, j + k)
<1>1. Sound(n) /\ Sound(p)
  BY DEF Wrote
<1>2. CASE j = 0
  <2>1. n = m /\ a + j = a /\ j + k = k
    BY <1>2 DEF Wrote
  <2> QED
    BY <2>1
<1>3. CASE k = 0
  <2>1. p = n /\ j + k = j
    BY <1>3 DEF Wrote
  <2> QED
    BY <2>1
<1>4. CASE j # 0 /\ k # 0
  <2>1. /\ Logged(m, n, a, j) /\ Appended(m, n)
        /\ Logged(n, p, a + j, k) /\ Appended(n, p)
    BY <1>4 DEF Wrote
  <2>2. Logged(m, p, a, j + k)
    <3>1. MemInv(m) /\ MemInv(n) /\ MemInv(p) /\ a + j \in Nat
      BY <1>1 DEF Sound
    <3>2. \A i \in 0 .. k - 1 : ((a + j) + i) % MEMORY_SIZE = (a + j + i) % MEMORY_SIZE
      OBVIOUS
    <3> QED
      BY <2>1, <3>1, <3>2, LoggedOn
  <2>3. Appended(m, p)
    BY <1>1, <2>1, InvLog, AppendedOn DEF Sound
  <2>4. j + k # 0
    BY <1>4
  <2> QED
    BY <1>1, <2>2, <2>3, <2>4 DEF Wrote
<1> QED
  BY <1>2, <1>3, <1>4

(* The cells of the new entries are those that were written. *)
LEMMA EntriesOfWrite ==
  ASSUME NEW m, NEW n, NEW a \in Nat, NEW k \in Nat, Sound(m), Wrote(m, n, a, k), ~n.lost
  PROVE  { n.changes[i].address : i \in Len(m.changes) + 1 .. Len(n.changes) } = Touched(a, k)
<1>1. Len(m.changes) \in Nat
  BY InvLog DEF Sound
<1>2. CASE k = 0
  <2>1. n = m /\ Touched(a, k) = {}
    BY <1>2 DEF Wrote, Touched
  <2> QED
    BY <1>1, <2>1
<1>3. CASE k # 0
  <2> DEFINE d == Len(m.changes)
             cell(i) == (a + i) % MEMORY_SIZE
  <2>1. /\ Len(n.changes) = d + k
        /\ \A i \in 0 .. k - 1 : n.changes[d + 1 + i].address = cell(i)
    BY <1>3 DEF Wrote, Sound, Logged
  <2>2. d \in Nat
    BY <1>1
  <2> HIDE DEF d
  <2>3. ASSUME NEW i \in d + 1 .. d + k
        PROVE  n.changes[i].address \in Touched(a, k)
    <3>1. i - d - 1 \in 0 .. k - 1 /\ d + 1 + (i - d - 1) = i
      BY <2>2
    <3>2. n.changes[i].address = cell(i - d - 1)
      BY <2>1, <3>1
    <3> QED
      BY <3>1, <3>2 DEF Touched
  <2>4. ASSUME NEW i \in 0 .. k - 1
        PROVE  \E h \in d + 1 .. d + k : n.changes[h].address = cell(i)
    <3>1. d + 1 + i \in d + 1 .. d + k
      BY <2>2
    <3> QED
      BY <2>1, <3>1
  <2>5. { n.changes[i].address : i \in d + 1 .. d + k } = { cell(i) : i \in 0 .. k - 1 }
    <3>1. Touched(a, k) = { cell(i) : i \in 0 .. k - 1 }
      BY DEF Touched
    <3> HIDE DEF cell
    <3> QED
      BY <2>3, <2>4, <3>1
  <2> QED
    BY <2>1, <2>5 DEF Touched, d
<1> QED
  BY <1>2, <1>3

(* A shorter write touches some of the cells of a longer one. *)
LEMMA TouchedGrows ==
  ASSUME NEW a \in Nat, NEW j \in Nat, NEW k \in Nat, j <= k
  PROVE  Touched(a, j) \subseteq Touched(a, k)
<1>1. 0 .. j - 1 \subseteq 0 .. k - 1
  OBVIOUS
<1> QED
  BY <1>1 DEF Touched

-----------------------------------------------------------------------------
(* The log has an entry by which the cell c got b, and two by which the cells *)
(* at address a got the word w.                                              *)
Noted(m, c, b) ==
  \E i \in DOMAIN m.changes : m.changes[i].address = c /\ m.changes[i].new_value = b

NotedWord(m, a, w) ==
  Noted(m, a % MEMORY_SIZE, w \div 256) /\ Noted(m, (a + 1) % MEMORY_SIZE, w % 256)

OneEntryEach(m) ==
  \A i, j \in DOMAIN m.changes : m.changes[i].address = m.changes[j].address => i = j

(* The log of a memory. *)
LEMMA LogDomain ==
  ASSUME NEW m, MemInv(m)
  PROVE  Len(m.changes) \in Nat /\ DOMAIN m.changes = 1 .. Len(m.changes)
<1>1. m.changes \in Seq(MemoryChange)
  BY InvLog
<1> QED
  BY <1>1

(* What a cell holds is noted, if anything was written to it, ... *)
LEMMA CellNoted ==
  ASSUME NEW m, MemInv(m), ~m.lost, NEW c \in Cell, NEW i \in DOMAIN m.changes,
         m.changes[i].address = c
  PROVE  Noted(m, c, m.memory[c])
<1> DEFINE k == Len(m.changes) + 1
<1>1. Len(m.changes) \in Nat /\ DOMAIN m.changes = 1 .. Len(m.changes)
  BY LogDomain
<1>2. HoldsBefore(m.changes, c, m.memory[c], k)
  BY DEF MemInv, LogExplains
<1>3. 1 .. k - 1 = DOMAIN m.changes
  BY <1>1
<1> HIDE DEF k
<1>4. PICK j \in 1 .. k - 1 : LastBefore(m.changes, c, j, k) /\ m.memory[c] = m.changes[j].new_value
  BY <1>2, <1>3 DEF HoldsBefore
<1> QED
  BY <1>3, <1>4 DEF LastBefore, Noted

(* ... and zero if nothing was. *)
LEMMA CellBlank ==
  ASSUME NEW m, MemInv(m), ~m.lost, NEW c \in Cell,
         \A i \in DOMAIN m.changes : m.changes[i].address # c
  PROVE  m.memory[c] = 0
<1> DEFINE k == Len(m.changes) + 1
<1>1. Len(m.changes) \in Nat /\ DOMAIN m.changes = 1 .. Len(m.changes)
  BY LogDomain
<1>2. HoldsBefore(m.changes, c, m.memory[c], k)
  BY DEF MemInv, LogExplains
<1>3. 1 .. k - 1 = DOMAIN m.changes
  BY <1>1
<1> HIDE DEF k
<1> QED
  BY <1>2, <1>3 DEF HoldsBefore, LastBefore

(* As long as the log is kept, what is noted stays noted. *)
LEMMA NotedKept ==
  ASSUME NEW m, NEW n, MemInv(m), MemInv(n), Appended(m, n), ~n.lost
  PROVE  /\ ~m.lost
         /\ \A c, b : Noted(m, c, b) => Noted(n, c, b)
         /\ \A a, w : NotedWord(m, a, w) => NotedWord(n, a, w)
         /\ OneEntryEach(n) => OneEntryEach(m)
<1>1. /\ Len(m.changes) \in Nat /\ DOMAIN m.changes = 1 .. Len(m.changes)
      /\ Len(n.changes) \in Nat /\ DOMAIN n.changes = 1 .. Len(n.changes)
  BY LogDomain
<1>2. ~m.lost /\ Len(m.changes) <= Len(n.changes)
      /\ \A i \in 1 .. Len(m.changes) : n.changes[i] = m.changes[i]
  BY DEF Appended
<1>3. \A i \in DOMAIN m.changes : i \in DOMAIN n.changes /\ n.changes[i] = m.changes[i]
  BY <1>1, <1>2
<1>4. \A c, b : Noted(m, c, b) => Noted(n, c, b)
  BY <1>3 DEF Noted
<1>5. \A a, w : NotedWord(m, a, w) => NotedWord(n, a, w)
  BY <1>4 DEF NotedWord
<1> QED
  BY <1>2, <1>3, <1>4, <1>5 DEF OneEntryEach

(* A cell that one entry speaks of holds what that says. *)
LEMMA NotedRead ==
  ASSUME NEW m, MemInv(m), ~m.lost, OneEntryEach(m), NEW c \in Cell, NEW b, Noted(m, c, b)
  PROVE  m.memory[c] = b
<1>1. PICK i \in DOMAIN m.changes : m.changes[i].address = c /\ m.changes[i].new_value = b
  BY DEF Noted
<1>2. PICK j \in DOMAIN m.changes :
        m.changes[j].address = c /\ m.changes[j].new_value = m.memory[c]
  BY <1>1, CellNoted DEF Noted
<1>3. i = j
  BY <1>1, <1>2 DEF OneEntryEach
<1> QED
  BY <1>1, <1>2, <1>3

(* The two cells of a word. *)
LEMMA CellsOfWord ==
  ASSUME NEW a \in Nat
  PROVE  /\ a % MEMORY_SIZE \in Cell /\ (a + 1) % MEMORY_SIZE \in Cell
         /\ Touched(a, 2) = {a % MEMORY_SIZE, (a + 1) % MEMORY_SIZE}
<1>1. 0 \in 0 .. 3 /\ 1 \in 0 .. 3 /\ a + 0 = a
  OBVIOUS
<1>2. a % MEMORY_SIZE \in Cell /\ (a + 1) % MEMORY_SIZE \in Cell
  BY <1>1, CellsApart
<1>3. 0 .. 2 - 1 = {0, 1}
  OBVIOUS
<1> QED
  BY <1>1, <1>2, <1>3 DEF Touched

LEMMA WordRead ==
  ASSUME NEW m, MemInv(m), ~m.lost, OneEntryEach(m), NEW a \in Nat, NEW w \in Word,
         NotedWord(m, a, w)
  PROVE  mem_read_word(m, a) = w
<1>1. m.memory[a % MEMORY_SIZE] = w \div 256 /\ m.memory[(a + 1) % MEMORY_SIZE] = w % 256
  BY CellsOfWord, NotedRead DEF NotedWord
<1>2. 256 * (w \div 256) + (w % 256) = w
  BY BytesOfWord
<1> QED
  BY <1>1, <1>2 DEF mem_read_word, mem_read_byte

LEMMA BlankRead ==
  ASSUME NEW m, MemInv(m), ~m.lost, NEW a \in Nat,
         \A i \in DOMAIN m.changes : m.changes[i].address \notin Touched(a, 2)
  PROVE  mem_read_word(m, a) = 0
<1>1. m.memory[a % MEMORY_SIZE] = 0 /\ m.memory[(a + 1) % MEMORY_SIZE] = 0
  BY CellsOfWord, CellBlank
<1> QED
  BY <1>1 DEF mem_read_word, mem_read_byte

(* A word that is written is noted. *)
LEMMA WordNoted ==
  ASSUME NEW m, Sound(m), NEW a \in Nat, NEW w \in Word, NEW ok \in BOOLEAN,
         NEW n, n = mem_write_word(m, a, w, ok), ~n.lost
  PROVE  NotedWord(n, a, w)
<1>1. Wrote(m, n, a, 2)
  BY WriteWordWrote
<1>2. Sound(n) /\ Logged(m, n, a, 2)
  BY <1>1 DEF Wrote
<1>3. MemInv(m) /\ MemInv(n) /\ ~n.faulted
  BY <1>2 DEF Sound
<1>4. n.memory[a % MEMORY_SIZE] = w \div 256 /\ n.memory[(a + 1) % MEMORY_SIZE] = w % 256
  BY <1>3, WriteWordStores
<1>5. /\ Len(n.changes) = Len(m.changes) + 2
      /\ \A i \in 0 .. 2 - 1 : n.changes[Len(m.changes) + 1 + i].address = (a + i) % MEMORY_SIZE
  BY <1>2, <1>3 DEF Logged
<1>6. \A c \in Touched(a, 2) : \E i \in DOMAIN n.changes : n.changes[i].address = c
  <2>1. /\ Len(m.changes) \in Nat
        /\ Len(n.changes) \in Nat /\ DOMAIN n.changes = 1 .. Len(n.changes)
    BY <1>3, LogDomain
  <2>2. \A i \in 0 .. 2 - 1 : Len(m.changes) + 1 + i \in DOMAIN n.changes
    BY <1>5, <2>1
  <2> QED
    BY <1>5, <2>2 DEF Touched
<1>7. \A c \in Touched(a, 2) : c \in Cell /\ Noted(n, c, n.memory[c])
  BY <1>3, <1>6, CellsOfWord, CellNoted
<1> QED
  BY <1>4, <1>7, CellsOfWord DEF NotedWord

(* A long that is written is noted, as its two words. *)
LEMMA LongNoted ==
  ASSUME NEW m, Sound(m), NEW a \in Nat, NEW x \in Long, NEW ok \in BOOLEAN,
         NEW n, n = mem_write_long(m, a, x, ok), ~n.lost
  PROVE  NotedWord(n, a, x.hi) /\ NotedWord(n, a + 2, x.lo)
<1>1. Wrote(m, n, a, 4)
  BY WriteLongWrote
<1>2. Sound(n) /\ Logged(m, n, a, 4)
  BY <1>1 DEF Wrote
<1>3. MemInv(m) /\ MemInv(n) /\ ~n.faulted
  BY <1>2 DEF Sound
<1>4. /\ n.memory[a % MEMORY_SIZE] = x.hi \div 256 /\ n.memory[(a + 1) % MEMORY_SIZE] = x.hi % 256
      /\ n.memory[(a + 2) % MEMORY_SIZE] = x.lo \div 256 /\ n.memory[(a + 3) % MEMORY_SIZE] = x.lo % 256
  BY <1>3, WriteLongStores
<1>5. /\ Len(n.changes) = Len(m.changes) + 4
      /\ \A i \in 0 .. 4 - 1 : n.changes[Len(m.changes) + 1 + i].address = (a + i) % MEMORY_SIZE
  BY <1>2, <1>3 DEF Logged
<1>6. \A c \in Touched(a, 4) : \E i \in DOMAIN n.changes : n.changes[i].address = c
  <2>1. /\ Len(m.changes) \in Nat
        /\ Len(n.changes) \in Nat /\ DOMAIN n.changes = 1 .. Len(n.changes)
    BY <1>3, LogDomain
  <2>2. \A i \in 0 .. 4 - 1 : Len(m.changes) + 1 + i \in DOMAIN n.changes
    BY <1>5, <2>1
  <2> QED
    BY <1>5, <2>2 DEF Touched
<1>7. \A i \in 0 .. 3 : (a + i) % MEMORY_SIZE \in Touched(a, 4) /\ (a + i) % MEMORY_SIZE \in Cell
  BY CellsApart DEF Touched
<1>8. \A i \in 0 .. 3 : Noted(n, (a + i) % MEMORY_SIZE, n.memory[(a + i) % MEMORY_SIZE])
  BY <1>3, <1>6, <1>7, CellNoted
<1>9. 0 \in 0 .. 3 /\ 1 \in 0 .. 3 /\ 2 \in 0 .. 3 /\ 3 \in 0 .. 3 /\ a + 0 = a /\ (a + 2) + 1 = a + 3
  OBVIOUS
<1> QED
  BY <1>4, <1>8, <1>9 DEF NotedWord

=============================================================================
