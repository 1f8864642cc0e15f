---------------------------- MODULE SimulatorProofs ----------------------------
(***************************************************************************)
(* The whole program, for every command line and file, every size of the     *)
(* memory and of the tables, and wherever an allocation fails.               *)
(*                                                                         *)
(* One invariant, SimInv, says that main, the loader and the executor hand   *)
(* each other what the proofs about each of them assume.  A second, TraceInv,*)
(* has the addresses that the first pass went through as a function of the   *)
(* lines: the labels that were entered have its values, and so has the       *)
(* address of the second pass from the first ORG on.  A third, CodeInv, has   *)
(* the code at these addresses: the source map finds each line there, the log *)
(* of the memory says what it is, and the program counter is at one of them.  *)
(***************************************************************************)
EXTENDS Simulator, LoaderProofs, ExecutorProofs

Passes == {"first pass", "second pass"}

(* The symbol table, nodes without a name included. *)
SymbolNode == [key : Names \cup {NoName}, value : Nat]

(* What is left of the command line. *)
CommandInv ==
  /\ options \in Seq(Option) /\ TakenFile(file)
  /\ start_address \in Nat

(* Until the load is over only writes have made the memory. *)
LoadedInv == phase \in Passes \cup {"options"} => Sound(mem)

PassInv ==
  phase \in Passes =>
    /\ source \in Seq(Line) /\ \A n \in DOMAIN source : TakenLine(source[n])
    /\ line \in Nat \ {0} /\ current_address \in Nat
    /\ table \in [Buckets -> Seq(SymbolNode)]

SimInv == CommandInv /\ LoadedInv /\ PassInv /\ ExecInv

-----------------------------------------------------------------------------
(* A name that is looked up is found at a number, or not. *)
LEMMA TableLooked ==
  ASSUME table \in [Buckets -> Seq(SymbolNode)]
  PROVE  Looked
<1>1. SUFFICES ASSUME NEW name \in Names
               PROVE  find_symbol(name) \in Nat \cup {NoSymbol}
  BY DEF Looked
<1> DEFINE chain == ChainOf(name)
<1>2. chain \in Seq(SymbolNode)
  BY SymbolIndexType DEF ChainOf
<1>3. find_symbol(name) = Found(chain, name, NoSymbol)
  BY DEF find_symbol
<1> HIDE DEF chain
<1>4. CASE \E i \in DOMAIN chain : Stops(chain, name, i)
  <2>1. PICK i \in DOMAIN chain : Stops(chain, name, i)
    BY <1>4
  <2>2. Found(chain, name, NoSymbol) = chain[i].value
    BY <1>2, <2>1, FoundWhereStops
  <2>3. chain[i] \in SymbolNode
    BY <1>2, <2>1
  <2> QED
    BY <1>3, <2>2, <2>3 DEF SymbolNode
<1>5. CASE ~ \E i \in DOMAIN chain : Stops(chain, name, i)
  BY <1>3, <1>5 DEF Found
<1> QED
  BY <1>4, <1>5

(* An address that ORG takes is a number. *)
LEMMA OrgType ==
  ASSUME NEW l, TakenLine(l), l.base = "ORG"
  PROVE  OrgAddress(l) \in Nat
<1>1. l.operands[1] \in DOMAIN Hexadecimal
  BY DEF TakenLine
<1>2. Hexadecimal[l.operands[1]] \in Long
  BY <1>1, LoaderAssumption
<1> QED
  BY <1>2, AsNumberType DEF OrgAddress

(* Where a pass goes on. *)
LEMMA NextType ==
  ASSUME current_address \in Nat, NEW l, TakenLine(l)
  PROVE  NextAddress(l) \in Nat
<1>1. get_instruction_size(l) \in Nat
  BY SizeTypes
<1>2. l.base = "ORG" => OrgAddress(l) \in Nat
  BY OrgType
<1>3. current_address + get_instruction_size(l) \in Nat
  BY <1>1
<1> QED
  BY <1>2, <1>3 DEF NextAddress

(* The line that a pass reads. *)
LEMMA ThisTaken ==
  ASSUME PassInv, NEW pass \in Passes, Reading(pass)
  PROVE  line \in DOMAIN source /\ TakenLine(This)
<1>1. phase \in Passes /\ line <= Len(source)
  BY DEF Reading
<1>2. /\ source \in Seq(Line) /\ \A n \in DOMAIN source : TakenLine(source[n])
      /\ line \in Nat \ {0}
  BY <1>1 DEF PassInv
<1>3. line \in DOMAIN source
  BY <1>1, <1>2
<1> QED
  BY <1>2, <1>3 DEF This

(* A label that is entered stays in the table's type. *)
LEMMA EnterType ==
  ASSUME table \in [Buckets -> Seq(SymbolNode)], current_address \in Nat,
         NEW label \in Labels \cup {NoLabel}, EnterLabel(label)
  PROVE  (table \in [Buckets -> Seq(SymbolNode)])'
<1>1. CASE UNCHANGED symbols
  BY <1>1 DEF symbols
<1>2. ASSUME NEW stored_name \in {label, NoName}, label # NoLabel,
             add_symbol(label, current_address, stored_name)
      PROVE  (table \in [Buckets -> Seq(SymbolNode)])'
  <2>1. label \in Names
    BY <1>2, LoaderAssumption DEF Grammar!Identifiers
  <2> DEFINE b0 == hash_index(label)
             new == Pushed(stored_name, current_address, table[b0])
  <2>2. b0 \in Buckets
    BY <2>1, SymbolIndexType
  <2>3. table' = [table EXCEPT ![b0] = new]
    BY <1>2, AddedSymbol
  <2>4. [key |-> stored_name, value |-> current_address] \in SymbolNode
    BY <2>1 DEF SymbolNode
  <2> HIDE DEF b0
  <2>5. new \in Seq(SymbolNode)
    BY <2>2, <2>4, PushedChain
  <2> HIDE DEF new
  <2> QED
    BY <2>2, <2>3, <2>5
<1> QED
  BY <1>1, <1>2 DEF EnterLabel

(* What the second pass writes for the line it reads. *)
LEMMA ThisWrites ==
  ASSUME SimInv, perform_second_pass, ~Skipped(This)
  PROVE  /\ Looked /\ current_address \in Nat /\ Sound(mem) /\ TakenLine(This)
         /\ Allocates \in BOOLEAN /\ mem' = Encoded(mem, This, current_address, Allocates)
         /\ \E k \in Nat : /\ Wrote(mem, mem', current_address, k)
                           /\ ~IsMoveLine(This) => StaysInRoom(This, k)
<1>1. Reading("second pass") /\ phase \in Passes /\ "second pass" \in Passes
  BY DEF perform_second_pass, Reading, Passes
<1>2. /\ current_address \in Nat /\ table \in [Buckets -> Seq(SymbolNode)] /\ Sound(mem)
      /\ PassInv
  BY <1>1 DEF SimInv, PassInv, LoadedInv
<1>3. TakenLine(This)
  BY <1>1, <1>2, ThisTaken
<1>4. Looked
  BY <1>2, TableLooked
<1>5. Allocates \in BOOLEAN
  BY DEF Allocates
<1>6. This.base # "ORG" => ~SyntaxError(This)
  BY DEF perform_second_pass, ReadsOn, Exits
<1>7. mem' = Encoded(mem, This, current_address, Allocates)
  BY DEF perform_second_pass
<1>8. \E k \in Nat : /\ Wrote(mem, Encoded(mem, This, current_address, Allocates), current_address, k)
                     /\ ~IsMoveLine(This) => StaysInRoom(This, k)
  BY <1>2, <1>3, <1>4, <1>5, <1>6, LineWrites
<1> QED
  BY <1>2, <1>3, <1>4, <1>5, <1>7, <1>8

-----------------------------------------------------------------------------
(* The invariant holds at first, ... *)
LEMMA InitialInv == SimInit => SimInv
<1> SUFFICES ASSUME SimInit PROVE SimInv
  OBVIOUS
<1>1. CommandInv
  BY SimulatorAssumption DEF SimInit, CommandInv
<1>2. LoadedInv /\ PassInv
  BY InitSound DEF SimInit, LoadedInv, PassInv, Passes
<1>3. ExecInv
  <2>1. cpu_init \in CPU
    BY ZeroLongType DEF cpu_init, CPU, StatusRegister
  <2>2. 0 \in 0 .. MAX_EXECUTION_CYCLES
    BY SMT, ExecutorAssumption
  <2> QED
    BY <2>1, <2>2, InitMemInv DEF SimInit, ExecInv
<1> QED
  BY <1>1, <1>2, <1>3 DEF SimInv

(* ... a step of the first pass keeps it, ... *)
LEMMA FirstPassKeeps ==
  ASSUME SimInv, perform_first_pass, UNCHANGED <<options, file, cpu, running, cycles>>
  PROVE  SimInv'
<1>1. /\ Reading("first pass") /\ phase = "first pass" /\ phase \in Passes
      /\ "first pass" \in Passes
  BY DEF perform_first_pass, Reading, Passes
<1>2. /\ source \in Seq(Line) /\ \A n \in DOMAIN source : TakenLine(source[n])
      /\ line \in Nat \ {0} /\ current_address \in Nat
      /\ table \in [Buckets -> Seq(SymbolNode)] /\ PassInv /\ start_address \in Nat
      /\ Sound(mem) /\ ExecInv /\ CommandInv
  BY <1>1 DEF SimInv, PassInv, LoadedInv, CommandInv
<1>3. TakenLine(This) /\ This.label \in Labels \cup {NoLabel}
  <2>1. TakenLine(This)
    BY <1>1, <1>2, ThisTaken
  <2> QED
    BY <2>1 DEF TakenLine, Line
<1>4. /\ source' = source /\ phase' = phase /\ line' = line + 1
      /\ mem' = mem /\ UNCHANGED <<options, file, cpu, running, cycles>>
  BY DEF perform_first_pass, NextLine
<1>5. /\ (table \in [Buckets -> Seq(SymbolNode)])'
      /\ current_address' \in Nat /\ start_address' \in Nat
  <2>1. CASE Skipped(This)
    BY <1>2, <2>1 DEF perform_first_pass, symbols
  <2>2. CASE ~Skipped(This)
    <3>1. EnterLabel(This.label) /\ NoteOrg(This) /\ current_address' = NextAddress(This)
      BY <2>2 DEF perform_first_pass
    <3>2. This.base = "ORG" => OrgAddress(This) \in Nat
      BY <1>3, OrgType
    <3>3. start_address' \in Nat
      BY <1>2, <3>1, <3>2 DEF NoteOrg
    <3> QED
      BY <1>2, <1>3, <3>1, <3>3, EnterType, NextType
  <2> QED
    BY <2>1, <2>2
<1>6. CommandInv'
  BY <1>2, <1>4, <1>5 DEF CommandInv
<1>7. LoadedInv' /\ ExecInv'
  BY <1>2, <1>4 DEF LoadedInv, ExecInv
<1>8. PassInv'
  <2>1. line' \in Nat \ {0}
    BY <1>2, <1>4
  <2>2. (source \in Seq(Line) /\ \A n \in DOMAIN source : TakenLine(source[n]))'
    BY <1>2, <1>4
  <2> QED
    BY <1>5, <2>1, <2>2 DEF PassInv
<1> QED
  BY <1>6, <1>7, <1>8 DEF SimInv

(* ... and so does one of the second, ... *)
LEMMA SecondPassKeeps ==
  ASSUME SimInv, perform_second_pass, UNCHANGED <<options, file, cpu, running, cycles>>
  PROVE  SimInv'
<1>1. /\ Reading("second pass") /\ phase = "second pass" /\ phase \in Passes
      /\ "second pass" \in Passes
  BY DEF perform_second_pass, Reading, Passes
<1>2. /\ source \in Seq(Line) /\ \A n \in DOMAIN source : TakenLine(source[n])
      /\ line \in Nat \ {0} /\ current_address \in Nat
      /\ table \in [Buckets -> Seq(SymbolNode)] /\ PassInv /\ start_address \in Nat
      /\ Sound(mem) /\ ExecInv /\ CommandInv
  BY <1>1 DEF SimInv, PassInv, LoadedInv, CommandInv
<1>3. TakenLine(This)
  BY <1>1, <1>2, ThisTaken
<1>4. /\ source' = source /\ phase' = phase /\ line' = line + 1 /\ table' = table
      /\ start_address' = start_address
      /\ UNCHANGED <<options, file, cpu, running, cycles>>
  BY DEF perform_second_pass, NextLine, symbols
<1>5. Sound(mem') /\ current_address' \in Nat
  <2>1. CASE Skipped(This)
    BY <1>2, <2>1 DEF perform_second_pass
  <2>2. CASE ~Skipped(This)
    <3>1. current_address' = NextAddress(This)
      BY <2>2 DEF perform_second_pass
    <3>2. \E k : Wrote(mem, mem', current_address, k)
      BY <2>2, ThisWrites
    <3> QED
      BY <1>2, <1>3, <3>1, <3>2, NextType DEF Wrote
  <2> QED
    BY <2>1, <2>2
<1>6. CommandInv'
  BY <1>2, <1>4 DEF CommandInv
<1>7. LoadedInv' /\ ExecInv'
  BY <1>2, <1>4, <1>5 DEF LoadedInv, ExecInv, Sound, MemInv
<1>8. PassInv'
  <2>1. line' \in Nat \ {0}
    BY <1>2, <1>4
  <2>2. (source \in Seq(Line) /\ \A n \in DOMAIN source : TakenLine(source[n]))'
    BY <1>2, <1>4
  <2>3. (table \in [Buckets -> Seq(SymbolNode)])'
    BY <1>2, <1>4
  <2> QED
    BY <1>5, <2>1, <2>2, <2>3 DEF PassInv
<1> QED
  BY <1>6, <1>7, <1>8 DEF SimInv

(* ... and every other step of a load. *)
LEMMA LoadKeeps ==
  ASSUME SimInv, LoadNext, UNCHANGED <<options, file, cpu, running, cycles>>
  PROVE  SimInv'
<1>1. CASE perform_first_pass
  BY <1>1, FirstPassKeeps
<1>2. CASE perform_second_pass
  BY <1>2, SecondPassKeeps
<1>3. CASE Rewind
  <2>1. phase \in Passes /\ phase' \in Passes
    BY <1>3 DEF Rewind, Passes
  <2>2. current_address' \in Nat /\ line' \in Nat \ {0}
    <3>1. StrayAddresses \subseteq Nat
      BY LoaderAssumption
    <3>2. current_address' \in StrayAddresses /\ line' = 1
      BY <1>3 DEF Rewind
    <3> QED
      BY <3>1, <3>2
  <2>3. UNCHANGED <<source, table, start_address, mem>>
    BY <1>3 DEF Rewind, symbols
  <2>4. (source \in Seq(Line) /\ \A n \in DOMAIN source : TakenLine(source[n]))'
    BY <2>1, <2>3 DEF SimInv, PassInv
  <2>5. (table \in [Buckets -> Seq(SymbolNode)])'
    BY <2>1, <2>3 DEF SimInv, PassInv
  <2>6. PassInv'
    BY <2>2, <2>4, <2>5 DEF PassInv
  <2>7. CommandInv' /\ LoadedInv' /\ ExecInv'
    BY <2>1, <2>3 DEF SimInv, CommandInv, LoadedInv, ExecInv
  <2> QED
    BY <2>6, <2>7 DEF SimInv
<1>4. CASE load_file_returns \/ LoadExits
  <2>1. phase' \in {"loaded", "exited"} /\ UNCHANGED <<start_address, mem>>
    BY <1>4 DEF load_file_returns, LoadExits
  <2>2. phase' \notin Passes \cup {"options"}
    BY <2>1 DEF Passes
  <2> QED
    BY <2>1, <2>2 DEF SimInv, CommandInv, LoadedInv, PassInv, ExecInv
<1>5. CASE LoadFaults
  <2>1. /\ UNCHANGED <<source, phase, line, current_address, start_address, mem>>
        /\ table' = table
    BY <1>5 DEF LoadFaults, Fault, assembler
  <2> QED
    BY <2>1 DEF SimInv, CommandInv, LoadedInv, PassInv, ExecInv
<1> QED
  BY <1>1, <1>2, <1>3, <1>4, <1>5 DEF LoadNext

(* The program that main holds is five words. *)
LEMMA HardcodedKeeps ==
  ASSUME SimInv, HardcodedProgram
  PROVE  Sound(mem')
<1>1. /\ phase = "options" /\ Sound(mem) /\ start_address \in Nat
  BY DEF HardcodedProgram, NoFileGiven, Becomes, SimInv, LoadedInv, CommandInv
<1>2. \A i \in 1 .. 5 : hardcoded_program[i] \in Word
  <2>1. /\ \h303C \in Word /\ 3 \in Word /\ \h5340 \in Word /\ \h66FC \in Word /\ \h4E75 \in Word
    BY BoundedWord
  <2> QED
    BY <2>1 DEF hardcoded_program
<1>3. ASSUME NEW m, Sound(m), NEW i \in 1 .. 5
      PROVE  Sound(HardcodedWord(m, i))
  <2>1. start_address + 2 * (i - 1) \in Nat /\ TRUE \in BOOLEAN
    BY <1>1
  <2> QED
    BY <1>2, <1>3, <2>1, WriteWordSound DEF HardcodedWord
<1> DEFINE moved == HardcodedWord(HardcodedWord(mem, 1), 2)
           looped == HardcodedWord(HardcodedWord(moved, 3), 4)
<1>4. Sound(moved)
  BY <1>1, <1>3
<1>5. mem' = HardcodedWord(looped, 5)
  BY DEF HardcodedProgram
<1> HIDE DEF moved
<1>6. Sound(looped)
  BY <1>3, <1>4
<1> HIDE DEF looped
<1> QED
  BY <1>3, <1>5, <1>6

(* The invariant is inductive. *)
LEMMA SimInvKept == SimInv /\ [SimNext]_process => SimInv'
<1> SUFFICES ASSUME SimInv, [SimNext]_process PROVE SimInv'
  OBVIOUS
<1>1. CommandInv /\ LoadedInv /\ PassInv /\ ExecInv
  BY DEF SimInv
<1>2. CASE SetAddress
  <2>1. Head(options) \in Option /\ Tail(options) \in Seq(Option)
    BY <1>1, <1>2 DEF SetAddress, CommandInv
  <2>2. CommandInv'
    BY <1>1, <1>2, <2>1 DEF SetAddress, CommandInv, Option
  <2> QED
    BY <1>1, <1>2, <2>2 DEF SetAddress, SimInv, LoadedInv, PassInv, ExecInv, symbols, vars
<1>3. CASE LoadFile
  <2>1. /\ phase = "options" /\ UNCHANGED <<options, file, cpu, running, cycles, start_address, mem>>
        /\ source' = file.source /\ line' = 1 /\ current_address' = start_address
        /\ table' = EmptyTable
    BY <1>3 DEF LoadFile, load_file
  <2>2. file \in File /\ \A n \in DOMAIN file.source : TakenLine(file.source[n])
    BY <1>1, <1>3 DEF LoadFile, CommandInv, TakenFile
  <2>3. file.source \in Seq(Line)
    BY <2>2 DEF File
  <2>4. EmptyTable \in [Buckets -> Seq(SymbolNode)]
    BY DEF EmptyTable
  <2>5. PassInv'
    BY <1>1, <2>1, <2>2, <2>3, <2>4 DEF PassInv, CommandInv
  <2>6. CommandInv' /\ LoadedInv' /\ ExecInv'
    BY <1>1, <2>1 DEF CommandInv, LoadedInv, ExecInv
  <2> QED
    BY <2>5, <2>6 DEF SimInv
<1>4. CASE ~mem.faulted /\ LoadNext /\ UNCHANGED <<options, file, cpu, running, cycles>>
  BY <1>4, LoadKeeps
<1>5. CASE Usage \/ LoadFails \/ CleanUp
  <2>1. /\ UNCHANGED <<file, start_address, mem, cpu, running, cycles>> /\ phase' = "exited"
        /\ options' = options
    BY <1>5 DEF Usage, LoadFails, CleanUp, Becomes, vars
  <2> QED
    BY <1>1, <2>1 DEF SimInv, CommandInv, LoadedInv, PassInv, ExecInv, Passes
<1>6. CASE HardcodedProgram
  <2>1. /\ UNCHANGED <<file, options, start_address, cpu, running, cycles>> /\ phase' = "mapping"
    BY <1>6 DEF HardcodedProgram, NoFileGiven, Becomes
  <2>2. Sound(mem')
    BY <1>6, HardcodedKeeps
  <2>3. ExecInv'
    BY <1>1, <2>1, <2>2 DEF ExecInv, Sound, MemInv
  <2> QED
    BY <1>1, <2>1, <2>3 DEF SimInv, CommandInv, LoadedInv, PassInv, Passes
<1>7. CASE HardcodedLine
  <2>1. /\ UNCHANGED <<file, options, start_address, mem, cpu, running, cycles>>
        /\ phase' \in {"mapping", "loaded"}
    BY <1>7 DEF HardcodedLine, Becomes, vars
  <2> QED
    BY <1>1, <2>1 DEF SimInv, CommandInv, LoadedInv, PassInv, ExecInv, Passes
<1>8. CASE Start
  <2>1. /\ UNCHANGED <<file, options, start_address, mem>> /\ phase' = "executing"
        /\ cpu' = [cpu_pulse_reset EXCEPT !.pc = FromNumber(start_address)]
        /\ running' = TRUE /\ cycles' = 0
    BY <1>8 DEF Start, Becomes
  <2>2. FromNumber(start_address) \in Long
    BY <1>1, FromNumberType DEF CommandInv
  <2>3. cpu' \in CPU
    BY <2>1, <2>2, ResetType, SetPc
  <2>4. 0 \in 0 .. MAX_EXECUTION_CYCLES
    BY SMT, ExecutorAssumption
  <2>5. ExecInv'
    BY <1>1, <2>1, <2>3, <2>4 DEF ExecInv, MemInv
  <2> QED
    BY <1>1, <2>1, <2>5 DEF SimInv, CommandInv, LoadedInv, PassInv, Passes
<1>9. CASE Execute
  <2>1. /\ UNCHANGED <<file, options, start_address>> /\ phase' = phase /\ phase = "executing"
        /\ ExecNext
    BY <1>9 DEF Execute, assembler
  <2>2. ExecInv'
    BY <1>1, <2>1, ExecInvStep
  <2> QED
    BY <1>1, <2>1, <2>2 DEF SimInv, CommandInv, LoadedInv, PassInv, Passes
<1>10. CASE Dump
  <2>1. /\ UNCHANGED <<file, options, start_address, cpu, running, cycles>> /\ phase' = "dumped"
    BY <1>10 DEF Dump, Becomes
  <2>2. MemInv(mem')
    BY <1>1, <1>10, DumpKeeps DEF Dump, ExecInv
  <2>3. ExecInv'
    BY <1>1, <2>1, <2>2 DEF ExecInv, MemInv
  <2> QED
    BY <1>1, <2>1, <2>3 DEF SimInv, CommandInv, LoadedInv, PassInv, Passes
<1>11. CASE UNCHANGED process
  <2>1. UNCHANGED <<file, options, start_address, source, phase, line, current_address, table,
                    mem, cpu, running, cycles>>
    BY <1>11 DEF process, assembler, symbols, vars
  <2> QED
    BY <1>1, <2>1 DEF SimInv, CommandInv, LoadedInv, PassInv, ExecInv
<1> QED
  BY <1>2, <1>3, <1>4, <1>5, <1>6, <1>7, <1>8, <1>9, <1>10, <1>11 DEF SimNext

(* So it holds throughout. *)
LEMMA SimInvariant == SimSpec => []SimInv
  BY InitialInv, SimInvKept, PTL DEF SimSpec

(* From the command line to the end of the process the registers keep their  *)
(* widths, the loop its bound, and the memory, which main, the loader and    *)
(* the program change only through memory.c, is inside its log's buffer,     *)
(* explained by that log and recoverable from it.                            *)
THEOREM TheProgramKeepsItsLog ==
  SimSpec => [](ExecTypeOK /\ BufferFits /\ LogExplainsMemory /\ LogUndoesMemory)
<1>1. SimInv => ExecTypeOK /\ BufferFits /\ LogExplainsMemory /\ LogUndoesMemory
  BY DEF SimInv, ExecInv, MemInv, ExecTypeOK, BufferFits, LogExplainsMemory, LogUndoesMemory
<1> QED
  BY <1>1, SimInvariant, PTL

-----------------------------------------------------------------------------
(* No entry is added where nothing is written. *)
LEMMA NothingWritten ==
  ASSUME NEW m, Sound(m)
  PROVE  { m.changes[i].address : i \in Len(m.changes) + 1 .. Len(m.changes) } = {}
<1>1. Len(m.changes) \in Nat
  BY InvLog DEF Sound
<1>2. Len(m.changes) + 1 .. Len(m.changes) = {}
  BY <1>1
<1> QED
  BY <1>2

(* The line that the second pass has read keeps to its room. *)
LEMMA LineKeepsApart ==
  ASSUME SimInv, perform_second_pass, ~mem'.lost, ~Wide(This),
         NEW written, written = { mem'.changes[i].address :
                                    i \in Len(mem.changes) + 1 .. Len(mem'.changes) },
         NEW room, room = Touched(current_address, current_address' - current_address)
  PROVE  written \subseteq room /\ (IsMoveLine(This) => written = room)
<1>1. CASE Skipped(This)
  <2>1. mem' = mem /\ phase = "second pass"
    BY <1>1 DEF perform_second_pass, Reading
  <2>2. ~IsMoveLine(This)
    BY <1>1, <2>1 DEF Skipped, IsMoveLine
  <2>3. Sound(mem)
    BY <2>1 DEF SimInv, LoadedInv, Passes
  <2>4. written = {}
    BY <2>1, <2>3, NothingWritten
  <2> QED
    BY <2>2, <2>4
<1>2. CASE ~Skipped(This)
  <2>1. /\ Looked /\ current_address \in Nat /\ Sound(mem) /\ TakenLine(This)
        /\ Allocates \in BOOLEAN /\ mem' = Encoded(mem, This, current_address, Allocates)
        /\ \E k \in Nat : /\ Wrote(mem, mem', current_address, k)
                          /\ ~IsMoveLine(This) => StaysInRoom(This, k)
    BY <1>2, ThisWrites
  <2>2. /\ phase = "second pass" /\ current_address' = NextAddress(This)
    BY <1>2 DEF perform_second_pass, Reading
  <2>3. This.base # ""
    BY <1>2, <2>2 DEF Skipped
  <2> DEFINE size == get_instruction_size(This)
  <2>4. size \in Nat
    BY SizeTypes
  <2>5. This.base # "ORG" => room = Touched(current_address, size)
    <3>1. This.base # "ORG" => current_address' = current_address + size
      BY <2>2, <2>3 DEF NextAddress
    <3> HIDE DEF size
    <3> QED
      BY <2>1, <2>4, <3>1
  <2> HIDE DEF size
  <2>6. CASE IsMoveLine(This)
    <3>1. This.operands \in Seq(STRING) /\ This.base # "ORG"
      BY <2>1, <2>6 DEF TakenLine, Line, IsMoveLine
    <3>2. DestOf(This).op.mode # "IMMEDIATE"
      BY <2>6 DEF Wide
    <3>3. \/ SourceOf(This).op.mode # "IMMEDIATE" \/ This.size = "L"
          \/ Resolved(SourceOf(This).op, current_address).value.hi = 0
      BY <2>6 DEF Wide
    <3>4. Wrote(mem, mem', current_address, size)
      BY <2>1, <2>6, <3>1, <3>2, <3>3, MoveFillsItsRoom DEF size
    <3>5. written = Touched(current_address, size)
      <4>1. { mem'.changes[i].address : i \in Len(mem.changes) + 1 .. Len(mem'.changes) }
              = Touched(current_address, size)
        <5>1. Wrote(mem, mem', current_address, size) /\ Sound(mem) /\ current_address \in Nat
          BY <2>1, <3>4
        <5> QED
          BY <2>4, <5>1, EntriesOfWrite
      <4> QED
        BY <4>1
    <3> QED
      BY <2>5, <3>1, <3>5
  <2>7. CASE ~IsMoveLine(This)
    <3>1. PICK k \in Nat : Wrote(mem, mem', current_address, k) /\ StaysInRoom(This, k)
      BY <2>1, <2>7
    <3>2. written = Touched(current_address, k)
      <4>1. Wrote(mem, mem', current_address, k) /\ Sound(mem) /\ current_address \in Nat
        BY <2>1, <3>1
      <4>2. { mem'.changes[i].address : i \in Len(mem.changes) + 1 .. Len(mem'.changes) }
              = Touched(current_address, k)
        BY <4>1, EntriesOfWrite
      <4> QED
        BY <4>2
    <3>3. CASE This.base = "ORG"
      <4>1. Touched(current_address, k) = {}
        BY <3>1, <3>3 DEF StaysInRoom, Touched
      <4> QED
        BY <2>7, <3>2, <4>1
    <3>4. CASE This.base # "ORG"
      <4>1. k <= size
        BY <3>1, <3>4 DEF StaysInRoom, size
      <4> QED
        BY <2>1, <2>4, <2>5, <2>7, <3>1, <3>2, <3>4, <4>1, TouchedGrows
    <3> QED
      BY <3>3, <3>4
  <2> QED
    BY <2>6, <2>7
<1> QED
  BY <1>1, <1>2

(* A number's successor is another one. *)
LEMMA AnotherNumber == \A n \in Nat : n + 1 # n
  OBVIOUS

(* Only the second pass goes on to a next line while it lasts. *)
LEMMA OnlyThePassReads ==
  ASSUME SimInv, [SimNext]_process, phase = "second pass", line' = line + 1
  PROVE  perform_second_pass
<1>1. line' # line
  <2>1. line \in Nat
    BY DEF SimInv, PassInv, Passes
  <2>2. line + 1 # line
    BY <2>1, AnotherNumber
  <2> QED
    BY <2>2
<1>2. ~(UNCHANGED process)
  BY <1>1 DEF process, assembler
<1>3. ~SetAddress /\ ~Usage /\ ~LoadFile /\ ~LoadFails /\ ~HardcodedProgram /\ ~HardcodedLine
      /\ ~Start /\ ~Execute /\ ~Dump /\ ~CleanUp
  BY DEF SetAddress, Usage, LoadFile, LoadFails, HardcodedProgram, NoFileGiven, HardcodedLine,
         Start, Execute, Dump, CleanUp, Becomes
<1>4. ~perform_first_pass /\ ~Rewind /\ ~load_file_returns /\ ~LoadFaults /\ ~LoadExits
  BY <1>1 DEF perform_first_pass, Reading, Rewind, load_file_returns, LoadFaults, assembler,
              LoadExits
<1> QED
  BY <1>2, <1>3, <1>4 DEF SimNext, LoadNext

(* No line writes over its neighbour, and a MOVE leaves no hole before it:    *)
(* the size that the first pass adds up is what the second writes, for every *)
(* source that loads.                                                        *)
THEOREM TheLinesKeepApart == SimSpec => LinesKeepApart
<1> DEFINE Apart ==
             LET written == { mem'.changes[i].address :
                                i \in Len(mem.changes) + 1 .. Len(mem'.changes) }
                 room == Touched(current_address, current_address' - current_address)
             IN  phase = "second pass" /\ line' = line + 1 /\ ~mem'.lost /\ ~Wide(This) =>
                   /\ written \subseteq room
                   /\ IsMoveLine(This) => written = room
<1>1. SimInv /\ [SimNext]_process => [Apart]_process
  BY LineKeepsApart, OnlyThePassReads
<1> QED
  BY <1>1, SimInvariant, PTL DEF SimSpec, LinesKeepApart

-----------------------------------------------------------------------------
(* Where a pass goes on after a line, for a line that both passes see as the *)
(* same.                                                                     *)
AddressAfter(a, l) ==
  IF l.base \in {"", "*"} THEN a
  ELSE IF l.base = "ORG" THEN OrgAddress(l)
  ELSE a + get_instruction_size(l)

HasLabel(l, label) == l.label = label /\ ~l.comment

FirstWith(lines, n, label) ==
  HasLabel(lines[n], label) /\ \A k \in 1 .. n - 1 : ~HasLabel(lines[k], label)

OrgBefore(lines, n) == \E k \in 1 .. n - 1 : lines[k].base = "ORG"

(* f has the address of every line up to the last and of what follows, and   *)
(* each label that has been entered means that of its first line.            *)
Traced(f, last, entry, lines) ==
  /\ \A n \in 1 .. last - 1 : f[n + 1] = AddressAfter(f[n], lines[n])
  /\ \A label \in Grammar!Identifiers : \A n \in 1 .. last - 1 :
       FirstWith(lines, n, label) => entry[label] = f[n]
  /\ \A label \in Grammar!Identifiers :
       entry[label] # NoSymbol => \E n \in 1 .. last - 1 : HasLabel(lines[n], label)

(* The lines before n are traced, up to address a. *)
TracedTo(n, entry, lines, a) ==
  \E f \in [1 .. n -> Nat] : Traced(f, n, entry, lines) /\ f[n] = a

(* What a line with address a enters: its label, if that is new. *)
Enters(entry, new, l, a) ==
  \/ /\ new = entry
     /\ \A label \in Grammar!Identifiers : HasLabel(l, label) => entry[label] # NoSymbol
  \/ \E name \in Grammar!Identifiers :
       /\ HasLabel(l, name) /\ entry[name] = NoSymbol /\ new[name] = a
       /\ \A label \in Grammar!Identifiers : label # name => new[label] = entry[label]

Entries == [label \in Grammar!Identifiers |-> find_symbol(label)]

TraceInv ==
  phase \in Passes /\ AllSeenAlike =>
    /\ line =< Len(source) + 1
    /\ phase = "first pass" => TracedTo(line, Entries, source, current_address)
    /\ phase = "second pass" =>
         \E f \in [1 .. Len(source) + 1 -> Nat] :
           /\ Traced(f, Len(source) + 1, Entries, source)
           /\ OrgBefore(source, line) => f[line] = current_address

-----------------------------------------------------------------------------
(* The address after a line is a number. *)
LEMMA AfterType ==
  ASSUME NEW a \in Nat, NEW l, TakenLine(l)
  PROVE  AddressAfter(a, l) \in Nat
<1>1. a + get_instruction_size(l) \in Nat
  BY SizeTypes
<1>2. l.base = "ORG" => OrgAddress(l) \in Nat
  BY OrgType
<1> QED
  BY <1>1, <1>2 DEF AddressAfter

(* A function of numbers up to n has one more. *)
LEMMA Extended ==
  ASSUME NEW n \in Nat \ {0}, NEW f \in [1 .. n -> Nat], NEW x \in Nat
  PROVE  \E g \in [1 .. n + 1 -> Nat] : g[n + 1] = x /\ \A k \in 1 .. n : g[k] = f[k]
<1> DEFINE g == [k \in 1 .. n + 1 |-> IF k = n + 1 THEN x ELSE f[k]]
<1>1. \A k \in 1 .. n + 1 : k # n + 1 => k \in 1 .. n
  OBVIOUS
<1>2. g \in [1 .. n + 1 -> Nat]
  BY <1>1
<1>3. n + 1 \in 1 .. n + 1 /\ \A k \in 1 .. n : k \in 1 .. n + 1 /\ k # n + 1
  OBVIOUS
<1>4. g[n + 1] = x /\ \A k \in 1 .. n : g[k] = f[k]
  BY <1>3
<1> QED
  BY <1>2, <1>4

(* The line after those that were traced: its label is new, or means a line  *)
(* before it.                                                                *)
LEMMA TracedOn ==
  ASSUME NEW lines, NEW n \in Nat \ {0}, NEW entry, NEW new, NEW a, TracedTo(n, entry, lines, a),
         NEW x \in Nat, x = AddressAfter(a, lines[n]), Enters(entry, new, lines[n], a)
  PROVE  TracedTo(n + 1, new, lines, x)
<1>1. PICK f \in [1 .. n -> Nat] : Traced(f, n, entry, lines) /\ f[n] = a
  BY DEF TracedTo
<1>2. PICK g \in [1 .. n + 1 -> Nat] : g[n + 1] = x /\ \A k \in 1 .. n : g[k] = f[k]
  BY Extended
<1>3. /\ n \in 1 .. n
      /\ \A k \in 1 .. (n + 1) - 1 : k \in 1 .. n /\ (k # n => k \in 1 .. n - 1)
      /\ \A k \in 1 .. n - 1 : k \in 1 .. n /\ k + 1 \in 1 .. n /\ k \in 1 .. (n + 1) - 1
      /\ n \in 1 .. (n + 1) - 1
  OBVIOUS
<1>4. ASSUME NEW k \in 1 .. (n + 1) - 1
      PROVE  g[k + 1] = AddressAfter(g[k], lines[k])
  <2>1. CASE k = n
    BY <1>1, <1>2, <1>3, <2>1
  <2>2. CASE k # n
    <3>1. k \in 1 .. n - 1 /\ k \in 1 .. n /\ k + 1 \in 1 .. n
      BY <1>3, <2>2
    <3>2. f[k + 1] = AddressAfter(f[k], lines[k])
      BY <1>1, <3>1 DEF Traced
    <3> QED
      BY <1>2, <3>1, <3>2
  <2> QED
    BY <2>1, <2>2
<1>5. /\ \A label \in Grammar!Identifiers : \A k \in 1 .. n - 1 :
           FirstWith(lines, k, label) => entry[label] = f[k]
      /\ \A label \in Grammar!Identifiers :
           entry[label] # NoSymbol => \E k \in 1 .. n - 1 : HasLabel(lines[k], label)
  BY <1>1 DEF Traced
<1>6. ASSUME NEW label \in Grammar!Identifiers, NEW k \in 1 .. (n + 1) - 1, FirstWith(lines, k, label)
      PROVE  new[label] = g[k]
  <2>1. k \in 1 .. n /\ g[k] = f[k]
    BY <1>2, <1>3
  <2>2. HasLabel(lines[k], label)
    BY <1>6 DEF FirstWith
  <2>3. CASE k = n
    <3>1. \A j \in 1 .. n - 1 : ~HasLabel(lines[j], label)
      BY <1>6, <2>3 DEF FirstWith
    <3>2. entry[label] = NoSymbol
      BY <1>5, <3>1
    <3>3. PICK name \in Grammar!Identifiers :
            /\ HasLabel(lines[n], name) /\ entry[name] = NoSymbol /\ new[name] = a
            /\ \A other \in Grammar!Identifiers : other # name => new[other] = entry[other]
      BY <2>2, <2>3, <3>2 DEF Enters
    <3>4. name = label
      BY <2>2, <2>3, <3>3 DEF HasLabel
    <3> QED
      BY <1>1, <2>1, <2>3, <3>3, <3>4
  <2>4. CASE k # n
    <3>1. k \in 1 .. n - 1
      BY <1>3, <2>4
    <3>2. entry[label] = f[k] /\ f[k] \in Nat
      BY <1>5, <1>6, <2>1, <3>1
    <3>3. entry[label] # NoSymbol
      BY <3>2, SymbolTableAssumption
    <3>4. new[label] = entry[label]
      BY <3>3 DEF Enters
    <3> QED
      BY <2>1, <3>2, <3>4
  <2> QED
    BY <2>3, <2>4
<1>7. ASSUME NEW label \in Grammar!Identifiers, new[label] # NoSymbol
      PROVE  \E k \in 1 .. (n + 1) - 1 : HasLabel(lines[k], label)
  <2>1. CASE entry[label] # NoSymbol
    <3>1. PICK k \in 1 .. n - 1 : HasLabel(lines[k], label)
      BY <1>5, <2>1
    <3>2. k \in 1 .. (n + 1) - 1
      BY <1>3
    <3> QED
      BY <3>1, <3>2
  <2>2. CASE entry[label] = NoSymbol
    <3>1. HasLabel(lines[n], label)
      BY <1>7, <2>2 DEF Enters
    <3> QED
      BY <1>3, <3>1
  <2> QED
    BY <2>1, <2>2
<1>8. Traced(g, n + 1, new, lines)
  BY <1>4, <1>6, <1>7 DEF Traced
<1> QED
  BY <1>2, <1>8 DEF TracedTo

(* A line that both passes see as the same is a comment if a star begins its *)
(* first word, and a comment has no label.                                   *)
LEMMA CommentsAlike ==
  ASSUME NEW l, TakenLine(l), SeenAlike(l)
  PROVE  (l.comment <=> l.base = "*") /\ (l.comment => l.label = NoLabel)
  BY DEF TakenLine, SeenAlike

(* A label is an identifier, and that is a name. *)
LEMMA LabelNames ==
  /\ Labels \subseteq Grammar!Identifiers /\ Grammar!Identifiers \subseteq Names
  /\ NoLabel \notin Grammar!Identifiers
  BY LoaderAssumption DEF Grammar!Identifiers

(* Between the lines. *)
LEMMA LineNumbers ==
  ASSUME NEW k \in Nat \ {0}, NEW n \in Nat, k =< n
  PROVE  k + 1 =< n + 1 /\ k \in 1 .. (n + 1) - 1 /\ k \in 1 .. n
  OBVIOUS

(* A pass that reads a line. *)
LEMMA ReadingType ==
  ASSUME SimInv, NEW pass \in Passes, Reading(pass)
  PROVE  /\ line \in Nat \ {0} /\ Len(source) \in Nat /\ line =< Len(source)
         /\ current_address \in Nat /\ TakenLine(source[line])
<1>1. phase \in Passes /\ line =< Len(source)
  BY DEF Reading
<1>2. /\ PassInv /\ source \in Seq(Line) /\ line \in Nat \ {0} /\ current_address \in Nat
  BY <1>1 DEF SimInv, PassInv
<1>3. Len(source) \in Nat
  BY <1>2
<1>4. TakenLine(source[line])
  BY <1>2, ThisTaken DEF This
<1> QED
  BY <1>1, <1>2, <1>3, <1>4

(* What the first pass does to the table: it enters the label of a line at    *)
(* the address of the line, unless it is there.                              *)
LEMMA FirstPassEnters ==
  ASSUME SimInv, perform_first_pass, AllSeenAlike
  PROVE  /\ line \in DOMAIN source /\ current_address' = AddressAfter(current_address, This)
         /\ Enters(Entries, Entries', This, current_address)
<1>1. /\ Reading("first pass") /\ phase = "first pass" /\ phase \in Passes
      /\ "first pass" \in Passes
  BY DEF perform_first_pass, Reading, Passes
<1>2. PassInv /\ table \in [Buckets -> Seq(SymbolNode)]
  BY <1>1 DEF SimInv, PassInv
<1>3. line \in DOMAIN source /\ TakenLine(This)
  BY <1>1, <1>2, ThisTaken
<1>4. (This.comment <=> This.base = "*") /\ (This.comment => This.label = NoLabel)
  <2>1. SeenAlike(This)
    BY <1>3 DEF AllSeenAlike, This
  <2> QED
    BY <1>3, <2>1, CommentsAlike
<1>5. This.label \in Labels \cup {NoLabel}
  BY <1>3 DEF TakenLine, Line
<1>6. Allocates
  BY DEF Allocates, AllSeenAlike
<1>7. ASSUME table' = table
      PROVE  Entries' = Entries
  BY <1>7 DEF Entries, find_symbol, ChainOf
<1>8. CASE Skipped(This)
  <2>1. UNCHANGED <<symbols, current_address>>
    BY <1>8 DEF perform_first_pass
  <2>2. Entries' = Entries
    BY <1>7, <2>1 DEF symbols
  <2>3. This.comment \/ (This.label = NoLabel /\ This.base = "")
    BY <1>1, <1>8 DEF Skipped
  <2>4. \A label \in Grammar!Identifiers : ~HasLabel(This, label)
    BY <2>3, LabelNames DEF HasLabel
  <2>5. This.base \in {"", "*"}
    BY <1>4, <2>3
  <2> QED
    BY <1>3, <2>1, <2>2, <2>4, <2>5 DEF AddressAfter, Enters
<1>9. CASE ~Skipped(This)
  <2>1. EnterLabel(This.label) /\ current_address' = NextAddress(This)
    BY <1>9 DEF perform_first_pass
  <2>2. ~This.comment /\ This.base # "*"
    BY <1>1, <1>4, <1>9 DEF Skipped
  <2>3. current_address' = AddressAfter(current_address, This)
    BY <2>1, <2>2 DEF NextAddress, AddressAfter
  <2>4. CASE This.label = NoLabel
    <3>1. \A label \in Grammar!Identifiers : ~HasLabel(This, label)
      BY <2>4, LabelNames DEF HasLabel
    <3>2. UNCHANGED symbols
      BY <2>1, <2>4 DEF EnterLabel
    <3> QED
      BY <1>3, <1>7, <2>3, <3>1, <3>2 DEF symbols, Enters
  <2>5. CASE This.label # NoLabel /\ find_symbol(This.label) # NoSymbol
    <3>1. This.label \in Grammar!Identifiers
      BY <1>5, <2>5, LabelNames
    <3>2. UNCHANGED symbols
      BY <1>6, <2>1, <2>5 DEF EnterLabel, add_symbol
    <3>3. \A label \in Grammar!Identifiers : HasLabel(This, label) => Entries[label] # NoSymbol
      BY <2>5 DEF HasLabel, Entries
    <3> QED
      BY <1>3, <1>7, <2>3, <3>2, <3>3 DEF symbols, Enters
  <2>6. CASE This.label # NoLabel /\ find_symbol(This.label) = NoSymbol
    <3> DEFINE name == This.label
    <3>1. name \in Grammar!Identifiers /\ name \in Names
      BY <1>5, <2>6, LabelNames
    <3>2. add_symbol(name, current_address, name)
      BY <1>6, <2>1, <2>6 DEF EnterLabel
    <3>3. HasLabel(This, name)
      BY <2>2 DEF HasLabel
    <3>4. Entries[name] = NoSymbol
      BY <2>6, <3>1 DEF Entries
    <3> HIDE DEF name
    <3>5. \A other \in Names :
            Found(table'[hash_index(other)], other, NoSymbol)
              = IF other = name THEN current_address
                ELSE Found(table[hash_index(other)], other, NoSymbol)
      BY <1>2, <3>1, <3>2, FoundAdded
    <3>6. \A label \in Grammar!Identifiers :
            /\ Entries'[label] = Found(table'[hash_index(label)], label, NoSymbol)
            /\ Entries[label] = Found(table[hash_index(label)], label, NoSymbol)
      BY DEF Entries, find_symbol, ChainOf
    <3>7. Entries'[name] = current_address
      BY <3>1, <3>5, <3>6
    <3>8. \A label \in Grammar!Identifiers : label # name => Entries'[label] = Entries[label]
      BY <3>5, <3>6, LabelNames
    <3> QED
      BY <1>3, <2>3, <3>1, <3>3, <3>4, <3>7, <3>8 DEF Enters
  <2> QED
    BY <2>4, <2>5, <2>6
<1> QED
  BY <1>8, <1>9

(* The first pass traces the line that it reads. *)
LEMMA FirstPassTraces ==
  ASSUME SimInv, TraceInv, perform_first_pass
  PROVE  TraceInv'
<1>1. /\ phase' = "first pass" /\ phase = "first pass" /\ phase \in Passes
      /\ line' = line + 1 /\ source' = source /\ failing' = failing /\ line =< Len(source)
  BY DEF perform_first_pass, Reading, NextLine, Passes
<1>2. /\ line \in Nat \ {0} /\ Len(source) \in Nat /\ current_address \in Nat
      /\ TakenLine(source[line])
  <2>1. Reading("first pass") /\ "first pass" \in Passes
    BY DEF perform_first_pass, Passes
  <2> QED
    BY <2>1, ReadingType
<1>3. SUFFICES ASSUME AllSeenAlike, AllSeenAlike'
               PROVE  /\ line' =< Len(source') + 1
                      /\ TracedTo(line', Entries', source', current_address')
  BY <1>1 DEF TraceInv, AllSeenAlike
<1>4. TracedTo(line, Entries, source, current_address)
  BY <1>1, <1>3 DEF TraceInv
<1>5. /\ current_address' = AddressAfter(current_address, source[line])
      /\ Enters(Entries, Entries', source[line], current_address)
  BY <1>3, FirstPassEnters DEF This
<1>6. current_address' \in Nat
  BY <1>2, <1>5, AfterType
<1>7. TracedTo(line + 1, Entries', source, current_address')
  BY <1>2, <1>4, <1>5, <1>6, TracedOn
<1>8. line + 1 =< Len(source) + 1
  BY <1>1, <1>2, LineNumbers
<1> QED
  BY <1>1, <1>7, <1>8

(* The second finds the same addresses, from the first ORG on. *)
LEMMA SecondPassTraces ==
  ASSUME SimInv, TraceInv, perform_second_pass
  PROVE  TraceInv'
<1>1. /\ phase' = "second pass" /\ phase = "second pass" /\ phase \in Passes
      /\ line' = line + 1 /\ source' = source /\ failing' = failing /\ table' = table
      /\ line =< Len(source)
  BY DEF perform_second_pass, Reading, NextLine, Passes, symbols
<1>2. line \in Nat \ {0} /\ Len(source) \in Nat
  <2>1. Reading("second pass") /\ "second pass" \in Passes
    BY DEF perform_second_pass, Passes
  <2> QED
    BY <2>1, ReadingType
<1>3. SUFFICES ASSUME AllSeenAlike, AllSeenAlike'
               PROVE  /\ line' =< Len(source') + 1
                      /\ \E f \in [1 .. Len(source') + 1 -> Nat] :
                           /\ Traced(f, Len(source') + 1, Entries', source')
                           /\ OrgBefore(source', line') => f[line'] = current_address'
  BY <1>1 DEF TraceInv, AllSeenAlike
<1>4. Entries' = Entries
  BY <1>1 DEF Entries, find_symbol, ChainOf
<1>5. PICK f \in [1 .. Len(source) + 1 -> Nat] :
        /\ Traced(f, Len(source) + 1, Entries, source)
        /\ OrgBefore(source, line) => f[line] = current_address
  BY <1>1, <1>3 DEF TraceInv
<1>6. current_address' = AddressAfter(current_address, source[line])
  BY <1>1 DEF perform_second_pass, Skipped, NextAddress, AddressAfter, This
<1>7. f[line + 1] = AddressAfter(f[line], source[line])
  <2>1. line \in 1 .. (Len(source) + 1) - 1
    BY <1>1, <1>2, LineNumbers
  <2> QED
    BY <1>5, <2>1 DEF Traced
<1>8. ASSUME OrgBefore(source, line + 1)
      PROVE  f[line + 1] = current_address'
  <2>1. CASE source[line].base = "ORG"
    BY <1>6, <1>7, <2>1 DEF AddressAfter
  <2>2. CASE source[line].base # "ORG"
    <3>1. PICK k \in 1 .. (line + 1) - 1 : source[k].base = "ORG"
      BY <1>8 DEF OrgBefore
    <3>2. k \in 1 .. line - 1
      BY <1>2, <2>2, <3>1
    <3>3. OrgBefore(source, line)
      BY <3>1, <3>2 DEF OrgBefore
    <3> QED
      BY <1>5, <1>6, <1>7, <3>3
  <2> QED
    BY <2>1, <2>2
<1>9. line' =< Len(source') + 1
  <2>1. line + 1 =< Len(source) + 1
    BY <1>1, <1>2, LineNumbers
  <2> QED
    BY <1>1, <2>1
<1> QED
  BY <1>1, <1>4, <1>5, <1>8, <1>9

(* The first line is traced before it is read. *)
LEMMA LoadTraces ==
  ASSUME SimInv, LoadFile
  PROVE  TraceInv'
<1>1. /\ phase' = "first pass" /\ line' = 1 /\ source' = file.source /\ table' = EmptyTable
      /\ current_address' = start_address /\ start_address \in Nat
  BY DEF LoadFile, load_file, SimInv, CommandInv
<1>2. Len(source') \in Nat
  <2>1. file.source \in Seq(Line)
    BY DEF SimInv, CommandInv, TakenFile, LoadFile, File
  <2>2. Len(file.source) \in Nat
    BY <2>1
  <2> QED
    BY <1>1, <2>2
<1>3. line' =< Len(source') + 1
  <2>1. \A n \in Nat : 1 =< n + 1
    OBVIOUS
  <2> QED
    BY <1>1, <1>2, <2>1
<1>4. \A label \in Grammar!Identifiers : Entries'[label] = NoSymbol
  <2>1. \A label \in Grammar!Identifiers : Entries'[label] = Found(table'[hash_index(label)], label, NoSymbol)
    BY DEF Entries, find_symbol, ChainOf
  <2>2. \A label \in Grammar!Identifiers : table'[hash_index(label)] = <<>>
    BY <1>1, LabelNames, SymbolIndexType DEF EmptyTable
  <2> QED
    BY <2>1, <2>2, FoundNothing
<1>5. TracedTo(1, Entries', source', start_address)
  <2>1. PICK start \in Nat : start = start_address
    BY <1>1
  <2> DEFINE f == [n \in 1 .. 1 |-> start]
  <2>2. f \in [1 .. 1 -> Nat] /\ f[1] = start
    OBVIOUS
  <2>3. 1 .. 1 - 1 = {}
    OBVIOUS
  <2> HIDE DEF f
  <2>4. Traced(f, 1, Entries', source')
    BY <1>4, <2>3 DEF Traced
  <2> QED
    BY <2>1, <2>2, <2>4 DEF TracedTo
<1> QED
  BY <1>1, <1>3, <1>5 DEF TraceInv

(* The second pass begins with all lines traced and no ORG behind it. *)
LEMMA RewindTraces ==
  ASSUME SimInv, TraceInv, Rewind
  PROVE  TraceInv'
<1>1. /\ phase' = "second pass" /\ phase = "first pass" /\ phase \in Passes
      /\ line' = 1 /\ source' = source /\ failing' = failing /\ table' = table
      /\ line = Len(source) + 1
  BY DEF Rewind, Passes, symbols
<1>2. SUFFICES ASSUME AllSeenAlike, AllSeenAlike'
               PROVE  /\ line' =< Len(source') + 1
                      /\ \E f \in [1 .. Len(source') + 1 -> Nat] :
                           /\ Traced(f, Len(source') + 1, Entries', source')
                           /\ OrgBefore(source', line') => f[line'] = current_address'
  BY <1>1 DEF TraceInv, AllSeenAlike
<1>3. Entries' = Entries
  BY <1>1 DEF Entries, find_symbol, ChainOf
<1>4. PICK f \in [1 .. Len(source) + 1 -> Nat] : Traced(f, Len(source) + 1, Entries, source)
  BY <1>1, <1>2 DEF TraceInv, TracedTo
<1>5. ~OrgBefore(source, 1)
  BY DEF OrgBefore
<1>6. 1 =< Len(source) + 1
  <2>1. source \in Seq(Line)
    BY <1>1 DEF SimInv, PassInv
  <2> QED
    BY <2>1
<1> QED
  BY <1>1, <1>3, <1>4, <1>5, <1>6

(* The trace is kept. *)
LEMMA TraceKept == SimInv /\ TraceInv /\ [SimNext]_process => TraceInv'
<1> SUFFICES ASSUME SimInv, TraceInv, [SimNext]_process PROVE TraceInv'
  OBVIOUS
<1>1. CASE phase' \notin Passes
  BY <1>1 DEF TraceInv
<1>2. CASE LoadFile
  BY <1>2, LoadTraces
<1>3. CASE perform_first_pass
  BY <1>3, FirstPassTraces
<1>4. CASE Rewind
  BY <1>4, RewindTraces
<1>5. CASE perform_second_pass
  BY <1>5, SecondPassTraces
<1>6. CASE LoadFaults \/ UNCHANGED process
  <2>1. /\ UNCHANGED <<source, failing, phase, line, current_address>> /\ table' = table
    BY <1>6 DEF LoadFaults, Fault, process, assembler, symbols
  <2>2. Entries' = Entries
    BY <2>1 DEF Entries, find_symbol, ChainOf
  <2>3. AllSeenAlike' = AllSeenAlike
    BY <2>1 DEF AllSeenAlike
  <2> QED
    BY <2>1, <2>2, <2>3 DEF TraceInv
<1>7. CASE SetAddress \/ Execute
  <2>1. phase' \in {"options", "executing"}
    BY <1>7 DEF SetAddress, Execute, assembler
  <2> QED
    BY <1>1, <2>1 DEF Passes
<1>8. CASE \/ Usage \/ LoadFails \/ HardcodedProgram \/ HardcodedLine \/ Start \/ Dump \/ CleanUp
           \/ load_file_returns \/ LoadExits
  <2>1. phase' \in {"exited", "mapping", "loaded", "executing", "dumped"}
    BY <1>8 DEF Usage, LoadFails, HardcodedProgram, NoFileGiven, HardcodedLine, Start, Dump,
                CleanUp, Becomes, load_file_returns, LoadExits
  <2> QED
    BY <1>1, <2>1 DEF Passes
<1> QED
  BY <1>2, <1>3, <1>4, <1>5, <1>6, <1>7, <1>8 DEF SimNext, LoadNext

(* A label whose line is reached has the address of the line. *)
LEMMA TracedLabelsMean == SimInv /\ TraceInv => LabelsMeanTheirLines
<1> SUFFICES ASSUME SimInv, TraceInv, Reading("second pass"), This.label # NoLabel,
                    Defines(line, This.label), AfterOrg(line), AllSeenAlike
             PROVE  find_symbol(This.label) = current_address
  BY DEF LabelsMeanTheirLines
<1>1. /\ line \in Nat \ {0} /\ Len(source) \in Nat /\ line =< Len(source) /\ TakenLine(source[line])
      /\ phase = "second pass" /\ phase \in Passes
  BY ReadingType DEF Reading, Passes
<1>2. PICK f \in [1 .. Len(source) + 1 -> Nat] :
        /\ Traced(f, Len(source) + 1, Entries, source)
        /\ OrgBefore(source, line) => f[line] = current_address
  BY <1>1 DEF TraceInv
<1>3. f[line] = current_address
  BY <1>2 DEF OrgBefore, AfterOrg
<1>4. This.label \in Grammar!Identifiers
  BY <1>1, LabelNames DEF TakenLine, Line, This
<1>5. FirstWith(source, line, This.label)
  BY DEF Defines, FirstWith, HasLabel
<1>6. line \in 1 .. (Len(source) + 1) - 1
  BY <1>1, LineNumbers
<1>7. Entries[This.label] = f[line]
  BY <1>2, <1>4, <1>5, <1>6 DEF Traced
<1> QED
  BY <1>3, <1>4, <1>7 DEF Entries

(* The passes add up alike: when the second comes to the line of a label, it  *)
(* is at the address that the first gave the label.                          *)
THEOREM TheLabelsMeanTheirLines == SimSpec => []LabelsMeanTheirLines
<1>1. SimInit => TraceInv
  BY DEF SimInit, TraceInv, Passes
<1> QED
  BY <1>1, TraceKept, TracedLabelsMean, SimInvariant, PTL DEF SimSpec

-----------------------------------------------------------------------------
(* The addresses of the lines, and of what follows the last. *)
Placed(f, lines) ==
  /\ f \in [1 .. Len(lines) + 1 -> Nat]
  /\ \A n \in 1 .. Len(lines) : f[n + 1] = AddressAfter(f[n], lines[n])

Taken(lines) == lines \in Seq(Line) /\ \A n \in 1 .. Len(lines) : TakenLine(lines[n])

OrgFirst(lines) == \A n \in 1 .. Len(lines) : lines[n].base = "ORG" <=> n = 1

(* A line without code, from which a pass goes on where it was. *)
Bare(l) == l.base \in {"", "*"}

(* From a line to the next the addresses do not fall, if the line is no ORG. *)
LEMMA NextIsHigher ==
  ASSUME NEW a \in Nat, NEW l, TakenLine(l), l.base # "ORG"
  PROVE  /\ a =< AddressAfter(a, l)
         /\ Bare(l) => AddressAfter(a, l) = a
         /\ ~Bare(l) =>
              AddressAfter(a, l) = a + get_instruction_size(l) /\ a + 2 =< AddressAfter(a, l)
<1>1. get_instruction_size(l) \in Nat
  BY SizeTypes
<1>2. 2 =< get_instruction_size(l)
  <2> DEFINE s == IF SourceOf(l).status = "parsed" THEN SourceSize(SourceOf(l).op, l.size) ELSE 0
             d == IF DestOf(l).status = "parsed" THEN get_operand_extension_size(DestOf(l).op) ELSE 0
  <2>1. s \in Nat /\ d \in Nat
    BY SizeTypes
  <2>2. get_instruction_size(l) \in {2, 2 + s + d}
    BY DEF get_instruction_size
  <2> HIDE DEF s, d
  <2> QED
    BY <2>1, <2>2
<1>3. PICK size \in Nat : size = get_instruction_size(l)
  BY <1>1
<1>4. 2 =< size /\ a =< a + size /\ a + 2 =< a + size /\ a =< a
  <2>1. 2 =< size
    BY <1>2, <1>3
  <2> QED
    BY <2>1
<1>5. /\ Bare(l) => AddressAfter(a, l) = a
      /\ ~Bare(l) => AddressAfter(a, l) = a + size
  BY <1>3 DEF AddressAfter, Bare
<1> QED
  BY <1>3, <1>4, <1>5

(* The number before one of an interval, and a sum of comparisons. *)
LEMMA NumberBefore ==
  ASSUME NEW n \in Nat, NEW j \in 2 .. n + 1, NEW x \in j .. n + 1, x # j
  PROVE  /\ x - 1 \in j .. n /\ x - 1 \in j .. n + 1 /\ (x - 1) + 1 = x
         /\ ~(x =< x - 1) /\ x - 1 \in j .. x - 1
         /\ \A h \in j .. (x - 1) - 1 : h \in j .. x - 1
  OBVIOUS

LEMMA Ordered ==
  /\ \A a, b, c \in Nat : a =< b /\ b =< c => a =< c
  /\ \A a \in Nat : a =< a
  OBVIOUS

(* So they rise from the second line on, and stay where there is no code. *)
LEMMA AddressesRise ==
  ASSUME NEW lines, Taken(lines), OrgFirst(lines), NEW f, Placed(f, lines),
         NEW j \in 2 .. Len(lines) + 1, NEW k \in j .. Len(lines) + 1
  PROVE  /\ f[j] \in Nat /\ f[k] \in Nat /\ f[j] =< f[k]
         /\ (\A i \in j .. k - 1 : Bare(lines[i])) => f[k] = f[j]
<1>1. Len(lines) \in Nat
  BY DEF Taken
<1>2. \A i \in 1 .. Len(lines) + 1 : f[i] \in Nat
  BY DEF Placed
<1>3. j \in 1 .. Len(lines) + 1 /\ k \in 1 .. Len(lines) + 1
  BY <1>1
<1>4. ASSUME NEW i \in j .. Len(lines)
      PROVE  /\ f[i] \in Nat /\ f[i + 1] \in Nat /\ f[i] =< f[i + 1]
             /\ Bare(lines[i]) => f[i + 1] = f[i]
  <2>1. i \in 1 .. Len(lines) /\ i # 1 /\ i \in 1 .. Len(lines) + 1 /\ i + 1 \in 1 .. Len(lines) + 1
    BY <1>1
  <2>2. f[i] \in Nat /\ f[i + 1] \in Nat /\ TakenLine(lines[i]) /\ lines[i].base # "ORG"
        /\ f[i + 1] = AddressAfter(f[i], lines[i])
    BY <1>2, <2>1 DEF Taken, OrgFirst, Placed
  <2> QED
    BY <2>2, NextIsHigher
<1> DEFINE Rises(i) == /\ f[j] =< f[i]
                       /\ (\A h \in j .. i - 1 : Bare(lines[h])) => f[i] = f[j]
           I == { i \in j .. Len(lines) + 1 : ~Rises(i) }
<1>5. I = {}
  <2>1. SUFFICES ASSUME I # {} PROVE FALSE
    OBVIOUS
  <2>2. I \in SUBSET Nat
    <3>1. \A i \in j .. Len(lines) + 1 : i \in Nat
      BY <1>1
    <3> HIDE DEF Rises
    <3> QED
      BY <3>1
  <2>3. PICK x \in I : \A y \in I : x =< y
    <3> HIDE DEF I
    <3> QED
      BY <2>1, <2>2, LeastExists
  <2>4. x \in j .. Len(lines) + 1 /\ ~Rises(x)
    BY <2>3
  <2>5. x # j
    <3>1. f[j] \in Nat /\ f[j] =< f[j]
      BY <1>2, <1>3, Ordered
    <3>2. Rises(j)
      BY <3>1
    <3> HIDE DEF Rises
    <3> QED
      BY <2>4, <3>2
  <2>6. x - 1 \in j .. Len(lines) /\ x - 1 \in j .. Len(lines) + 1 /\ (x - 1) + 1 = x
        /\ ~(x =< x - 1) /\ x - 1 \in j .. x - 1
        /\ \A h \in j .. (x - 1) - 1 : h \in j .. x - 1
    BY <1>1, <2>4, <2>5, NumberBefore
  <2>7. Rises(x - 1)
    <3>1. x - 1 \notin I
      BY <2>3, <2>6
    <3> HIDE DEF Rises
    <3> QED
      BY <2>6, <3>1
  <2>8. /\ f[x - 1] \in Nat /\ f[x] \in Nat /\ f[x - 1] =< f[x] /\ f[j] \in Nat
        /\ Bare(lines[x - 1]) => f[x] = f[x - 1]
    BY <1>2, <1>3, <1>4, <2>6
  <2>9. f[j] =< f[x]
    <3>1. f[j] =< f[x - 1]
      BY <2>7
    <3> QED
      BY <2>8, <3>1, Ordered
  <2>10. ASSUME \A h \in j .. x - 1 : Bare(lines[h])
         PROVE  f[x] = f[j]
    <3>1. Bare(lines[x - 1])
      BY <2>6, <2>10
    <3>2. \A h \in j .. (x - 1) - 1 : Bare(lines[h])
      BY <2>6, <2>10
    <3> QED
      BY <2>7, <2>8, <3>1, <3>2
  <2> QED
    BY <2>4, <2>9, <2>10
<1>6. Rises(k)
  <2> HIDE DEF Rises
  <2> QED
    BY <1>5
<1> QED
  BY <1>2, <1>3, <1>6

-----------------------------------------------------------------------------
(* A product of three numbers. *)
LEMMA Distributes ==
  ASSUME NEW M \in Int, NEW q \in Int, NEW r \in Int, NEW h \in Int, NEW l \in Int,
         NEW d \in Int, NEW s \in Int, NEW x \in Int,
         x = (M * q + r) * h + l, h * r + l = M * d + s
  PROVE  q * h + d \in Int /\ x = M * (q * h + d) + s
<1>1. q * h \in Int /\ (M * q) * h = M * (q * h)
  OBVIOUS
<1>2. (M * q + r) * h = (M * q) * h + h * r
  OBVIOUS
<1>3. PICK p \in Int : p = q * h
  BY <1>1
<1>4. M * (p + d) = M * p + M * d
  OBVIOUS
<1>5. PICK u \in Int : u = M * p
  OBVIOUS
<1>6. PICK v \in Int : v = M * d
  OBVIOUS
<1>7. PICK y \in Int : y = h * r
  OBVIOUS
<1>8. x = (u + y) + l /\ y + l = v + s
  BY <1>1, <1>2, <1>3, <1>5, <1>6, <1>7
<1>9. x = (u + v) + s
  BY <1>8
<1>10. M * (q * h + d) = u + v
  BY <1>3, <1>4, <1>5, <1>6
<1> QED
  BY <1>1, <1>9, <1>10

(* The cell of an address of 32 bits. *)
LEMMA IndexOfAddress ==
  ASSUME NEW a \in Nat, AsNumber(FromNumber(a)) = a
  PROVE  Index(FromNumber(a)) = a % MEMORY_SIZE
<1>1. /\ MEMORY_SIZE \in Int /\ MEMORY_SIZE > 0
  BY MemoryAssumption
<1>2. PICK h \in Nat : h = a \div 65536
  BY PartsOfNumber
<1>3. PICK l \in Nat : l = a % 65536
  BY PartsOfNumber
<1>4. a = 65536 * h + l
  BY <1>2, <1>3, PartsOfNumber
<1>5. a =< a
  OBVIOUS
<1>6. FromNumber(a).hi = h /\ FromNumber(a).lo = l
  BY <1>2, <1>3, <1>5, AddressNumber
<1>7. PICK q \in Int : q = 65536 \div MEMORY_SIZE
  BY <1>1, DivisionByM
<1>8. PICK r \in Int : r = 65536 % MEMORY_SIZE
  BY <1>1, DivisionByM
<1>9. 65536 = MEMORY_SIZE * q + r
  BY <1>1, <1>7, <1>8, DivisionByM
<1>10. PICK y \in Int : y = h * r + l
  OBVIOUS
<1>11. PICK d \in Int : d = y \div MEMORY_SIZE
  BY <1>1, DivisionByM
<1>12. PICK s \in Int : s = y % MEMORY_SIZE
  BY <1>1, DivisionByM
<1>13. y = MEMORY_SIZE * d + s /\ 0 <= s /\ s < MEMORY_SIZE
  BY <1>1, <1>11, <1>12, DivisionByM
<1>14. a = (MEMORY_SIZE * q + r) * h + l
  BY <1>4, <1>9
<1>15. q * h + d \in Int /\ a = MEMORY_SIZE * (q * h + d) + s
  BY <1>1, <1>10, <1>13, <1>14, Distributes
<1>16. a % MEMORY_SIZE = s
  <2>1. PICK k \in Int : k = q * h + d
    BY <1>15
  <2>2. a = MEMORY_SIZE * k + s
    BY <1>15, <2>1
  <2>3. a \in Int
    OBVIOUS
  <2> QED
    BY <1>1, <1>13, <2>2, <2>3, RemainderIsUnique
<1>17. Index(FromNumber(a)) = y % MEMORY_SIZE
  BY <1>6, <1>8, <1>10 DEF Index
<1> QED
  BY <1>12, <1>16, <1>17

(* The word at an address. *)
LEMMA WordAtAddress ==
  ASSUME NEW m, NEW a \in Nat, AsNumber(FromNumber(a)) = a
  PROVE  WordAt(m, FromNumber(a)) = mem_read_word(m, a)
<1> DEFINE M == MEMORY_SIZE
<1>1. Index(FromNumber(a)) = a % M
  BY IndexOfAddress
<1>2. 0 \in 0 .. 3 /\ 1 \in 0 .. 3 /\ a + 0 = a
  OBVIOUS
<1>3. ((a % M) + 0) % M = (a + 0) % M /\ ((a % M) + 1) % M = (a + 1) % M
  BY <1>2, CellsApart
<1>4. a % M \in Nat
  BY CellsOfWord DEF Cell
<1>5. (a % M) + 0 = a % M
  BY <1>4
<1>6. (a % M) % M = a % M
  BY <1>2, <1>3, <1>5
<1> HIDE DEF M
<1>7. WordAt(m, FromNumber(a)) = 256 * m.memory[(a % M) % M] + m.memory[((a % M) + 1) % M]
  BY <1>1 DEF WordAt, mem_read_word, mem_read_byte, M
<1>8. mem_read_word(m, a) = 256 * m.memory[a % M] + m.memory[(a + 1) % M]
  BY DEF mem_read_word, mem_read_byte, M
<1> QED
  BY <1>3, <1>6, <1>7, <1>8

(* A word that is noted, and not written over, is there. *)
LEMMA NotedIsThere ==
  ASSUME NEW m, MemInv(m), ~m.lost, OneEntryEach(m), NEW a \in Nat, AsNumber(FromNumber(a)) = a
  PROVE  /\ \A w \in Word : NotedWord(m, a, w) => WordAt(m, FromNumber(a)) = w
         /\ \A bytes : NotedFormat(m, a, bytes) =>
              WordAt(m, FromNumber(a)) \in Word /\ Announced(WordAt(m, FromNumber(a))) = bytes
         /\ (\A i \in DOMAIN m.changes : m.changes[i].address \notin Touched(a, 2)) =>
              WordAt(m, FromNumber(a)) = 0
<1>1. \A w \in Word : NotedWord(m, a, w) => WordAt(m, FromNumber(a)) = w
  BY WordAtAddress, WordRead
<1>2. (\A i \in DOMAIN m.changes : m.changes[i].address \notin Touched(a, 2)) =>
        WordAt(m, FromNumber(a)) = 0
  BY WordAtAddress, BlankRead
<1> QED
  BY <1>1, <1>2 DEF NotedFormat

(* What a first extension word announces is what the executor takes. *)
LEMMA AnnouncedWords ==
  ASSUME NEW w \in Word
  PROVE  IndexedWords(w) \in 1 .. 5 /\ Announced(w) = 2 * IndexedWords(w)
<1>1. IndexedWords(w) \in 1 .. 5
  BY ExtensionWords
<1>2. PICK b \in 0 .. 3 : b = Field(w, 4, 2)
  BY DEF Word, Field
<1>3. PICK o \in 0 .. 3 : o = Field(w, 0, 2)
  BY DEF Word, Field
<1>4. DisplacementBytes(b) = 2 * (IF b < 2 THEN 0 ELSE b - 1)
      /\ DisplacementBytes(o) = 2 * (IF o < 2 THEN 0 ELSE o - 1)
  BY DEF DisplacementBytes
<1>5. CASE Bit(w, 8) = 0
  BY <1>1, <1>5 DEF Announced, IndexedWords
<1>6. CASE Bit(w, 8) # 0
  <2>1. Announced(w) = 2 + DisplacementBytes(b) + DisplacementBytes(o)
    BY <1>2, <1>3, <1>6 DEF Announced
  <2>2. IndexedWords(w) = 1 + (IF b < 2 THEN 0 ELSE b - 1) + (IF o < 2 THEN 0 ELSE o - 1)
    BY <1>2, <1>3, <1>6 DEF IndexedWords
  <2> QED
    BY <1>1, <1>4, <2>1, <2>2
<1> QED
  BY <1>1, <1>5, <1>6

(* The modes of an operand by the words that they take. *)
NoWordModes ==
  {"DATA_REGISTER_DIRECT", "ADDRESS_REGISTER_DIRECT", "ADDRESS_REGISTER_INDIRECT",
   "ARI_POST_INCREMENT", "ARI_PRE_DECREMENT"}
OneWordModes == {"ABSOLUTE_SHORT", "ARI_DISPLACEMENT", "PC_RELATIVE_DISPLACEMENT"}

LEMMA ModesByWords ==
  Modes = NoWordModes \cup OneWordModes \cup IndexedModes \cup {"IMMEDIATE", "ABSOLUTE_LONG"}
  BY DEF Modes, RegisterModes, RegisterMode, PlainModes, PcModes, NoWordModes, OneWordModes,
         IndexedModes, FullFormat

(* The field that stands for a mode. *)
LEMMA FieldOfMode ==
  ASSUME NEW op, WellFormed(op), NEW ea, ea = encode_ea(op)
  PROVE  /\ ea \in 0 .. 63
         /\ op.mode \in NoWordModes => ea \in 0 .. 39
         /\ op.mode \in OneWordModes => ea \in 40 .. 47 \cup {56, 58}
         /\ op.mode \in IndexedModes => ea \in 48 .. 55 \cup {59}
         /\ op.mode = "ABSOLUTE_LONG" => ea = 57
         /\ op.mode = "IMMEDIATE" <=> ea = 60
<1>1. ea \in 0 .. 63
  BY EffectiveAddressType
<1>2. op.mode \in Modes
  BY DEF WellFormed, Parts
<1>3. CASE op.mode \in RegisterModes
  <2>1. PICK r \in 0 .. 7 : r = op.reg_num
    BY <1>3 DEF WellFormed
  <2>2. ea = 8 * RegisterMode[op.mode] + r
    BY <1>3, <2>1 DEF encode_ea, RegisterModes
  <2>3. op.mode # "IMMEDIATE" /\ op.mode # "ABSOLUTE_LONG" /\ op.mode # "ABSOLUTE_SHORT"
        /\ op.mode \notin PcModes
    BY <1>3, ModesApart DEF PlainModes
  <2>4. /\ op.mode \in NoWordModes => RegisterMode[op.mode] \in 0 .. 4
        /\ op.mode = "ARI_DISPLACEMENT" => RegisterMode[op.mode] = 5
        /\ op.mode \in IndexedModes => RegisterMode[op.mode] = 6
        /\ RegisterMode[op.mode] \in 0 .. 6
    BY <1>3, <2>3 DEF RegisterModes, RegisterMode, NoWordModes, IndexedModes, FullFormat, PcModes
  <2>5. op.mode \in OneWordModes => op.mode = "ARI_DISPLACEMENT"
    BY <2>3 DEF OneWordModes, PcModes
  <2>6. PICK x \in 0 .. 6 : x = RegisterMode[op.mode]
    BY <2>4
  <2>7. ea = 8 * x + r
    BY <2>2, <2>6
  <2>8. /\ x \in 0 .. 4 => ea \in 0 .. 39
        /\ x = 5 => ea \in 40 .. 47
        /\ x = 6 => ea \in 48 .. 55
        /\ ea # 60
    BY <2>7
  <2> QED
    BY <1>1, <2>3, <2>4, <2>5, <2>6, <2>8
<1>4. CASE op.mode \notin RegisterModes
  <2>1. ea = OtherMode[op.mode]
    BY <1>4 DEF encode_ea, RegisterModes
  <2>2. op.mode \in PlainModes \cup PcModes
    BY <1>2, <1>4 DEF Modes
  <2>3. op.mode \notin NoWordModes
    BY <1>4 DEF NoWordModes, RegisterModes, RegisterMode
  <2> QED
    BY <1>1, <2>1, <2>2, <2>3 DEF OtherMode, PlainModes, PcModes, OneWordModes, IndexedModes, FullFormat
<1> QED
  BY <1>3, <1>4

(* The words that the executor takes for an operand fill the room that the    *)
(* loader gave it.                                                           *)
LEMMA OperandWords ==
  ASSUME NEW m, NEW at, NEW op, WellFormed(op), NEW size \in {"B", "W", "L"},
         NEW n \in {0, 1, 2}, n = 2 <=> size = "L",
         op.mode \in IndexedModes =>
           WordAt(m, at) \in Word /\ Announced(WordAt(m, at)) = get_operand_extension_size(op),
         NEW words, words = EaWords(m, at, encode_ea(op), n)
  PROVE  /\ words \in 0 .. 5 /\ SourceSize(op, size) = 2 * words
         /\ op.mode # "IMMEDIATE" => get_operand_extension_size(op) = 2 * words
<1>1. PICK ea \in 0 .. 63 :
        /\ ea = encode_ea(op)
        /\ op.mode \in NoWordModes => ea \in 0 .. 39
        /\ op.mode \in OneWordModes => ea \in 40 .. 47 \cup {56, 58}
        /\ op.mode \in IndexedModes => ea \in 48 .. 55 \cup {59}
        /\ op.mode = "ABSOLUTE_LONG" => ea = 57
        /\ op.mode = "IMMEDIATE" <=> ea = 60
  BY FieldOfMode
<1>2. words = EaWords(m, at, ea, n)
  BY <1>1
<1>3. op.mode \in NoWordModes \cup OneWordModes \cup IndexedModes \cup {"IMMEDIATE", "ABSOLUTE_LONG"}
  BY ModesByWords DEF WellFormed, Parts
<1>4. EaMode(ea) = ea \div 8
  BY EaFields
<1>5. CASE op.mode \in NoWordModes
  <2>1. EaMode(ea) < 5
    BY <1>1, <1>4, <1>5
  <2>2. words = 0
    BY <1>2, <2>1, EaWordsOf
  <2>3. op.mode # "IMMEDIATE" /\ get_operand_extension_size(op) = 0
    BY <1>5 DEF NoWordModes, get_operand_extension_size, FullFormat
  <2> QED
    BY <2>2, <2>3 DEF SourceSize
<1>6. CASE op.mode \in OneWordModes
  <2>1. ea \in 40 .. 47 \cup {56, 58}
    BY <1>1, <1>6
  <2>2. ~(EaMode(ea) < 5)
    BY <1>4, <2>1
  <2>3. words = 1
    BY <1>2, <2>1, <2>2 DEF EaWords
  <2>4. op.mode # "IMMEDIATE" /\ get_operand_extension_size(op) = 2
    BY <1>6 DEF OneWordModes, get_operand_extension_size, FullFormat
  <2> QED
    BY <2>3, <2>4 DEF SourceSize
<1>7. CASE op.mode \in IndexedModes
  <2>1. ea \in 48 .. 55 \cup {59}
    BY <1>1, <1>7
  <2>2. ~(EaMode(ea) < 5) /\ ea \notin 40 .. 47 \cup {56, 58}
    BY <1>4, <2>1
  <2>3. words = IndexedWords(WordAt(m, at))
    BY <1>2, <2>1, <2>2 DEF EaWords
  <2>4. words \in 1 .. 5 /\ get_operand_extension_size(op) = 2 * words
    BY <1>7, <2>3, AnnouncedWords
  <2>5. op.mode # "IMMEDIATE"
    BY <1>7 DEF IndexedModes, FullFormat
  <2> QED
    BY <2>4, <2>5 DEF SourceSize
<1>8. CASE op.mode = "ABSOLUTE_LONG"
  <2>1. ea = 57
    BY <1>1, <1>8
  <2>2. ~(EaMode(ea) < 5) /\ ea \notin 40 .. 47 \cup {56, 58} /\ ea \notin 48 .. 55 \cup {59}
    BY <1>4, <2>1
  <2>3. words = 2
    BY <1>2, <2>1, <2>2 DEF EaWords
  <2>4. op.mode # "IMMEDIATE" /\ get_operand_extension_size(op) = 4
    BY <1>8 DEF get_operand_extension_size, FullFormat
  <2> QED
    BY <2>3, <2>4 DEF SourceSize
<1>9. CASE op.mode = "IMMEDIATE"
  <2>1. ea = 60
    BY <1>1, <1>9
  <2>2. words = IF n = 2 THEN 2 ELSE 1
    BY <1>2, <2>1, EaWordsOf
  <2>3. SourceSize(op, size) = IF size = "L" THEN 4 ELSE 2
    BY <1>9 DEF SourceSize
  <2> QED
    BY <1>9, <2>2, <2>3
<1> QED
  BY <1>3, <1>5, <1>6, <1>7, <1>8, <1>9

(* What the opcode of a MOVE says of it. *)
LEMMA OpcodeOfLine ==
  ASSUME NEW size \in {"B", "W", "L"}, NEW src, WellFormed(src), NEW dest, WellFormed(dest),
         NEW op, op = machine_code(size, src, dest)
  PROVE  /\ op \in Word /\ op % 64 = encode_ea(src) /\ MoveDestination(op) = encode_ea(dest)
         /\ handler_of(op) = CASE size = "B" -> "move_b" [] size = "W" -> "move_w" [] OTHER -> "move_l"
<1>1. PICK x \in 0 .. 63, y \in 0 .. 63 : x = encode_ea(src) /\ y = encode_ea(dest)
  BY EffectiveAddressType
<1>2. PICK s \in 1 .. 3 : s = SizeBits(size)
  BY DEF SizeBits
<1>3. op = MoveCode(s, x, y)
  BY <1>1, <1>2 DEF machine_code, MoveCode
<1>4. op \in Word /\ D3(op) = s /\ op % 64 = x /\ MoveDestination(op) = y
  BY <1>3, OpcodeOfMove DEF MoveDestination
<1>5. /\ size = "B" => s = 1
      /\ size = "L" => s = 2
      /\ size = "W" => s = 3
  BY <1>2 DEF SizeBits
<1>6. /\ s = 1 => handler_of(op) = "move_b"
      /\ s = 2 => handler_of(op) = "move_l"
      /\ s = 3 => handler_of(op) = "move_w"
  BY <1>4, HandlerOfMove
<1> QED
  BY <1>1, <1>4, <1>5, <1>6

(* What a line does that has been noted, is not written over and is no wide   *)
(* immediate: it runs as what it says, over the room that it takes.          *)
LEMMA MoveLineRuns ==
  ASSUME NEW m, MemInv(m), ~m.lost, OneEntryEach(m),
         NEW l, TakenLine(l), IsMoveLine(l), DestOf(l).op.mode # "IMMEDIATE",
         NEW a \in Nat, NotedLine(m, l, a),
         NEW end \in Nat, AsNumber(FromNumber(end)) = end, a + get_instruction_size(l) =< end,
         NEW op, op = WordAt(m, FromNumber(a))
  PROVE  /\ handler_of(op) = Asked(l) /\ IsMove(op) /\ ~IntoImmediate(op)
         /\ InstructionWords(m, FromNumber(a), op) \in 0 .. 11
         /\ get_instruction_size(l) = 2 * InstructionWords(m, FromNumber(a), op)
<1> DEFINE src == SourceOf(l).op
           dest == DestOf(l).op
<1>1. WellFormed(src) /\ WellFormed(dest) /\ l.size \in {"B", "W", "L"}
  <2>1. l.operands \in Seq(STRING) /\ l.size \in {"B", "W", "L"}
    BY DEF TakenLine, Line
  <2> QED
    BY <2>1, MoveLineOperands
<1>2. PICK s \in Nat : s = SourceSize(src, l.size)
  BY SizeTypes
<1>3. PICK d \in Nat : d = get_operand_extension_size(dest)
  BY SizeTypes
<1>4. get_instruction_size(l) = 2 + s + d
  <2>1. ~FixedSize(l) /\ SourceOf(l).status = "parsed" /\ DestOf(l).status = "parsed"
    BY DEF IsMoveLine, FixedSize, Branches
  <2> QED
    BY <1>2, <1>3, <2>1 DEF get_instruction_size
<1>5. /\ AsNumber(FromNumber(a)) = a /\ AsNumber(FromNumber(a + 2)) = a + 2
      /\ AsNumber(FromNumber(a + 2 + s)) = a + 2 + s /\ a + 2 \in Nat /\ a + 2 + s \in Nat
  <2>1. a =< end /\ a + 2 =< end /\ a + 2 + s =< end /\ a + 2 \in Nat /\ a + 2 + s \in Nat
    <3>1. a + (2 + s + d) =< end
      BY <1>4
    <3> QED
      BY <3>1
  <2>2. \A b \in Nat : b =< end => AsNumber(FromNumber(b)) = b
    BY AddressNumber
  <2> QED
    BY <2>1, <2>2
<1>6. op = machine_code(l.size, src, dest)
  <2>1. machine_code(l.size, src, dest) \in Word
    BY <1>1, MachineCodeType
  <2>2. NotedWord(m, a, machine_code(l.size, src, dest))
    BY DEF NotedLine
  <2> QED
    BY <1>5, <2>1, <2>2, NotedIsThere
<1>7. /\ op \in Word /\ op % 64 = encode_ea(src) /\ MoveDestination(op) = encode_ea(dest)
      /\ handler_of(op) = CASE l.size = "B" -> "move_b" [] l.size = "W" -> "move_w" [] OTHER -> "move_l"
  BY <1>1, <1>6, OpcodeOfLine
<1>8. handler_of(op) = Asked(l) /\ IsMove(op)
  <2>1. Asked(l) = CASE l.size = "B" -> "move_b" [] l.size = "W" -> "move_w" [] OTHER -> "move_l"
    <3>1. ~(l.base = "NOP") /\ ~(l.base = "RTS")
      BY DEF IsMoveLine
    <3> QED
      BY <1>1, <3>1 DEF Asked
  <2>2. handler_of(op) = Asked(l)
    BY <1>7, <2>1
  <2> QED
    BY <1>1, <1>7, <2>2 DEF IsMove
<1>9. ~IntoImmediate(op)
  BY <1>1, <1>7, FieldOfMode DEF IntoImmediate
<1>10. /\ src.mode \in IndexedModes =>
             /\ WordAt(m, FromNumber(a + 2)) \in Word
             /\ Announced(WordAt(m, FromNumber(a + 2))) = get_operand_extension_size(src)
       /\ dest.mode \in IndexedModes =>
             /\ WordAt(m, FromNumber(a + 2 + s)) \in Word
             /\ Announced(WordAt(m, FromNumber(a + 2 + s))) = get_operand_extension_size(dest)
  <2>1. /\ src.mode \in IndexedModes => NotedFormat(m, a + 2, get_operand_extension_size(src))
        /\ dest.mode \in IndexedModes => NotedFormat(m, a + 2 + s, get_operand_extension_size(dest))
    BY <1>2 DEF NotedLine
  <2> QED
    BY <1>5, <2>1, NotedIsThere
<1> DEFINE n == SizeCode(l.size)
<1>11. n \in {0, 1, 2} /\ (n = 2 <=> l.size = "L")
  BY <1>1 DEF SizeCode
<1> HIDE DEF n
<1>12. PICK j : j = EaWords(m, FromNumber(a + 2), encode_ea(src), n)
  OBVIOUS
<1>13. j \in 0 .. 5 /\ s = 2 * j
  BY <1>1, <1>2, <1>10, <1>11, <1>12, OperandWords
<1>14. PICK k : k = EaWords(m, FromNumber(a + 2 + s), encode_ea(dest), n)
  OBVIOUS
<1>15. k \in 0 .. 5 /\ d = 2 * k
  BY <1>1, <1>3, <1>10, <1>11, <1>14, OperandWords
<1>16. InstructionWords(m, FromNumber(a), op) = 1 + j + k
  <2>1. PICK next : next = AddLong(FromNumber(a), FromWord(2))
    OBVIOUS
  <2>2. next = FromNumber(a + 2)
    <3>1. 2 \in 0 .. 255
      OBVIOUS
    <3> QED
      BY <2>1, <3>1, AddressPlus
  <2>3. AddLong(next, FromWord(2 * j)) = FromNumber(a + 2 + s)
    <3>1. 2 * j \in 0 .. 255 /\ a + 2 \in Nat
      BY <1>13
    <3> QED
      BY <1>13, <2>2, <3>1, AddressPlus
  <2>4. \/ handler_of(op) = "move_b" /\ n = 0
        \/ handler_of(op) = "move_w" /\ n = 1
        \/ handler_of(op) = "move_l" /\ n = 2
    BY <1>1, <1>7 DEF SizeCode, n
  <2> QED
    BY <1>7, <1>12, <1>14, <2>1, <2>2, <2>3, <2>4, InstructionWordsOf
<1> QED
  BY <1>4, <1>8, <1>9, <1>13, <1>15, <1>16

-----------------------------------------------------------------------------
(* An address below one of 32 bits has 32 bits. *)
LEMMA AddressBelow ==
  ASSUME NEW end \in Nat, AsNumber(FromNumber(end)) = end, NEW a \in Nat, NEW n \in Nat, a + n =< end
  PROVE  AsNumber(FromNumber(a)) = a
<1>1. a =< end
  OBVIOUS
<1> QED
  BY <1>1, AddressNumber

(* The words of the other instructions, and one that is not written. *)
LEMMA OthersHandled ==
  ASSUME NEW w
  PROVE  /\ w = \h4E71 => handler_of(w) = "nop"
         /\ w = \h4E75 => handler_of(w) = "rts"
         /\ w = 0 => handler_of(w) = "none"
<1>1. w = \h4E71 => handler_of(w) = handler_of(\h4E71)
  OBVIOUS
<1>2. w = \h4E75 => handler_of(w) = handler_of(\h4E75)
  OBVIOUS
<1>3. w = 0 => handler_of(w) = handler_of(0)
  OBVIOUS
<1> HIDE DEF handler_of
<1> QED
  BY <1>1, <1>2, <1>3, HandlerOfOthers

HasCode(l) == l.base \notin {"", "*", "ORG", "DC"}

(* Nothing is noted in the word at an address. *)
Untouched(m, a) == \A i \in DOMAIN m.changes : m.changes[i].address \notin Touched(a, 2)

(* NOP and RTS are met where they are noted, and no entry where nothing is.   *)
LEMMA OthersAreThere ==
  ASSUME NEW m, MemInv(m), ~m.lost, OneEntryEach(m), NEW a \in Nat, AsNumber(FromNumber(a)) = a,
         NEW op, op = WordAt(m, FromNumber(a))
  PROVE  /\ NotedWord(m, a, \h4E75) => op = RTS /\ handler_of(op) = "rts"
         /\ NotedWord(m, a, \h4E71) =>
              handler_of(op) = "nop" /\ InstructionWords(m, FromNumber(a), op) = 1
         /\ Untouched(m, a) => handler_of(op) = "none"
<1>1. \h4E75 \in Word /\ \h4E71 \in Word
  BY DEF Word
<1>2. ASSUME NotedWord(m, a, \h4E75)
      PROVE  op = RTS /\ handler_of(op) = "rts"
  <2>1. op = \h4E75
    BY <1>1, <1>2, NotedIsThere
  <2> QED
    BY <2>1, OthersHandled DEF RTS
<1>3. ASSUME NotedWord(m, a, \h4E71)
      PROVE  handler_of(op) = "nop" /\ InstructionWords(m, FromNumber(a), op) = 1
  <2>1. op = \h4E71
    BY <1>1, <1>3, NotedIsThere
  <2>2. handler_of(op) = "nop"
    BY <2>1, OthersHandled
  <2>3. PICK next : next = AddLong(FromNumber(a), FromWord(2))
    OBVIOUS
  <2> QED
    BY <2>2, <2>3, InstructionWordsOf
<1>4. ASSUME Untouched(m, a)
      PROVE  handler_of(op) = "none"
  <2>1. op = 0
    BY <1>4, NotedIsThere DEF Untouched
  <2> QED
    BY <2>1, OthersHandled
<1> QED
  BY <1>2, <1>3, <1>4

(* Of any other line: NOP and RTS are there, and a line without an encoder    *)
(* left its place blank.                                                     *)
LEMMA LineRuns ==
  ASSUME NEW m, MemInv(m), ~m.lost, OneEntryEach(m),
         NEW l, TakenLine(l), HasCode(l),
         IsMoveLine(l) => DestOf(l).op.mode # "IMMEDIATE",
         NEW a \in Nat, NotedLine(m, l, a),
         Asked(l) = "none" => Untouched(m, a),
         NEW end \in Nat, AsNumber(FromNumber(end)) = end, a + get_instruction_size(l) =< end,
         NEW op, op = WordAt(m, FromNumber(a))
  PROVE  /\ handler_of(op) = Asked(l) /\ handler_of(op) # "bcc"
         /\ Asked(l) = "rts" => op = RTS
         /\ Asked(l) \notin {"rts", "none"} =>
              /\ l.base \in {"MOVE", "MOVEA", "NOP"}
              /\ ~(IsMove(op) /\ IntoImmediate(op))
              /\ InstructionWords(m, FromNumber(a), op) \in 0 .. 11
              /\ get_instruction_size(l) = 2 * InstructionWords(m, FromNumber(a), op)
<1>1. AsNumber(FromNumber(a)) = a
  <2>1. get_instruction_size(l) \in Nat
    BY SizeTypes
  <2> QED
    BY <2>1, AddressBelow
<1>2. l.size \in {"B", "W", "L"}
  BY DEF TakenLine, Line
<1>3. CASE IsMoveLine(l)
  <2>1. l.base \in {"MOVE", "MOVEA"}
    BY <1>3 DEF IsMoveLine
  <2>2. handler_of(op) = Asked(l) /\ IsMove(op)
    BY <1>3, MoveLineRuns
  <2>3. handler_of(op) \notin {"bcc", "rts", "none"}
    BY <2>2 DEF IsMove
  <2>4. /\ ~IntoImmediate(op) /\ InstructionWords(m, FromNumber(a), op) \in 0 .. 11
        /\ get_instruction_size(l) = 2 * InstructionWords(m, FromNumber(a), op)
    BY <1>3, MoveLineRuns
  <2> QED
    BY <2>1, <2>2, <2>3, <2>4
<1>4. CASE l.base = "RTS"
  <2>1. ~IsMoveLine(l)
    BY <1>4 DEF IsMoveLine
  <2>2. Asked(l) = "rts"
    BY <1>4, <2>1 DEF Asked
  <2>3. NotedWord(m, a, \h4E75)
    BY <1>4 DEF NotedLine
  <2>4. op = RTS /\ handler_of(op) = "rts"
    BY <1>1, <2>3, OthersAreThere
  <2> QED
    BY <2>2, <2>4
<1>5. CASE l.base = "NOP"
  <2>1. ~IsMoveLine(l)
    BY <1>5 DEF IsMoveLine
  <2>2. Asked(l) = "nop"
    BY <1>5, <2>1 DEF Asked
  <2>3. NotedWord(m, a, \h4E71)
    BY <1>5 DEF NotedLine
  <2>4. handler_of(op) = "nop" /\ InstructionWords(m, FromNumber(a), op) = 1
    BY <1>1, <2>3, OthersAreThere
  <2>5. ~IsMove(op)
    BY <2>4 DEF IsMove
  <2>6. get_instruction_size(l) = 2
    BY <1>5 DEF get_instruction_size, FixedSize
  <2> QED
    BY <1>5, <2>2, <2>4, <2>5, <2>6
<1>6. CASE ~IsMoveLine(l) /\ l.base \notin {"RTS", "NOP"}
  <2>1. Asked(l) = "none"
    BY <1>6 DEF Asked
  <2>2. handler_of(op) = "none"
    BY <1>1, <2>1, OthersAreThere
  <2> QED
    BY <2>1, <2>2
<1> QED
  BY <1>3, <1>4, <1>5, <1>6

(* A turn goes on unless it met RTS or no entry. *)
LEMMA EveryTurn ==
  ASSUME ExecNext
  PROVE  Executing /\ running' = (opcode # RTS /\ handler_of(opcode) # "none")
<1>1. \A handler : Turn(handler) =>
        Executing /\ running' = (opcode # RTS /\ handler_of(opcode) # "none")
  BY DEF Turn
<1>2. \A handler, after : Registers(handler, after) \/ Move(handler, after) => Turn(handler)
  BY DEF Registers, Move
<1>3. \E handler : Turn(handler)
  BY <1>2 DEF ExecNext, MoveB, MoveW, MoveL, AddQ, SubQ, AddReg, SubReg, AddI, SubI, AndI,
              BtstImm, BchgImm, BclrImm, BsetImm, Bcc, Nop, Rts, Unknown
<1> QED
  BY <1>1, <1>3

(* What is noted stays so while the program runs, if it keeps its log. *)
LEMMA TurnKeepsLog ==
  ASSUME ExecInv, ExecInv', ExecNext, ~mem'.lost
  PROVE  /\ ~mem.lost
         /\ OneEntryEach(mem') => OneEntryEach(mem)
         /\ \A l, a : NotedLine(mem, l, a) => NotedLine(mem', l, a)
         /\ \A op, size, a, x : NotedValue(mem, op, size, a, x) => NotedValue(mem', op, size, a, x)
         /\ \A n : (\A i \in DOMAIN mem'.changes : mem'.changes[i].address \notin n) =>
                     \A i \in DOMAIN mem.changes : mem.changes[i].address \notin n
<1>1. mem' = mem \/ Appended(mem, mem')
  BY EveryStepFrame DEF StepFrame
<1>2. MemInv(mem) /\ MemInv(mem')
  BY DEF ExecInv
<1>3. CASE mem' = mem
  BY <1>3
<1>4. CASE Appended(mem, mem')
  <2>1. /\ ~mem.lost /\ (OneEntryEach(mem') => OneEntryEach(mem))
        /\ \A a, w : NotedWord(mem, a, w) => NotedWord(mem', a, w)
    BY <1>2, <1>4, NotedKept
  <2>2. \A a, bytes : NotedFormat(mem, a, bytes) => NotedFormat(mem', a, bytes)
    BY <2>1 DEF NotedFormat
  <2>3. /\ \A l, a : NotedLine(mem, l, a) => NotedLine(mem', l, a)
        /\ \A op, size, a, x : NotedValue(mem, op, size, a, x) => NotedValue(mem', op, size, a, x)
    BY <2>1, <2>2 DEF NotedLine, NotedValue
  <2>4. \A i \in DOMAIN mem.changes : i \in DOMAIN mem'.changes /\ mem'.changes[i] = mem.changes[i]
    <3>1. /\ Len(mem.changes) <= Len(mem'.changes)
          /\ \A k \in 1 .. Len(mem.changes) : mem'.changes[k] = mem.changes[k]
      BY <1>4 DEF Appended
    <3>2. /\ Len(mem.changes) \in Nat /\ DOMAIN mem.changes = 1 .. Len(mem.changes)
          /\ Len(mem'.changes) \in Nat /\ DOMAIN mem'.changes = 1 .. Len(mem'.changes)
      BY <1>2, LogDomain
    <3> QED
      BY <3>1, <3>2
  <2> QED
    BY <2>1, <2>3, <2>4
<1> QED
  BY <1>1, <1>3, <1>4

(* After a line that does not end the loop the next word is that after its    *)
(* room.                                                                     *)
LEMMA TurnGoesOn ==
  ASSUME ExecInv, ExecNext, Executing',
         NEW a \in Nat, cpu.pc = FromNumber(a),
         NEW words \in 0 .. 11, words = InstructionWords(mem, FromNumber(a), opcode),
         handler_of(opcode) # "bcc", ~(IsMove(opcode) /\ IntoImmediate(opcode))
  PROVE  cpu'.pc = FromNumber(a + 2 * words)
<1>1. cpu'.pc = AddLong(cpu.pc, FromWord(2 * InstructionWords(mem, cpu.pc, opcode)))
  BY EveryStepFollows DEF FollowsInstruction
<1>2. cpu'.pc = AddLong(FromNumber(a), FromWord(2 * words))
  BY <1>1
<1>3. 2 * words \in 0 .. 255
  OBVIOUS
<1> QED
  BY <1>2, <1>3, AddressPlus

-----------------------------------------------------------------------------
(* Files that both passes see alike, with one ORG before the rest. *)
Straight == AllSeenAlike /\ source # <<>> /\ OrgFirst(source)

(* What main and the first pass leave to the second: the lines, the mappings   *)
(* so far, and a start address that only the ORG has given.                    *)
StartsAtOrg ==
  IF phase = "first pass" /\ line = 1 THEN ~org_seen
  ELSE org_seen /\ start_address = OrgAddress(source[1])

MapType == hash_table \in [Buckets -> Seq([key : Nat, value : Nat])]

SourceInv ==
  /\ Taken(source)
  /\ phase \in {"options", "mapping"} => source = <<>>
  /\ phase \in Passes \cup {"options"} => MapType
  /\ phase \in {"options", "first pass"} => hash_table = EmptyTable
  /\ phase \in Passes \cup {"loaded"} /\ Straight => StartsAtOrg
  /\ phase \in {"loaded", "executing"} /\ Straight => MapType

(* A sequence that is not empty has a first line. *)
LEMMA NotEmpty ==
  ASSUME NEW S, NEW seq \in Seq(S)
  PROVE  /\ Len(seq) \in Nat /\ DOMAIN seq = 1 .. Len(seq)
         /\ seq # <<>> => 1 \in 1 .. Len(seq) /\ Len(seq) + 1 # 1 /\ 1 =< Len(seq)
  OBVIOUS

(* A mapping keeps the type of the table. *)
LEMMA MapKept ==
  ASSUME MapType, NEW a \in Nat, NEW n \in Nat, disassembler_add_mapping(a, n, TRUE)
  PROVE  /\ MapType'
         /\ \A b \in Nat : disassembler_get_mapping(b)'
                             = IF b = a THEN n ELSE disassembler_get_mapping(b)
<1> DEFINE h == hash(a)
           new == Pushed(a, n, hash_table[h])
           Node == [key : Nat, value : Nat]
<1>1. \A b \in Nat : hash(b) \in Buckets
  BY ChainsAssumption DEF hash, Buckets
<1>2. h \in Buckets /\ hash_table[h] \in Seq(Node)
  BY <1>1 DEF MapType
<1>3. hash_table' = [hash_table EXCEPT ![h] = new]
  BY DEF disassembler_add_mapping
<1>4. new \in Seq(Node)
  <2>1. [key |-> a, value |-> n] \in Node
    OBVIOUS
  <2> HIDE DEF h, Node
  <2> QED
    BY <1>2, <2>1, PushedChain
<1> HIDE DEF new, h, Node
<1>5. MapType'
  BY <1>2, <1>3, <1>4 DEF MapType, Node
<1>6. ASSUME NEW b \in Nat
      PROVE  disassembler_get_mapping(b)' = IF b = a THEN n ELSE disassembler_get_mapping(b)
  <2>1. hash(b) \in Buckets /\ (b = a => hash(b) = h)
    BY <1>1 DEF h
  <2>2. hash_table'[hash(b)] = IF hash(b) = h THEN new ELSE hash_table[hash(b)]
    BY <1>3, <2>1 DEF MapType
  <2>3. Found(new, b, NoMapping) = IF b = a THEN n ELSE Found(hash_table[h], b, NoMapping)
    BY <1>2, FoundPushed DEF new
  <2>4. disassembler_get_mapping(b)' = Found(hash_table'[hash(b)], b, NoMapping)
    BY DEF disassembler_get_mapping
  <2>5. disassembler_get_mapping(b) = Found(hash_table[hash(b)], b, NoMapping)
    BY DEF disassembler_get_mapping
  <2> QED
    BY <2>1, <2>2, <2>3, <2>4, <2>5
<1> QED
  BY <1>5, <1>6

(* The first line of such a file is an ORG and no comment. *)
LEMMA FirstIsOrg ==
  ASSUME Taken(source), Straight
  PROVE  /\ Len(source) \in Nat /\ 1 \in 1 .. Len(source) /\ DOMAIN source = 1 .. Len(source)
         /\ source[1].base = "ORG" /\ ~source[1].comment
         /\ \A n \in 1 .. Len(source) : TakenLine(source[n]) /\ (source[n].comment <=> source[n].base = "*")
<1>1. Len(source) \in Nat /\ 1 \in 1 .. Len(source) /\ DOMAIN source = 1 .. Len(source)
  BY NotEmpty DEF Taken, Straight
<1>2. \A n \in 1 .. Len(source) : TakenLine(source[n]) /\ SeenAlike(source[n])
  BY <1>1 DEF Taken, Straight, AllSeenAlike
<1>3. \A n \in 1 .. Len(source) : source[n].comment <=> source[n].base = "*"
  BY <1>2, CommentsAlike
<1>4. source[1].base = "ORG"
  BY <1>1 DEF Straight, OrgFirst
<1> QED
  BY <1>1, <1>2, <1>3, <1>4

(* The first pass takes the start address from the first line only. *)
LEMMA FirstPassStarts ==
  ASSUME SimInv, SourceInv, perform_first_pass, Straight
  PROVE  StartsAtOrg'
<1>1. /\ Reading("first pass") /\ phase = "first pass" /\ phase \in Passes /\ "first pass" \in Passes
      /\ line' = line + 1 /\ source' = source
  BY DEF perform_first_pass, Reading, Passes, NextLine
<1>2. line \in Nat \ {0} /\ Len(source) \in Nat /\ line =< Len(source)
  BY <1>1, ReadingType
<1>3. line \in 1 .. Len(source) /\ line + 1 # 1
  BY <1>2
<1>4. Taken(source) /\ StartsAtOrg
  BY <1>1 DEF SourceInv
<1>5. SUFFICES org_seen' /\ start_address' = OrgAddress(source[1])
  BY <1>1, <1>3 DEF StartsAtOrg
<1>6. This.base = "ORG" <=> line = 1
  BY <1>3 DEF This, Straight, OrgFirst
<1>7. CASE line = 1
  <2>1. This.base = "ORG" /\ ~This.comment /\ ~org_seen /\ This = source[1]
    BY <1>1, <1>4, <1>7, FirstIsOrg DEF StartsAtOrg, This
  <2>2. ~Skipped(This)
    BY <1>1, <2>1 DEF Skipped
  <2>3. NoteOrg(This)
    BY <2>2 DEF perform_first_pass
  <2> QED
    BY <2>1, <2>3 DEF NoteOrg
<1>8. CASE line # 1
  <2>1. org_seen /\ start_address = OrgAddress(source[1])
    BY <1>4, <1>8 DEF StartsAtOrg
  <2>2. UNCHANGED <<start_address, org_seen>> \/ NoteOrg(This)
    BY DEF perform_first_pass
  <2>3. This.base # "ORG"
    BY <1>6, <1>8
  <2> QED
    BY <2>1, <2>2, <2>3 DEF NoteOrg
<1> QED
  BY <1>7, <1>8

(* What the second pass enters for the line it reads. *)
LEMMA SecondPassMaps ==
  ASSUME SimInv, MapType, perform_second_pass, failing = {}
  PROVE  /\ MapType'
         /\ Skipped(This) => UNCHANGED hash_table
         /\ ~Skipped(This) =>
              \A b \in Nat : disassembler_get_mapping(b)'
                               = IF b = current_address THEN line ELSE disassembler_get_mapping(b)
<1>1. line \in Nat /\ current_address \in Nat
  <2>1. Reading("second pass") /\ "second pass" \in Passes
    BY DEF perform_second_pass, Passes
  <2> QED
    BY <2>1, ReadingType
<1>2. Allocates
  BY DEF Allocates
<1>3. CASE Skipped(This)
  <2>1. UNCHANGED hash_table
    BY <1>3 DEF perform_second_pass
  <2> QED
    BY <1>3, <2>1 DEF MapType
<1>4. CASE ~Skipped(This)
  <2>1. disassembler_add_mapping(current_address, line, TRUE)
    BY <1>2, <1>4 DEF perform_second_pass
  <2> QED
    BY <1>1, <1>4, <2>1, MapKept
<1> QED
  BY <1>3, <1>4

-----------------------------------------------------------------------------
(* That is so from the first state on. *)
LEMMA SourceKept == SimInv /\ SourceInv /\ [SimNext]_process => SourceInv'
<1> SUFFICES ASSUME SimInv, SourceInv, [SimNext]_process PROVE SourceInv'
  OBVIOUS
<1>1. ASSUME UNCHANGED <<source, failing>>
      PROVE  Straight' = Straight /\ Taken(source)' /\ (source = <<>> => source' = <<>>)
  BY <1>1 DEF SourceInv, Straight, AllSeenAlike
<1>2. CASE LoadFile
  <2>1. /\ phase' = "first pass" /\ line' = 1 /\ source' = file.source /\ org_seen' = FALSE
        /\ hash_table' = hash_table /\ phase = "options"
    BY <1>2 DEF LoadFile, load_file
  <2>2. file.source \in Seq(Line) /\ \A n \in DOMAIN file.source : TakenLine(file.source[n])
    BY <1>2 DEF LoadFile, SimInv, CommandInv, TakenFile, File
  <2>3. Taken(source')
    <3>1. DOMAIN file.source = 1 .. Len(file.source)
      BY <2>2, NotEmpty
    <3> QED
      BY <2>1, <2>2, <3>1 DEF Taken
  <2>4. MapType'
    BY <2>1 DEF SourceInv, MapType
  <2> QED
    BY <2>1, <2>3, <2>4 DEF SourceInv, StartsAtOrg
<1>3. CASE perform_first_pass
  <2>1. /\ phase' = "first pass" /\ phase = "first pass" /\ phase \in Passes
        /\ source' = source /\ failing' = failing /\ hash_table' = hash_table
    BY <1>3 DEF perform_first_pass, Reading, NextLine, Passes
  <2>2. Straight' = Straight /\ Taken(source)'
    BY <1>1, <2>1
  <2>3. MapType'
    BY <2>1 DEF SourceInv, MapType
  <2>4. Straight => StartsAtOrg'
    BY <1>3, FirstPassStarts
  <2> QED
    BY <2>1, <2>2, <2>3, <2>4 DEF SourceInv
<1>4. CASE Rewind
  <2>1. /\ phase' = "second pass" /\ phase = "first pass" /\ phase \in Passes /\ line = Len(source) + 1
        /\ UNCHANGED <<source, failing, hash_table, start_address, org_seen>>
    BY <1>4 DEF Rewind, Passes
  <2>2. Straight' = Straight /\ Taken(source)'
    BY <1>1, <2>1
  <2>3. MapType'
    BY <2>1 DEF SourceInv, MapType
  <2>4. Straight => StartsAtOrg'
    <3>1. SUFFICES ASSUME Straight PROVE StartsAtOrg'
      OBVIOUS
    <3>2. line # 1
      BY <2>1, <3>1, NotEmpty DEF SourceInv, Taken, Straight
    <3> QED
      BY <2>1, <3>1, <3>2 DEF SourceInv, StartsAtOrg
  <2> QED
    BY <2>1, <2>2, <2>3, <2>4 DEF SourceInv
<1>5. CASE perform_second_pass
  <2>1. /\ phase' = "second pass" /\ phase = "second pass" /\ phase \in Passes
        /\ UNCHANGED <<source, failing, start_address, org_seen>>
    BY <1>5 DEF perform_second_pass, Reading, NextLine, Passes
  <2>2. Straight' = Straight /\ Taken(source)'
    BY <1>1, <2>1
  <2>3. MapType'
    <3>1. MapType
      BY <2>1 DEF SourceInv
    <3>2. line \in Nat /\ current_address \in Nat
      <4>1. Reading("second pass") /\ "second pass" \in Passes
        BY <1>5 DEF perform_second_pass, Passes
      <4> QED
        BY <4>1, ReadingType
    <3>3. CASE UNCHANGED hash_table
      BY <3>1, <3>3 DEF MapType
    <3>4. CASE disassembler_add_mapping(current_address, line, TRUE)
      BY <3>1, <3>2, <3>4, MapKept
    <3> QED
      BY <1>5, <3>3, <3>4 DEF perform_second_pass, disassembler_add_mapping
  <2>4. Straight => StartsAtOrg'
    BY <2>1 DEF SourceInv, StartsAtOrg
  <2> QED
    BY <2>1, <2>2, <2>3, <2>4 DEF SourceInv
<1>6. CASE load_file_returns
  <2>1. /\ phase' = "loaded" /\ phase = "second pass" /\ phase \in Passes
        /\ UNCHANGED <<source, failing, start_address, org_seen, hash_table>>
    BY <1>6 DEF load_file_returns, Passes
  <2>2. Straight' = Straight /\ Taken(source)'
    BY <1>1, <2>1
  <2>3. Straight => StartsAtOrg'
    BY <2>1 DEF SourceInv, StartsAtOrg
  <2>4. MapType'
    BY <2>1 DEF SourceInv, MapType
  <2> QED
    BY <2>1, <2>2, <2>3, <2>4 DEF SourceInv, Passes
<1>7. CASE LoadFaults \/ UNCHANGED process
  <2>1. UNCHANGED <<source, failing, phase, line, start_address, org_seen, hash_table>>
    BY <1>7 DEF LoadFaults, process, assembler
  <2>2. Straight' = Straight /\ Taken(source)'
    BY <1>1, <2>1
  <2> QED
    BY <2>1, <2>2 DEF SourceInv, StartsAtOrg, MapType
<1>8. CASE SetAddress
  <2>1. UNCHANGED <<source, failing, phase, hash_table>> /\ phase = "options"
    BY <1>8 DEF SetAddress
  <2> QED
    BY <1>1, <2>1 DEF SourceInv, MapType, Passes
<1>9. CASE HardcodedProgram \/ HardcodedLine
  <2>1. /\ UNCHANGED <<source, failing>> /\ phase \in {"options", "mapping"}
        /\ phase' \in {"mapping", "loaded"}
    BY <1>9 DEF HardcodedProgram, NoFileGiven, HardcodedLine, Becomes
  <2>2. source' = <<>> /\ ~Straight'
    BY <1>1, <2>1 DEF SourceInv, Straight
  <2> QED
    BY <1>1, <2>1, <2>2 DEF SourceInv, Passes
<1>10. CASE Usage \/ LoadFails \/ Dump \/ CleanUp \/ LoadExits
  <2>1. UNCHANGED <<source, failing>> /\ phase' \in {"exited", "dumped"}
    BY <1>10 DEF Usage, LoadFails, Dump, CleanUp, LoadExits, Becomes
  <2> QED
    BY <1>1, <2>1 DEF SourceInv, Passes
<1>11. CASE Start \/ Execute
  <2>1. /\ UNCHANGED <<source, failing, hash_table>>
        /\ phase \in {"loaded", "executing"} /\ phase' = "executing"
    BY <1>11 DEF Start, Execute, Becomes, assembler
  <2>2. Straight' = Straight /\ Taken(source)' /\ MapType' = MapType
    BY <1>1, <2>1 DEF MapType
  <2> QED
    BY <2>1, <2>2 DEF SourceInv, Passes
<1> QED
  BY <1>2, <1>3, <1>4, <1>5, <1>6, <1>7, <1>8, <1>9, <1>10, <1>11 DEF SimNext, LoadNext

-----------------------------------------------------------------------------
(* A number of 16 bits has no upper half. *)
LEMMA NoUpperHalf ==
  ASSUME NEW a \in Nat, a =< 65535
  PROVE  FromNumber(a).hi = 0
<1>1. (a \div 65536) % 65536 = 0
  OBVIOUS
<1> QED
  BY <1>1 DEF FromNumber

(* A source whose words have room whatever the labels mean, in a program that *)
(* ends at last.                                                             *)
Narrow(lines, l, last) ==
  IsMoveLine(l) /\ SourceOf(l).op.mode = "IMMEDIATE" /\ l.size # "L" =>
    IF SourceOf(l).op.label = NoLabel THEN SourceOf(l).op.value.hi = 0
    ELSE last =< 65535 /\ lines[1].label # SourceOf(l).op.label

(* The addresses of such a file. *)
LEMMA SourceRises ==
  ASSUME Taken(source), Straight, NEW f, Placed(f, source),
         NEW j \in 2 .. Len(source) + 1, NEW k \in j .. Len(source) + 1
  PROVE  /\ f[j] \in Nat /\ f[k] \in Nat /\ f[j] =< f[k]
         /\ (\A i \in j .. k - 1 : Bare(source[i])) => f[k] = f[j]
<1>1. OrgFirst(source)
  BY DEF Straight
<1> QED
  BY <1>1, AddressesRise

(* A label means the address of one of the lines. *)
LEMMA LabelIsLow ==
  ASSUME Taken(source), Straight, NEW f, Placed(f, source),
         Traced(f, Len(source) + 1, Entries, source),
         NEW label \in Grammar!Identifiers, source[1].label # label,
         f[Len(source) + 1] =< 65535
  PROVE  ValueOf(label).hi = 0
<1>1. CASE find_symbol(label) = NoSymbol
  BY <1>1 DEF ValueOf, ZeroLong, FromWord
<1>2. CASE find_symbol(label) # NoSymbol
  <2> DEFINE last == Len(source)
             I == { n \in 1 .. last : HasLabel(source[n], label) }
  <2>1. last \in Nat
    BY FirstIsOrg
  <2>2. (last + 1) - 1 = last /\ \A n \in 1 .. last : n \in Nat
    BY <2>1
  <2>3. Entries[label] = find_symbol(label)
    BY DEF Entries
  <2>4. I # {} /\ I \in SUBSET Nat
    BY <1>2, <2>2, <2>3 DEF Traced
  <2>5. PICK n \in I : \A k \in I : n =< k
    <3> HIDE DEF I
    <3> QED
      BY <2>4, LeastExists
  <2>6. \A k \in 1 .. n - 1 : k \in 1 .. last /\ ~(n =< k)
    BY <2>1, <2>5
  <2>7. n \in 1 .. last /\ FirstWith(source, n, label)
    BY <2>5, <2>6 DEF FirstWith
  <2>8. Entries[label] = f[n]
    BY <2>2, <2>7 DEF Traced
  <2>9. n # 1
    BY <2>7 DEF FirstWith, HasLabel
  <2>10. n \in 2 .. last + 1 /\ last + 1 \in n .. last + 1
    BY <2>1, <2>7, <2>9
  <2>11. f[n] \in Nat /\ f[last + 1] \in Nat /\ f[n] =< f[last + 1]
    <3> HIDE DEF last, I
    <3> QED
      BY <2>10, SourceRises DEF last
  <2>12. f[n] =< 65535
    BY <2>11
  <2>13. ValueOf(label) = FromNumber(f[n])
    BY <1>2, <2>3, <2>8 DEF ValueOf
  <2> QED
    BY <2>11, <2>12, <2>13, NoUpperHalf
<1> QED
  BY <1>1, <1>2

LEMMA NarrowFits ==
  ASSUME Taken(source), Straight, NEW f, Placed(f, source),
         Traced(f, Len(source) + 1, Entries, source),
         NEW l, TakenLine(l), IsMoveLine(l), Narrow(source, l, f[Len(source) + 1]), NEW address
  PROVE  FitsItsRoom(SourceOf(l).op, l.size, address)
<1> DEFINE op == SourceOf(l).op
<1>1. SUFFICES ASSUME op.mode = "IMMEDIATE", l.size # "L"
               PROVE  Resolved(op, address).value.hi = 0
  BY DEF FitsItsRoom
<1>2. op \in Parts
  <2>1. l.operands \in Seq(STRING)
    BY DEF TakenLine, Line
  <2> QED
    BY <2>1, MoveLineOperands DEF WellFormed
<1>3. CASE op.label = NoLabel
  BY <1>1, <1>3 DEF Narrow, Resolved
<1>4. CASE op.label # NoLabel
  <2>1. op.label \in Grammar!Identifiers
    BY <1>2, <1>4 DEF Parts
  <2>2. f[Len(source) + 1] =< 65535 /\ source[1].label # op.label
    BY <1>1, <1>4 DEF Narrow
  <2>3. ValueOf(op.label).hi = 0
    BY <2>1, <2>2, LabelIsLow
  <2>4. Resolved(op, address).value = ValueOf(op.label)
    BY <1>1, <1>2, <1>4 DEF Resolved, PcRelativeModes, Parts
  <2> QED
    BY <2>3, <2>4
<1> QED
  BY <1>3, <1>4

-----------------------------------------------------------------------------
(* A line of code, and what is behind it. *)
LEMMA CodeLineParts ==
  ASSUME Taken(source), Straight, NEW k \in CodeLines
  PROVE  /\ k \in 2 .. Len(source) /\ k \in 1 .. Len(source) /\ k \in Nat
         /\ k + 1 \in 2 .. Len(source) + 1 /\ TakenLine(source[k])
         /\ ~Bare(source[k]) /\ source[k].base # "ORG"
<1>1. /\ Len(source) \in Nat /\ 1 \in 1 .. Len(source) /\ DOMAIN source = 1 .. Len(source)
      /\ source[1].base = "ORG" /\ \A n \in 1 .. Len(source) : TakenLine(source[n])
  BY FirstIsOrg
<1>2. k \in DOMAIN source /\ ~Bare(source[k]) /\ source[k].base # "ORG"
  BY DEF CodeLines, Bare
<1>3. k \in 1 .. Len(source) /\ k # 1
  BY <1>1, <1>2
<1>4. k \in 2 .. Len(source) /\ k \in Nat /\ k + 1 \in 2 .. Len(source) + 1
  BY <1>1, <1>3
<1> QED
  BY <1>1, <1>2, <1>3, <1>4

LEMMA CodeLineFollows ==
  ASSUME Taken(source), Straight, NEW f, Placed(f, source), NEW k \in CodeLines,
         NEW j \in k + 1 .. Len(source) + 1
  PROVE  /\ f[k] \in Nat /\ f[j] \in Nat /\ f[k] + get_instruction_size(source[k]) =< f[j]
         /\ f[k + 1] = f[k] + get_instruction_size(source[k]) /\ f[k] # f[j]
<1>1. /\ k \in 1 .. Len(source) /\ k \in Nat /\ k + 1 \in 2 .. Len(source) + 1 /\ TakenLine(source[k])
      /\ ~Bare(source[k]) /\ source[k].base # "ORG"
  BY CodeLineParts
<1>2. f[k + 1] = AddressAfter(f[k], source[k])
  BY <1>1 DEF Placed
<1>3. f[k] \in Nat
  <2>1. k \in 1 .. Len(source) + 1
    BY <1>1, FirstIsOrg
  <2> QED
    BY <2>1 DEF Placed
<1>4. f[k + 1] = f[k] + get_instruction_size(source[k]) /\ f[k] + 2 =< f[k + 1]
  BY <1>1, <1>2, <1>3, NextIsHigher
<1>5. PICK i : i = k + 1
  OBVIOUS
<1>6. f[i] \in Nat /\ f[j] \in Nat /\ f[i] =< f[j]
  <2>1. i \in 2 .. Len(source) + 1 /\ j \in i .. Len(source) + 1
    BY <1>1, <1>5
  <2> QED
    BY <2>1, SourceRises
<1>7. PICK size \in Nat : size = get_instruction_size(source[k])
  BY <1>1, SizeTypes
<1>8. PICK x \in Nat, y \in Nat, z \in Nat : x = f[k] /\ y = f[i] /\ z = f[j]
  BY <1>3, <1>6
<1>9. y = x + size /\ x + 2 =< y /\ y =< z
  BY <1>4, <1>5, <1>6, <1>7, <1>8
<1>10. x + size =< z /\ x # z
  BY <1>9
<1> QED
  BY <1>4, <1>7, <1>8, <1>10

-----------------------------------------------------------------------------
(* The code of the lines before the next: each is found at its address, ...   *)
LineIsFound(f, k) == disassembler_get_mapping(f[k]) = k

(* ... and at no other address, ... *)
LinesAreApart(f) ==
  \A a \in Nat : \A k \in CodeLines : disassembler_get_mapping(a) = k => a = f[k]

(* ... and the log has it, if nothing of the log was lost, and a label of its   *)
(* source as the address of the first line with it.                          *)
LabelIsNoted(m, lines, f, k) ==
  LET op == SourceOf(lines[k]).op
  IN  IsMoveLine(lines[k]) /\ op.label # NoLabel =>
        \A j \in 1 .. Len(lines) : FirstWith(lines, j, op.label) =>
          NotedValue(m, op, lines[k].size, f[k] + 2, FromNumber(f[j]))

LineIsNoted(f, k) ==
  ~mem.lost /\ Narrow(source, source[k], f[Len(source) + 1]) =>
    NotedLine(mem, source[k], f[k]) /\ LabelIsNoted(mem, source, f, k)

CodeAt(f) ==
  /\ Placed(f, source) /\ line \in 1 .. Len(source) + 1
  /\ IF phase = "second pass" THEN Traced(f, Len(source) + 1, Entries, source)
                              ELSE line = Len(source) + 1
  /\ line # 1 => current_address = f[line]
  /\ LinesAreApart(f)
  /\ \A k \in CodeLines : k < line => LineIsFound(f, k) /\ LineIsNoted(f, k)

(* No line is found before one is mapped. *)
LEMMA NothingMapped ==
  ASSUME NEW a \in Nat, hash_table' = EmptyTable
  PROVE  disassembler_get_mapping(a)' \notin Nat
<1>1. hash(a) \in Buckets
  BY ChainsAssumption DEF hash, Buckets
<1>2. EmptyTable[hash(a)] = <<>>
  BY <1>1 DEF EmptyTable
<1>3. Found(<<>>, a, NoMapping) = NoMapping
  BY DEF Found, Stops
<1> QED
  BY <1>2, <1>3, SimulatorAssumption DEF disassembler_get_mapping

(* A label means the address of its first line. *)
LEMMA LabelIsFound ==
  ASSUME NEW f, Placed(f, source), Traced(f, Len(source) + 1, Entries, source), Len(source) \in Nat,
         NEW label \in Grammar!Identifiers, NEW j \in 1 .. Len(source), FirstWith(source, j, label)
  PROVE  ValueOf(label) = FromNumber(f[j])
<1>1. (Len(source) + 1) - 1 = Len(source) /\ j \in 1 .. Len(source) + 1
  OBVIOUS
<1>2. Entries[label] = f[j] /\ f[j] \in Nat
  BY <1>1 DEF Traced, Placed
<1>3. find_symbol(label) = f[j] /\ find_symbol(label) # NoSymbol
  BY <1>2, SymbolTableAssumption DEF Entries
<1> QED
  BY <1>3 DEF ValueOf

(* The second pass begins with the addresses that the first went through. *)
LEMMA RewindCodes ==
  ASSUME SimInv, SourceInv, TraceInv, Rewind, Straight
  PROVE  \E f : CodeAt(f)'
<1>1. /\ phase' = "second pass" /\ phase = "first pass" /\ phase \in Passes
      /\ line' = 1 /\ source' = source /\ table' = table /\ line = Len(source) + 1
  BY DEF Rewind, Passes, symbols
<1>2. Entries' = Entries
  BY <1>1 DEF Entries, find_symbol, ChainOf
<1>3. PICK f \in [1 .. Len(source) + 1 -> Nat] : Traced(f, Len(source) + 1, Entries, source)
  BY <1>1 DEF TraceInv, TracedTo, Straight
<1>4. Len(source) \in Nat /\ Taken(source)
  BY NotEmpty DEF SourceInv, Taken
<1>5. Placed(f, source) /\ 1 \in 1 .. Len(source) + 1
  <2>1. (Len(source) + 1) - 1 = Len(source) /\ 1 \in 1 .. Len(source) + 1
    BY <1>4
  <2> QED
    BY <1>3, <2>1 DEF Traced, Placed
<1>6. \A k \in CodeLines : ~(k < 1)
  <2>1. \A k \in CodeLines : k \in 2 .. Len(source)
    BY <1>4, CodeLineParts
  <2> QED
    BY <2>1
<1>7. CodeLines' = CodeLines
  BY <1>1 DEF CodeLines
<1>8. LinesAreApart(f)'
  <2>1. hash_table' = EmptyTable
    BY <1>1 DEF Rewind, SourceInv
  <2>2. \A k \in CodeLines : k \in Nat
    BY <1>4, CodeLineParts
  <2>3. \A a \in Nat : disassembler_get_mapping(a)' \notin Nat
    BY <2>1, NothingMapped
  <2> QED
    BY <1>7, <2>2, <2>3 DEF LinesAreApart
<1>9. CodeAt(f)'
  BY <1>1, <1>2, <1>3, <1>5, <1>6, <1>7, <1>8 DEF CodeAt
<1> QED
  BY <1>9

(* A line of the second pass is found and noted, and those before it stay so. *)
LEMMA SecondPassCodes ==
  ASSUME SimInv, SourceInv, perform_second_pass, Straight, NEW f, CodeAt(f)
  PROVE  CodeAt(f)'
<1> DEFINE last == Len(source)
<1>1. /\ Reading("second pass") /\ phase = "second pass" /\ phase \in Passes /\ "second pass" \in Passes
      /\ phase' = "second pass" /\ line' = line + 1 /\ source' = source /\ failing' = failing
      /\ table' = table
  BY DEF perform_second_pass, Reading, NextLine, Passes, symbols
<1>2. /\ Taken(source) /\ MapType /\ failing = {} /\ Placed(f, source)
      /\ Traced(f, last + 1, Entries, source)
      /\ line # 1 => current_address = f[line]
      /\ LinesAreApart(f)
      /\ \A k \in CodeLines : k < line => LineIsFound(f, k) /\ LineIsNoted(f, k)
  BY <1>1 DEF SourceInv, Straight, AllSeenAlike, CodeAt
<1>3. /\ line \in Nat \ {0} /\ last \in Nat /\ line =< last /\ current_address \in Nat
      /\ TakenLine(source[line])
  BY <1>1, ReadingType
<1>4. line \in 1 .. last /\ line + 1 \in 1 .. last + 1 /\ line + 1 # 1
  BY <1>3
<1>5. f[line + 1] = AddressAfter(f[line], source[line])
  BY <1>2, <1>4 DEF Placed
<1>6. current_address' = AddressAfter(current_address, source[line])
  BY <1>1 DEF perform_second_pass, Skipped, NextAddress, AddressAfter, This
<1>7. current_address' = f[line + 1]
  <2>1. CASE line = 1
    <3>1. source[line].base = "ORG"
      BY <1>4, <2>1 DEF Straight, OrgFirst
    <3> QED
      BY <1>5, <1>6, <3>1 DEF AddressAfter
  <2>2. CASE line # 1
    BY <1>2, <1>5, <1>6, <2>2
  <2> QED
    BY <2>1, <2>2
<1>8. Skipped(This) <=> Bare(source[line])
  BY <1>1 DEF Skipped, Bare, This
<1>9. /\ Skipped(This) => UNCHANGED <<mem, hash_table>>
      /\ ~Skipped(This) =>
           \A b \in Nat : disassembler_get_mapping(b)'
                            = IF b = current_address THEN line ELSE disassembler_get_mapping(b)
  <2>1. Skipped(This) => mem' = mem
    BY DEF perform_second_pass
  <2> QED
    BY <1>2, <2>1, SecondPassMaps
<1>10. Entries' = Entries /\ CodeLines' = CodeLines
  BY <1>1 DEF Entries, find_symbol, ChainOf, CodeLines
<1>11. ASSUME NEW k \in CodeLines, k < line
       PROVE  LineIsFound(f, k)' /\ LineIsNoted(f, k)'
  <2>1. LineIsFound(f, k) /\ LineIsNoted(f, k)
    BY <1>2, <1>11
  <2>2. k \in 2 .. last /\ line # 1
    <3>1. k \in 2 .. last
      BY <1>2, CodeLineParts
    <3> QED
      BY <1>11, <3>1
  <2>3. f[k] \in Nat /\ f[k] # f[line]
    <3>1. line \in k + 1 .. last + 1
      BY <1>3, <1>11, <2>2
    <3> QED
      BY <1>2, <3>1, CodeLineFollows
  <2>4. LineIsFound(f, k)'
    <3>1. CASE Skipped(This)
      BY <1>9, <2>1, <3>1 DEF LineIsFound, disassembler_get_mapping
    <3>2. CASE ~Skipped(This)
      BY <1>2, <1>9, <2>1, <2>2, <2>3, <3>2 DEF LineIsFound
    <3> QED
      BY <3>1, <3>2
  <2>5. ASSUME ~mem'.lost, Narrow(source, source[k], f[last + 1])
        PROVE  NotedLine(mem', source[k], f[k]) /\ LabelIsNoted(mem', source, f, k)
    <3>1. CASE Skipped(This)
      BY <1>9, <2>1, <2>5, <3>1 DEF LineIsNoted
    <3>2. CASE ~Skipped(This)
      <4>1. PICK w : Sound(mem) /\ Wrote(mem, mem', current_address, w)
        BY <3>2, ThisWrites
      <4>2. PICK n : n = mem'
        OBVIOUS
      <4>3. ~mem.lost
        BY <2>5, <4>1, <4>2, WroteKeeps
      <4>4. NotedLine(mem, source[k], f[k]) /\ LabelIsNoted(mem, source, f, k)
        BY <2>1, <2>5, <4>3 DEF LineIsNoted
      <4>5. NotedLine(n, source[k], f[k])
        BY <2>5, <4>1, <4>2, <4>4, NotedLineKept
      <4>6. \A op, size, b, x : NotedValue(mem, op, size, b, x) => NotedValue(n, op, size, b, x)
        BY <2>5, <4>1, <4>2, NotedLineKept
      <4>7. LabelIsNoted(n, source, f, k)
        BY <4>4, <4>6 DEF LabelIsNoted
      <4> QED
        BY <4>2, <4>5, <4>7
    <3> QED
      BY <3>1, <3>2
  <2>6. LineIsNoted(f, k)'
    <3>1. Narrow(source, source[k], f[last + 1])' <=> Narrow(source, source[k], f[last + 1])
      BY <1>1
    <3> QED
      BY <1>1, <2>5, <3>1 DEF LineIsNoted
  <2> QED
    BY <2>4, <2>6
<1>12. PICK n \in Nat : n = line
  BY <1>3
<1>13. ASSUME n \in CodeLines
       PROVE  LineIsFound(f, n)' /\ LineIsNoted(f, n)'
  <2>1. ~Bare(source[n]) /\ n # 1 /\ TakenLine(source[n])
    <3>1. n \in 2 .. last /\ ~Bare(source[n]) /\ TakenLine(source[n])
      BY <1>2, <1>13, CodeLineParts
    <3> QED
      BY <3>1
  <2>2. ~Skipped(This) /\ This = source[n] /\ current_address = f[n]
    BY <1>2, <1>8, <1>12, <2>1 DEF This
  <2>3. LineIsFound(f, n)'
    BY <1>3, <1>9, <1>12, <2>2 DEF LineIsFound
  <2>4. ASSUME ~mem'.lost, Narrow(source, source[n], f[last + 1])
        PROVE  NotedLine(mem', source[n], f[n]) /\ LabelIsNoted(mem', source, f, n)
    <3>1. /\ Looked /\ Sound(mem) /\ Allocates \in BOOLEAN
          /\ mem' = Encoded(mem, source[n], f[n], Allocates)
      BY <2>2, ThisWrites
    <3>2. PICK m : m = mem'
      OBVIOUS
    <3>3. IsMoveLine(source[n]) => FitsItsRoom(SourceOf(source[n]).op, source[n].size, f[n])
      BY <1>2, <2>1, <2>4, NarrowFits
    <3>4. f[n] \in Nat
      BY <1>3, <2>2
    <3>5. /\ NotedLine(m, source[n], f[n])
          /\ IsMoveLine(source[n]) =>
               LET op == SourceOf(source[n]).op
               IN  NotedValue(m, op, source[n].size, f[n] + 2, Resolved(op, f[n]).value)
      BY <2>1, <2>4, <3>1, <3>2, <3>3, <3>4, LineNotes
    <3>6. LabelIsNoted(m, source, f, n)
      <4> DEFINE op == SourceOf(source[n]).op
      <4>1. SUFFICES ASSUME IsMoveLine(source[n]), op.label # NoLabel,
                            NEW j \in 1 .. last, FirstWith(source, j, op.label)
                     PROVE  NotedValue(m, op, source[n].size, f[n] + 2, FromNumber(f[j]))
        BY DEF LabelIsNoted
      <4>2. op \in Parts
        <5>1. source[n].operands \in Seq(STRING)
          BY <2>1 DEF TakenLine, Line
        <5> QED
          BY <4>1, <5>1, MoveLineOperands DEF WellFormed
      <4>3. op.label \in Grammar!Identifiers
        BY <4>1, <4>2 DEF Parts
      <4>4. ValueOf(op.label) = FromNumber(f[j])
        BY <1>2, <1>3, <4>1, <4>3, LabelIsFound
      <4>5. NotedValue(m, op, source[n].size, f[n] + 2, Resolved(op, f[n]).value)
        BY <3>5, <4>1
      <4>6. op.mode \notin PcRelativeModes => Resolved(op, f[n]).value = FromNumber(f[j])
        BY <4>1, <4>2, <4>4 DEF Resolved, Parts
      <4> HIDE DEF op
      <4>7. CASE op.mode \in PcRelativeModes
        BY <4>7 DEF NotedValue, PcRelativeModes
      <4> QED
        BY <4>5, <4>6, <4>7
    <3> QED
      BY <3>2, <3>5, <3>6
  <2>5. LineIsNoted(f, n)'
    <3>1. Narrow(source, source[n], f[last + 1])' <=> Narrow(source, source[n], f[last + 1])
      BY <1>1
    <3> QED
      BY <1>1, <2>4, <3>1 DEF LineIsNoted
  <2> QED
    BY <2>3, <2>5
<1>14. \A k \in CodeLines : k < line + 1 => LineIsFound(f, k)' /\ LineIsNoted(f, k)'
  <2>1. \A k \in CodeLines : k \in Nat
    BY <1>2, CodeLineParts
  <2>2. \A k \in Nat : k < line + 1 => k < line \/ k = n
    BY <1>3, <1>12
  <2> QED
    BY <1>11, <1>13, <2>1, <2>2
<1>15. LinesAreApart(f)'
  <2>1. SUFFICES ASSUME NEW a \in Nat, NEW k \in CodeLines, disassembler_get_mapping(a)' = k
                 PROVE  a = f[k]
    BY <1>10 DEF LinesAreApart
  <2>2. CASE disassembler_get_mapping(a) = k
    BY <1>2, <2>2 DEF LinesAreApart
  <2>3. CASE disassembler_get_mapping(a) # k
    <3>1. ~Skipped(This)
      BY <1>9, <2>1, <2>3 DEF disassembler_get_mapping
    <3>2. a = current_address /\ k = line
      BY <1>9, <2>1, <2>3, <3>1
    <3>3. line # 1
      <4>1. k \in 2 .. last
        BY <1>2, CodeLineParts
      <4> QED
        BY <3>2, <4>1
    <3> QED
      BY <1>2, <3>2, <3>3
  <2> QED
    BY <2>2, <2>3
<1> QED
  BY <1>1, <1>2, <1>4, <1>7, <1>10, <1>14, <1>15 DEF CodeAt

-----------------------------------------------------------------------------
(* What StraightCode asks of a line that may run. *)
Sober(n) ==
  /\ source[n].base # "DC" /\ ~Wide(source[n])
  /\ SourceOf(source[n]).op.mode = "IMMEDIATE" => ~HighLabel(SourceOf(source[n]).op.label)
  /\ Asked(source[n]) = "none" => Blank(n)

LEMMA StraightParts ==
  StraightCode <=>
    /\ AllSeenAlike /\ (\A n \in DOMAIN source : source[n].base = "ORG" <=> n = 1)
    /\ \E last \in CodeLines : LastCode(last) /\ \A n \in CodeLines : n =< last => Sober(n)
    /\ AsNumber(FromNumber(current_address)) = current_address
    /\ ~mem.lost /\ OneEntryEach(mem)
  BY DEF StraightCode, Sober, OneEntryEach

LEMMA StraightIsStraight ==
  ASSUME Taken(source), StraightCode
  PROVE  Straight
<1>1. DOMAIN source = 1 .. Len(source)
  BY NotEmpty DEF Taken
<1>2. OrgFirst(source)
  BY <1>1, StraightParts DEF OrgFirst
<1>3. source # <<>>
  <2>1. PICK n : n \in DOMAIN source
    BY StraightParts DEF CodeLines
  <2> QED
    BY <1>1, <2>1, NotEmpty DEF Taken
<1> QED
  BY <1>2, <1>3, StraightParts DEF Straight

(* Code that is straight after a step was so before, if the step only adds to  *)
(* the log.                                                                  *)
LEMMA StraightBefore ==
  ASSUME UNCHANGED <<assembler, hash_table, symbols>>, StraightCode',
         ~mem.lost, OneEntryEach(mem') => OneEntryEach(mem),
         \A n : (\A i \in DOMAIN mem'.changes : mem'.changes[i].address \notin n) =>
                  \A i \in DOMAIN mem.changes : mem.changes[i].address \notin n
  PROVE  StraightCode
<1>1. /\ source' = source /\ failing' = failing /\ current_address' = current_address
      /\ hash_table' = hash_table /\ table' = table
  BY DEF assembler, symbols
<1>2. StraightCode' <=>
        /\ AllSeenAlike' /\ (\A n \in DOMAIN source' : source'[n].base = "ORG" <=> n = 1)
        /\ \E last \in CodeLines' : LastCode(last)' /\ \A n \in CodeLines' : n =< last => Sober(n)'
        /\ AsNumber(FromNumber(current_address')) = current_address'
        /\ ~mem'.lost /\ OneEntryEach(mem')
  BY DEF StraightCode, Sober, OneEntryEach
<1>3. AllSeenAlike' = AllSeenAlike /\ CodeLines' = CodeLines /\ MappedAddresses' = MappedAddresses
  BY <1>1 DEF AllSeenAlike, CodeLines, MappedAddresses
<1>4. \A n : LastCode(n)' = LastCode(n)
  BY <1>1 DEF LastCode
<1>5. ASSUME NEW n, Sober(n)'
      PROVE  Sober(n)
  <2>1. ASSUME Blank(n)'
        PROVE  Blank(n)
    <3>1. \A a : disassembler_get_mapping(a)' = disassembler_get_mapping(a)
      BY <1>1 DEF disassembler_get_mapping
    <3>2. ASSUME NEW a \in MappedAddresses, disassembler_get_mapping(a) = n
          PROVE  \A i \in DOMAIN mem.changes : mem.changes[i].address \notin Touched(a, 2)
      <4>1. \A i \in DOMAIN mem'.changes : mem'.changes[i].address \notin Touched(a, 2)
        BY <1>3, <2>1, <3>1, <3>2 DEF Blank
      <4> QED
        BY <4>1
    <3> QED
      BY <3>2 DEF Blank
  <2>2. \A label : ValueOf(label)' = ValueOf(label)
    BY <1>1 DEF ValueOf, find_symbol, ChainOf
  <2>3. \A op : Resolved(op, current_address)' = Resolved(op, current_address)
    BY <1>1, <2>2 DEF Resolved
  <2>4. Wide(source[n])' = Wide(source[n])
    BY <1>1, <2>3 DEF Wide
  <2>5. \A label : HighLabel(label)' = HighLabel(label)
    BY <1>1 DEF HighLabel
  <2> QED
    BY <1>1, <1>5, <2>1, <2>4, <2>5 DEF Sober
<1>6. PICK last \in CodeLines : LastCode(last) /\ \A n \in CodeLines : n =< last => Sober(n)
  BY <1>2, <1>3, <1>4, <1>5
<1> QED
  BY <1>1, <1>2, <1>3, <1>6, StraightParts

(* An address at which a line is found is mapped. *)
LEMMA FoundIsMapped ==
  ASSUME NEW a \in Nat, NEW n \in Nat, disassembler_get_mapping(a) = n
  PROVE  a \in MappedAddresses
<1>1. hash(a) \in Buckets
  BY ChainsAssumption DEF hash, Buckets
<1>2. n # NoMapping
  BY SimulatorAssumption
<1>3. PICK i \in DOMAIN hash_table[hash(a)] : Stops(hash_table[hash(a)], a, i)
  BY <1>2 DEF disassembler_get_mapping, Found
<1>4. hash_table[hash(a)][i].key = a
  BY <1>3 DEF Stops
<1> QED
  BY <1>1, <1>3, <1>4 DEF MappedAddresses

(* The first line of code from a line on is at the address of that line. *)
LEMMA NextCode ==
  ASSUME Taken(source), Straight, NEW f, Placed(f, source),
         NEW j \in 2 .. Len(source) + 1, NEW last \in CodeLines, j =< last
  PROVE  \E n \in CodeLines : f[n] = f[j] /\ \A k \in CodeLines : j =< k => n =< k
<1> DEFINE I == { n \in CodeLines : j =< n }
<1>1. \A n \in CodeLines : n \in Nat /\ n \in 2 .. Len(source)
  BY CodeLineParts
<1>2. PICK n \in I : \A k \in I : n =< k
  <2>1. I \in SUBSET Nat /\ I # {}
    BY <1>1
  <2> HIDE DEF I
  <2> QED
    BY <2>1, LeastExists
<1>3. n \in CodeLines /\ j =< n /\ \A k \in CodeLines : j =< k => n =< k
  BY <1>2
<1> HIDE DEF I
<1>4. Len(source) \in Nat /\ DOMAIN source = 1 .. Len(source)
  BY FirstIsOrg
<1>5. n \in j .. Len(source) + 1
  BY <1>1, <1>3, <1>4
<1>6. ASSUME NEW i \in j .. n - 1
      PROVE  Bare(source[i])
  <2>1. i \in 1 .. Len(source) /\ i # 1 /\ j =< i /\ ~(n =< i)
    BY <1>1, <1>3, <1>4
  <2>2. i \notin CodeLines
    BY <1>3, <2>1
  <2>3. source[i].base # "ORG"
    BY <2>1 DEF Straight, OrgFirst
  <2> QED
    BY <1>4, <2>1, <2>2, <2>3 DEF CodeLines, Bare
<1>7. f[n] = f[j]
  BY <1>5, <1>6, SourceRises
<1> QED
  BY <1>3, <1>7

-----------------------------------------------------------------------------
(* The program counter is at a line of code, and none before it ends the loop. *)
AtLine(f, n) ==
  /\ n \in CodeLines /\ cpu.pc = FromNumber(f[n])
  /\ \A k \in CodeLines : k < n => ~LastCode(k)

(* It is where it was written. *)
LEMMA LineIsThere ==
  ASSUME SimInv, Taken(source), phase = "executing", StraightCode,
         NEW f, CodeAt(f), NEW n, AtLine(f, n)
  PROVE  /\ Straight /\ Placed(f, source) /\ LinesAreApart(f) /\ MemInv(mem)
         /\ n \in CodeLines /\ n \in Nat /\ TakenLine(source[n]) /\ ~Bare(source[n])
         /\ source[n].base # "ORG" /\ LineIsFound(f, n) /\ Sober(n) /\ ~mem.lost /\ OneEntryEach(mem)
         /\ f[n] \in Nat /\ f[Len(source) + 1] \in Nat
         /\ f[n] + get_instruction_size(source[n]) =< f[Len(source) + 1]
         /\ f[n + 1] = f[n] + get_instruction_size(source[n])
         /\ AsNumber(FromNumber(f[n])) = f[n]
         /\ AsNumber(FromNumber(f[Len(source) + 1])) = f[Len(source) + 1]
         /\ cpu.pc = FromNumber(f[n])
         /\ NotedLine(mem, source[n], f[n]) /\ LabelIsNoted(mem, source, f, n)
<1> DEFINE l == source[n]
           a == f[n]
           end == f[Len(source) + 1]
<1>1. Straight /\ n \in CodeLines /\ cpu.pc = FromNumber(a) /\ MemInv(mem)
  BY StraightIsStraight DEF AtLine, SimInv, ExecInv
<1>2. /\ Len(source) \in Nat /\ n \in 2 .. Len(source) /\ n \in Nat /\ TakenLine(l)
      /\ ~Bare(l) /\ l.base # "ORG"
  BY <1>1, CodeLineParts, FirstIsOrg
<1>3. /\ Placed(f, source) /\ line = Len(source) + 1 /\ current_address = end
      /\ LinesAreApart(f) /\ LineIsFound(f, n) /\ LineIsNoted(f, n)
  <2>1. Placed(f, source) /\ line = Len(source) + 1
    BY DEF CodeAt
  <2>2. line # 1 /\ n < line
    BY <1>2, <2>1
  <2> QED
    BY <1>1, <2>1, <2>2 DEF CodeAt
<1>4. /\ a \in Nat /\ end \in Nat /\ a + get_instruction_size(l) =< end
      /\ f[n + 1] = a + get_instruction_size(l)
  <2>1. Len(source) + 1 \in n + 1 .. Len(source) + 1
    BY <1>2
  <2> QED
    BY <1>1, <1>3, <2>1, CodeLineFollows
<1>5. Sober(n) /\ ~mem.lost /\ OneEntryEach(mem) /\ AsNumber(FromNumber(end)) = end
  <2>1. PICK last \in CodeLines : LastCode(last) /\ \A k \in CodeLines : k =< last => Sober(k)
    BY StraightParts
  <2>2. ~(last < n) /\ last \in Nat
    BY <1>1, <2>1, CodeLineParts DEF AtLine
  <2>3. n =< last
    BY <1>2, <2>2
  <2> QED
    BY <1>1, <1>3, <2>1, <2>3, StraightParts
<1> HIDE DEF l, a, end
<1>6. AsNumber(FromNumber(a)) = a
  <2>1. get_instruction_size(l) \in Nat
    BY SizeTypes
  <2> QED
    BY <1>4, <1>5, <2>1, AddressBelow
<1>7. NotedLine(mem, l, a) /\ LabelIsNoted(mem, source, f, n)
  <2>1. ASSUME IsMoveLine(l), SourceOf(l).op.mode = "IMMEDIATE", l.size # "L"
        PROVE  IF SourceOf(l).op.label = NoLabel THEN SourceOf(l).op.value.hi = 0
               ELSE end =< 65535 /\ source[1].label # SourceOf(l).op.label
    <3>1. Resolved(SourceOf(l).op, current_address).value.hi = 0
      BY <1>5, <2>1 DEF Sober, Wide, l
    <3>2. SourceOf(l).op.label # NoLabel =>
            ~(current_address > 65535) /\ source[1].label # SourceOf(l).op.label
      BY <1>5, <2>1 DEF Sober, HighLabel, l
    <3>3. ~(end > 65535) => end =< 65535
      BY <1>4
    <3> QED
      BY <1>3, <3>1, <3>2, <3>3 DEF Resolved
  <2>2. Narrow(source, l, end)
    BY <2>1 DEF Narrow
  <2> QED
    BY <1>3, <1>5, <2>2 DEF LineIsNoted, l, a, end
<1> QED
  BY <1>1, <1>2, <1>3, <1>4, <1>5, <1>6, <1>7 DEF l, a, end

(* What runs there is what the line says. *)
LEMMA LineAtWork ==
  ASSUME SimInv, Taken(source), phase = "executing", StraightCode,
         NEW f, CodeAt(f), NEW n, AtLine(f, n)
  PROVE  /\ ThisLine = n /\ handler_of(opcode) = Asked(source[n]) /\ handler_of(opcode) # "bcc"
         /\ Asked(source[n]) = "rts" => opcode = RTS
         /\ Asked(source[n]) \notin {"rts", "none"} =>
              /\ source[n].base \in {"MOVE", "MOVEA", "NOP"}
              /\ ~(IsMove(opcode) /\ IntoImmediate(opcode))
              /\ \E words \in 0 .. 11 : /\ words = InstructionWords(mem, FromNumber(f[n]), opcode)
                                        /\ f[n + 1] = f[n] + 2 * words
<1> DEFINE l == source[n]
           a == f[n]
           end == f[Len(source) + 1]
<1>1. /\ n \in CodeLines /\ n \in Nat /\ cpu.pc = FromNumber(a) /\ MemInv(mem)
      /\ TakenLine(l) /\ ~Bare(l) /\ l.base # "ORG" /\ LineIsFound(f, n)
      /\ Sober(n) /\ ~mem.lost /\ OneEntryEach(mem) /\ NotedLine(mem, l, a)
      /\ a \in Nat /\ end \in Nat /\ AsNumber(FromNumber(a)) = a /\ AsNumber(FromNumber(end)) = end
      /\ a + get_instruction_size(l) =< end /\ f[n + 1] = a + get_instruction_size(l)
  BY LineIsThere
<1> HIDE DEF l, a, end
<1>2. ThisLine = n
  BY <1>1 DEF ThisLine, LineIsFound, a
<1>3. IsMoveLine(l) => DestOf(l).op.mode # "IMMEDIATE"
  BY <1>1 DEF Sober, Wide, l
<1>4. Asked(l) = "none" => Untouched(mem, a)
  <2>1. a \in MappedAddresses /\ disassembler_get_mapping(a) = n
    BY <1>1, FoundIsMapped DEF LineIsFound, a
  <2> QED
    BY <1>1, <2>1 DEF Sober, Blank, Untouched, l
<1>5. HasCode(l)
  <2>1. l.base # "DC"
    BY <1>1 DEF Sober, l
  <2> QED
    BY <1>1, <2>1 DEF HasCode, Bare
<1>6. PICK op : op = WordAt(mem, FromNumber(a))
  OBVIOUS
<1>7. opcode = op
  BY <1>1, <1>6 DEF opcode, a
<1>8. /\ handler_of(op) = Asked(l) /\ handler_of(op) # "bcc"
      /\ Asked(l) = "rts" => op = RTS
      /\ Asked(l) \notin {"rts", "none"} =>
           /\ l.base \in {"MOVE", "MOVEA", "NOP"}
           /\ ~(IsMove(op) /\ IntoImmediate(op))
           /\ InstructionWords(mem, FromNumber(a), op) \in 0 .. 11
           /\ get_instruction_size(l) = 2 * InstructionWords(mem, FromNumber(a), op)
  BY <1>1, <1>3, <1>4, <1>5, <1>6, LineRuns
<1>9. f[n + 1] = f[n] + get_instruction_size(l)
  BY <1>1 DEF a
<1>10. ASSUME NEW w, w \in 0 .. 11, get_instruction_size(l) = 2 * w
       PROVE  f[n + 1] = f[n] + 2 * w
  BY <1>9, <1>10
<1>11. l = source[n] /\ a = f[n]
  BY DEF l, a
<1>12. ASSUME Asked(l) \notin {"rts", "none"}
       PROVE  \E words \in 0 .. 11 : /\ words = InstructionWords(mem, FromNumber(f[n]), opcode)
                                     /\ f[n + 1] = f[n] + 2 * words
  <2>1. PICK w : w = InstructionWords(mem, FromNumber(a), op)
    OBVIOUS
  <2>2. w \in 0 .. 11 /\ get_instruction_size(l) = 2 * w
    BY <1>8, <1>12, <2>1
  <2>3. f[n + 1] = f[n] + 2 * w
    BY <1>10, <2>2
  <2> QED
    BY <1>7, <1>11, <2>1, <2>2, <2>3
<1> QED
  BY <1>2, <1>7, <1>8, <1>11, <1>12

-----------------------------------------------------------------------------
RunsAt(f) == phase = "executing" /\ Executing /\ StraightCode => \E n : AtLine(f, n)

CodePhases == {"second pass", "loaded", "executing"}

CodeInv == phase \in CodePhases /\ Straight => \E f : CodeAt(f) /\ RunsAt(f)

(* The start address is that of the first line of code. *)
LEMMA StartCodes ==
  ASSUME SimInv, SourceInv, Straight, Start, NEW f, CodeAt(f)
  PROVE  CodeAt(f)' /\ RunsAt(f)'
<1>1. /\ phase = "loaded" /\ phase' = "executing"
      /\ UNCHANGED <<source, failing, line, current_address, hash_table, table, mem>>
      /\ cpu' = [cpu_pulse_reset EXCEPT !.pc = FromNumber(start_address)]
  BY DEF Start, Becomes, symbols
<1>2. CodeLines' = CodeLines
  BY <1>1 DEF CodeLines
<1>3. CodeAt(f)'
  <2>1. \A k : LineIsFound(f, k)' = LineIsFound(f, k) /\ LineIsNoted(f, k)' = LineIsNoted(f, k)
    BY <1>1 DEF LineIsFound, LineIsNoted, disassembler_get_mapping
  <2>2. LinesAreApart(f)' = LinesAreApart(f)
    BY <1>1, <1>2 DEF LinesAreApart, disassembler_get_mapping
  <2> QED
    BY <1>1, <1>2, <2>1, <2>2 DEF CodeAt
<1>4. SUFFICES ASSUME StraightCode' PROVE \E n : AtLine(f, n)'
  BY <1>3 DEF RunsAt
<1>5. Taken(source) /\ Placed(f, source) /\ StartsAtOrg
  BY <1>1 DEF SourceInv, CodeAt
<1>6. /\ Len(source) \in Nat /\ 1 \in 1 .. Len(source) /\ source[1].base = "ORG"
  BY <1>5, FirstIsOrg
<1>7. f[2] = start_address
  <2>1. f[1 + 1] = AddressAfter(f[1], source[1])
    BY <1>5, <1>6 DEF Placed
  <2>2. start_address = OrgAddress(source[1])
    BY <1>1, <1>5 DEF StartsAtOrg
  <2> QED
    BY <1>6, <2>1, <2>2 DEF AddressAfter
<1>8. PICK last \in CodeLines : last \in 2 .. Len(source)
  <2>1. PICK last : last \in CodeLines
    BY <1>2, <1>4 DEF StraightCode
  <2> QED
    BY <1>5, <2>1, CodeLineParts
<1>9. 2 \in 2 .. Len(source) + 1 /\ 2 =< last
  BY <1>6, <1>8
<1>10. PICK n \in CodeLines : f[n] = f[2] /\ \A k \in CodeLines : 2 =< k => n =< k
  BY <1>5, <1>9, NextCode
<1>11. \A k \in CodeLines : 2 =< k /\ k \in Nat
  BY <1>5, CodeLineParts
<1>12. \A k \in CodeLines : ~(k < n)
  BY <1>10, <1>11
<1>13. cpu'.pc = FromNumber(f[n])
  <2>1. "pc" \in DOMAIN cpu_pulse_reset
    BY DEF cpu_pulse_reset, cpu_init
  <2> QED
    BY <1>1, <1>7, <1>10, <2>1
<1>14. AtLine(f, n)'
  BY <1>2, <1>10, <1>12, <1>13 DEF AtLine
<1> QED
  BY <1>14

-----------------------------------------------------------------------------
(* Between lines 2 and the last. *)
LEMMA NextLineNumber ==
  ASSUME NEW N \in Nat, NEW n \in 2 .. N, NEW last \in 2 .. N, ~(last =< n)
  PROVE  /\ n + 1 \in 2 .. N + 1 /\ n + 1 =< last
         /\ \A k \in 2 .. N : ~(n + 1 =< k) => k < n \/ k = n
  OBVIOUS

(* A turn keeps the code and goes on to the next line of it. *)
LEMMA ExecuteCodes ==
  ASSUME SimInv, SimInv', SourceInv, Straight, Execute, NEW f, CodeAt(f), RunsAt(f)
  PROVE  CodeAt(f)' /\ RunsAt(f)'
<1>1. /\ phase = "executing" /\ phase' = "executing" /\ ExecNext /\ ExecInv /\ ExecInv'
      /\ UNCHANGED <<source, failing, line, current_address, hash_table, table>>
      /\ UNCHANGED <<assembler, hash_table, symbols>>
  BY DEF Execute, assembler, symbols, SimInv
<1>2. CodeLines' = CodeLines /\ Taken(source) /\ Placed(f, source)
  BY <1>1 DEF CodeLines, SourceInv, CodeAt
<1>3. ~mem'.lost =>
        /\ ~mem.lost /\ (OneEntryEach(mem') => OneEntryEach(mem))
        /\ \A l, a : NotedLine(mem, l, a) => NotedLine(mem', l, a)
        /\ \A op, size, a, x : NotedValue(mem, op, size, a, x) => NotedValue(mem', op, size, a, x)
        /\ \A n : (\A i \in DOMAIN mem'.changes : mem'.changes[i].address \notin n) =>
                    \A i \in DOMAIN mem.changes : mem.changes[i].address \notin n
  BY <1>1, TurnKeepsLog
<1>4. CodeAt(f)'
  <2>1. ASSUME NEW k, LineIsFound(f, k), LineIsNoted(f, k)
        PROVE  LineIsFound(f, k)' /\ LineIsNoted(f, k)'
    <3>1. LineIsFound(f, k)'
      BY <1>1, <2>1 DEF LineIsFound, disassembler_get_mapping
    <3>2. LineIsNoted(f, k)'
      BY <1>1, <1>3, <2>1 DEF LineIsNoted, LabelIsNoted
    <3> QED
      BY <3>1, <3>2
  <2>2. LinesAreApart(f)' = LinesAreApart(f)
    BY <1>1, <1>2 DEF LinesAreApart, disassembler_get_mapping
  <2> QED
    BY <1>1, <1>2, <2>1, <2>2 DEF CodeAt
<1>5. SUFFICES ASSUME Executing', StraightCode' PROVE \E n : AtLine(f, n)'
  BY <1>4 DEF RunsAt
<1>6. ~mem'.lost
  BY <1>5 DEF StraightCode
<1>7. StraightCode
  BY <1>1, <1>3, <1>5, <1>6, StraightBefore
<1>8. Executing /\ running' = (opcode # RTS /\ handler_of(opcode) # "none")
  BY <1>1, EveryTurn
<1>9. opcode # RTS /\ handler_of(opcode) # "none"
  BY <1>5, <1>8 DEF Executing, Ended
<1>10. PICK n : AtLine(f, n)
  BY <1>1, <1>7, <1>8 DEF RunsAt
<1>11. /\ handler_of(opcode) = Asked(source[n]) /\ handler_of(opcode) # "bcc"
       /\ Asked(source[n]) = "rts" => opcode = RTS
       /\ Asked(source[n]) \notin {"rts", "none"} =>
            /\ source[n].base \in {"MOVE", "MOVEA", "NOP"}
            /\ ~(IsMove(opcode) /\ IntoImmediate(opcode))
            /\ \E words \in 0 .. 11 : /\ words = InstructionWords(mem, FromNumber(f[n]), opcode)
                                      /\ f[n + 1] = f[n] + 2 * words
  BY <1>1, <1>2, <1>7, <1>10, LineAtWork
<1>12. Asked(source[n]) \notin {"rts", "none"}
  BY <1>9, <1>11
<1>13. n \in CodeLines /\ n \in 2 .. Len(source) /\ f[n] \in Nat /\ Len(source) \in Nat
       /\ cpu.pc = FromNumber(f[n]) /\ ~LastCode(n)
  <2>1. n \in CodeLines /\ n \in 2 .. Len(source) /\ Len(source) \in Nat
    BY <1>2, <1>10, CodeLineParts, FirstIsOrg DEF AtLine
  <2>2. n \in 1 .. Len(source) + 1
    BY <2>1
  <2>3. source[n].base \in {"MOVE", "MOVEA", "NOP"}
    BY <1>11, <1>12
  <2> QED
    BY <1>2, <1>10, <2>1, <2>2, <2>3 DEF Placed, LastCode, AtLine
<1>14. cpu'.pc = FromNumber(f[n + 1])
  <2>1. PICK words \in 0 .. 11 : /\ words = InstructionWords(mem, FromNumber(f[n]), opcode)
                                 /\ f[n + 1] = f[n] + 2 * words
    BY <1>11, <1>12
  <2>2. PICK a \in Nat : a = f[n]
    BY <1>13
  <2>3. cpu'.pc = FromNumber(a + 2 * words)
    BY <1>1, <1>5, <1>11, <1>12, <1>13, <2>1, <2>2, TurnGoesOn
  <2> QED
    BY <2>1, <2>2, <2>3
<1>15. PICK last \in CodeLines : LastCode(last)
  BY <1>7, StraightParts
<1>16. /\ n + 1 \in 2 .. Len(source) + 1 /\ n + 1 =< last
       /\ \A k \in 2 .. Len(source) : ~(n + 1 =< k) => k < n \/ k = n
  <2>1. last \in 2 .. Len(source) /\ ~(last < n) /\ last # n
    BY <1>2, <1>10, <1>13, <1>15, CodeLineParts DEF AtLine
  <2>2. ~(last =< n)
    BY <1>13, <2>1
  <2> QED
    BY <1>13, <2>1, <2>2, NextLineNumber
<1>17. PICK next \in CodeLines : f[next] = f[n + 1] /\ \A k \in CodeLines : n + 1 =< k => next =< k
  BY <1>2, <1>15, <1>16, NextCode
<1>18. ASSUME NEW k \in CodeLines, k < next
       PROVE  ~LastCode(k)
  <2>1. k \in 2 .. Len(source) /\ next \in 2 .. Len(source)
    BY <1>2, CodeLineParts
  <2>2. ~(next =< k)
    BY <1>13, <1>18, <2>1
  <2>3. k < n \/ k = n
    BY <1>16, <1>17, <2>1, <2>2
  <2> QED
    BY <1>10, <1>13, <2>3 DEF AtLine
<1>19. AtLine(f, next)'
  <2>1. \A k : LastCode(k)' = LastCode(k)
    BY <1>1 DEF LastCode
  <2> QED
    BY <1>2, <1>14, <1>17, <1>18, <2>1 DEF AtLine
<1> QED
  BY <1>19

(* The code stays where it is, from the second pass to the end of the loop. *)
LEMMA CodeKept ==
  SimInv /\ SimInv' /\ SourceInv /\ TraceInv /\ CodeInv /\ [SimNext]_process => CodeInv'
<1> SUFFICES ASSUME SimInv, SimInv', SourceInv, TraceInv, CodeInv, [SimNext]_process
             PROVE  CodeInv'
  OBVIOUS
<1>1. CASE phase' \notin CodePhases
  BY <1>1 DEF CodeInv
<1>2. ASSUME UNCHANGED <<source, failing>>
      PROVE  Straight' = Straight
  BY <1>2 DEF Straight, AllSeenAlike
<1>3. CASE Rewind
  <2>1. UNCHANGED <<source, failing>> /\ phase' = "second pass"
    BY <1>3 DEF Rewind
  <2>2. Straight' => \E f : CodeAt(f)'
    BY <1>2, <1>3, <2>1, RewindCodes
  <2> QED
    BY <2>1, <2>2 DEF CodeInv, RunsAt
<1>4. CASE perform_second_pass
  <2>1. /\ UNCHANGED <<source, failing>> /\ phase = "second pass" /\ phase' = "second pass"
        /\ phase \in CodePhases
    BY <1>4 DEF perform_second_pass, Reading, NextLine, CodePhases
  <2>2. Straight' => \E f : CodeAt(f)
    BY <1>2, <2>1 DEF CodeInv
  <2>3. Straight' => \E f : CodeAt(f)'
    BY <1>2, <1>4, <2>1, <2>2, SecondPassCodes
  <2> QED
    BY <2>1, <2>3 DEF CodeInv, RunsAt
<1>5. CASE load_file_returns
  <2>1. /\ phase = "second pass" /\ phase' = "loaded" /\ phase \in CodePhases /\ line = Len(source) + 1
        /\ UNCHANGED <<source, failing, line, current_address, hash_table, mem>>
    BY <1>5 DEF load_file_returns, CodePhases
  <2>2. CodeLines' = CodeLines
    BY <2>1 DEF CodeLines
  <2>3. ASSUME NEW f, CodeAt(f)
        PROVE  CodeAt(f)'
    <3>1. \A k : LineIsFound(f, k)' = LineIsFound(f, k) /\ LineIsNoted(f, k)' = LineIsNoted(f, k)
      BY <2>1 DEF LineIsFound, LineIsNoted, disassembler_get_mapping
    <3>2. LinesAreApart(f)' = LinesAreApart(f)
      BY <2>1, <2>2 DEF LinesAreApart, disassembler_get_mapping
    <3> QED
      BY <2>1, <2>2, <2>3, <3>1, <3>2 DEF CodeAt
  <2> QED
    BY <1>2, <2>1, <2>3 DEF CodeInv, RunsAt
<1>6. CASE Start
  <2>1. UNCHANGED <<source, failing>> /\ phase = "loaded" /\ phase \in CodePhases
    BY <1>6 DEF Start, Becomes, CodePhases
  <2>2. Straight' => \E f : CodeAt(f)' /\ RunsAt(f)'
    BY <1>2, <1>6, <2>1, StartCodes DEF CodeInv
  <2> QED
    BY <2>2 DEF CodeInv
<1>7. CASE Execute
  <2>1. UNCHANGED <<source, failing>> /\ phase = "executing" /\ phase \in CodePhases
    BY <1>7 DEF Execute, assembler, CodePhases
  <2>2. Straight' => \E f : CodeAt(f)' /\ RunsAt(f)'
    BY <1>2, <1>7, <2>1, ExecuteCodes DEF CodeInv
  <2> QED
    BY <2>2 DEF CodeInv
<1>8. CASE LoadFaults \/ UNCHANGED process
  <2>1. /\ UNCHANGED <<source, failing, phase, line, current_address, hash_table, table, mem>>
        /\ UNCHANGED <<assembler, hash_table>>
    BY <1>8 DEF LoadFaults, Fault, process, vars, assembler, symbols
  <2>2. CodeLines' = CodeLines /\ Entries' = Entries
    BY <2>1 DEF CodeLines, Entries, find_symbol, ChainOf
  <2>3. ASSUME NEW f, CodeAt(f)
        PROVE  CodeAt(f)'
    <3>1. \A k : LineIsFound(f, k)' = LineIsFound(f, k) /\ LineIsNoted(f, k)' = LineIsNoted(f, k)
      BY <2>1 DEF LineIsFound, LineIsNoted, disassembler_get_mapping
    <3>2. LinesAreApart(f)' = LinesAreApart(f)
      BY <2>1, <2>2 DEF LinesAreApart, disassembler_get_mapping
    <3> QED
      BY <2>1, <2>2, <2>3, <3>1, <3>2 DEF CodeAt
  <2>4. ASSUME NEW f, RunsAt(f)
        PROVE  RunsAt(f)'
    <3>1. SUFFICES ASSUME phase = "executing", Executing', StraightCode'
                   PROVE  \E n : AtLine(f, n)'
      BY <2>1 DEF RunsAt
    <3>2. UNCHANGED process
      BY <1>8, <3>1 DEF LoadFaults, Reading
    <3>3. UNCHANGED <<assembler, hash_table, symbols>> /\ cpu' = cpu /\ Executing
      BY <3>1, <3>2 DEF process, vars, Executing, Ended
    <3>4. ~mem.lost
      BY <2>1, <3>1 DEF StraightCode
    <3>5. StraightCode
      BY <2>1, <3>1, <3>3, <3>4, StraightBefore
    <3>6. PICK n : AtLine(f, n)
      BY <2>4, <3>1, <3>3, <3>5 DEF RunsAt
    <3>7. \A k : LastCode(k)' = LastCode(k)
      BY <2>1 DEF LastCode
    <3> QED
      BY <2>2, <3>3, <3>6, <3>7 DEF AtLine
  <2> QED
    BY <1>2, <2>1, <2>3, <2>4 DEF CodeInv
<1>9. CASE HardcodedProgram \/ HardcodedLine
  <2>1. UNCHANGED <<source, failing>> /\ phase \in {"options", "mapping"}
    BY <1>9 DEF HardcodedProgram, NoFileGiven, HardcodedLine, Becomes
  <2>2. ~Straight'
    BY <1>2, <2>1 DEF SourceInv, Straight
  <2> QED
    BY <2>2 DEF CodeInv
<1>10. CASE \/ SetAddress \/ Usage \/ LoadFile \/ LoadFails \/ perform_first_pass \/ Dump \/ CleanUp
            \/ LoadExits
  <2>1. phase' \in {"options", "exited", "first pass", "dumped"}
    BY <1>10 DEF SetAddress, Usage, LoadFile, load_file, LoadFails, perform_first_pass, NextLine,
                 Reading, Dump, CleanUp, Becomes, LoadExits
  <2> QED
    BY <1>1, <2>1 DEF CodePhases
<1> QED
  BY <1>3, <1>4, <1>5, <1>6, <1>7, <1>8, <1>9, <1>10 DEF SimNext, LoadNext

(* So what runs is what is printed. *)
LEMMA CodeIsPrinted == SimInv /\ SourceInv /\ CodeInv => ExecutesWhatIsPrinted
<1> SUFFICES ASSUME SimInv, SourceInv, CodeInv, Running, StraightCode
             PROVE  ThisLine \in CodeLines /\ handler_of(opcode) = Asked(source[ThisLine])
  BY DEF ExecutesWhatIsPrinted
<1>1. phase = "executing" /\ Executing /\ phase \in CodePhases
  BY DEF Running, CodePhases
<1>2. Taken(source) /\ Straight
  BY StraightIsStraight DEF SourceInv
<1>3. PICK f : CodeAt(f) /\ RunsAt(f)
  BY <1>1, <1>2 DEF CodeInv
<1>4. PICK n : AtLine(f, n)
  BY <1>1, <1>3 DEF RunsAt
<1>5. ThisLine = n /\ handler_of(opcode) = Asked(source[n])
  BY <1>1, <1>2, <1>3, <1>4, LineAtWork
<1> QED
  BY <1>4, <1>5 DEF AtLine

(* They begin so. *)
LEMMA SimStarts == SimInit => TraceInv /\ SourceInv /\ CodeInv
<1>1. <<>> \in Seq(Line) /\ Len(<<>>) = 0 /\ 1 .. 0 = {}
  OBVIOUS
<1>2. \A b \in Buckets : <<>> \in Seq([key : Nat, value : Nat])
  OBVIOUS
<1> QED
  BY <1>1, <1>2 DEF SimInit, TraceInv, SourceInv, CodeInv, Passes, CodePhases, Taken, MapType,
                    EmptyTable

(* The trace that execute_program prints is the source: while nothing has been *)
(* written twice, every instruction that runs begins where a line of code      *)
(* begins, and is what that line says.                                       *)
THEOREM TheProgramIsWhatIsPrinted == SimSpec => []ExecutesWhatIsPrinted
  BY SimStarts, TraceKept, SourceKept, CodeKept, CodeIsPrinted, SimInvariant, PTL DEF SimSpec

-----------------------------------------------------------------------------
(* The cells at an address of 32 bits. *)
LEMMA CellsAtAddress ==
  ASSUME NEW m, NEW a \in Nat, AsNumber(FromNumber(a)) = a
  PROVE  /\ ByteAt(m, FromNumber(a)) = mem_read_byte(m, a)
         /\ WordAt(m, FromNumber(a)) = mem_read_word(m, a)
         /\ LongAt(m, FromNumber(a)) = mem_read_long(m, a)
<1> DEFINE M == MEMORY_SIZE
           e == a % M
<1>1. Index(FromNumber(a)) = e
  BY IndexOfAddress
<1>2. e \in Nat
  BY CellsOfWord DEF Cell
<1>3. /\ (e + 0) % M = (a + 0) % M /\ (e + 1) % M = (a + 1) % M
      /\ (e + 2) % M = (a + 2) % M /\ (e + 3) % M = (a + 3) % M
  <2>1. 0 \in 0 .. 3 /\ 1 \in 0 .. 3 /\ 2 \in 0 .. 3 /\ 3 \in 0 .. 3
    OBVIOUS
  <2> QED
    BY <2>1, CellsApart
<1> HIDE DEF M, e
<1>4. e + 0 = e /\ a + 0 = a /\ (e + 2) + 1 = e + 3 /\ (a + 2) + 1 = a + 3
  BY <1>2
<1>5. mem_read_byte(m, e) = mem_read_byte(m, a)
  BY <1>3, <1>4 DEF mem_read_byte, M
<1>6. mem_read_word(m, e) = mem_read_word(m, a)
  BY <1>3, <1>5 DEF mem_read_word, mem_read_byte, M
<1>7. mem_read_word(m, e + 2) = mem_read_word(m, a + 2)
  BY <1>3, <1>4 DEF mem_read_word, mem_read_byte, M
<1> QED
  BY <1>1, <1>5, <1>6, <1>7 DEF ByteAt, WordAt, LongAt, mem_read_long

(* The fields that stand for the sources of a label. *)
LEMMA FieldOfLabel ==
  ASSUME NEW op
  PROVE  /\ op.mode = "ABSOLUTE_SHORT" => encode_ea(op) = 56
         /\ op.mode = "ABSOLUTE_LONG" => encode_ea(op) = 57
         /\ op.mode = "IMMEDIATE" => encode_ea(op) = 60
  BY DEF encode_ea, RegisterMode, OtherMode

(* What is read at an absolute address. *)
LEMMA AbsoluteRead ==
  ASSUME NEW c, NEW m, NEW ea \in {56, 57}, NEW n, NEW x,
         x = IF ea = 56 THEN SignExtendWord(WordAt(m, c.pc)) ELSE LongAt(m, c.pc)
  PROVE  read_from_ea(c, m, ea, n).value =
           CASE n = 0 -> FromWord(ByteAt(m, x)) [] n = 1 -> FromWord(WordAt(m, x))
             [] OTHER -> LongAt(m, x)
<1>1. EaMode(ea) = 7 /\ EaReg(ea) = IF ea = 56 THEN 0 ELSE 1
  BY EaFields
<1>2. resolve_ea(c, m, ea, n).address = x
  BY <1>1 DEF resolve_ea, At
<1> QED
  BY <1>1, <1>2 DEF read_from_ea, Read

(* What is read of an immediate. *)
LEMMA ImmediateRead ==
  ASSUME NEW c, NEW m, NEW n
  PROVE  read_from_ea(c, m, 60, n).value =
           IF n = 2 THEN LongAt(m, c.pc) ELSE FromWord(WordAt(m, c.pc))
<1>1. EaMode(60) = 7 /\ EaReg(60) = 4
  BY EaFields
<1> QED
  BY <1>1 DEF read_from_ea, Read

(* A long by its halves, and an address of the low 32 kB. *)
LEMMA AddressHalves ==
  ASSUME NEW b \in Nat, AsNumber(FromNumber(b)) = b
  PROVE  /\ FromNumber(b).hi \in Word /\ FromNumber(b).lo \in Word
         /\ FromNumber(b) = [hi |-> FromNumber(b).hi, lo |-> FromNumber(b).lo]
         /\ b < 32768 => SignExtendWord(FromNumber(b).lo) = FromNumber(b)
<1> DEFINE h == FromNumber(b).hi
           l == FromNumber(b).lo
<1>1. h \in Word /\ l \in Word
  BY FromNumberType DEF Long
<1>2. FromNumber(b) = [hi |-> h, lo |-> l]
  BY DEF FromNumber
<1>3. b = 65536 * h + l
  BY DEF AsNumber
<1> HIDE DEF h, l
<1>4. b < 32768 => h = 0 /\ l < 32768
  BY <1>1, <1>3 DEF Word
<1>5. b < 32768 => SignExtendWord(l) = [hi |-> h, lo |-> l]
  BY <1>1, <1>4 DEF SignExtendWord, Word
<1> QED
  BY <1>1, <1>2, <1>5 DEF h, l

(* What a size uses of what is read in that size. *)
LEMMA TruncateRead ==
  ASSUME NEW b \in Byte, NEW w, NEW x
  PROVE  /\ Truncate(FromWord(b), 0) = FromWord(b)
         /\ Truncate(FromWord(w), 1) = FromWord(w)
         /\ Truncate(x, 2) = x
         /\ Truncate(FromWord(x.lo), 0) = Truncate(x, 0)
         /\ Truncate(FromWord(x.lo), 1) = Truncate(x, 1)
<1>1. b % 256 = b
  BY DEF Byte
<1> QED
  BY <1>1 DEF Truncate, FromWord

(* What a MOVE reads of a source whose words give an address: what is there,  *)
(* or the address itself.                                                    *)
LEMMA LabelReads ==
  ASSUME NEW m, MemInv(m), ~m.lost, OneEntryEach(m), NEW op, NEW size \in {"B", "W", "L"},
         NEW a \in Nat, AsNumber(FromNumber(a)) = a, NEW b \in Nat, AsNumber(FromNumber(b)) = b,
         NotedValue(m, op, size, a, FromNumber(b)), NEW c, c.pc = FromNumber(a),
         NEW n, n = SizeCode(size), NEW x, x = read_from_ea(c, m, encode_ea(op), n).value
  PROVE  /\ Reaches(op.mode, b) => Truncate(x, n) = AtCell(m, b, size)
         /\ op.mode = "IMMEDIATE" => Truncate(x, n) = Truncate(FromNumber(b), n)
<1>1. n \in {0, 1, 2} /\ (n = 0 <=> size = "B") /\ (n = 1 <=> size = "W") /\ (n = 2 <=> size = "L")
  BY DEF SizeCode
<1>2. PICK y : y = FromNumber(b)
  OBVIOUS
<1>3. /\ y.hi \in Word /\ y.lo \in Word /\ y = [hi |-> y.hi, lo |-> y.lo]
      /\ b < 32768 => SignExtendWord(y.lo) = y
  BY <1>2, AddressHalves
<1>4. \A w \in Word : \A d \in Nat : NotedWord(m, d, w) => mem_read_word(m, d) = w
  BY WordRead
<1>5. ASSUME op.mode = "ABSOLUTE_LONG" \/ (op.mode = "IMMEDIATE" /\ n = 2)
      PROVE  LongAt(m, c.pc) = y
  <2>1. NotedWord(m, a, y.hi) /\ NotedWord(m, a + 2, y.lo)
    BY <1>1, <1>2, <1>5 DEF NotedValue
  <2>2. a + 2 \in Nat
    OBVIOUS
  <2>3. mem_read_word(m, a) = y.hi /\ mem_read_word(m, a + 2) = y.lo
    BY <1>3, <1>4, <2>1, <2>2
  <2>4. LongAt(m, c.pc) = mem_read_long(m, a)
    BY CellsAtAddress
  <2> QED
    BY <1>3, <2>3, <2>4 DEF mem_read_long
<1>6. ASSUME op.mode = "ABSOLUTE_SHORT" \/ (op.mode = "IMMEDIATE" /\ n # 2)
      PROVE  WordAt(m, c.pc) = y.lo
  <2>1. NotedWord(m, a, y.lo)
    BY <1>1, <1>2, <1>6 DEF NotedValue
  <2>2. mem_read_word(m, a) = y.lo
    BY <1>3, <1>4, <2>1
  <2>3. WordAt(m, c.pc) = mem_read_word(m, a)
    BY CellsAtAddress
  <2> QED
    BY <2>2, <2>3
<1>7. ASSUME Reaches(op.mode, b)
      PROVE  Truncate(x, n) = AtCell(m, b, size)
  <2>1. PICK ea \in {56, 57} : ea = encode_ea(op) /\ (ea = 56 <=> op.mode = "ABSOLUTE_SHORT")
    BY <1>7, FieldOfLabel DEF Reaches
  <2>2. y = IF ea = 56 THEN SignExtendWord(WordAt(m, c.pc)) ELSE LongAt(m, c.pc)
    BY <1>3, <1>5, <1>6, <1>7, <2>1 DEF Reaches
  <2>3. x = CASE n = 0 -> FromWord(ByteAt(m, y)) [] n = 1 -> FromWord(WordAt(m, y))
              [] OTHER -> LongAt(m, y)
    BY <2>1, <2>2, AbsoluteRead
  <2>4. /\ ByteAt(m, y) = mem_read_byte(m, b) /\ WordAt(m, y) = mem_read_word(m, b)
        /\ LongAt(m, y) = mem_read_long(m, b)
    BY <1>2, CellsAtAddress
  <2>5. mem_read_byte(m, b) \in Byte
    BY ReadByteType DEF MemInv
  <2>6. CASE n = 0
    BY <1>1, <2>3, <2>4, <2>5, <2>6, TruncateRead DEF AtCell
  <2>7. CASE n = 1
    BY <1>1, <2>3, <2>4, <2>5, <2>7, TruncateRead DEF AtCell
  <2>8. CASE n = 2
    BY <1>1, <2>3, <2>4, <2>5, <2>8, TruncateRead DEF AtCell
  <2> QED
    BY <1>1, <2>6, <2>7, <2>8
<1>8. ASSUME op.mode = "IMMEDIATE"
      PROVE  Truncate(x, n) = Truncate(y, n)
  <2>1. x = IF n = 2 THEN LongAt(m, c.pc) ELSE FromWord(WordAt(m, c.pc))
    BY <1>8, FieldOfLabel, ImmediateRead
  <2>2. n # 2 => x = FromWord(y.lo)
    BY <1>6, <1>8, <2>1
  <2>3. n = 2 => x = y
    BY <1>5, <1>8, <2>1
  <2>4. 0 \in Byte
    BY DEF Byte
  <2>5. Truncate(FromWord(y.lo), 0) = Truncate(y, 0) /\ Truncate(FromWord(y.lo), 1) = Truncate(y, 1)
    BY <2>4, TruncateRead
  <2>6. n = 0 \/ n = 1 \/ n = 2
    BY <1>1
  <2> QED
    BY <2>2, <2>3, <2>5, <2>6
<1> QED
  BY <1>2, <1>7, <1>8

(* What a MOVE to a data register leaves in it. *)
LEMMA RegisterGets ==
  ASSUME NEW c \in CPU, NEW m, MemInv(m), NEW op \in Word, NEW n, NEW ok \in BOOLEAN,
         NEW r \in 0 .. 7, MoveDestination(op) = r, NEW done, done = move(c, m, op, n, ok),
         NEW x, x = read_from_ea(c, m, op % 64, n).value
  PROVE  Truncate(done.cpu.d[r], n) = Truncate(x, n)
<1> DEFINE src == read_from_ea(c, m, op % 64, n)
           to == write_to_ea(src.cpu, m, r, x, n, ok)
<1>1. src.cpu \in CPU /\ x \in Long
  <2>1. op % 64 \in Int /\ m \in MemoryState
    BY OpcodeFields DEF MemInv
  <2> QED
    BY <2>1, ReadFromType DEF IsRead
<1> HIDE DEF src
<1>2. EaMode(r) = 0 /\ EaReg(r) = r
  <2>1. r \in 0 .. 63 /\ r \div 8 = 0 /\ r % 8 = r
    OBVIOUS
  <2> QED
    BY <2>1, EaFields
<1>3. to = Done([src.cpu EXCEPT !.d[r] = Merge(@, x, n)], m)
  BY <1>2 DEF write_to_ea
<1>4. src.cpu.d \in [0 .. 7 -> Long] /\ src.cpu \in CPU
  BY <1>1, CpuParts DEF RegisterNumber
<1>5. to.cpu.d[r] = Merge(src.cpu.d[r], x, n) /\ src.cpu.d[r] \in Long
  BY <1>3, <1>4 DEF Done, CPU
<1>6. done = Done([to.cpu EXCEPT !.sr = set_logic_flags(@, x, n)], to.mem)
  BY <1>2 DEF move, src
<1>7. done.cpu.d = to.cpu.d
  <2>1. to.cpu \in CPU
    BY <1>1, WriteToType DEF IsDone
  <2> HIDE DEF to
  <2> QED
    BY <1>6, <2>1 DEF Done, CPU
<1> QED
  BY <1>1, <1>5, <1>7, MergeTruncate

(* A turn that runs a MOVE to a data register. *)
LEMMA RegisterTurn ==
  ASSUME ExecInv, ExecNext, NEW size \in {"B", "W", "L"},
         handler_of(opcode) = CASE size = "B" -> "move_b" [] size = "W" -> "move_w" [] OTHER -> "move_l",
         NEW r \in 0 .. 7, MoveDestination(opcode) = r, NEW n, n = SizeCode(size),
         NEW x, x = read_from_ea(fetched, mem, opcode % 64, n).value
  PROVE  Truncate(cpu'.d[r], n) = Truncate(x, n)
<1>1. opcode \in Word /\ fetched \in CPU /\ MemInv(mem)
  <2>1. mem \in MemoryState /\ cpu \in CPU /\ MemInv(mem)
    BY DEF ExecInv, MemInv
  <2> QED
    BY <2>1, CpuParts, ReadTypes, AdvanceType DEF opcode, fetched
<1>2. PICK h : h = handler_of(opcode)
  OBVIOUS
<1>3. \/ h = "move_b" /\ n = 0
      \/ h = "move_w" /\ n = 1
      \/ h = "move_l" /\ n = 2
  BY <1>2 DEF SizeCode
<1>4. /\ MoveB => h = "move_b"
      /\ MoveW => h = "move_w"
      /\ MoveL => h = "move_l"
      /\ h \in {"move_b", "move_w", "move_l"} => MoveB \/ MoveW \/ MoveL
  BY <1>2 DEF ExecNext, MoveB, MoveW, MoveL, AddQ, SubQ, AddReg, SubReg, AddI, SubI, AndI, BtstImm,
              BchgImm, BclrImm, BsetImm, Bcc, Nop, Rts, Unknown, Registers, Move, Turn
<1>5. \E ok \in AllocAnswers : cpu' = move(fetched, mem, opcode, n, ok).cpu
  BY <1>3, <1>4 DEF MoveB, MoveW, MoveL, Move, handle_move_b, handle_move_w, handle_move_l
<1>6. PICK ok \in BOOLEAN : cpu' = move(fetched, mem, opcode, n, ok).cpu
  BY <1>5, ExecutorAssumption
<1> QED
  BY <1>1, <1>6, RegisterGets

(* Where a label is, by the source map and by the lines before it. *)
LEMMA LabelledLine ==
  ASSUME Taken(source), Straight, MapType, NEW f, Placed(f, source), LinesAreApart(f),
         NEW label, NEW a \in LabelledAddresses(label)
  PROVE  /\ a \in Nat /\ a =< f[Len(source) + 1]
         /\ \E k \in 1 .. Len(source) : FirstWith(source, k, label) /\ f[k] = a
<1>1. a \in Nat
  <2>1. PICK b \in Buckets : \E i \in DOMAIN hash_table[b] : a = hash_table[b][i].key
    BY DEF LabelledAddresses, MappedAddresses
  <2>2. PICK i \in DOMAIN hash_table[b] : a = hash_table[b][i].key
    BY <2>1
  <2>3. hash_table[b] \in Seq([key : Nat, value : Nat])
    BY DEF MapType
  <2>4. \A S : \A seq \in Seq(S) : \A j \in DOMAIN seq : seq[j] \in S
    OBVIOUS
  <2>5. hash_table[b][i] \in [key : Nat, value : Nat]
    <3> DEFINE Node == [key : Nat, value : Nat]
    <3> HIDE DEF Node
    <3>1. hash_table[b] \in Seq(Node)
      BY <2>3 DEF Node
    <3>2. hash_table[b][i] \in Node
      BY <2>2, <2>4, <3>1
    <3> QED
      BY <3>2 DEF Node
  <2> QED
    BY <2>2, <2>5
<1>2. PICK N \in CodeLines, k \in DOMAIN source :
        /\ disassembler_get_mapping(a) = N /\ Defines(k, label) /\ AfterOrg(k)
        /\ k <= N /\ \A j \in k .. N - 1 : j \notin CodeLines
  BY DEF LabelledAddresses
<1>3. Len(source) \in Nat /\ DOMAIN source = 1 .. Len(source)
  BY FirstIsOrg
<1>4. N \in 2 .. Len(source) /\ a = f[N]
  BY <1>1, <1>2, CodeLineParts DEF LinesAreApart
<1>5. k \in 2 .. Len(source) + 1 /\ k \in 1 .. Len(source) /\ N \in k .. Len(source) + 1
  <2>1. k # 1
    BY <1>2 DEF AfterOrg
  <2> QED
    BY <1>2, <1>3, <1>4, <2>1
<1>6. ASSUME NEW i \in k .. N - 1
      PROVE  Bare(source[i])
  <2>1. i \in 1 .. Len(source) /\ i # 1
    BY <1>3, <1>4, <1>5
  <2>2. source[i].base # "ORG"
    BY <2>1 DEF Straight, OrgFirst
  <2> QED
    BY <1>2, <1>3, <2>1, <2>2 DEF CodeLines, Bare
<1>7. f[N] = f[k]
  BY <1>5, <1>6, SourceRises
<1>8. FirstWith(source, k, label)
  BY <1>2 DEF Defines, FirstWith, HasLabel
<1>9. a =< f[Len(source) + 1]
  <2>1. N \in 2 .. Len(source) + 1 /\ Len(source) + 1 \in N .. Len(source) + 1
    BY <1>3, <1>4
  <2> QED
    BY <1>4, <2>1, SourceRises
<1> QED
  BY <1>1, <1>4, <1>5, <1>7, <1>8, <1>9

(* A MOVE takes its word at least. *)
LEMMA MoveLineSize ==
  ASSUME NEW l, IsMoveLine(l)
  PROVE  \E k \in Nat : get_instruction_size(l) = 2 + k
<1>1. PICK s \in Nat : s = SourceSize(SourceOf(l).op, l.size)
  BY SizeTypes
<1>2. PICK d \in Nat : d = get_operand_extension_size(DestOf(l).op)
  BY SizeTypes
<1>3. ~FixedSize(l) /\ SourceOf(l).status = "parsed" /\ DestOf(l).status = "parsed"
  BY DEF IsMoveLine, FixedSize, Branches
<1>4. get_instruction_size(l) = 2 + s + d
  BY <1>1, <1>2, <1>3 DEF get_instruction_size
<1>5. s + d \in Nat /\ 2 + s + d = 2 + (s + d)
  OBVIOUS
<1> QED
  BY <1>4, <1>5

(* A turn at a line that moves to a data register leaves there what the label *)
(* of its source means.                                                     *)
LEMMA LabelReaches ==
  ASSUME SimInv, Taken(source), MapType, phase = "executing", StraightCode, ExecNext,
         NEW f, CodeAt(f), NEW n, AtLine(f, n),
         NEW l, l = source[n], IsMoveLine(l), DestOf(l).op.mode = "DATA_REGISTER_DIRECT",
         SourceOf(l).op.label # NoLabel, NEW b \in LabelledAddresses(SourceOf(l).op.label),
         NEW to, to = Truncate(cpu'.d[DestOf(l).op.reg_num], SizeCode(l.size))
  PROVE  /\ Reaches(SourceOf(l).op.mode, b) => to = AtCell(mem, b, l.size)
         /\ SourceOf(l).op.mode = "IMMEDIATE" => to = Truncate(FromNumber(b), SizeCode(l.size))
<1> DEFINE src == SourceOf(l).op
           dest == DestOf(l).op
           size == l.size
           a == f[n]
           end == f[Len(source) + 1]
           r == dest.reg_num
           x == read_from_ea(fetched, mem, opcode % 64, SizeCode(size)).value
<1>1. /\ Straight /\ Placed(f, source) /\ LinesAreApart(f) /\ MemInv(mem) /\ TakenLine(l)
      /\ ~mem.lost /\ OneEntryEach(mem) /\ a \in Nat /\ end \in Nat
      /\ a + get_instruction_size(l) =< end
      /\ AsNumber(FromNumber(a)) = a /\ AsNumber(FromNumber(end)) = end
      /\ cpu.pc = FromNumber(a) /\ NotedLine(mem, l, a) /\ LabelIsNoted(mem, source, f, n)
  BY LineIsThere
<1>2. WellFormed(src) /\ WellFormed(dest) /\ size \in {"B", "W", "L"}
  <2>1. l.operands \in Seq(STRING) /\ l.size \in {"B", "W", "L"}
    BY <1>1 DEF TakenLine, Line
  <2> QED
    BY <2>1, MoveLineOperands
<1>3. b \in Nat /\ b =< end /\ NotedValue(mem, src, size, a + 2, FromNumber(b))
  <2>1. /\ b \in Nat /\ b =< end
        /\ \E k \in 1 .. Len(source) : FirstWith(source, k, src.label) /\ f[k] = b
    BY <1>1, LabelledLine
  <2> QED
    BY <1>1, <2>1 DEF LabelIsNoted
<1> HIDE DEF end, a
<1>4. a + 2 \in Nat /\ AsNumber(FromNumber(a + 2)) = a + 2 /\ AsNumber(FromNumber(b)) = b
  <2>1. PICK k \in Nat : get_instruction_size(l) = 2 + k
    BY MoveLineSize
  <2>2. (a + 2) + k =< end /\ a + 2 \in Nat
    BY <1>1, <2>1
  <2> QED
    BY <1>1, <1>3, <2>2, AddressBelow, AddressNumber
<1>5. PICK op : op = machine_code(size, src, dest)
  OBVIOUS
<1>6. /\ op \in Word /\ op % 64 = encode_ea(src) /\ MoveDestination(op) = encode_ea(dest)
      /\ handler_of(op) = CASE size = "B" -> "move_b" [] size = "W" -> "move_w" [] OTHER -> "move_l"
  BY <1>2, <1>5, OpcodeOfLine
<1>7. opcode = op
  <2>1. NotedWord(mem, a, op)
    BY <1>1, <1>5 DEF NotedLine
  <2> QED
    BY <1>1, <1>6, <2>1, NotedIsThere DEF opcode
<1>8. r \in 0 .. 7 /\ encode_ea(dest) = r
  <2>1. dest.mode \in DOMAIN RegisterMode /\ RegisterMode[dest.mode] = 0
    BY DEF RegisterMode
  <2>2. r \in 0 .. 7
    BY <1>2, <2>1 DEF WellFormed, RegisterModes
  <2>3. encode_ea(dest) = 8 * 0 + r
    BY <2>1 DEF encode_ea
  <2> QED
    BY <2>2, <2>3
<1>9. fetched.pc = FromNumber(a + 2)
  <2>1. ExecInv /\ cpu \in CPU
    BY DEF SimInv, ExecInv
  <2>2. fetched.pc = AddLong(cpu.pc, FromWord(2))
    BY <2>1 DEF fetched, Advance, CPU
  <2> QED
    BY <1>1, <2>2, AddressPlus
<1> HIDE DEF src, dest, size
<1>10. Truncate(cpu'.d[r], SizeCode(size)) = Truncate(x, SizeCode(size))
  <2>1. ExecInv
    BY DEF SimInv
  <2> QED
    BY <1>2, <1>6, <1>7, <1>8, <2>1, RegisterTurn
<1>11. /\ Reaches(src.mode, b) => Truncate(x, SizeCode(size)) = AtCell(mem, b, size)
       /\ src.mode = "IMMEDIATE" =>
            Truncate(x, SizeCode(size)) = Truncate(FromNumber(b), SizeCode(size))
  BY <1>1, <1>2, <1>3, <1>4, <1>6, <1>7, <1>9, LabelReads
<1> QED
  BY <1>10, <1>11 DEF src, dest, size

(* A register gets from LABEL and LABEL.L what is at the line of the label, and *)
(* from #LABEL its address: what the first pass entered, what the second wrote *)
(* for it and what the executor makes of that is the same place.             *)
THEOREM TheLabelsReachTheirLines == SimSpec => LabelsReachTheirLines
<1> DEFINE Reached ==
             Running /\ StraightCode /\ ThisLine \in CodeLines =>
               LET l    == source[ThisLine]
                   src  == SourceOf(l).op
                   dest == DestOf(l).op
                   to   == Truncate(cpu'.d[dest.reg_num], SizeCode(l.size))
               IN  IsMoveLine(l) /\ dest.mode = "DATA_REGISTER_DIRECT" /\ src.label # NoLabel =>
                     \A a \in LabelledAddresses(src.label) :
                       /\ Reaches(src.mode, a) => to = AtCell(mem, a, l.size)
                       /\ src.mode = "IMMEDIATE" => to = Truncate(FromNumber(a), SizeCode(l.size))
<1>1. SimInv /\ SourceInv /\ CodeInv /\ [SimNext]_process => [Reached]_process
  <2>1. SUFFICES ASSUME SimInv, SourceInv, CodeInv, SimNext, Running, StraightCode PROVE Reached
    OBVIOUS
  <2>2. phase = "executing" /\ Executing /\ phase \in CodePhases
    BY <2>1 DEF Running, CodePhases
  <2>3. Taken(source) /\ Straight /\ MapType
    BY <2>1, <2>2, StraightIsStraight DEF SourceInv
  <2>4. PICK f : CodeAt(f) /\ RunsAt(f)
    BY <2>1, <2>2, <2>3 DEF CodeInv
  <2>5. PICK n : AtLine(f, n)
    BY <2>1, <2>2, <2>4 DEF RunsAt
  <2>6. ThisLine = n
    BY <2>1, <2>2, <2>3, <2>4, <2>5, LineAtWork
  <2>7. ExecNext
    BY <2>1, <2>2 DEF SimNext, SetAddress, Usage, LoadFile, load_file, LoadFails, LoadNext,
                      perform_first_pass, perform_second_pass, Reading, Rewind, load_file_returns,
                      LoadFaults, LoadExits, HardcodedProgram, NoFileGiven, HardcodedLine, Start,
                      Execute, Dump, CleanUp, Becomes, Executing
  <2>8. ASSUME NEW l, l = source[n], IsMoveLine(l), DestOf(l).op.mode = "DATA_REGISTER_DIRECT",
               SourceOf(l).op.label # NoLabel, NEW b \in LabelledAddresses(SourceOf(l).op.label),
               NEW to, to = Truncate(cpu'.d[DestOf(l).op.reg_num], SizeCode(l.size))
        PROVE  /\ Reaches(SourceOf(l).op.mode, b) => to = AtCell(mem, b, l.size)
               /\ SourceOf(l).op.mode = "IMMEDIATE" => to = Truncate(FromNumber(b), SizeCode(l.size))
    BY <2>1, <2>2, <2>3, <2>4, <2>5, <2>7, <2>8, LabelReaches
  <2> QED
    BY <2>6, <2>8
<1>2. SimInit => TraceInv /\ SourceInv /\ CodeInv
  BY SimStarts
<1> QED
  BY <1>1, <1>2, TraceKept, SourceKept, CodeKept, SimInvariant, PTL DEF SimSpec, LabelsReachTheirLines
===============================================================================
