-------------------------------- MODULE Simulator --------------------------------
(***************************************************************************)
(* main.c: the options, a load or the program that main itself holds, the    *)
(* run and the clean-up, each from its component, one after the other in the *)
(* one thread of the process.                                                *)
(***************************************************************************)
EXTENDS Loader, Executor

CONSTANTS
  CommandLines,   \* [options : sequences of Option, file : a file or NoFile]
  NoFile,
  DEFAULT_START   \* 0x10000

VARIABLES
  options, file   \* what of the command line is still to be read

process == <<options, file, assembler, hash_table, symbols, vars>>

(* An option: -a with an address, -h, or what getopt answers '?' to. *)
Option == [name : {"a", "h", "?"}, address : Nat]

(* A file: whether it opens, its lines, and where the allocations fail. *)
File == [opened : BOOLEAN, source : Seq(Line), failing : SUBSET Nat]

TakenFile(words_file) ==
  words_file # NoFile =>
    /\ words_file \in File
    /\ \A n \in DOMAIN words_file.source : TakenLine(words_file.source[n])

ASSUME SimulatorAssumption ==
  /\ DEFAULT_START \in Nat /\ NoMapping \notin Nat
  /\ \A words \in CommandLines : words.options \in Seq(Option) /\ TakenFile(words.file)

SimInit ==
  /\ \E words \in CommandLines : options = words.options /\ file = words.file
  /\ phase = "options" /\ start_address = DEFAULT_START
  /\ source = <<>> /\ failing = {} /\ line = 1 /\ current_address = 0 /\ org_seen = FALSE
  /\ table = EmptyTable /\ status = "none"
  /\ hash_table = EmptyTable
  /\ mem = mem_init
  /\ cpu = cpu_init /\ running = FALSE /\ cycles = 0

SetAddress ==
  /\ phase = "options" /\ options # <<>> /\ Head(options).name = "a"
  /\ start_address' = Head(options).address
  /\ options' = Tail(options)
  /\ UNCHANGED <<file, source, failing, phase, line, current_address, org_seen,
                 hash_table, symbols, vars>>

(* To the next phase, with the assembler's variables as they are. *)
Becomes(from, to) ==
  /\ phase = from /\ phase' = to
  /\ UNCHANGED <<source, failing, current_address, start_address, org_seen, file>>

Usage ==
  /\ options # <<>> /\ Head(options).name \in {"h", "?"}
  /\ Becomes("options", "exited")
  /\ UNCHANGED <<options, line, hash_table, symbols, vars>>

LoadFile ==
  /\ phase = "options" /\ options = <<>> /\ file # NoFile /\ file.opened
  /\ load_file(file)
  /\ UNCHANGED <<options, file, cpu, running, cycles>>

(* fopen fails: the table is destroyed, main shuts the memory down. *)
LoadFails ==
  /\ options = <<>> /\ file # NoFile /\ ~file.opened
  /\ Becomes("options", "exited")
  /\ UNCHANGED <<options, line, hash_table, symbols, vars>>

-----------------------------------------------------------------------------
(* MOVE.W #3,D0; SUBQ.W #1,D0; BNE; RTS: the words and where they begin. *)
hardcoded_program == <<\h303C, 3, \h5340, \h66FC, \h4E75>>
HardcodedWord(m, i) ==
  mem_write_word(m, start_address + 2 * (i - 1), hardcoded_program[i], TRUE)
hardcoded_lines == <<0, 4, 6, 8>>

NoFileGiven == options = <<>> /\ file = NoFile /\ Becomes("options", "mapping")
               /\ UNCHANGED <<options, line, symbols>>

HardcodedProgram ==
  /\ NoFileGiven
  /\ LET moved == HardcodedWord(HardcodedWord(mem, 1), 2)
         looped == HardcodedWord(HardcodedWord(moved, 3), 4)
     IN  mem' = HardcodedWord(looped, 5)
  /\ UNCHANGED <<hash_table, cpu, running, cycles>>

HardcodedLine ==
  /\ line \in DOMAIN hardcoded_lines /\ line' = line + 1
  /\ Becomes("mapping", IF line = Len(hardcoded_lines) THEN "loaded" ELSE "mapping")
  /\ disassembler_add_mapping(start_address + hardcoded_lines[line], line, TRUE)
  /\ UNCHANGED <<options, symbols, vars>>

(* cpu_pulse_reset, and the start address that main has by now. *)
Start ==
  /\ Becomes("loaded", "executing")
  /\ cpu' = [cpu_pulse_reset EXCEPT !.pc = FromNumber(start_address)]
  /\ running' = TRUE /\ cycles' = 0
  /\ UNCHANGED <<options, line, hash_table, symbols, mem>>

Execute ==
  /\ phase = "executing" /\ ExecNext
  /\ UNCHANGED <<options, file, assembler, hash_table, symbols>>

Dump ==
  /\ Ended /\ ~mem.faulted
  /\ Becomes("executing", "dumped")
  /\ \E opened \in BOOLEAN : mem' = mem_dump_changes(mem, opened)
  /\ UNCHANGED <<options, line, hash_table, symbols, cpu, running, cycles>>

CleanUp ==
  /\ ~mem.faulted
  /\ Becomes("dumped", "exited")
  /\ disassembler_cleanup
  /\ UNCHANGED <<options, line, symbols, vars>>

SimNext ==
  \/ SetAddress \/ Usage \/ LoadFile \/ LoadFails
  \/ ~mem.faulted /\ LoadNext /\ UNCHANGED <<options, file, cpu, running, cycles>>
  \/ HardcodedProgram \/ HardcodedLine
  \/ Start \/ Execute \/ Dump \/ CleanUp

SimSpec == SimInit /\ [][SimNext]_process

(* One thread that waits for nothing: it goes from phase to phase, from line *)
(* to line, or ends there, and from turn to turn of the loop as long as it   *)
(* can.  (What a step does to the memory is not needed to say that it is      *)
(* made.)                                                                    *)
ReadLine ==
  /\ Reading("first pass") \/ Reading("second pass")
  /\ \/ NextLine /\ UNCHANGED status
     \/ phase' = "exited" /\ UNCHANGED <<line, status>>
     \/ status' = "faulted" /\ UNCHANGED <<phase, line>>

MainStep ==
  \/ SetAddress \/ Usage \/ LoadFile \/ LoadFails \/ NoFileGiven \/ HardcodedLine
  \/ UNCHANGED options /\ (ReadLine \/ Rewind \/ load_file_returns)
  \/ Start \/ Dump \/ CleanUp

FairSimSpec ==
  /\ SimSpec
  /\ WF_<<options, phase, line, status>>(~mem.faulted /\ MainStep)
  /\ WF_<<cycles, running>>(phase = "executing" /\ Turn(handler_of(opcode)))

-----------------------------------------------------------------------------
(* The process ends: it returns from main, or exits or dies in a load, or    *)
(* dies in a store.                                                          *)
EverySimulationEnds == <>(phase = "exited" \/ status = "faulted" \/ mem.faulted)

(* A line that both passes see as the same. *)
SeenAlike(l) == (l.comment => l.label = NoLabel) /\ (l.base = "*" => l.comment)

AllSeenAlike == failing = {} /\ \A n \in DOMAIN source : SeenAlike(source[n])

AfterOrg(n) == \E k \in 1 .. n - 1 : source[k].base = "ORG"

(* The first line with this label. *)
Defines(n, label) ==
  /\ source[n].label = label /\ ~source[n].comment
  /\ \A k \in 1 .. n - 1 : source[k].label # label \/ source[k].comment

(* When the second pass comes to the line of a label, it is at the address   *)
(* that the first pass gave the label: the passes add the sizes up alike,     *)
(* although each computes them from the text on its own.                     *)
LabelsMeanTheirLines ==
  Reading("second pass") /\ This.label # NoLabel /\ Defines(line, This.label)
    /\ AfterOrg(line) /\ AllSeenAlike
  => find_symbol(This.label) = current_address

(* An immediate that needs more room than its size gives it, a label's        *)
(* address among them, and an immediate destination, which is sized by its    *)
(* value and written by its size.                                            *)
Wide(l) ==
  /\ IsMoveLine(l)
  /\ \/ DestOf(l).op.mode = "IMMEDIATE"
     \/ /\ SourceOf(l).op.mode = "IMMEDIATE" /\ l.size # "L"
        /\ Resolved(SourceOf(l).op, current_address).value.hi # 0

(* The code of a line stays in the room that get_instruction_size gave it,   *)
(* and a MOVE fills it: no line writes over its neighbour or leaves a hole    *)
(* before it.  The size and the code come from two walks over the operand.    *)
LinesKeepApart ==
  [][LET written == { mem'.changes[i].address :
                        i \in Len(mem.changes) + 1 .. Len(mem'.changes) }
         room == Touched(current_address, current_address' - current_address)
     IN  phase = "second pass" /\ line' = line + 1 /\ ~mem'.lost /\ ~Wide(This) =>
           /\ written \subseteq room
           /\ IsMoveLine(This) => written = room]_process

(* Machine code that only lines of the file wrote, and each cell once: one    *)
(* ORG before the rest, and no data or wide immediate before the end, as far *)
(* as the log tells and in the 32 bits of an address.                        *)
CodeLines == { n \in DOMAIN source : source[n].base \notin {"", "*", "ORG"} }

(* The labels are gone when the program runs: this one may have been that of  *)
(* an address of more than 16 bits.                                          *)
HighLabel(label) ==
  label # NoLabel /\ (current_address > 65535 \/ source[1].label = label)

LastCode(n) == source[n].base \notin {"MOVE", "MOVEA", "NOP", "DC"}

(* The handler that a line asks for; none for one without an encoder, whose   *)
(* place stays zero.                                                         *)
Asked(l) ==
  CASE IsMoveLine(l) -> (CASE l.size = "B" -> "move_b" [] l.size = "W" -> "move_w"
                           [] OTHER -> "move_l")
    [] l.base = "NOP" -> "nop"
    [] l.base = "RTS" -> "rts"
    [] OTHER -> "none"

MappedAddresses ==
  UNION { { hash_table[b][i].key : i \in DOMAIN hash_table[b] } : b \in Buckets }

(* Nothing was written where the opcode of line n would be. *)
Blank(n) ==
  \A a \in MappedAddresses : disassembler_get_mapping(a) = n =>
    \A i \in DOMAIN mem.changes : mem.changes[i].address \notin Touched(a, 2)

StraightCode ==
  /\ AllSeenAlike
  /\ \A n \in DOMAIN source : source[n].base = "ORG" <=> n = 1
  /\ \E last \in CodeLines : LastCode(last) /\ \A n \in CodeLines :
       n <= last => /\ source[n].base # "DC" /\ ~Wide(source[n])
                    /\ SourceOf(source[n]).op.mode = "IMMEDIATE" =>
                         ~HighLabel(SourceOf(source[n]).op.label)
                    /\ Asked(source[n]) = "none" => Blank(n)
  /\ AsNumber(FromNumber(current_address)) = current_address
  /\ ~mem.lost
  /\ \A i, j \in DOMAIN mem.changes :
       mem.changes[i].address = mem.changes[j].address => i = j

Running == phase = "executing" /\ Executing

ThisLine == disassembler_get_mapping(AsNumber(cpu.pc))

(* While nothing has been written twice, every instruction that runs begins  *)
(* where a line begins, and is what that line says: the trace that           *)
(* execute_program prints is the source.  The lengths by which the loader     *)
(* places the lines and those that the executor walks through agree.          *)
ExecutesWhatIsPrinted ==
  Running /\ StraightCode =>
    ThisLine \in CodeLines /\ handler_of(opcode) = Asked(source[ThisLine])

(* Where the second pass has mapped the line of code that a label stands      *)
(* before.  The label of an ORG means the address that the ORG leaves.        *)
LabelledAddresses(label) ==
  { a \in MappedAddresses :
      \E n \in CodeLines, k \in DOMAIN source :
        /\ disassembler_get_mapping(a) = n
        /\ Defines(k, label) /\ AfterOrg(k)
        /\ k <= n /\ \A j \in k .. n - 1 : j \notin CodeLines }

(* A short address is extended by its sign, so it reaches the low 32 kB only. *)
Reaches(mode, a) == mode = "ABSOLUTE_LONG" \/ (mode = "ABSOLUTE_SHORT" /\ a < 32768)

AtCell(m, a, size) ==
  CASE size = "B" -> FromWord(mem_read_byte(m, a)) [] size = "W" -> FromWord(mem_read_word(m, a))
    [] OTHER -> mem_read_long(m, a)

SizeCode(size) == CASE size = "B" -> 0 [] size = "W" -> 1 [] OTHER -> 2

(* A register gets from LABEL and LABEL.L what is at the line of the label,   *)
(* and from #LABEL its address: what the first pass entered for the label,    *)
(* what the second wrote for it and what the executor makes of that is the    *)
(* same place.  (No source of this grammar is relative to the PC: a number or *)
(* a name before a parenthesis is taken for an address and does not parse.)   *)
LabelsReachTheirLines ==
  [][Running /\ StraightCode /\ ThisLine \in CodeLines =>
       LET l    == source[ThisLine]
           src  == SourceOf(l).op
           dest == DestOf(l).op
           to   == Truncate(cpu'.d[dest.reg_num], SizeCode(l.size))
       IN  IsMoveLine(l) /\ dest.mode = "DATA_REGISTER_DIRECT" /\ src.label # NoLabel =>
             \A a \in LabelledAddresses(src.label) :
               /\ Reaches(src.mode, a) => to = AtCell(mem, a, l.size)
               /\ src.mode = "IMMEDIATE" => to = Truncate(FromNumber(a), SizeCode(l.size))]_process

(* README.md:19, of -a <address>: "Load the program at the specified hex      *)
(* address".                                                                 *)
LoadedWhereAsked ==
  phase = "executing" /\ cycles = 0 /\ start_address # DEFAULT_START /\ ~org_seen
    => ThisLine # NoMapping
=============================================================================
