# m68ksim in TLA+

m68ksim assembles a small program of 68000 (and some 68020) instructions into a
16 MB memory and runs it, one instruction at a time, until RTS, an opcode it does
not know, or 5000 instructions. The parser of its operands is generated from
`operand_parser.peg` by PackCC, whose source is part of the repository. This
directory models both in TLA+, checks the models with TLC on small instances and
proves the central properties with TLAPS for every value of the constants.

## 1. The system

One thread, no interrupts; the parts share state through C pointers and static
variables, and call each other in this order:

```
main ──> mem_init
     ──> load_file ──> first pass  ──> symbol table, operand parser
                   └─> second pass ──> mem_write_*, disassembler_add_mapping
     ──> cpu_pulse_reset, execute_program
            └─ loop: disassembler_get_mapping, mem_read_word (fetch),
                     instruction table ──> handler ──> registers, mem_read_*, mem_write_*
     ──> mem_dump_changes, disassembler_cleanup, mem_shutdown

packcc (at build time): options ──> grammar and imported files ──> link, verify ──> generate
generated parser: parse ──> apply rule ──> code of the rule ──> memo table ──> actions
```

| component | state | operations | what makes it correct |
|---|---|---|---|
| memory (`memory.c`) | the byte array; the change log: buffer, count, capacity | read and write a byte, word, long; `record_change`; dump | a write reads back and touches nothing else, also when it wraps at the top; the log stays in its buffer, tells the whole story of the memory and can be undone |
| cpu (`cpu.c`) | `d[8]`, `a[8]`, `pc`, `sr` | init, reset | the system bits of `sr` stay what reset made them |
| executor (`executor.c`) | none but the loop's `running` and `cycles` | the table, 17 handlers, 12 addressing modes with brief and full extension words, flags, conditions, the loop | the program counter follows the instruction stream; a MOVE reads its source before it resolves its destination, stores exactly its operand and pops what it pushed; flags order the operands they come from; every run ends |
| source map (`disassembler.c`) | a hash table address → line | add, look up, clean up | the latest mapping of an address is found |
| symbol table (`loader.c`) | a hash table name → address | create, add, look up, destroy | the first definition of a label is found |
| loader (`loader.c`) | the two passes' line and address, `start_address`, `org_seen` | first pass, second pass, sizes, encodings, extension words | both passes give a line the same address; what is written is what was sized and decodes to what was read |
| operand grammar (`operand_parser.peg`) | none | ordered choice over an operand's text | each addressing mode's text is read as that mode |
| main (`main.c`) | the options left, the phase of the run | options, default program, the sequence above | what runs is what was loaded; the process ends on every path |
| PackCC (`packcc.c`) | the options; the files being read; the rules with their counts; of the generated parser the buffer, the memo table, the left recursions, the thunks | options, reading, importing, linking, verifying, generating; parsing | a grammar is read as written; rules that are kept refer to rules that are kept; the generated parser accepts what the grammar means and runs the actions of that match |

What is hard here is not concurrency, for there is none: it is *order inside one
instruction* (extension words of two operands, post-increment and pre-decrement
of one register), *edges of machine arithmetic* (flags from three sign bits,
memory and addresses that wrap, A7 and bytes), *state that outlives its
instruction* (flags, upper halves of registers, code that a program overwrites),
*partial failure* of the growing log, *two passes that must agree* with each
other and with the executor, and in PackCC *backtracking* over state that must be
restored, a *memo* that may be stale, and *code left out* because of what the
generator believes of an expression. The list with its source lines is `hazards`
in `PROJECT.json`.

## 2. Modules

| module | models | state and actions |
|---|---|---|
| `Words` | `uint8_t`, `uint16_t`, `uint32_t` | operators; a `uint32_t` is the record of its two 16-bit halves, because TLC's integers have 31 bits, and wraps as the C type does |
| `Memory` | `memory.c` | one record `mem`, so that operations are operators from record to record and chain as the C calls do; `lost` is "`changes` is NULL", `faulted` the process stopped by an access through NULL. `MemSpec` is a client that writes anything anywhere |
| `Cpu` | `cpu.c`, flags and conditions of `executor.c` | the status register is the set of its bits that are on |
| `Comparison` | one arithmetic or logic operation and the branches that read its flags | `Arithmetic`, `Logic` |
| `InstructionTable` | the table of `executor.c` | operators |
| `Decoder` | the search of `execute_program` through the table | `Handle`, `TryNext` |
| `Executor` | the rest of `executor.c` | `cpu`, `mem`, `running`, `cycles`; one action per handler and one for an unknown opcode, each a whole turn of the loop: fetch, advance, handle, count |
| `OperandGrammar` | `operand_parser.peg`, `parse_operand` | one operator per rule, from a text of tokens and a position to the operand and the position after it; an ordered choice is `Choice`, and nothing comes back to it |
| `OperandNotation` | the notations of `loader.h`, written out independently of the grammar, and a reader of texts | `text`, `meant`, `answer`; `Slip`, `Read` |
| `Dictionary` | what both hash tables promise | `entry`, a function; `LatestSpec` and `FirstSpec` |
| `Chains` | the chains of both hash tables | operators |
| `SourceMap` | `disassembler.c` | `hash_table`; implements `LatestSpec` |
| `SymbolTable` | the symbol table of `loader.c` | `table`, `status`; implements `FirstSpec` |
| `Loader` | the two passes of `loader.c`, composed of `Memory`, `SourceMap`, `SymbolTable` and an instance of `OperandGrammar` | `source`, `failing`, `phase`, `line`, `current_address`, `start_address`, `org_seen`; one action per line of a pass, one each for the beginning, the rewind and the end of a load, for an operand that ends the process and for the fault of `strcmp` |
| `Simulator` | `main.c`, composed of `Loader` and `Executor` | `options`, `file`; one action per option, per way of loading, per phase; `Execute` is a turn of the executor |
| `PegSyntax` | from the tokens of a grammar to its nodes: `parse_primary` to `parse_rule` | operators from a file being read to the same after it; a node is a record |
| `PegFile` | `parse_file_` and the directives, imports included | `parse_statement`, one round of the loop, on a context with a stack of files |
| `PegLinker` | the rule table, the reference counts, the dropping of unused rules, the variables and captures an action sees | operators on the rules |
| `PccParser` | the generated parser: what the code written for a node does, the memo table, `pcc_apply_rule`, `pcc_do_action` | operators on the state of the parser |
| `PackccOptions` | the command line parser, the options of `main` | operators |
| `PegMeaning` | what a grammar means, written without memo table, thunks or reach; the reference | operators |
| `Packcc` | `main`, `parse`, `generate` of PackCC, and the calls of what it generates | `job`, `phase`, `cl`, `opts`, `c`, `k`, `p`, `calls`; one action per option, statement, phase and call of the parser |
| `Programs`, `MC*` | the default program of `main.c` is loaded this way | word sequences written into a fresh memory, files, grammars, command lines |

In `Executor` and `Loader` a C function that changes the registers or the memory
and returns a value is an operator from them to a record of what it leaves; a
handler, or a line, composes them in the order of the calls. `\E ok \in AllocAnswers`
is the answer of the only `realloc` an instruction can make (doubling a capacity of
at least 4 leaves room for four entries); in a load `failing` says in which lines
every allocation may fail.

Definitions that begin with a "Mistake" comment are deliberate errors, each in
the place of the definition after it; they show which slip a property finds and
no specification uses them.

## 3. What TLC checks

| run | instance | shows |
|---|---|---|
| `memory` | 4 cells, a 4-entry log that must grow once, addresses that wrap, realloc failing or not | `BufferFits`, `LogExplainsMemory`, `LogUndoesMemory`, `WritesReadBack`, `LogAppendOnly` |
| `comparison` | 27 operands around every sign and wrap boundary, three sizes, all or no flags before | `UnsignedBranches`, `SignedBranchesOfLikeSigns`, `AdditionBranches`, `LogicBranches` |
| `decoder` | every opcode up to its register fields, of which three and four values | `SearchFindsHandler`, `OneEntryMatches` |
| `programs` | a MOVE of every size between 12 sources and 11 destinations with three pairs of extension words; 64 pairs of boundary values, every other instruction at every size field, a branch of every condition; 168 programs that count, push over themselves, copy, overwrite their own branch or never end; at most 28 turns, a 16-entry log | `PcFollowsInstruction`, `StoresOneOperand`, `StackStaysAligned`, `PopReturnsPushed`, `MoveOntoItself`, `FlagFrame`, `DataRegisterFrame`, `FlagsTellTheChange`, `LogAppendOnly`, `EveryRunEnds` |
| `operands` | 1271 notations of eighteen modes with two address registers and one data register, numbers and a name, and 136000 texts with one token dropped, doubled, swapped or replaced | `ReadsWhatWasWritten`, `AcceptsNotationsOnly` |
| `tables` | both hash tables of a load: three addresses of which two collide, two names that collide, chains of up to three nodes, malloc and strdup failing or not | `NodesAreInTheirChains`, `OneNodePerName`, `LatestLineIsFound`, `FirstDefinitionIsFound` |
| `simulator` | files of up to six lines: a MOVE of every size between 16 sources and 17 destinations, data between code, labels before, after and twice, of the ORG and behind the last line, above and below 16 bits, a branch moved into the place of a line without an encoder, one ORG, two and none, comments, operands that do not parse, allocations failing in any line; command lines with options in every order and with no file | `LabelsMeanTheirLines`, `LinesKeepApart`, `ExecutesWhatIsPrinted`, `LabelsReachTheirLines`, `EverySimulationEnds` |
| `packcc` | 1800 jobs: every pair of 14 kinds of part with 7 kinds of end in sequence, choice, repetition and prediction, left recursions, captures, classes, each written out as text, read back, linked, generated and run on inputs of up to five bytes in UTF-8 and ASCII mode; texts with mistakes, directives, cyclic imports; 16 command lines | `ReadsTheGrammarWritten`, `KeptRulesAreClosed`, `ParsesAsThePeg`, `ReachIsHonest`, `ReadingGoesOn` |

What the five properties of `simulator` say together: the passes, which size every
line on their own from its text, agree on where a label is; a line's code stays in
the room that its size gave it, and a MOVE fills it; while nothing is written
twice, what the executor runs is the line that its trace prints, although the
executor finds the length of an instruction from its words and the loader from
its text; and what a register gets from `LABEL`, `LABEL.L` or `#LABEL` is the cell
or the address of the line of code the label stands before. (The label of an ORG means
the address before it, and a label behind the last line no line: neither is meant.)

`ParsesAsThePeg` compares the generated parser (memo table, seeds and heads of left
recursions, thunks that are appended and taken back, code left out) with
`PegMeaning`, which has none of these: the same inputs are accepted, as far, with the same
actions in the same order. `ReachIsHonest` runs the code of every node at
every place of the input and finds it to fail or succeed as the generator
assumed when it left the other branch out.

Four runs end in a counterexample, each to a sentence of the source:

* `memory_loss`: `memory.c:40` calls a failed `realloc` "not a fatal error". The
  count and the doubled capacity stay, the pointer is NULL, and the next write
  stores through it.
* `signed_branches`: `set_flags` tests the result's sign the wrong way round for
  a subtraction (`executor.c:84`): after `D - S` of different signs BGE, BLT, BGT
  and BLE are reversed. `SignedBranchesOfLikeSigns`, which holds, is the rest.
* `notations`: `operand` tries an absolute address before the indirect modes. `(A0)`
  becomes the address of a label `A0`; `(A0)+`, `4(A0)`, `4(PC)`, `4(A0,D1)` and
  `4(PC,D1)` are syntax errors, and `test_modes.s` does not assemble. The twelve
  modes that `ReadsWhatWasWritten` covers are the rest.
* `load_address`: `load_file` hands its pointer `start_address` to the second pass
  as the address (`loader.c:559`). Without an ORG line the code is written at the
  pointer's low bits, and main runs zeros at the address that `-a` gave.

The texts of `operands` were also given to the compiled parser: it and the
model agree on all 135954 of them, operand by operand. In the same way
`PccParser` was compared with the parsers that the compiled PackCC generates, on
some 3400 random grammars and inputs, of which none made a difference.

**What the models show besides**, without a sentence to hold it against:

* Loader. The operands are split at the first comma, so an indexed *source* never
  parses. A displacement or a PC-relative mode without index is never read (see
  `notations`), so their encoders are dead. In a full-format operand a label as base
  displacement takes a long that is written as 0. `* x: y` is a comment to the
  first pass and assembled by the second; `LABEL: * c` is sized by the first pass
  and skipped by the second: after both the labels are off, and
  `LabelsMeanTheirLines` asks for files without them. A DC takes four bytes whatever its
  size. An immediate that is too wide for its size is sized as one word and written
  as two, over the next line. So is the immediate `MOVE.W #LABEL` of a label above 16
  bits, which every label under the default address is: one word in `loader.c:219`, a
  long in `:333`.
* Executor. The masks of the SUB and ADD entries ignore the size field's 3 and bit
  8, so SUBA, SUBX, ADDA and ADDX run as SUB and ADD of data registers.
* Grammar. `label-.` is parsed and its mark is then dropped by every rule that uses it.
* PackCC. `pcc_rule_set__remove` shifts the elements but leaves their number
  (`packcc.c:5840`): `S <- A '!' / 'b'; A <- A 'x' / S 'y' / 'y'` recurses until
  the stack is used up. The rule involved in another's recursion keeps the answer
  of the first seed (`:6347`): `S <- A '!' / B '?'; A <- B 'x' / 'y'; B <- A` does
  not accept `yx?`. The memo table is shifted by what a call consumed while its
  positions are counted from the beginning (`:6090`): `S <- &('a' . S) 'a' / .`
  consumes 1 and 3 characters of `abc`. An error action over an expression that
  always succeeds makes C that does not compile (`:4507`). A marker variable
  whose name begins an earlier one is taken for its duplicate (`:3613`). A parser of
  a grammar without rules returns 1 for ever without consuming anything.

**Bounds.** `MEMORY_SIZE` is 4, 64 or 128 instead of 2^24: what the properties tell
apart is whether two addresses share a cell, and whether a write wraps, and both
happen. `INITIAL_CAPACITY` is small so that the log grows, `MAX_CHANGES` stops
the stand-alone memory after one growth. `MAX_EXECUTION_CYCLES` is 28 in `programs`
and 9 in `simulator`, more than a file has lines and less than a loop needs. Words and
longs keep their width everywhere. `MAX_CHAIN` stops a chain of the hash
tables, after every collision and every repeated key has happened. Operands are
built from few registers and numbers: the grammar tells only their kinds apart.
An address of the passes is a number without width, and its value wraps where the code
reads a 32-bit number from its text (`FromNumber`, `AsNumber`); past 2^32 the code
begins again at 0 and the model goes on, which `StraightCode` asks not to happen; some
files of `simulator` begin above 16 bits, where a label takes a long. `DEFAULT_START`
is 48, and `StrayAddresses` has one address, 8, that no file uses: the only thing that
matters of the pointer is that it is not the address asked for. The jobs of `packcc`
have up to four rules and inputs of up to five bytes, enough for a loop to make two
rounds after a failed one and for a left recursion to grow twice;
`MaxCalls` is 3.

**Fairness.** `FairExecSpec` assumes that the loop turns while it may: it is the
only thread, no handler loops or waits. `FairSimSpec` assumes the same of the
steps of main: they wait for nothing but the file, which is read to its end.
`EveryRunEnds` and `EverySimulationEnds` use them. `ReadingGoesOn` needs no fairness: it says that no round of the
reader leaves everything as it was, of which there can then be only finitely many.
Deadlock is not checked where a run of the simulator ends; `Packcc` has a step
`Stay` for its ends, so that every other stop would be found.

## 4. What TLAPS proves

For every memory size and capacity of at least 4, and every program:

* `MemoryProofs`: `MemoryCorrect`, that the log stays in its buffer, explains
  every byte and can be undone, whatever `realloc` answers. The invariant is
  the conjunction `MemInv` itself; it is about the record, not the variable, and
  each operation keeps it (`WriteByteKeeps`, `WriteWordKeeps`, `WriteLongKeeps`,
  `DumpKeeps`), so a client inherits it. What makes it inductive is in
  `BufferInv`: a lost buffer leaves a capacity that is not reached, so the next
  write stores and faults rather than asking again. `LogIsAppendOnly`: no write
  touches an entry noted before it. A byte adds one entry or none (`Appended`),
  the relation composes over the bytes of a word and a long, and `MemInv`, by which
  the count is the length of the log, puts the new entry at the end.
* `InstructionProofs`: `BranchesCompare`, all of `comparison`'s properties for all
  2^32 by 2^32 operands. The invariant remembers that the flags are those of the
  operation (`Done`); the rest is arithmetic: `Value` is the number an operation
  of a size sees, and sums, differences and signs become linear facts about it.
  And `DecoderCorrect`, for every opcode instead of the run's few per
  entry. A mask is taken one hexadecimal digit at a time (`MaskedDigit`,
  `MaskedWord`), so an entry asks for some digits and for the low bits of others
  (`EntryAsks`), and two entries never ask for the same (`OneEntryAtMost`). The
  invariant of the search is that every entry before the present one failed.
* `OperandProofs`: both properties of `operands`, for any names, numbers and operands.
  `OnlyNotationsAreAccepted`: the invariant `Answered` is only that the text is made
  of tokens and that the answer is `parse_operand`'s; the work is in one lemma for each
  rule, which says of a match that begins at p and ends at q which operand it made and
  that the tokens from p to q spell the part of a notation that belongs to it
  (`NumberCovers`, `BaseCovers`, `IndexCovers`, ..., `PreRuleCovers`), and in
  `OperandCovers`, which goes through the ordered choice. The two losses of the
  grammar are where the proof needs the exceptions that the property makes:
  `WithDisplacement` leaves the mark of a label relative to the PC behind, so a
  notation with the mark is spelled (`WithPc`), and `WithOuter` drops a
  label (`DropsLabel`). A longer name that begins with a register's ends inside a
  word and so never at the end of the text.
  `NotationsAreRead`: the invariant `Meant` adds that a text without a slip is a
  notation of `meant`. A notation is cut into its parts
  (`SpellsParts`), each part is read as what it stands for (`NumberReads`,
  `DisplacementReads`, `IndexReads`, `InnerReads`, `OuterReads`; the last needs to know
  what comes after, `Stops`, for an optional part takes as much as it can), and every
  alternative that is tried before is shown to fail (`NothingEarlier`,
  `NoAbsoluteBefore`, `NoMemoryRule`, ...). For the modes in `Shadowed` it is this that
  cannot be shown, which is the finding of `notations`: `Operand_Absolute` matches
  their displacement or the register in parentheses as an address.
* `ExecutorProofs`: `ExecutorCorrect`, that every handler, with any operands and
  extension words, leaves registers of their widths and a memory with `MemInv`,
  and that the loop keeps its limit. Each operator of `Executor` has a lemma that
  says what it returns, in the order of the calls (`ReadTypes`, `ResolveType`,
  `ReadFromType`, `WriteToType`, `MoveType`, ...), and the theorem one step for
  each action. It assumes that a program was loaded by writes (`LoadedAssumption`).
  `InstructionsKeepTheirFrames` is `FlagFrame`, `DataRegisterFrame` and
  `LogAppendOnly` of every program. Addressing, with its increments and
  extension words, leaves data registers and flags alone (`ResolveSame`,
  `ReadFromSame`); what is stored at the end is one byte, word or long of one data
  register or is appended to the log (`WriteToFrame`, `MergeFrame`); and the flags
  a handler sets are those its opcode allows (`FlagsChanged`, `Allowed`).
  `InstructionsFollowEachOther` (`PcFollowsInstruction`): each addressing mode
  fetches the words that `ExtensionWords` reads off its field, so `pc` ends behind
  them; what is left out is a MOVE into an immediate, which
  fetches none of its words. `TheStackStaysAligned`: the only registers that an
  instruction changes are the increments of its two operands and, for a MOVEA, the
  one it loads. `OneOperandIsStored`: the entries that a handler adds to the log are
  those of one write, by `Touched`. `WhatIsPushedIsPopped` and
  `MoveOntoItselfIsNothing` need that a write of a register's size is read back
  (`WhatIsWrittenIsRead` of `MemoryProofs`, also across the end of the memory) and
  that adding undoes subtracting for the 32-bit values. `FlagsTell`: carry and zero
  of the nine handlers, by the arithmetic of `InstructionProofs`.
* `TableProofs`: `SourceMapCorrect` and `SymbolTableCorrect`,
  that each hash table implements its discipline of `Dictionary`, for every table
  size, hash and set of keys, whatever the allocations answer, and that an entry is
  made whenever there is memory for it. Both rest on
  `FoundPushed`: a push changes what a walk finds for its own key
  and for no other. The symbol table needs `OneNodePerName` besides, the only
  reason why a walk that finds nothing means that the name is not there.
* `LoaderProofs`: the lemmas about one line. Whatever tokens a text has,
  `parse_operand` answers with a `WellFormed` operand: one of the modes, and a
  register where the mode has one (`ParsedIsWellFormed`, by one lemma for each rule
  of the grammar). It never keeps the mark of a label relative to the program
  counter (`ParsedIsUnmarked`), so `BaseDisplacement` never takes the branch of
  `loader.c:372`. The words built from it fit into 16 bits (`MachineCodeType`,
  `FullExtensionType`, `BriefExtensionType`). `SizesAgree` compares the walk that
  sizes an operand with the one that writes it; from it `MoveFillsItsRoom` and
  `LineWrites` follow.
* `SimulatorProofs`: the whole program. `SimInv` says what each component is handed:
  lines and tables with their types while the passes read, a memory made by writes
  alone before it is executed (`Sound`: a store faults only where the log is lost),
  and the invariant of the executor throughout. So `TheProgramKeepsItsLog` holds
  from the command line on, and what `LoadedAssumption` assumes is what main and the
  loader do. `TheLinesKeepApart` is `LineWrites` in `SimInv`, with the entries that a
  write adds to the log (`EntriesOfWrite`). `TheLabelsMeanTheirLines` needs `TraceInv`: some
  function from lines to numbers follows `AddressAfter` from each line to the next,
  the labels entered have its values at their first lines, the address of the first
  pass is its last value, and so is the address of the second as soon as an ORG
  has been read. The function grows by a value with every line of the first
  pass (`TracedOn`) and stays through the second. That the run's failures of
  allocations are left out of the property is needed: a label that was not entered
  means its second definition. `TheProgramIsWhatIsPrinted` goes on from there to the
  end of the run. `CodeInv` keeps that function of addresses through the second pass,
  the load and the loop: the source map finds every line of code at its address, since
  the addresses rise with the lines (`AddressesRise`); the log has its opcode and the
  first words of its indexed operands (`NotedLine`), and keeps them, since it is only
  appended to; and the program counter is at a line of code before which no line ends
  the loop. A word that the log has, in a memory where each cell has one entry, is the
  word that is read there (`NotedIsThere`). From the opcode the executor finds the
  handler that the line asks for (`OpcodeOfLine`, `HandlerOfMove`) and from the words
  after it the length that the loader gave the line (`MoveLineRuns`): the fields of
  `encode_ea` and the extension words `build_full_format_extension` writes are those
  that `EaWords` takes apart, mode by mode. So the next turn begins at the next line.
  The attempt to prove it found what `StraightCode` has to ask besides: that the code
  stays within 32 bits, that the log was not lost, and that nothing was written where
  a line without an encoder left a hole. `TheLabelsReachTheirLines` adds to `CodeInv`
  that the source map finds a line at no address but its own (`LinesAreApart`) and that
  the log has, behind the opcode of a MOVE, the address of the first line with the
  label of its source (`LabelIsNoted`, by `ValueNotes` from what the labels mean at the
  end of the first pass, `LabelIsFound`). The words read there give the address back
  (`CellsAtAddress`, `LabelReads`), a short one as long as its sign bit is off, and the
  register takes what is read there at its size (`RegisterGets`, `MergeTruncate`). This
  attempt showed that the property had to leave out the label of an ORG line and one behind
  the last line of code, and the run has a file for each since.
* `WordProofs`: what the operators of `Words` and `Cpu` return, and `Value`, the number
  that an operation of a size sees; cited by the others.

The proofs assume of the constants what the modules name: `LoaderAssumption` (the
tokens' numbers are of their types, names can be looked up, a hexadecimal number is
no other token), `TokensAssumption` (a number, an identifier and a mark are different
tokens, a register is no label; the grammar begins an identifier with a letter or `_`,
a number with a digit or `$`, and each mark is one other character),
`OperandsAssumption` (the operands that are written have the fields of their mode, and
any other field is as `create_operand` leaves it; a label stands instead of a number),
`SimulatorAssumption` (the lines given are lines: ORG and DC have
the number that they take, and a star that begins a line begins its first word) and the
types of sizes and tables. TLC evaluates each of them in a run.

Only model-checked: liveness (`EveryRunEnds`, `EverySimulationEnds`), which
this prover does not do, and PackCC (`ReadsTheGrammarWritten`, `KeptRulesAreClosed`,
`ParsesAsThePeg`, `ReachIsHonest`, `ReadingGoesOn`): what it reads, links and generates
are trees, its operators are RECURSIVE, and what they compute for every tree would take
an induction over data. That includes `ReadingGoesOn`, where a statement may hold an
expression of any depth.

## 5. Plan

1. *(done)* `Words`, `Memory`, `Cpu`, `Comparison` and their proofs.
2. *(done)* `InstructionTable`, `Decoder`, `Executor`.
3. *(done)* `Dictionary`, `SourceMap`, `SymbolTable` and their proofs.
4. *(done)* `OperandGrammar`, `OperandNotation`.
5. *(done)* `Loader` and `Simulator`.
6. *(done)* PackCC: options, reading, linking, the generated parser.
7. Marker variables at run time, which are saved and restored like the cursor.
8. *(done)* Proofs of single instructions, of a line of the loader and of the passes.
9. *(done)* Proof that the executor decodes what the loader encodes, and so runs the
   lines that it prints.
10. *(done)* Proof that a register gets what its label means.
11. *(done)* Proofs that the operand grammar accepts notations only, and reads every
    notation that no earlier choice shadows.

## 6. Not modelled

Text: messages, the trace, the dump's format, the C code that PackCC writes with its
`#line` directives and the dump of its nodes. The failure of the allocations of
`mem_init` and of PackCC, which end the process at once. The bits of a full
extension word that suppress base or index register are ignored by the code and so
by the model. Of the loader and the grammars: characters and whitespace, the buffers
of 255 characters, mnemonics of more than nine. Of the generated parser: the values of
rules, marker variables, the recycling of memory. Of the properties of `packcc`: actions in
predicates and captures of abandoned alternatives (what they should do is said
nowhere), the recursions through several rules named above, and the answers of the calls after the first.
`Makefile`, `combine_files.sh` and the sample programs keep no state.
