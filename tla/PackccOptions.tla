---------------------------- MODULE PackccOptions ----------------------------
(* The command line of PackCC (src/src/packcc.c): the option parser, which    *)
(* takes one option at a time, and what main makes of each.                   *)
(*                                                                            *)
(* A word of the command line is a file name, an option with one letter or    *)
(* several, [kind |-> "short", letters], or a long option, [kind |-> "long",  *)
(* name, arg], with arg its text after an equals sign or NoText; the name is  *)
(* empty in "--".  The rest of a short word that is an argument is Rest.      *)
EXTENDS Integers, Sequences, SequencesExt

NoText == "no text"
Rest == [kind |-> "rest of a word"]

\* g_command_opts: whether each option has an argument, and its long name.
ShortOptions == {"I", "o", "a", "l", "d", "h", "v"}
TakesArgument == {"I", "o"}
LongNames == [a |-> "ascii", l |-> "lines", d |-> "debug", h |-> "help", v |-> "version"]

\* The parser: the word it is at, and the letter in it if it is within a word.
command_line_option_parser__reset == [arg_index |-> 1, next_char |-> 0]

Taken(cl, i, c, r, a) == [cl |-> [arg_index |-> i, next_char |-> c], result |-> r, arg |-> a]

\* The end of the options is no error; every other failure ends the program.
NotOption(cl) == Taken(cl, cl.arg_index, cl.next_char, "not an option", NoText)

\* A long name may be cut short, if only one option begins with it.
long_option(cl, w) ==
    LET i == cl.arg_index + 1
        M == {o \in DOMAIN LongNames : IsPrefix(w.name, LongNames[o])}
    IN  IF w.name = "" THEN Taken(cl, i, 0, IF w.arg # NoText THEN "error" ELSE "end", NoText)
        ELSE IF M = {} THEN Taken(cl, cl.arg_index, 0, "error", NoText)
        ELSE IF \E o1, o2 \in M : o1 # o2 THEN Taken(cl, cl.arg_index, 0, "error", NoText)
        ELSE Taken(cl, i, 0, IF w.arg # NoText THEN "error" ELSE CHOOSE o \in M : TRUE, NoText)

\* The letter at c of the word: the last one moves on to the next word, and an
\* argument is the rest of the word or the next word.
short_option(cl, argv, c) ==
    LET i == cl.arg_index
        letters == argv[i].letters
        o == letters[c]
        last == c = Len(letters)
    IN  CASE o \notin ShortOptions -> Taken(cl, i, c, "error", NoText)
          [] o \in TakesArgument /\ ~last -> Taken(cl, i + 1, 0, o, Rest)
          [] o \in TakesArgument /\ last /\ i = Len(argv) -> Taken(cl, i + 1, 0, "error", NoText)
          [] o \in TakesArgument /\ last /\ i < Len(argv) -> Taken(cl, i + 2, 0, o, argv[i + 1])
          [] OTHER -> Taken(cl, IF last THEN i + 1 ELSE i, IF last THEN 0 ELSE c + 1, o, NoText)

command_line_option_parser__parse(cl, argv) ==
    IF cl.arg_index > Len(argv) THEN NotOption(cl)
    ELSE IF cl.next_char > 0 THEN short_option(cl, argv, cl.next_char)
    ELSE CASE argv[cl.arg_index].kind = "short" -> short_option(cl, argv, 1)
           [] argv[cl.arg_index].kind = "long" -> long_option(cl, argv[cl.arg_index])
           [] OTHER -> NotOption(cl)

\* The options of main: the flags given, the output name if any, the directories.
NoOptions == [flags |-> {}, output |-> <<>>, dirs |-> <<>>]

\* What main makes of an option; -o may be given once.
Accepts(opts, t) == t.result # "error" /\ ~(t.result = "o" /\ opts.output # <<>>)
WithOption(opts, t) ==
    CASE t.result = "I" -> [opts EXCEPT !.dirs = Append(@, t.arg)]
      [] t.result = "o" -> [opts EXCEPT !.output = <<t.arg>>]
      [] OTHER -> [opts EXCEPT !.flags = @ \union {t.result}]
=============================================================================
