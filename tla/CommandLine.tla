------------------------------ MODULE CommandLine ------------------------------
(***************************************************************************)
(* How arguments become a command line and arguments again.  Windows hands *)
(* a process one string, which its runtime splits.  The test writes one    *)
(* for the launcher and one for tool.exe, and the launcher one for         *)
(* tool.exe out of the arguments it was itself given.                      *)
(*                                                                         *)
(* An argument is the sequence of its words, between which there are       *)
(* blanks: an empty argument has none.  A command line is a sequence of    *)
(* pieces with blanks between them, each within quotes or not.  Arguments  *)
(* have no quotes in them: a path cannot.                                  *)
(***************************************************************************)
EXTENDS Naturals, Sequences, SequencesExt

\* tests/main.cpp
Quote(value) == [quoted |-> TRUE, words |-> value]

Bare(value) == [quoted |-> FALSE, words |-> value]

HasBlank(argument) == Len(argument) > 1

JoinLauncherCommandLine(launcher_exe, args) ==
  <<Quote(launcher_exe)>> \o
    [i \in DOMAIN args |-> IF HasBlank(args[i]) THEN Quote(args[i]) ELSE Bare(args[i])]

\* launcher/main.cpp: the arguments from start_index on, with blanks between them.
JoinArgumentsFrom(argv, start_index) ==
  Bare(FlattenSeq(SubSeq(argv, start_index, Len(argv))))

\* Mutant: the path of the tool is not quoted either.
MutantToolBare(tool_path, tool_arguments) == <<Bare(tool_path), tool_arguments>>

ToolCommandLine(tool_path, tool_arguments) == <<Quote(tool_path), tool_arguments>>

\* What the runtime of the new process makes of it: a quoted piece is one argument,
\* of the rest each word is one.
CommandLineToArgv(command_line) ==
  FlattenSeq([i \in DOMAIN command_line |->
    LET piece == command_line[i]
    IN  IF piece.quoted THEN <<piece.words>>
        ELSE [word \in DOMAIN piece.words |-> <<piece.words[word]>>]])

\* The launcher asked with argv: argv[1] is itself, argv[2] is tool.exe.
RunToolWithForwardedArguments(argv) ==
  CommandLineToArgv(ToolCommandLine(argv[2], JoinArgumentsFrom(argv, 3)))
=============================================================================
