----------------------------- MODULE MCCommand -----------------------------
(* A bounded instance of Command for TLC.                                  *)
EXTENDS Command, SequencesExt

CONSTANTS
  MCArgs,        \* the arguments of the short command lines
  MCMaxArgs      \* the longest of them

\* Every short command line, and a complete one.
MCCommands ==
  BoundedSeq(MCArgs, MCMaxArgs)
  \cup {<<"--output", "--gpu", "word", "--voice", "word", "--speed", "1.5", "word">>}
=============================================================================
