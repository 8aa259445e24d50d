------------------------------ MODULE Command ------------------------------
(***************************************************************************)
(* The program as the shell sees it (src/main.cpp): its arguments are      *)
(* taken one by one, the model and a voice are loaded, and then it lists   *)
(* the voices or has a text spoken (Output), again and again.              *)
(*                                                                         *)
(* An argument is the option it is, or its kind: "word" does not start     *)
(* with a dash, "-word" does and is no option, "" is empty and "1.5" a     *)
(* number.                                                                 *)
(***************************************************************************)
EXTENDS Output

CONSTANT Commands     \* the command lines that may be given

Valued  == {"--model", "--voices", "--dict", "--voice", "--output", "--speed"}
Options == Valued \cup {"--gpu", "--list-voices", "--help"}
Args    == Options \cup {"word", "-word", "", "1.5"}

ASSUME CommandsAssumption == Commands \subseteq Seq(Args)

VARIABLES
  argv,      \* the arguments
  i,         \* 1-based index of the next one
  list,      \* list_voices
  text,      \* the places of the arguments that text is put together from
  stage,     \* "shell", "parse", "load", "loaded" or "speak"
  exit       \* the exit code of the last command, or "aborted" by an exception
             \* that nothing caught, or "killed"

argVars     == <<argv, i, list, text>>
commandVars == <<vars, argVars, stage, exit>>

\* The process ends, and what it had in memory is gone.
Exits(how) ==
  /\ stage' = "shell" /\ exit' = how
  /\ argv' = <<>> /\ i' = 1 /\ list' = FALSE /\ text' = <<>>

CommandInit ==
  /\ Init
  /\ argv = <<>> /\ i = 1 /\ list = FALSE /\ text = <<>>
  /\ stage = "shell" /\ exit = "none"

-----------------------------------------------------------------------------
(* The arguments, one round of the loop of main each                       *)

Type ==
  /\ stage = "shell" /\ run < MaxRuns
  /\ argv' \in Commands
  /\ i' = 1 /\ list' = FALSE /\ text' = <<>>
  /\ stage' = "parse" /\ exit' = "none"
  /\ UNCHANGED vars

Parsing == stage = "parse" /\ i <= Len(argv)

Help ==
  /\ Parsing /\ argv[i] = "--help"
  /\ Exits("0")
  /\ UNCHANGED vars

Flag ==
  /\ Parsing /\ argv[i] \in {"--list-voices", "--gpu"}
  /\ list' = (list \/ argv[i] = "--list-voices")
  /\ i' = i + 1
  /\ UNCHANGED <<vars, argv, text, stage, exit>>

NotASpeed == argv[i] = "--speed" /\ argv[i + 1] # "1.5"

\* What follows is the value, whatever it looks like.
Value ==
  /\ Parsing /\ argv[i] \in Valued
  /\ i < Len(argv) /\ ~NotASpeed
  /\ i' = i + 2
  /\ UNCHANGED <<vars, argv, list, text, stage, exit>>

MissingValue ==
  /\ Parsing /\ argv[i] \in Valued /\ i = Len(argv)
  /\ Exits("1")
  /\ UNCHANGED vars

\* stof is called outside of the try block: what it throws ends the process.
BadSpeed ==
  /\ Parsing /\ i < Len(argv) /\ NotASpeed
  /\ Exits("aborted")
  /\ UNCHANGED vars

\* Seeded fault: an option nobody knows is read as text.
AnyText ==
  /\ Parsing /\ argv[i] \notin Options
  /\ text' = Append(text, i)
  /\ i' = i + 1
  /\ UNCHANGED <<vars, argv, list, stage, exit>>

Text ==
  /\ Parsing /\ argv[i] \in {"word", "", "1.5"}
  /\ text' = Append(text, i)
  /\ i' = i + 1
  /\ UNCHANGED <<vars, argv, list, stage, exit>>

Unknown ==
  /\ Parsing /\ argv[i] = "-word"
  /\ Exits("1")
  /\ UNCHANGED vars

ParseEnd ==
  /\ stage = "parse" /\ i > Len(argv)
  /\ stage' = "load"
  /\ UNCHANGED <<vars, argVars, exit>>

-----------------------------------------------------------------------------
(* What is done with them                                                  *)

\* The constructor comes first, and needs the model and the voice whatever is
\* asked for; resolve finds their files where they are or reports none.
Load ==
  /\ stage = "load"
  /\ \/ stage' = "loaded" /\ UNCHANGED <<argVars, exit>>
     \/ Exits("1")
  /\ UNCHANGED vars

\* text.empty(): arguments that are empty add nothing to an empty text.
HasText == \E k \in 1..Len(text) : argv[text[k]] # ""

ListVoices ==
  /\ stage = "loaded" /\ list
  /\ Exits("0")
  /\ UNCHANGED vars

NoText ==
  /\ stage = "loaded" /\ ~list /\ ~HasText
  /\ Exits("1")
  /\ UNCHANGED vars

Speak ==
  /\ stage = "loaded" /\ ~list /\ HasText
  /\ Launch
  /\ stage' = "speak"
  /\ UNCHANGED <<argVars, exit>>

\* Seeded fault: an exception is reported, and main returns 0.
ExitCodeAlways(how) == IF how = "killed" THEN "killed" ELSE "0"

ExitCode(how) == IF how = "ok" THEN "0" ELSE IF how = "killed" THEN how ELSE "1"

\* synthesize_to_wav goes on, and main returns when it does.
Go ==
  /\ stage = "speak"
  /\ pc # "idle" /\ Next
  /\ IF pc' = "idle" THEN Exits(ExitCode(verdict'[run]))
     ELSE UNCHANGED <<argVars, stage, exit>>

CommandNext ==
  \/ Type \/ Help \/ Flag \/ Value \/ MissingValue \/ BadSpeed \/ Text \/ Unknown \/ ParseEnd
  \/ Load \/ ListVoices \/ NoText \/ Speak \/ Go

CommandSpec == CommandInit /\ [][CommandNext]_commandVars

-----------------------------------------------------------------------------
(* Properties                                                              *)

\* The argument at k is the value of the one before it: between them and the
\* last one that takes no value there is an odd number of options that do.
IsValue(k) ==
  \E m \in 0..(k - 1) :
    /\ m > 0 => argv[m] \notin Valued
    /\ \A n \in (m + 1)..(k - 1) : argv[n] \in Valued
    /\ (k - 1 - m) % 2 = 1

\* The options of a command, values that look like one left out.
Given == {argv[k] : k \in {n \in 1..Len(argv) : ~IsValue(n)}}

(* The files are only ever touched for a command that was understood to    *)
(* its last argument and asks for nothing else than a text to be spoken,   *)
(* and the text is, in order, every argument that is neither an option nor *)
(* the value of one.                                                       *)
FilesOnlyWhenAsked ==
  [][<<wav, json>>' # <<wav, json>> =>
       /\ Given \cap {"--help", "--list-voices", "-word"} = {}
       /\ \A k \in 1..Len(argv) :
            (\E n \in 1..Len(text) : text[n] = k) <=> argv[k] \notin Options /\ ~IsValue(k)
       /\ \A m, n \in 1..Len(text) : m < n => text[m] < text[n]]_commandVars

(* The exit code is 0 only of a command that asked for help or for the     *)
(* voices, or that was carried out to its end; the one value that ends the *)
(* process without a code is a speed that is no number.                    *)
ExitTellsOutcome ==
  [][exit' # exit =>
       /\ exit' = "0" => \/ Given \cap {"--help", "--list-voices"} # {}
                         \/ stage = "speak" /\ verdict'[run] = "ok"
       /\ exit' = "aborted" => \E k \in 1..(Len(argv) - 1) :
                                 argv[k] = "--speed" /\ argv[k + 1] # "1.5"]_commandVars
=============================================================================
