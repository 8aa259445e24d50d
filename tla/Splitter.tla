------------------------------ MODULE Splitter ------------------------------
(***************************************************************************)
(* The scan that cuts a text into sentences (split_sentences in            *)
(* src/kokoro/kokoro_tts.cpp), each of which is then spoken on its own.    *)
(*                                                                         *)
(* A character is its class:                                               *)
(*   stop     . ! or ?                abbrev   a period that ends an       *)
(*   closer   " ' ) ] or any character         abbreviation the normalizer *)
(*            whose UTF-8 form starts          knows, a stop to the scan   *)
(*            with the byte E2                                             *)
(*   upper    A to Z                  space    a blank                     *)
(*   newline                          tab      a tab or carriage return    *)
(*   other    anything else                                                *)
(***************************************************************************)
EXTENDS Integers, SequencesExt

CONSTANT Texts     \* the texts to split

Stops  == {"stop", "abbrev"}
Blanks == {"space", "tab", "newline"}
Chars  == Stops \cup Blanks \cup {"closer", "upper", "other"}

ASSUME TextsAssumption == Texts \subseteq Seq(Chars)

VARIABLES
  text,      \* the text
  i,         \* 1-based index of the next character
  start,     \* where cur starts: cur is what lies between start and i
  out,       \* the sentences, each as the <<first, last>> of its characters
  scanning   \* whether the loop is still running

vars == <<text, i, start, out, scanning>>

Init ==
  /\ text \in Texts
  /\ i = 1
  /\ start = 1
  /\ out = <<>>
  /\ scanning = TRUE

-----------------------------------------------------------------------------

\* The sentence between two positions without its leading white space, if
\* anything is left of it.
Sentence(from, to) ==
  LET solid == {k \in from..to : text[k] \notin Blanks}
  IN IF solid = {} THEN <<>> ELSE << <<Min(solid), to>> >>

\* The last of the closers that follow position k, or k itself.
LastCloser(k) ==
  Max({m \in k..Len(text) : \A n \in (k + 1)..m : text[n] = "closer"})

Reading == scanning /\ i <= Len(text)

-----------------------------------------------------------------------------
(* Seeded faults, for the runs that show a property notices them           *)

\* A stop always ends a sentence.
EndsAlways(k) == TRUE

\* cur is not cleared after a newline.
NewlineKeepsCur ==
  /\ Reading /\ text[i] = "newline"
  /\ out' = out \o Sentence(start, i)
  /\ i' = i + 1
  /\ UNCHANGED <<text, start, scanning>>

\* The closers after a stop are passed over and not copied.
StopDropsClosers ==
  /\ Reading /\ text[i] \in Stops
  /\ i' = LastCloser(i) + 1
  /\ out' = out \o Sentence(start, i)
  /\ start' = LastCloser(i) + 1
  /\ UNCHANGED <<text, scanning>>

\* The index is not advanced.
OrdinaryNever ==
  /\ Reading /\ text[i] \notin Stops \cup {"newline"}
  /\ UNCHANGED vars

-----------------------------------------------------------------------------
(* The scan                                                                *)

\* Whether, past the blanks after position k, the text ends or goes on with a
\* capital: only then does a stop end a sentence.
EndsAfter(k) ==
  \/ \A n \in (k + 1)..Len(text) : text[n] = "space"
  \/ \E m \in (k + 1)..Len(text) :
       text[m] = "upper" /\ \A n \in (k + 1)..(m - 1) : text[n] = "space"

Ordinary ==
  /\ Reading /\ text[i] \notin Stops \cup {"newline"}
  /\ i' = i + 1
  /\ UNCHANGED <<text, start, out, scanning>>

\* A stop takes the closers after it along, and may end the sentence.
Stop ==
  /\ Reading /\ text[i] \in Stops
  /\ LET last == LastCloser(i)
     IN /\ i' = last + 1
        /\ IF EndsAfter(last)
           THEN out' = out \o Sentence(start, last) /\ start' = last + 1
           ELSE UNCHANGED <<out, start>>
  /\ UNCHANGED <<text, scanning>>

Newline ==
  /\ Reading /\ text[i] = "newline"
  /\ out' = out \o Sentence(start, i)
  /\ start' = i + 1
  /\ i' = i + 1
  /\ UNCHANGED <<text, scanning>>

\* What is left after the loop.
Finish ==
  /\ scanning /\ i > Len(text)
  /\ out' = out \o Sentence(start, Len(text))
  /\ start' = i
  /\ scanning' = FALSE
  /\ UNCHANGED <<text, i>>

Next == Ordinary \/ Stop \/ Newline \/ Finish

Spec == Init /\ [][Next]_vars /\ WF_vars(Next)

-----------------------------------------------------------------------------
(* Properties                                                              *)

Solid(k) == text[k] \notin Blanks

(* Types; what is out lies before cur, and cur before the next character.  *)
TypeOK ==
  /\ text \in Texts
  /\ i \in 1..(Len(text) + 1)
  /\ start \in 1..i
  /\ out \in Seq((1..Len(text)) \X (1..Len(text)))
  /\ scanning \in BOOLEAN
  /\ \A n \in 1..Len(out) : out[n][2] < start

(* Every character but white space is in exactly one sentence, in order,   *)
(* and no sentence is blank or starts with white space: nothing of the     *)
(* text is left unspoken or spoken twice.                                  *)
NothingLost ==
  /\ \A n \in 1..Len(out) : out[n][1] <= out[n][2] /\ Solid(out[n][1])
  /\ \A m, n \in 1..Len(out) : m < n => out[m][2] < out[n][1]
  /\ \A k \in 1..(start - 1) :
       Solid(k) => \E n \in 1..Len(out) : k \in out[n][1]..out[n][2]

(* A pause is only ever made at the end of a line or before a capital: a   *)
(* decimal point, an ellipsis within a sentence or a question quoted in    *)
(* one does not cut it.                                                    *)
CutsBeforeCapitals ==
  \A n \in 1..(Len(out) - 1) :
    text[out[n][2]] = "newline" \/ text[out[n + 1][1]] = "upper"

(* The scan ends.                                                          *)
Terminates == <>~scanning

(* README.md:28-33 puts TextNormalizer, which replaces abbreviations and   *)
(* their periods, before the sentence splitter: the period of an           *)
(* abbreviation ends no sentence but the last one.                         *)
NoCutAfterAbbreviation ==
  \A n \in 1..(Len(out) - 1) : text[out[n][2]] # "abbrev"
=============================================================================
