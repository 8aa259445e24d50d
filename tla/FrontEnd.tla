------------------------------ MODULE FrontEnd ------------------------------
(***************************************************************************)
(* From a text to the pronunciation of its words: the normalizer and the   *)
(* lexicon together, as G2P::G2P and G2P::text_to_tokens_ex call them      *)
(* (src/misaki/g2p.cpp).  A word of the normalized text is looked up under *)
(* what strip_punct leaves of it, so that the words the normalizer writes  *)
(* must be words of the dictionary.                                        *)
(*                                                                         *)
(* A word is a sequence of what it was put together from: letters of the   *)
(* text and words of the normalizer, <<"two">> but also <<"twenty", "th">>.*)
(***************************************************************************)
EXTENDS Vocab, Integers, SequencesExt

CONSTANTS
  Texts, MaxValue,          \* see Normalizer
  Dictionaries, Answers,    \* see Lexicon
  Inputs                    \* which text is given with which dictionary, and
                            \* whether that was downloaded before

VARIABLES
  source, text, pass,
  published, disk, fetching, dict, read, ready, espeakOk, asked, answer

N == INSTANCE Normalizer
L == INSTANCE Lexicon

\* stoll reads more than two digits.
ASSUME TextsAssumption ==
  Texts \subseteq Seq(N!Chars) /\ MaxValue \in Nat /\ MaxValue >= 99
ASSUME DictionariesAssumption ==
  \A lines \in Dictionaries :
    lines \in Seq([word : {lines[k].word : k \in DOMAIN lines}, marker : BOOLEAN,
                   phones : Seq(L!PhoneNames \X (0..2))])
ASSUME AnswersAssumption == Answers \subseteq Seq(L!IpaChars)

textVars == <<source, text, pass>>
wordVars == <<published, disk, fetching, dict, read, ready, espeakOk, asked, answer>>
vars     == <<textVars, wordVars>>

Init == N!Init /\ L!Init /\ <<source, published, disk.exists>> \in Inputs

-----------------------------------------------------------------------------
(* The words of a text                                                     *)

Separator == <<"char", " ">>

\* strip_punct.
Kept(item) == item[2] \in N!LetterChars \cup {" "}

\* Seeded fault: nothing between the words of a number.
LettersGlued(item) ==
  IF item[1] = "said" THEN item[2] ELSE IF Kept(item) THEN <<item>> ELSE <<>>

\* What an item of the text contributes: the normalizer puts a space between
\* two words, and none before the suffix of an ordinal.
Letters(item) ==
  LET Put(k) == IF k = 1 \/ item[2][k][1] = "suffix" THEN <<item[2][k]>>
                ELSE <<Separator, item[2][k]>>
  IN IF item[1] = "said" THEN FlattenSeq([k \in DOMAIN item[2] |-> Put(k)])
     ELSE IF item[2] = "abbrev" THEN <<item, Separator>>
     ELSE IF item[2] \in {",", "."} THEN <<Separator>>
     ELSE IF Kept(item) THEN <<item>>
     ELSE <<>>

\* The words text_to_tokens_ex asks about.
WordsOf(t) == N!Chunks(FlattenSeq([k \in DOMAIN t |-> Letters(t[k])]))

-----------------------------------------------------------------------------
(* What the program does, and the download script beside it                *)

Fetch == (L!StartFetch \/ L!Receive \/ L!EndFetch) /\ UNCHANGED textVars

Construct == L!Load /\ UNCHANGED textVars

Normalize == ready /\ N!Next /\ UNCHANGED wordVars

\* A word is pronounced the same wherever it stands, so that any may be next.
Pronounce ==
  /\ pass = "done"
  /\ \E word \in ToSet(WordsOf(text)) : L!WordToTokens(word)
  /\ UNCHANGED textVars

Next == Fetch \/ Construct \/ Normalize \/ Pronounce

Spec == Init /\ [][Next]_vars

-----------------------------------------------------------------------------
(* Properties                                                              *)

(* A number set off by spaces is read as words that say its value, however *)
(* it is written and whatever stands beside it.                            *)
NumbersAreRead == N!NumbersAreRead

(* So is an amount in dollars, with its cents, where the dollars have no   *)
(* more than three digits or are grouped by commas.                        *)
AmountsAreRead == N!AmountsAreRead

(* The digits that are left for the pronunciation to stumble on are part   *)
(* of a word, follow the words of an amount, or belong to a number that,   *)
(* its commas left out, is more than stoll holds.                          *)
DigitsLeftInWords == N!DigitsLeftInWords

(* The normalized text has no space at its ends and no two in a row: it is *)
(* one of those the tokenizing loop of G2P is written for.                 *)
Spaced == N!Spaced

(* Only a number that is too long makes a request fail here, with an       *)
(* exception of stoll or in the negation of integer_to_words.              *)
FailsOnlyOnLong == N!FailsOnlyOnLong

(* However much of the dictionary was downloaded by the time it is loaded, *)
(* a word is pronounced as the first entry of the whole dictionary says,   *)
(* or not known; only the word the file ends in may be mispronounced.      *)
OnlyCutEntryDiffers == L!OnlyCutEntryDiffers

(* A pronunciation is made of tokens the vocabulary has, so that there is   *)
(* no pad in it, which G2P takes for granted: the tables of CmuDict and of  *)
(* espeak's substitutes name none that vocab.h leaves unassigned.  One from *)
(* the dictionary has no SPACE and no mark either, so that it is one group  *)
(* to the timestamp builder.                                                *)
OneGroup == L!OneGroup

\* A number's words, whatever the number.
NumberWords ==
  {<<"ones", n>> : n \in 0..19} \cup {<<"tens", n>> : n \in 2..9} \cup
  {<<"scale", s>> : s \in {100, 1000, 1000000, 1000000000}} \cup {<<"point", 0>>}

(* With a whole dictionary that has the few words numbers are said with,   *)
(* every word of a number between spaces is heard, without espeak too.     *)
NumbersAreSpoken ==
  /\ asked # L!NoWord /\ answer = <<>> /\ read = L!AllOf(published)
  /\ \A w \in NumberWords : L!Listed(<<w>>) # <<>>
  => \A n \in DOMAIN N!Original :
       N!Plain(N!Original[n], 1) => asked \notin ToSet(WordsOf(N!Result[n]))
=============================================================================
