------------------------------ MODULE Lexicon ------------------------------
(***************************************************************************)
(* How a word is pronounced: the dictionary as it was downloaded           *)
(* (scripts/download_assets.py), as it is loaded (CmuDict::load in         *)
(* src/misaki/cmudict.cpp), and espeak for what it does not have           *)
(* (G2P::word_to_tokens in src/misaki/g2p.cpp).                            *)
(*                                                                         *)
(* A line of the dictionary is a word, whether a marker such as (2)        *)
(* follows it, and its phones; a comment is the line of no word, and what  *)
(* is left of a line that was cut is a shorter line.  A phone is its name  *)
(* and its stress, "unknown" what is no phone.  What espeak answers is a   *)
(* sequence of IPA characters: <<"vocab", n>> the one the vocabulary gives *)
(* the number n, <<"substitute", c>> one that others stand for, "unknown"  *)
(* any other, "cut" one whose bytes run past the end.                      *)
(***************************************************************************)
EXTENDS Vocab, Integers, SequencesExt

CONSTANTS
  Dictionaries,   \* what may be published as the dictionary: sequences of lines
  Answers         \* the IPA espeak may answer a word with

NoWord == <<>>    \* of a comment

\* The phones of one token and of two; AH and ER depend on their stress.
Singles ==
  [ AA |-> 69,  AE |-> 72,  AO |-> 76,  B |-> 44,   CH |-> 133, D |-> 46,   DH |-> 81,
    EH |-> 86,  F |-> 48,   G |-> 92,   HH |-> 50,  IH |-> 102, IY |-> 51,  JH |-> 82,
    K |-> 53,   L |-> 54,   M |-> 55,   N |-> 56,   NG |-> 112, P |-> 58,   R |-> 123,
    S |-> 61,   SH |-> 131, T |-> 62,   TH |-> 119, UH |-> 135, UW |-> 63,  V |-> 64,
    W |-> 65,   Y |-> 52,   Z |-> 68,   ZH |-> 147 ]
Diphthongs ==
  [ AW |-> <<43, 135>>, AY |-> <<43, 102>>, EY |-> <<47, 102>>, OW |-> <<57, 135>>,
    OY |-> <<76, 102>> ]

PhoneNames == {"AH", "ER", "unknown"} \cup DOMAIN Singles \cup DOMAIN Diphthongs

\* The characters espeak uses that are not in the vocabulary, by their number
\* in Unicode or as they are.
IPA_SUBSTITUTIONS ==
  [ u025D |-> <<87, 158>>, u026B |-> <<54>>, u02B7 |-> <<65>>, g |-> <<92>>,
    u0258 |-> <<83>>, u0275 |-> <<83>> ]

IpaChars == ({"vocab"} \X Vocabulary) \cup ({"substitute"} \X DOMAIN IPA_SUBSTITUTIONS)
            \cup {<<"unknown", 0>>, <<"cut", 0>>}

VARIABLES
  published,   \* the dictionary at CMU_DICT_URL
  disk,        \* data/cmudict.dict: whether it is there, how many whole lines
               \* it has, and the line it ends in the middle of, if any
  fetching,    \* a download is under way
  dict,        \* dict_, a function of words
  read,        \* history: disk at the time it was loaded
  ready,       \* the G2P was constructed
  espeakOk,    \* espeak_ok_
  asked,       \* the word that was asked last,
  answer       \* and its tokens

vars == <<published, disk, fetching, dict, read, ready, espeakOk, asked, answer>>

NoDict == [exists |-> FALSE, whole |-> 0, cut |-> <<>>]
AllOf(lines) == [exists |-> TRUE, whole |-> Len(lines), cut |-> <<>>]

Init ==
  /\ published \in Dictionaries
  /\ disk \in {NoDict, AllOf(published)}
  /\ fetching = FALSE
  /\ dict = [w \in {} |-> <<>>]
  /\ read = NoDict
  /\ ready = FALSE /\ espeakOk = FALSE
  /\ asked = NoWord /\ answer = <<>>

-----------------------------------------------------------------------------
(* Downloading                                                             *)

\* The phones that are left of one that loses its last letter.
FirstLetter == [DH |-> "D", NG |-> "N", SH |-> "S", TH |-> "T", ZH |-> "Z"]

\* What is there of a line that ends somewhere: some of its phones, the last
\* of which may have lost its stress, be another phone or none at all.
Cuts(line) ==
  LET Of(k, last) == [line EXCEPT !.phones = Append(SubSeq(@, 1, k - 1), last)]
      Short(name) == IF name \in DOMAIN FirstLetter THEN FirstLetter[name] ELSE "unknown"
      Lasts(phone) ==
        {phone, <<phone[1], 0>>, <<Short(phone[1]), 0>>, <<"unknown", 0>>}
  IN {[line EXCEPT !.phones = <<>>]} \cup
     UNION {{Of(k, last) : last \in Lasts(line.phones[k])} : k \in DOMAIN line.phones}

\* A file that exists is taken as it is, whole or not.
StartFetch ==
  /\ ~fetching /\ ~disk.exists
  /\ fetching' = TRUE
  /\ disk' = [NoDict EXCEPT !.exists = TRUE]
  /\ UNCHANGED <<published, dict, read, ready, espeakOk, asked, answer>>

Receive ==
  /\ fetching /\ disk.whole < Len(published)
  /\ \/ disk' = [disk EXCEPT !.whole = @ + 1, !.cut = <<>>]
     \/ /\ disk.cut = <<>>
        /\ \E part \in Cuts(published[disk.whole + 1]) : disk' = [disk EXCEPT !.cut = <<part>>]
  /\ UNCHANGED <<published, fetching, dict, read, ready, espeakOk, asked, answer>>

\* The end of the dictionary, an error of the connection, or a stop of the
\* script: the file stays.
EndFetch ==
  /\ fetching
  /\ fetching' = FALSE
  /\ UNCHANGED <<published, disk, dict, read, ready, espeakOk, asked, answer>>

-----------------------------------------------------------------------------
(* Loading                                                                 *)

Stress(s) == IF s = 1 THEN <<156>> ELSE IF s = 2 THEN <<157>> ELSE <<>>

\* Seeded fault: G takes the number that follows F, where the ASCII letter
\* would be.
SoundAsciiG(name, s) ==
  CASE name = "AH" -> <<IF s = 0 THEN 83 ELSE 138>>
    [] name = "ER" -> IF s = 0 THEN <<85>> ELSE <<87, 158>>
    [] name = "G" -> <<Singles["F"] + 1>>
    [] name \in DOMAIN Singles \ {"G"} -> <<Singles[name]>>
    [] name \in DOMAIN Diphthongs -> Diphthongs[name]
    [] OTHER -> <<>>

Sound(name, s) ==
  CASE name = "AH" -> <<IF s = 0 THEN 83 ELSE 138>>
    [] name = "ER" -> IF s = 0 THEN <<85>> ELSE <<87, 158>>
    [] name \in DOMAIN Singles -> <<Singles[name]>>
    [] name \in DOMAIN Diphthongs -> Diphthongs[name]
    [] OTHER -> <<>>

PhoneToTokens(phone) == Stress(phone[2]) \o Sound(phone[1], phone[2])

ArpabetToTokens(phones) == FlattenSeq([k \in DOMAIN phones |-> PhoneToTokens(phones[k])])

\* Seeded fault: a later entry takes the place of the first.
AddLineLast(d, line) ==
  IF line.word = NoWord \/ line.phones = <<>> THEN d
  ELSE (line.word :> ArpabetToTokens(line.phones)) @@ d

\* One round of the loop of load: comments, words alone and words that are
\* there already are passed over; a marker is dropped from its word.
AddLine(d, line) ==
  IF line.word = NoWord \/ line.phones = <<>> \/ line.word \in DOMAIN d THEN d
  ELSE [w \in DOMAIN d \cup {line.word} |->
          IF w = line.word THEN ArpabetToTokens(line.phones) ELSE d[w]]

\* G2P::G2P.  A file that is not there gives no words.
Load ==
  /\ ~ready
  /\ dict' = FoldLeft(AddLine, dict, SubSeq(published, 1, disk.whole) \o disk.cut)
  /\ read' = disk
  /\ ready' = TRUE
  /\ espeakOk' \in BOOLEAN
  /\ UNCHANGED <<published, disk, fetching, asked, answer>>

-----------------------------------------------------------------------------
(* Asking                                                                  *)

\* The vocabulary first, its substitutes next; others are skipped.
IpaCharToTokens(c) ==
  CASE c[1] = "vocab" -> <<c[2]>>
    [] c[1] = "substitute" -> IPA_SUBSTITUTIONS[c[2]]
    [] OTHER -> <<>>

\* A character whose bytes run past the end stops the loop.
IpaToTokens(ipa) ==
  LET cut   == SelectInSeq(ipa, LAMBDA c : c[1] = "cut")
      there == IF cut = 0 THEN ipa ELSE SubSeq(ipa, 1, cut - 1)
  IN FlattenSeq([k \in DOMAIN there |-> IpaCharToTokens(there[k])])

Lookup(word) == IF word \in DOMAIN dict THEN dict[word] ELSE <<>>

\* word_to_tokens, of a word of which strip_punct leaves something.
WordToTokens(word) ==
  /\ ready
  /\ asked' = word
  /\ IF Lookup(word) # <<>> THEN answer' = Lookup(word)
     ELSE IF espeakOk THEN \E ipa \in Answers : answer' = IpaToTokens(ipa)
     ELSE answer' = <<>>
  /\ UNCHANGED <<published, disk, fetching, dict, read, ready, espeakOk>>

-----------------------------------------------------------------------------
(* Properties                                                              *)

\* The tokens of the first entry of a word that has phones.
Listed(word) ==
  LET k == SelectInSeq(published, LAMBDA line : line.word = word /\ line.phones # <<>>)
  IN IF k = 0 THEN <<>> ELSE ArpabetToTokens(published[k].phones)

(* However much of the dictionary was downloaded by the time it is loaded, *)
(* a word is pronounced as the first entry of the whole dictionary says,   *)
(* or not known; only the word the file ends in may be mispronounced.      *)
OnlyCutEntryDiffers ==
  \A w \in DOMAIN dict : dict[w] = Listed(w) \/ \E k \in DOMAIN read.cut : read.cut[k].word = w

(* A pronunciation is made of tokens the vocabulary has, so that there is   *)
(* no pad in it, which G2P takes for granted: the tables of CmuDict and of  *)
(* espeak's substitutes name none that vocab.h leaves unassigned.  One from *)
(* the dictionary has no SPACE and no mark either, so that it is one group  *)
(* to the timestamp builder.                                                *)
OneGroup ==
  \A k \in DOMAIN answer :
    /\ answer[k] \in Vocabulary
    /\ Lookup(asked) # <<>> => answer[k] > SPACE_TOKEN
=============================================================================
