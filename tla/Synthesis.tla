----------------------------- MODULE Synthesis -----------------------------
(***************************************************************************)
(* The whole of a request, from the text to the samples and the timestamps *)
(* that are written: KokoroTTS::synthesize_to_wav, which cuts the text     *)
(* into sentences (Splitter) and has KokoroTTS::synthesize speak each,     *)
(* which runs the front end (G2P), the model and the timestamp builder     *)
(* (WordTimestamps) in turn.                                               *)
(*                                                                         *)
(* A character of a text is one of G2P's, a capital ("upper"), a further   *)
(* blank, a further closer or one of an abbreviation that is written out:  *)
(*   abbrev     the period of `Dr.`, the last one of `i.e.`: taken out;    *)
(*   gap        the c of `etc.`, the first period of `i.e.`: it gives way  *)
(*              to the space in `et cetera` and in `that is`;              *)
(*   cetera     the period of `etc.`, which gives way to the second word;  *)
(*   apostrophe, bracket   ' and ];                                        *)
(*   wideCloser            a character with the first byte E2 but no mark. *)
(* Digits, which the normalizer turns into words, are left to FrontEnd.    *)
(*                                                                         *)
(* The model is external: a TorchScript module that returns a row of       *)
(* cumulative frames per token, and HopLength samples of audio per frame   *)
(* (KokoroWrapper in scripts/export_model.py).                             *)
(***************************************************************************)
EXTENDS Vocab, Integers, SequencesExt

CONSTANTS
  Documents,        \* the texts to speak
  Pronunciations,   \* what a word may be pronounced as, see G2P
  TokenCap,         \* the longest token sequence, see G2P
  HopLength,        \* samples per frame
  Rows,             \* the cumulative frame counts the model may return
  SILENCE_SAMPLES,  \* the pause between two sentences (6000)
  Precision         \* significant digits of a printed time (6)

DocumentChars ==
  {"upper", "letter", "symbol", "wide", "space", "newline", "tab",
   "abbrev", "gap", "cetera", "apostrophe", "bracket", "wideCloser"} \cup PunctChars

\* Where the characters of an abbreviation stand.
Abbreviated(d) ==
  \A k \in DOMAIN d :
    /\ d[k] = "abbrev" => k > 1 /\ d[k - 1] \in {"upper", "letter"}
    /\ d[k] = "cetera" => k > 1 /\ d[k - 1] = "gap"
    /\ d[k] = "gap" => /\ k > 1 /\ d[k - 1] = "letter"
                      /\ k < Len(d) /\ d[k + 1] \in {"letter", "cetera"}

ASSUME DocumentsAssumption ==
  \A d \in Documents : d \in Seq(DocumentChars) /\ Abbreviated(d)
ASSUME PronunciationsAssumption ==
  Pronunciations \subseteq Seq(Nat \ {PAD_TOKEN})
ASSUME TokenCapAssumption == TokenCap \in Nat /\ TokenCap >= 2
ASSUME RowsAssumption ==
  \A r \in Rows :
    /\ r \in Seq(Nat \ {0})
    /\ \A j, k \in 1..Len(r) : j < k => r[j] < r[k]
ASSUME SamplesAssumption == HopLength \in Nat \ {0} /\ SILENCE_SAMPLES \in Nat
ASSUME PrecisionAssumption == Precision \in Nat \ {0}

VARIABLES
  document,         \* the text to speak
  at, cur, cuts, splitting,       \* i, start, out and scanning of Splitter
  todo,             \* the sentences still to speak, as spans of the document
  places,           \* where each character of the sentence is in the document
  phase,            \* "split", "next", "g2p", "label" or "done"
  text, pos, needSpace, tokenIds, words, owner, scan,          \* see G2P
  ends, audioLen, i, wordStart, wordEnd, wordIdx, result, step,
                                                       \* see WordTimestamps
  allSamples,       \* all_samples: how many samples there are
  allWords,         \* all_words, a word being where it starts in the document
  timeOffset,       \* time_offset, in samples
  first,            \* whether no sentence has been heard yet
  segments,         \* history: where in allSamples each sentence is heard
  json              \* the timestamps as they are printed

splitVars == <<document, at, cur, cuts, splitting>>
g2pVars   == <<places, text, pos, needSpace, tokenIds, words, owner, scan>>
localVars == <<i, wordStart, wordEnd, wordIdx, result, step>>
chunkVars == <<ends, audioLen, localVars>>
fileVars  == <<allSamples, allWords, timeOffset, first, segments>>
vars      == <<splitVars, todo, phase, g2pVars, chunkVars, fileVars, json>>

\* What a character is to the scan for sentences, to which every period is a
\* stop (the one of a gap ends nothing, for a letter follows it), and what the
\* normalizer leaves in its place: expand_abbreviations puts no space after the
\* words an abbreviation stands for, so `Dr.smith` is one word.
ClassOf(c) ==
  CASE c \in {"stop", "bang", "query"} -> "stop"
    [] c \in {"abbrev", "cetera"} -> "abbrev"
    [] c \in {"quote", "apostrophe", "rightParen", "bracket", "wideCloser"}
               \cup WidePunctChars -> "closer"
    [] c \in {"upper", "space", "newline", "tab"} -> c
    [] OTHER -> "other"
Normal(c) ==
  CASE c = "abbrev" -> "none"
    [] c \in {"space", "newline", "tab", "gap"} -> "space"
    [] c \in {"upper", "cetera", "apostrophe"} -> "letter"
    [] c = "bracket" -> "symbol"
    [] c = "wideCloser" -> "wide"
    [] OTHER -> c

S == INSTANCE Splitter WITH
       Texts <- {}, text <- [k \in DOMAIN document |-> ClassOf(document[k])],
       i <- at, start <- cur, out <- cuts, scanning <- splitting
G == INSTANCE G2P WITH Texts <- {}
W == INSTANCE WordTimestamps WITH
       Calls <- {}, nWords <- Len(words), shapeOk <- (ends # <<>>)

Init ==
  /\ document \in Documents
  /\ at = 1 /\ cur = 1 /\ cuts = <<>> /\ splitting = TRUE
  /\ todo = <<>>
  /\ phase = "split"
  /\ places = <<>>
  /\ text = <<>> /\ pos = 1 /\ needSpace = FALSE /\ scan = "done"
  /\ tokenIds = <<>> /\ words = <<>> /\ owner = <<>>
  /\ ends = <<>> /\ audioLen = 0
  /\ i = 1 /\ wordStart = W!NoWord /\ wordEnd = 0 /\ wordIdx = 0
  /\ result = <<>> /\ step = "done"
  /\ allSamples = 0 /\ allWords = <<>> /\ timeOffset = 0 /\ first = TRUE
  /\ segments = <<>>
  /\ json = <<>>

-----------------------------------------------------------------------------
(* synthesize_to_wav: the sentences of the text                            *)

Split ==
  /\ phase = "split" /\ splitting
  /\ UNCHANGED <<document, todo, phase, g2pVars, chunkVars, fileVars, json>>
  /\ S!Next

\* Where nothing but blanks is left, the text is its only sentence.
Begin ==
  /\ phase = "split" /\ ~splitting
  /\ todo' = IF cuts = <<>> THEN << <<1, Len(document)>> >> ELSE cuts
  /\ phase' = "next"
  /\ UNCHANGED <<splitVars, g2pVars, chunkVars, fileVars, json>>

-----------------------------------------------------------------------------
(* synthesize: one sentence                                                *)

\* What normalize_whitespace leaves of a span once the abbreviations in it are
\* written out: one space for each run of blanks between others, the first of
\* the run.  Places is those characters in the order they stand.
Kept(from, to) ==
  LET Made(k) == Normal(document[k])
      solid   == {k \in from..to : Made(k) \notin {"space", "none"}}
      FollowsSolid(k) ==
        \E p \in solid : p < k /\ \A m \in (p + 1)..(k - 1) : Made(m) = "none"
  IN solid \cup {k \in from..to : /\ Made(k) = "space" /\ FollowsSolid(k)
                                  /\ \E m \in solid : m > k}

Rank(k, set) == Cardinality({m \in set : m <= k})

Places(from, to) ==
  [n \in 1..Cardinality(Kept(from, to)) |->
     CHOOSE k \in Kept(from, to) : Rank(k, Kept(from, to)) = n]

StartSentence ==
  /\ phase = "next" /\ todo # <<>>
  /\ todo' = Tail(todo)
  /\ phase' = "g2p"
  /\ places' = Places(Head(todo)[1], Head(todo)[2])
  /\ text' = [k \in DOMAIN places' |-> Normal(document[places'[k]])]
  /\ pos' = 1 /\ needSpace' = FALSE /\ scan' = "scanning"
  /\ tokenIds' = <<PAD_TOKEN>> /\ words' = <<>> /\ owner' = <<0>>
  /\ UNCHANGED <<splitVars, chunkVars, fileVars, json>>

Tokenize ==
  /\ phase = "g2p" /\ G!Next
  /\ UNCHANGED <<splitVars, todo, phase, places, chunkVars, fileVars, json>>

\* Nothing between the pads: no audio, and the caller skips the sentence.
SkipSilent ==
  /\ phase = "g2p" /\ scan = "done" /\ Len(tokenIds) <= 2
  /\ phase' = "next"
  /\ UNCHANGED <<splitVars, todo, g2pVars, chunkVars, fileVars, json>>

\* The model runs, and its output goes to build_word_timestamps.
Infer ==
  /\ phase = "g2p" /\ scan = "done" /\ Len(tokenIds) > 2
  /\ \E row \in Rows :
       /\ Len(row) = Len(tokenIds)
       /\ ends' = row
       /\ audioLen' = row[Len(row)] * HopLength
  /\ i' = 1 /\ wordStart' = W!NoWord /\ wordEnd' = 0 /\ wordIdx' = 0
  /\ result' = <<>> /\ step' = "scan"
  /\ phase' = "label"
  /\ UNCHANGED <<splitVars, todo, g2pVars, fileVars, json>>

Label ==
  /\ phase = "label"
  /\ UNCHANGED <<splitVars, todo, phase, g2pVars, fileVars, ends, audioLen, json>>
  /\ W!Next

-----------------------------------------------------------------------------
(* synthesize_to_wav: the sentences put together                           *)

Pause == IF first THEN 0 ELSE SILENCE_SAMPLES

\* A word on the time line of the whole text, with its place there.
Shifted(w, by) ==
  [word |-> places[words[w.word][1]], start |-> w.start + by, end |-> w.end + by]

\* A pause, the samples of the sentence, and its words, which are shifted by
\* `by`; time_offset is then `offset`.
PutTogether(by, offset) ==
  /\ phase = "label" /\ step = "done"
  /\ allWords' = allWords \o [k \in 1..Len(result) |-> Shifted(result[k], by)]
  /\ timeOffset' = offset
  /\ allSamples' = allSamples + Pause + audioLen
  /\ segments' = Append(segments, [from |-> allSamples + Pause,
                                   to   |-> allSamples + Pause + audioLen])
  /\ first' = FALSE
  /\ phase' = "next"
  /\ UNCHANGED <<splitVars, todo, g2pVars, chunkVars, json>>

\* Seeded faults: the offset advances to the end of the last word instead of
\* the end of the audio; the pause is counted after the words are placed.
AppendByLastWord ==
  PutTogether(timeOffset + Pause,
              timeOffset + Pause + (IF result = <<>> THEN 0 ELSE Last(result).end))
AppendBeforePause == PutTogether(timeOffset, timeOffset + Pause + audioLen)

AppendChunk == PutTogether(timeOffset + Pause, timeOffset + Pause + audioLen)

-----------------------------------------------------------------------------
(* timestamps_to_json                                                      *)

PowerOfTen[e \in Nat] == IF e = 0 THEN 1 ELSE 10 * PowerOfTen[e - 1]

\* What a printed time is a multiple of, a sample being taken to last a power
\* of ten of a second.
Unit(t) ==
  PowerOfTen[CHOOSE e \in 0..t : /\ t < PowerOfTen[e + Precision]
                                 /\ e > 0 => PowerOfTen[e - 1 + Precision] <= t]

Printed(t) == ((t + Unit(t) \div 2) \div Unit(t)) * Unit(t)

\* Seeded fault: the start of a word is cut off where its end is rounded.
EntryStartCut(w) ==
  [word |-> w.word, start |-> (w.start \div Unit(w.start)) * Unit(w.start),
   end |-> Printed(w.end)]

Entry(w) == [word |-> w.word, start |-> Printed(w.start), end |-> Printed(w.end)]

\* The files are written, or not when there is nothing to hear.
Finish ==
  /\ phase = "next" /\ todo = <<>>
  /\ json' = IF allSamples = 0 THEN <<>>
             ELSE [k \in DOMAIN allWords |-> Entry(allWords[k])]
  /\ phase' = "done"
  /\ UNCHANGED <<splitVars, todo, g2pVars, chunkVars, fileVars>>

Next ==
  \/ Split \/ Begin
  \/ StartSentence \/ Tokenize \/ SkipSilent \/ Infer \/ Label
  \/ AppendChunk \/ Finish

Spec == Init /\ [][Next]_vars /\ WF_vars(Next)

-----------------------------------------------------------------------------
(* Properties                                                              *)

(* The time at which the next sentence's words are placed is the length of *)
(* the audio written so far: no drift, whatever sentences were skipped or  *)
(* had no word to label (the comment at kokoro_tts.cpp:415-418).           *)
OffsetIsLength ==
  /\ timeOffset = allSamples
  /\ first <=> allSamples = 0

\* The tokens that pronounce word k, its label's claim to the audio.
TokensOfWord(k) ==
  {j \in 1..Len(tokenIds) : owner[j] = k /\ tokenIds[j] \notin {PAD_TOKEN, SPACE_TOKEN}}

\* The words that are heard: the cap may have cut off the last ones.
Heard == {k \in 1..Len(words) : TokensOfWord(k) # {}}

(* From end to end: in text whose marks stand where prose puts them, each  *)
(* word pronounced as one group, the k-th timestamp carries the k-th word  *)
(* and covers exactly the audio of that word's own tokens, the marks after *)
(* it included; every word that is heard has one.                          *)
WordsWhereSpoken ==
  phase = "label" /\ step = "done" /\ G!WellSpaced /\ G!OneGroupPronunciations =>
    /\ Len(result) = Cardinality(Heard)
    /\ \A k \in 1..Len(result) :
         /\ result[k].word = k
         /\ result[k].start = W!SpanStart(Min(TokensOfWord(k)))
         /\ result[k].end = IF k < Len(result) THEN W!SpanEnd(Max(TokensOfWord(k)))
                                               ELSE audioLen

(* However the text is cut into sentences, normalized, tokenized and timed, *)
(* the timestamps name the words of the sentences as they are normalized,   *)
(* in the order they stand in, none twice: each a word whose first character*)
(* comes of a letter or symbol of the text, or of the period of `etc.` that *)
(* stands for its second word, but of no blank, mark or other period.       *)
MarkedInTextOrder ==
  /\ \A k \in DOMAIN allWords :
       /\ allWords[k].word \in DOMAIN document
       /\ Normal(document[allWords[k].word]) \in {"letter", "symbol"}
  /\ \A j, k \in DOMAIN allWords : j < k => allWords[j].word < allWords[k].word

(* Six digits are enough to tell the words apart: as they are printed, the  *)
(* words still follow each other and none overlaps another, but one that is *)
(* shorter than the last digit may seem to last no time at all.             *)
PrintedInOrder ==
  phase = "done" =>
    /\ Len(json) = Len(allWords)
    /\ \A k \in DOMAIN json :
         /\ json[k].word = allWords[k].word
         /\ json[k].start <= json[k].end
         /\ allWords[k].end - allWords[k].start >= Unit(allWords[k].end)
              => json[k].start < json[k].end
    /\ \A j, k \in DOMAIN json : j < k => json[j].end <= json[k].start

(* What is written is a timeline: see that module.                         *)
Spans(ws) == [k \in 1..Len(ws) |-> [start |-> ws[k].start, end |-> ws[k].end]]

T == INSTANCE Timeline WITH Silence <- SILENCE_SAMPLES, marks <- Spans(allWords)

TimelineSpec == T!Spec

(* Every request comes to an end, each sentence spoken or skipped.         *)
Finishes == <>(phase = "done")
=============================================================================
