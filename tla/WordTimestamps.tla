--------------------------- MODULE WordTimestamps ---------------------------
(***************************************************************************)
(* How the times of tokens become the times of words                       *)
(* (KokoroTTS::build_word_timestamps in src/kokoro/kokoro_tts.cpp).        *)
(*                                                                         *)
(* The model returns one row per token; its durations are whole numbers of *)
(* frames, so row i is the pair (ends[i - 1], ends[i]) of cumulative frame *)
(* counts, written in seconds as if a frame were HopLength samples long.   *)
(* All times here are in samples, divisions rounding down where the code   *)
(* computes with doubles.                                                  *)
(***************************************************************************)
EXTENDS Vocab, Integers, SequencesExt

CONSTANTS
  Calls,       \* the inputs a call may be given
  HopLength    \* samples per frame, as the exported model has it (600)

\* The fields of a call: the token sequence, how many words there are to
\* label it, the cumulative frames of the rows of ts_tensor, the number of
\* samples really rendered and whether the tensor has the expected rank.
IsCall(c) ==
  /\ c.tokenIds \in Seq(Nat)
  /\ c.nWords \in Nat
  /\ c.ends \in Seq(Nat \ {0})
  /\ \A j, k \in 1..Len(c.ends) : j < k => c.ends[j] < c.ends[k]
  /\ c.audioLen \in Nat
  /\ c.shapeOk \in BOOLEAN

ASSUME CallsAssumption == \A c \in Calls : IsCall(c)
ASSUME HopLengthAssumption == HopLength \in Nat \ {0}

VARIABLES
  tokenIds, nWords, ends, audioLen, shapeOk,    \* the arguments, see IsCall
  i,          \* 1-based index of the next token
  wordStart,  \* word_start: -1, or where the word being gathered starts
  wordEnd,    \* word_end
  wordIdx,    \* word_idx: how many words have been given a time
  result,     \* the timestamps: records of a word's index, start and end
  step        \* "scan", "tail" or "done"

arguments == <<tokenIds, nWords, ends, audioLen, shapeOk>>
vars == <<tokenIds, nWords, ends, audioLen, shapeOk,
          i, wordStart, wordEnd, wordIdx, result, step>>

NoWord == -1

Init ==
  /\ \E c \in Calls :
       /\ tokenIds = c.tokenIds /\ nWords = c.nWords /\ ends = c.ends
       /\ audioLen = c.audioLen /\ shapeOk = c.shapeOk
  /\ i = 1
  /\ wordStart = NoWord
  /\ wordEnd = 0
  /\ wordIdx = 0
  /\ result = <<>>
  /\ step = "scan"

-----------------------------------------------------------------------------
(* Times                                                                   *)

N == Len(ends)

Frames == IF N > 0 THEN ends[N] ELSE 0

\* What the model takes the whole sequence to last, before any scaling.
ModelTotal == Frames * HopLength

\* A time in frames, scaled so that the last row ends with the audio.
Scaled(f) ==
  IF ModelTotal > 0 /\ audioLen > 0 THEN (f * audioLen) \div Frames
                                    ELSE f * HopLength

\* The span of token k, nothing where the tensor has no row for it.
SpanStart(k) == IF k \in 2..N THEN Scaled(ends[k - 1]) ELSE 0
SpanEnd(k)   == IF k \in 1..N THEN Scaled(ends[k]) ELSE 0

-----------------------------------------------------------------------------
(* Actions                                                                 *)

\* What flush_word does with the word being gathered when `labelled`, `next`
\* being what word_start is left at.
Emit(labelled, next) ==
  IF wordStart < 0 \/ ~labelled
  THEN UNCHANGED <<wordStart, wordEnd, wordIdx, result>>
  ELSE /\ result' = Append(result, [word  |-> wordIdx + 1,
                                    start |-> wordStart,
                                    end   |-> wordEnd])
       /\ wordIdx' = wordIdx + 1
       /\ wordStart' = next
       /\ wordEnd' = 0

\* Seeded faults: the next label is taken without asking whether one is left;
\* word_start is not reset once the word is out.
FlushUnlabelled   == Emit(wordIdx <= nWords, NoWord)
FlushKeepingStart == Emit(wordIdx < nWords, wordStart)

\* flush_word: emits the word being gathered, if there is one to emit and a
\* label left for it.
FlushWord == Emit(wordIdx < nWords, NoWord)

\* A tensor of another shape than (tokens, at least 3) yields no timestamps.
Reject ==
  /\ step = "scan" /\ ~shapeOk
  /\ step' = "done"
  /\ UNCHANGED <<arguments, i, wordStart, wordEnd, wordIdx, result>>

Scanning == step = "scan" /\ shapeOk /\ i <= Len(tokenIds)

\* Seeded fault: the end of the last row is never looked at.
KeepTail ==
  /\ step = "tail"
  /\ step' = "done"
  /\ UNCHANGED <<arguments, i, wordStart, wordEnd, wordIdx, result>>

SkipPad ==
  /\ Scanning /\ tokenIds[i] = PAD_TOKEN
  /\ i' = i + 1
  /\ UNCHANGED <<arguments, wordStart, wordEnd, wordIdx, result, step>>

EndGroup ==
  /\ Scanning /\ tokenIds[i] = SPACE_TOKEN
  /\ FlushWord
  /\ i' = i + 1
  /\ UNCHANGED <<arguments, step>>

\* A token of a word, which starts the word or not.
Gather(start) ==
  /\ Scanning /\ tokenIds[i] \notin {PAD_TOKEN, SPACE_TOKEN}
  /\ wordStart' = start
  /\ wordEnd' = IF SpanEnd(i) > wordEnd THEN SpanEnd(i) ELSE wordEnd
  /\ i' = i + 1
  /\ UNCHANGED <<arguments, wordIdx, result, step>>

\* Seeded fault: every token of a group moves its start.
ExtendMovingStart == Gather(SpanStart(i))

Extend == Gather(IF wordStart < 0 THEN SpanStart(i) ELSE wordStart)

FlushLast ==
  /\ step = "scan" /\ shapeOk /\ i > Len(tokenIds)
  /\ FlushWord
  /\ step' = "tail"
  /\ UNCHANGED <<arguments, i>>

\* The last word lasts at least to the end of the last row; the end it is
\* compared with and given is the row's own, which nothing has scaled.
ExtendTail ==
  /\ step = "tail"
  /\ result' = IF result # <<>> /\ ModelTotal > result[Len(result)].end
               THEN [result EXCEPT ![Len(result)].end = ModelTotal]
               ELSE result
  /\ step' = "done"
  /\ UNCHANGED <<arguments, i, wordStart, wordEnd, wordIdx>>

Next == Reject \/ SkipPad \/ EndGroup \/ Extend \/ FlushLast \/ ExtendTail

Spec == Init /\ [][Next]_vars

-----------------------------------------------------------------------------
(* Vocabulary of the properties                                            *)

\* What the exported model returns: a row per token, each of one frame at
\* least, and at least a sample of audio for every frame.
OneRowPerToken == shapeOk /\ N = Len(tokenIds) /\ audioLen >= Frames

Voiced == {k \in 1..Len(tokenIds) : tokenIds[k] \notin {PAD_TOKEN, SPACE_TOKEN}}

SpacesBefore(k) == Cardinality({j \in 1..(k - 1) : tokenIds[j] = SPACE_TOKEN})

\* The number of the group that token k belongs to, a group being the voiced
\* tokens between two SPACEs, and there being no empty group.
Group(k) == Cardinality({SpacesBefore(j) : j \in Voiced \cap (1..k)})

GroupCount == Cardinality({SpacesBefore(j) : j \in Voiced})

TokensOf(g) == {k \in Voiced : Group(k) = g}

-----------------------------------------------------------------------------
(* Properties                                                              *)

(* Types; a timestamp names one of the words it was given.                 *)
TypeOK ==
  /\ IsCall([tokenIds |-> tokenIds, nWords |-> nWords, ends |-> ends,
              audioLen |-> audioLen, shapeOk |-> shapeOk])
  /\ i \in 1..(Len(tokenIds) + 1)
  /\ wordStart \in Nat \cup {NoWord}
  /\ wordEnd \in Nat
  /\ wordIdx \in 0..nWords
  /\ result \in Seq([word : 1..nWords, start : Nat, end : Nat])
  /\ step \in {"scan", "tail", "done"}

(* Words are reported in the order they are spoken, none twice, each over  *)
(* a span of its own that no other word overlaps: what a subtitle or a     *)
(* karaoke display built on the .json file takes for granted.              *)
InOrder ==
  OneRowPerToken =>
    /\ \A k \in 1..Len(result) :
         result[k].word = k /\ result[k].start < result[k].end
    /\ \A j, k \in 1..Len(result) : j < k => result[j].end <= result[k].start

(* The timestamps are those of the first groups of tokens, as many as there *)
(* are labels: word k starts with the first token of group k and ends with  *)
(* the last one, but for the tail that the last word reported is given.     *)
LabelsMatchGroups ==
  step = "done" /\ OneRowPerToken =>
    /\ Len(result) = Min({GroupCount, nWords})
    /\ \A k \in 1..Len(result) :
         LET first == Min(TokensOf(k))
             last  == Max(TokensOf(k))
         IN /\ result[k].start = SpanStart(first)
            /\ IF k < Len(result) THEN result[k].end = SpanEnd(last)
                                  ELSE result[k].end >= SpanEnd(last)

(* When the exporter's HopLength is the model's, the last word ends with    *)
(* the audio, trailing pad and final marks included: the next sentence is   *)
(* placed after it and nothing sounds that no word accounts for.            *)
LastWordEndsWithAudio ==
  step = "done" /\ OneRowPerToken /\ audioLen = ModelTotal /\ result # <<>>
    => result[Len(result)].end = audioLen

(* kokoro_tts.cpp:102-106 promises to "Rescale every timestamp so the last  *)
(* token's end always lines up with the real, measured audio duration",     *)
(* "correct regardless of what the underlying constant actually is": no     *)
(* word is said to end after the audio does.                                *)
NoWordOutlivesAudio ==
  step = "done" /\ OneRowPerToken =>
    \A k \in 1..Len(result) : result[k].end <= audioLen
=============================================================================
