-------------------------- MODULE SynthesisProofs --------------------------
(***************************************************************************)
(* That the timestamps of a file never drift from its audio, whatever is   *)
(* spoken and however many sentences are skipped on the way, that the two  *)
(* files are what Timeline promises and what that is, that words are       *)
(* marked where they are spoken and in their order, and that printing the  *)
(* times with a few digits keeps the order.                                *)
(***************************************************************************)
EXTENDS Synthesis, SequenceFacts, TLAPS

\* OffsetIsLength, and that a sentence that reached the model is heard.
OffsetInv ==
  /\ allSamples \in Nat /\ timeOffset \in Nat /\ audioLen \in Nat
  /\ phase = "label" => audioLen > 0
  /\ OffsetIsLength

(* Every step keeps the offset in step with the audio.                     *)
LEMMA OffsetStep ==
  ASSUME OffsetInv, Next
  PROVE  OffsetInv'
<1> USE DEF OffsetInv, OffsetIsLength
<1>1. CASE StartSentence
  BY <1>1 DEF StartSentence, chunkVars, fileVars
<1>2. CASE Tokenize
  BY <1>2 DEF Tokenize, chunkVars, fileVars
<1>3. CASE SkipSilent
  BY <1>3 DEF SkipSilent, chunkVars, fileVars
<1>4. CASE Infer
  <2>1. PICK row \in Rows : /\ Len(row) = Len(tokenIds)
                            /\ audioLen' = row[Len(row)] * HopLength
    BY <1>4 DEF Infer
  <2>2. row \in Seq(Nat \ {0}) /\ Len(tokenIds) > 2 /\ HopLength \in Nat \ {0}
    BY <1>4, RowsAssumption, SamplesAssumption DEF Infer
  <2>3. row[Len(row)] \in Nat \ {0}
    BY <2>1, <2>2
  <2>4. row[Len(row)] * HopLength \in Nat /\ row[Len(row)] * HopLength > 0
    BY <2>2, <2>3
  <2> QED BY <1>4, <2>1, <2>4 DEF Infer, fileVars
<1>5. CASE Label
  BY <1>5 DEF Label, fileVars
<1>6. CASE AppendChunk
  <2>1. Pause \in Nat
    BY SamplesAssumption DEF Pause
  <2>2. /\ timeOffset' = timeOffset + Pause + audioLen
        /\ allSamples' = allSamples + Pause + audioLen
        /\ first' = FALSE /\ phase' = "next" /\ audioLen' = audioLen
        /\ phase = "label"
    BY <1>6 DEF AppendChunk, PutTogether, chunkVars
  <2> QED BY <2>1, <2>2
<1>7. CASE Finish
  BY <1>7 DEF Finish, chunkVars, fileVars
<1>8. CASE Split
  BY <1>8 DEF Split, chunkVars, fileVars
<1>9. CASE Begin
  BY <1>9 DEF Begin, chunkVars, fileVars
<1> QED BY <1>1, <1>2, <1>3, <1>4, <1>5, <1>6, <1>7, <1>8, <1>9 DEF Next

(* The offset that the next sentence's words are shifted by is always the  *)
(* number of samples written so far, and only the sentences heard advance  *)
(* either (synthesize_to_wav).                                             *)
THEOREM OffsetCorrect == Spec => []OffsetIsLength
<1>1. Init => OffsetInv
  BY DEF Init, OffsetInv, OffsetIsLength
<1>2. OffsetInv /\ [Next]_vars => OffsetInv'
  <2> SUFFICES ASSUME OffsetInv, [Next]_vars PROVE OffsetInv'
    OBVIOUS
  <2>1. CASE UNCHANGED vars
    BY <2>1 DEF vars, chunkVars, fileVars, OffsetInv, OffsetIsLength
  <2> QED BY <2>1, OffsetStep
<1>3. OffsetInv => OffsetIsLength
  BY DEF OffsetInv
<1> QED BY <1>1, <1>2, <1>3, PTL DEF Spec

-----------------------------------------------------------------------------
(* The sentences of the text                                               *)

\* The scan's lemmas, about the text of a request.
SP == INSTANCE SplitterProofs WITH
        Texts <- Seq(S!Chars), text <- [k \in DOMAIN document |-> ClassOf(document[k])],
        i <- at, start <- cur, out <- cuts, scanning <- splitting

(* The scan that the lemmas are about is the one that runs.                *)
LEMMA SameSplitter == S!Next => SP!Next
BY DEF S!Next, S!Ordinary, S!Stop, S!Newline, S!Finish, S!Reading, S!Sentence, S!LastCloser,
       S!EndsAfter, S!Stops, S!Blanks, S!Min, S!Max,
       SP!Next, SP!Ordinary, SP!Stop, SP!Newline, SP!Finish, SP!Reading, SP!Sentence,
       SP!LastCloser, SP!EndsAfter, SP!Stops, SP!Blanks, SP!Min, SP!Max

(* The texts are those that the scan's lemmas assume.                      *)
LEMMA SplitTexts == Seq(S!Chars) \subseteq Seq(SP!Chars)
<1>1. S!Chars = SP!Chars
  BY DEF S!Chars, S!Stops, S!Blanks, SP!Chars, SP!Stops, SP!Blanks
<1> QED BY <1>1

\* The sentences still to speak are spans of the text, one after the other.
SpansInv ==
  /\ document \in Seq(DocumentChars)
  /\ phase = "split" => SP!Inv
  /\ todo \in Seq(Nat \X Nat)
  /\ \A n \in 1..Len(todo) : 1 <= todo[n][1] /\ todo[n][2] <= Len(document)
  /\ \A m, n \in 1..Len(todo) : m < n => todo[m][2] < todo[n][1]

(* To the scan, a text is a sequence of its own classes, as long.          *)
LEMMA ClassFacts ==
  ASSUME NEW d \in Seq(DocumentChars)
  PROVE  /\ [k \in DOMAIN d |-> ClassOf(d[k])] \in Seq(S!Chars)
         /\ Len([k \in DOMAIN d |-> ClassOf(d[k])]) = Len(d)
         /\ Len(d) \in Nat
<1>1. Len(d) \in Nat /\ DOMAIN d = 1..Len(d)
  OBVIOUS
<1>2. ASSUME NEW c \in DocumentChars PROVE ClassOf(c) \in S!Chars
  BY <1>2 DEF ClassOf, DocumentChars, S!Chars, S!Stops, S!Blanks
<1>3. \A k \in 1..Len(d) : d[k] \in DocumentChars
  OBVIOUS
<1> DEFINE t == [k \in DOMAIN d |-> ClassOf(d[k])]
<1>4. t = [k \in 1..Len(d) |-> t[k]] /\ \A k \in 1..Len(d) : t[k] \in S!Chars
  BY <1>1, <1>2, <1>3
<1> HIDE DEF t
<1>5. t \in Seq(S!Chars) /\ Len(t) = Len(d)
  BY <1>1, <1>4
<1> QED BY <1>1, <1>5 DEF t

(* At the start there is the whole text to scan.                           *)
LEMMA SpansInit == Init => SpansInv
<1> SUFFICES ASSUME Init PROVE SpansInv
  OBVIOUS
<1>1. /\ document \in Seq(DocumentChars) /\ todo = <<>>
      /\ at = 1 /\ cur = 1 /\ cuts = <<>> /\ splitting = TRUE
  BY DocumentsAssumption DEF Init
<1>2. SP!Init
  BY <1>1, ClassFacts DEF SP!Init
<1>3. SP!Inv
  BY <1>2, SP!SplitterInit, SplitTexts
<1>4. /\ todo \in Seq(Nat \X Nat)
      /\ \A n \in 1..Len(todo) : 1 <= todo[n][1] /\ todo[n][2] <= Len(document)
      /\ \A m, n \in 1..Len(todo) : m < n => todo[m][2] < todo[n][1]
  BY <1>1
<1> QED BY <1>1, <1>3, <1>4 DEF SpansInv

(* The sentences that are cut are spans of the text.                       *)
LEMMA BeginSpans ==
  ASSUME SpansInv, Begin
  PROVE  SpansInv'
<1>1. SP!Inv /\ document \in Seq(DocumentChars) /\ Len(document) \in Nat
  BY ClassFacts DEF SpansInv, Begin
<1>2. document' = document /\ phase' = "next"
  BY DEF Begin, splitVars
<1>3. CASE cuts = <<>>
  <2>1. todo' = << <<1, Len(document)>> >>
    BY <1>3 DEF Begin
  <2>2. todo' \in Seq(Nat \X Nat) /\ Len(todo') = 1 /\ todo'[1] = <<1, Len(document)>>
    BY <1>1, <2>1
  <2> QED BY <1>1, <1>2, <2>2 DEF SpansInv
<1>4. CASE cuts # <<>>
  <2>1. todo' = cuts
    BY <1>4 DEF Begin
  <2>2. /\ cuts \in Seq((1..Len(document)) \X (1..Len(document)))
        /\ \A m, n \in 1..Len(cuts) : m < n => cuts[m][2] < cuts[n][1]
    <3>1. SP!TypeOK /\ SP!NothingLost
      BY <1>1 DEF SP!Inv
    <3>2. Len([k \in DOMAIN document |-> ClassOf(document[k])]) = Len(document)
      BY <1>1, ClassFacts
    <3>3. cuts \in Seq((1..Len(document)) \X (1..Len(document)))
      BY <3>1, <3>2 DEF SP!TypeOK
    <3> QED BY <3>1, <3>3 DEF SP!NothingLost
  <2>3. ASSUME NEW n \in 1..Len(cuts)
        PROVE  cuts[n] \in Nat \X Nat /\ 1 <= cuts[n][1] /\ cuts[n][2] <= Len(document)
    <3>1. cuts[n] \in (1..Len(document)) \X (1..Len(document))
      BY <2>2
    <3> QED BY <1>1, <3>1
  <2>4. cuts \in Seq(Nat \X Nat)
    <3>1. Len(cuts) \in Nat /\ cuts = [n \in 1..Len(cuts) |-> cuts[n]]
      BY <2>2
    <3>2. \A n \in 1..Len(cuts) : cuts[n] \in Nat \X Nat
      BY <2>3
    <3> QED BY <3>1, <3>2
  <2> QED BY <1>1, <1>2, <2>1, <2>2, <2>3, <2>4 DEF SpansInv
<1> QED BY <1>3, <1>4

(* What is left to speak are the spans after the first.                    *)
LEMMA TailFacts ==
  ASSUME SpansInv, todo # <<>>, NEW rest, rest = Tail(todo)
  PROVE  /\ Len(todo) \in Nat \ {0} /\ Len(rest) = Len(todo) - 1
         /\ rest \in Seq(Nat \X Nat)
         /\ \A n \in 1..Len(rest) : n + 1 \in 1..Len(todo) /\ rest[n] = todo[n + 1]
         /\ todo[1] \in Nat \X Nat
<1>1. todo \in Seq(Nat \X Nat)
  BY DEF SpansInv
<1> QED BY <1>1

(* No step but the start of a sentence takes a span.                       *)
LEMMA SpansStep ==
  ASSUME SpansInv, [Next]_vars
  PROVE  SpansInv'
<1>1. CASE Split
  <2>1. SP!Inv /\ SP!Next
    BY <1>1, SameSplitter DEF SpansInv, Split
  <2>2. (SP!Inv)'
    BY <2>1, SP!ScanStep, SplitTexts
  <2>3. document' = document /\ todo' = todo
    BY <1>1 DEF Split, S!Next, S!Ordinary, S!Stop, S!Newline, S!Finish
  <2> QED BY <2>2, <2>3 DEF SpansInv
<1>2. CASE Begin
  BY <1>2, BeginSpans
<1>3. CASE StartSentence
  <2>1. todo # <<>> /\ todo' = Tail(todo) /\ document' = document /\ phase' = "g2p"
    BY <1>3 DEF StartSentence, splitVars
  <2>2. /\ Len(todo) \in Nat \ {0} /\ Len(todo') = Len(todo) - 1
        /\ todo' \in Seq(Nat \X Nat)
        /\ \A n \in 1..Len(todo') : n + 1 \in 1..Len(todo) /\ todo'[n] = todo[n + 1]
    BY <2>1, TailFacts
  <2>3. ASSUME NEW n \in 1..Len(todo')
        PROVE  1 <= todo'[n][1] /\ todo'[n][2] <= Len(document)
    BY <2>2 DEF SpansInv
  <2>4. ASSUME NEW m \in 1..Len(todo'), NEW n \in 1..Len(todo'), m < n
        PROVE  todo'[m][2] < todo'[n][1]
    <3>1. /\ m + 1 \in 1..Len(todo) /\ n + 1 \in 1..Len(todo) /\ m + 1 < n + 1
          /\ todo'[m] = todo[m + 1] /\ todo'[n] = todo[n + 1]
      BY <2>2, <2>4
    <3> QED BY <3>1 DEF SpansInv
  <2> QED BY <2>1, <2>2, <2>3, <2>4 DEF SpansInv
<1>4. CASE UNCHANGED vars
  <2>1. UNCHANGED <<document, todo, phase, at, cur, cuts, splitting>>
    BY <1>4 DEF vars, splitVars
  <2>2. SP!Inv => (SP!Inv)'
    BY <2>1 DEF SP!Inv, SP!TypeOK, SP!NothingLost, SP!CutsBeforeCapitals, SP!CapitalNext, SP!Solid
  <2> QED BY <2>1, <2>2 DEF SpansInv
<1>5. CASE Tokenize \/ SkipSilent \/ Infer \/ Label \/ AppendChunk \/ Finish
  <2>1. document' = document /\ todo' = todo /\ phase' # "split"
    BY <1>5 DEF Tokenize, SkipSilent, Infer, Label, AppendChunk, PutTogether, Finish, splitVars
  <2> QED BY <2>1 DEF SpansInv
<1> QED BY <1>1, <1>2, <1>3, <1>4, <1>5 DEF Next

(* The characters that are left of a span are characters of it, in the     *)
(* order they stand in, and what they become is what the front end reads.  *)
LEMMA PlacesFacts ==
  ASSUME document \in Seq(DocumentChars), NEW from \in Nat, NEW to \in Nat,
         1 <= from, to <= Len(document)
  PROVE  /\ Len(Places(from, to)) \in Nat
         /\ Places(from, to) = [n \in 1..Len(Places(from, to)) |-> Places(from, to)[n]]
         /\ \A n \in 1..Len(Places(from, to)) :
              /\ Places(from, to)[n] \in from..to /\ Places(from, to)[n] \in 1..Len(document)
              /\ Normal(document[Places(from, to)[n]]) \in G!Chars
         /\ \A m, n \in 1..Len(Places(from, to)) :
              m < n => Places(from, to)[m] < Places(from, to)[n]
<1> DEFINE kept == Kept(from, to)
           pick(n) == CHOOSE k \in kept : Rank(k, kept) = n
<1>1. Len(document) \in Nat
  OBVIOUS
<1>2. /\ kept \in SUBSET (from..to) /\ kept \in SUBSET (0..to)
      /\ \A k \in kept : Normal(document[k]) # "none"
  <2>1. kept \in SUBSET (from..to)
    BY DEF Kept
  <2>2. \A k \in kept : Normal(document[k]) # "none"
    BY DEF Kept
  <2> QED BY <2>1, <2>2
<1>3. Cardinality(kept) \in Nat
  <2>1. 0 \in Int /\ to \in Int
    OBVIOUS
  <2>2. IsFiniteSet(0..to)
    BY <2>1, FS_Interval
  <2> QED BY <1>2, <2>2, FS_Subset, FS_CardinalityType
<1> HIDE DEF kept
<1>4. ASSUME NEW n \in 1..Cardinality(kept)
      PROVE  pick(n) \in kept /\ Rank(pick(n), kept) = n
  <2>1. \E k \in kept : Rank(k, kept) = n
    BY <1>2, RankExists DEF Rank
  <2> QED BY <2>1
<1>5. Places(from, to) = [n \in 1..Cardinality(kept) |-> pick(n)]
  BY DEF Places, kept
<1>6. ASSUME NEW n \in 1..Cardinality(kept)
      PROVE  /\ pick(n) \in from..to /\ pick(n) \in 1..Len(document)
             /\ Normal(document[pick(n)]) \in G!Chars
  <2>1. pick(n) \in from..to /\ Normal(document[pick(n)]) # "none"
    BY <1>2, <1>4
  <2> HIDE DEF pick
  <2>2. pick(n) \in 1..Len(document)
    BY <1>1, <2>1
  <2>3. document[pick(n)] \in DocumentChars
    BY <2>2
  <2>4. \A c \in DocumentChars : Normal(c) # "none" => Normal(c) \in G!Chars
    BY DEF Normal, DocumentChars, PunctChars, PUNCT_TOKENS, G!Chars, G!PunctChars, G!PUNCT_TOKENS
  <2> QED BY <2>1, <2>2, <2>3, <2>4
<1>7. ASSUME NEW m \in 1..Cardinality(kept), NEW n \in 1..Cardinality(kept), m < n
      PROVE  pick(m) < pick(n)
  <2>1. /\ pick(m) \in 0..to /\ pick(n) \in 0..to
        /\ Rank(pick(m), kept) = m /\ Rank(pick(n), kept) = n
    BY <1>2, <1>4
  <2> HIDE DEF pick
  <2>2. ASSUME pick(n) <= pick(m) PROVE FALSE
    <3>1. Rank(pick(n), kept) <= Rank(pick(m), kept)
      BY <1>2, <2>1, <2>2, RankGrows DEF Rank
    <3> QED BY <1>7, <2>1, <3>1
  <2> QED BY <2>1, <2>2
<1> HIDE DEF pick
<1>8. Len(Places(from, to)) = Cardinality(kept)
  BY <1>3, <1>5
<1> QED BY <1>3, <1>5, <1>6, <1>7, <1>8

-----------------------------------------------------------------------------
(* The tokens of a sentence                                                *)

\* The front end's lemmas, about the sentence at hand, whatever its text.
GP == INSTANCE G2PProofs WITH Texts <- Seq(G!Chars)

(* The front end that the lemmas are about is the one that runs.           *)
LEMMA SameFrontEnd == G!Next => GP!Next
BY DEF G!Next, G!Whitespace, G!Punctuation, G!SkipWide, G!Word, G!Finish, G!Reading,
       G!Kept, G!Fit, G!Separator, G!IsWord, G!WordToTokens, G!VoicedWord, G!SilentWord,
       G!Breaks, G!Space, G!Wide, G!Constantly, G!Last, G!PAD_TOKEN, G!SPACE_TOKEN,
       G!PUNCT_TOKENS, G!PunctChars, G!WidePunctChars,
       GP!Next, GP!Whitespace, GP!Punctuation, GP!SkipWide, GP!Word, GP!Finish,
       GP!Reading, GP!Kept, GP!Fit, GP!Separator, GP!IsWord, GP!WordToTokens,
       GP!VoicedWord, GP!SilentWord, GP!Breaks, GP!Space, GP!Wide, GP!Constantly,
       GP!Last, GP!PAD_TOKEN, GP!SPACE_TOKEN, GP!PUNCT_TOKENS, GP!PunctChars,
       GP!WidePunctChars

(* The constants of the request are what the front end's lemmas assume.    *)
LEMMA FrontEndConstants ==
  /\ Seq(G!Chars) \subseteq Seq(GP!Chars)
  /\ Pronunciations \subseteq Seq(Nat \ {GP!PAD_TOKEN})
  /\ TokenCap \in Nat /\ TokenCap >= 2
<1>1. G!Chars = GP!Chars
  BY DEF G!Chars, G!PunctChars, G!PUNCT_TOKENS, GP!Chars, GP!PunctChars, GP!PUNCT_TOKENS
<1> QED BY <1>1, PronunciationsAssumption, TokenCapAssumption DEF PAD_TOKEN, GP!PAD_TOKEN

\* What is known of a sentence while it is tokenized and labelled.
TokenInv == phase \in {"g2p", "label"} => GP!SentenceInv

(* The front end's start is one for a sentence of a request too.           *)
LEMMA SentenceBegins == GP!Init => GP!SentenceInv
BY GP!SentenceInit, FrontEndConstants

(* It holds of a sentence at its start.                                    *)
LEMMA TokensStart ==
  ASSUME SpansInv, StartSentence
  PROVE  TokenInv'
<1>1. /\ todo # <<>> /\ document' = document
      /\ places' = Places(Head(todo)[1], Head(todo)[2])
      /\ text' = [k \in DOMAIN places' |-> Normal(document[places'[k]])]
      /\ pos' = 1 /\ needSpace' = FALSE /\ scan' = "scanning"
      /\ tokenIds' = <<PAD_TOKEN>> /\ words' = <<>> /\ owner' = <<0>>
  BY DEF StartSentence, splitVars
<1>2. /\ document \in Seq(DocumentChars) /\ todo[1] \in Nat \X Nat /\ Head(todo) = todo[1]
      /\ 1 <= todo[1][1] /\ todo[1][2] <= Len(document)
  BY <1>1, TailFacts DEF SpansInv
<1> DEFINE from == todo[1][1]
           to == todo[1][2]
<1>3. /\ Len(places') \in Nat
      /\ places' = [n \in 1..Len(places') |-> places'[n]]
      /\ \A n \in 1..Len(places') : Normal(document[places'[n]]) \in G!Chars
  <2>1. from \in Nat /\ to \in Nat /\ 1 <= from /\ to <= Len(document)
    BY <1>2
  <2>2. places' = Places(from, to)
    BY <1>1, <1>2
  <2> HIDE DEF from, to
  <2> QED BY <1>2, <2>1, <2>2, PlacesFacts
<1>4. text' \in Seq(G!Chars)
  <2>1. DOMAIN places' = 1..Len(places')
    BY <1>3
  <2>2. text' = [n \in 1..Len(places') |-> text'[n]]
        /\ \A n \in 1..Len(places') : text'[n] \in G!Chars
    BY <1>1, <1>3, <2>1
  <2> QED BY <1>3, <2>2
<1>5. (GP!Init)'
  BY <1>1, <1>4 DEF GP!Init, GP!Start, PAD_TOKEN, GP!PAD_TOKEN
<1>6. (GP!Init)' => (GP!SentenceInv)'
  BY SentenceBegins, PTL
<1> QED BY <1>5, <1>6 DEF TokenInv

(* And to its end.                                                         *)
LEMMA TokensStep ==
  ASSUME SpansInv, TokenInv, [Next]_vars
  PROVE  TokenInv'
<1>1. CASE StartSentence
  BY <1>1, TokensStart
<1>2. CASE Tokenize
  <2>1. GP!SentenceInv /\ GP!Next
    BY <1>2, SameFrontEnd DEF Tokenize, TokenInv
  <2>2. (GP!SentenceInv)'
    BY <2>1, GP!SentenceStep, FrontEndConstants
  <2> QED BY <2>2 DEF TokenInv
<1>3. CASE Infer \/ Label \/ UNCHANGED vars
  <2>1. /\ UNCHANGED <<text, pos, needSpace, tokenIds, words, owner, scan>>
        /\ phase' = phase \/ (phase = "g2p" /\ phase' = "label")
    BY <1>3 DEF Infer, Label, vars, g2pVars
  <2>2. GP!SentenceInv => (GP!SentenceInv)'
    BY <2>1, GP!SentenceStep, FrontEndConstants DEF GP!vars
  <2> QED BY <2>1, <2>2 DEF TokenInv
<1>4. CASE Split \/ Begin \/ SkipSilent \/ AppendChunk \/ Finish
  <2>1. phase' \notin {"g2p", "label"}
    BY <1>4 DEF Split, Begin, SkipSilent, AppendChunk, PutTogether, Finish
  <2> QED BY <2>1 DEF TokenInv
<1> QED BY <1>1, <1>2, <1>3, <1>4 DEF Next

(* A sentence that is tokenized is a sequence of tokens, and its words are *)
(* a sequence.                                                             *)
LEMMA SentenceFacts ==
  ASSUME GP!SentenceInv
  PROVE  /\ tokenIds \in Seq(Nat) /\ Len(tokenIds) \in Nat
         /\ tokenIds # <<>> /\ tokenIds[1] = PAD_TOKEN
         /\ words \in Seq(Nat \X Nat) /\ Len(words) \in Nat
BY DEF GP!SentenceInv, GP!TypeInv, GP!TypeOK, GP!Leading, GP!PAD_TOKEN, PAD_TOKEN

-----------------------------------------------------------------------------
(* The timestamps of one sentence                                          *)

\* The builder's lemmas, about the call that Infer makes.
WP == INSTANCE WordTimestampsProofs WITH
        Calls <- {}, nWords <- Len(words), shapeOk <- (ends # <<>>)

(* The builder that the lemmas are about is the one that runs.             *)
LEMMA SameBuilder == W!Next => WP!Next
BY DEF W!Next, W!Reject, W!SkipPad, W!EndGroup, W!Extend, W!Gather, W!FlushLast,
       W!ExtendTail, W!Scanning, W!FlushWord, W!Emit, W!SpanStart, W!SpanEnd, W!Scaled,
       W!ModelTotal, W!Frames, W!N, W!NoWord, W!arguments, W!PAD_TOKEN,
       W!SPACE_TOKEN, WP!Next, WP!Reject, WP!SkipPad, WP!EndGroup, WP!Extend, WP!Gather,
       WP!FlushLast, WP!ExtendTail, WP!Scanning, WP!FlushWord, WP!Emit, WP!SpanStart,
       WP!SpanEnd, WP!Scaled, WP!ModelTotal, WP!Frames, WP!N, WP!NoWord,
       WP!arguments, WP!PAD_TOKEN, WP!SPACE_TOKEN

-----------------------------------------------------------------------------
(* The two files                                                           *)

\* The audio ends where its last segment does.
FileInv ==
  /\ segments \in Seq([from : Nat, to : Nat])
  /\ allSamples = IF segments = <<>> THEN 0 ELSE segments[Len(segments)].to
  /\ segments # <<>> => allSamples > 0
  /\ \E A : allWords \in Seq(A)

\* While a sentence is labelled, the builder has been given what the model
\* returned for its tokens.
LabelInv ==
  phase = "label" =>
    /\ scan = "done"
    /\ WP!BuilderInv /\ WP!OneRowPerToken /\ audioLen = WP!ModelTotal

RequestInv == OffsetInv /\ FileInv /\ SpansInv /\ TokenInv /\ LabelInv

(* The builder's start is one for a sentence of a request too.             *)
LEMMA BuilderBegins ==
  WP!Tokens /\ i = 1 /\ wordIdx = 0 /\ wordStart = WP!NoWord /\ wordEnd = 0
    /\ result = <<>> /\ step = "scan" => WP!LabelInv
BY WP!LabelInit, SamplesAssumption

(* What the model returns is a call the builder is written for.            *)
LEMMA InferStep ==
  ASSUME RequestInv, Infer
  PROVE  LabelInv'
<1>1. PICK row \in Rows :
        Len(row) = Len(tokenIds) /\ ends' = row /\ audioLen' = row[Len(row)] * HopLength
  BY DEF Infer
<1>2. /\ tokenIds \in Seq(Nat) /\ Len(tokenIds) \in Nat /\ Len(tokenIds) > 2
      /\ Len(words) \in Nat
      /\ UNCHANGED <<tokenIds, words, scan>> /\ scan = "done"
  BY SentenceFacts DEF Infer, RequestInv, TokenInv, g2pVars
<1>3. /\ row \in Seq(Nat \ {0}) /\ row # <<>>
      /\ \A j, k \in 1..Len(row) : j < k => row[j] < row[k]
  <2>1. /\ row \in Seq(Nat \ {0})
        /\ \A j, k \in 1..Len(row) : j < k => row[j] < row[k]
    BY RowsAssumption
  <2> QED BY <1>1, <1>2, <2>1
<1>4. /\ row[Len(row)] \in Nat \ {0} /\ HopLength \in Nat \ {0}
      /\ Len(row) \in Nat /\ Len(row) > 0
  BY <1>1, <1>2, <1>3, SamplesAssumption
<1>5. row[Len(row)] * HopLength \in Nat /\ row[Len(row)] * HopLength >= row[Len(row)]
  <2>1. PICK h \in Nat : HopLength = 1 + h
    <3>1. HopLength - 1 \in Nat /\ HopLength = 1 + (HopLength - 1)
      BY <1>4
    <3> QED BY <3>1
  <2>2. row[Len(row)] * HopLength = row[Len(row)] + row[Len(row)] * h
    BY <1>4, <2>1
  <2>3. row[Len(row)] * h \in Nat
    BY <1>4
  <2> QED BY <1>4, <2>2, <2>3
<1>6. WP!Frames' = row[Len(row)] /\ WP!ModelTotal' = row[Len(row)] * HopLength
  BY <1>1, <1>4 DEF WP!Frames, WP!ModelTotal, WP!N
<1>7. WP!TypeOK'
  <2>1. (WP!IsCall([tokenIds |-> tokenIds, nWords |-> Len(words), ends |-> ends,
                    audioLen |-> audioLen, shapeOk |-> (ends # <<>>)]))'
    BY <1>1, <1>2, <1>3, <1>5 DEF WP!IsCall
  <2>2. /\ i' = 1 /\ wordStart' = W!NoWord /\ wordEnd' = 0 /\ wordIdx' = 0
        /\ result' = <<>> /\ step' = "scan"
    BY DEF Infer
  <2>3. i' \in 1..(Len(tokenIds') + 1) /\ wordIdx' \in 0..Len(words')
    BY <1>2, <2>2
  <2> QED BY <2>1, <2>2, <2>3 DEF WP!TypeOK, W!NoWord, WP!NoWord
<1>8. (WP!OneRowPerToken)'
  BY <1>1, <1>2, <1>3, <1>5, <1>6 DEF WP!OneRowPerToken, WP!N
<1>9. (WP!OrderInv)' /\ (WP!EndInv)'
  <2>1. /\ wordStart' = WP!NoWord /\ wordEnd' = 0 /\ wordIdx' = 0
        /\ result' = <<>> /\ step' = "scan" /\ audioLen' \in Nat
    BY <1>1, <1>5 DEF Infer, W!NoWord, WP!NoWord
  <2> QED BY <2>1 DEF WP!OrderInv, WP!Ordered, WP!Gathering, WP!EndInv
<1>10. (WP!LabelInv)'
  <2>1. /\ (WP!Tokens)' /\ i' = 1 /\ wordIdx' = 0 /\ wordStart' = WP!NoWord /\ wordEnd' = 0
        /\ result' = <<>> /\ step' = "scan"
    BY <1>2 DEF Infer, W!NoWord, WP!NoWord, WP!Tokens
  <2>2. (WP!Tokens /\ i = 1 /\ wordIdx = 0 /\ wordStart = WP!NoWord /\ wordEnd = 0
           /\ result = <<>> /\ step = "scan" => WP!LabelInv)'
    BY BuilderBegins, PTL
  <2> QED BY <2>1, <2>2 DEF WP!NoWord
<1> QED BY <1>1, <1>2, <1>6, <1>7, <1>8, <1>9, <1>10 DEF LabelInv, WP!BuilderInv

(* The builder keeps its own invariants within the request.                *)
LEMMA LabelStep ==
  ASSUME LabelInv, [Next]_vars, phase = "label", phase' = "label"
  PROVE  LabelInv'
<1>1. Label \/ UNCHANGED vars
  BY DEF Next, Split, Begin, StartSentence, Tokenize, SkipSilent, Infer, AppendChunk,
         PutTogether, Finish
<1>2. /\ WP!BuilderInv /\ WP!OneRowPerToken /\ audioLen = WP!ModelTotal /\ scan = "done"
      /\ UNCHANGED <<tokenIds, words, ends, audioLen, scan>>
  BY <1>1 DEF Label, LabelInv, g2pVars, vars, chunkVars
<1>3. [WP!Next]_(WP!vars)
  BY <1>1, SameBuilder DEF Label, WP!vars, vars, g2pVars, chunkVars, localVars
<1>4. (WP!BuilderInv)'
  BY <1>2, <1>3, WP!BuilderStep, SamplesAssumption
<1>5. (WP!OneRowPerToken)' /\ (audioLen = WP!ModelTotal)'
  BY <1>2 DEF WP!OneRowPerToken, WP!N, WP!Frames, WP!ModelTotal
<1> QED BY <1>2, <1>4, <1>5 DEF LabelInv

(* Two sequences in a row.                                                 *)
LEMMA Concat2 ==
  ASSUME NEW A, NEW a \in Seq(A), NEW B, NEW b \in Seq(B), NEW r, r = a \o b
  PROVE  /\ r \in Seq(A \cup B)
         /\ Len(a) \in Nat /\ Len(b) \in Nat /\ Len(r) = Len(a) + Len(b)
         /\ \A k \in 1..Len(a) : r[k] = a[k]
         /\ \A k \in 1..Len(b) : r[Len(a) + k] = b[k]
<1>1. a \in Seq(A \cup B) /\ b \in Seq(A \cup B)
  OBVIOUS
<1> DEFINE C == A \cup B
<1>2. a \in Seq(C) /\ b \in Seq(C)
  BY <1>1
<1> HIDE DEF C
<1>3. r \in Seq(C) /\ Len(a) \in Nat /\ Len(b) \in Nat /\ Len(r) = Len(a) + Len(b)
  BY <1>2
<1>4. /\ \A k \in 1..Len(a) : r[k] = a[k]
      /\ \A k \in 1..Len(b) : r[Len(a) + k] = b[k]
  BY <1>2
<1> QED BY <1>3, <1>4 DEF C

(* What is two sequences in a row, index by index, is their concatenation. *)
LEMMA IsConcat ==
  ASSUME NEW A, NEW a \in Seq(A), NEW B, NEW b \in Seq(B), NEW r,
         r = [k \in 1..(Len(a) + Len(b)) |-> r[k]],
         \A k \in 1..Len(a) : r[k] = a[k],
         \A k \in 1..Len(b) : r[Len(a) + k] = b[k]
  PROVE  r = a \o b
<1>1. PICK c : c = a \o b
  OBVIOUS
<1>2. /\ c \in Seq(A \cup B)
      /\ Len(a) \in Nat /\ Len(b) \in Nat /\ Len(c) = Len(a) + Len(b)
      /\ \A k \in 1..Len(a) : c[k] = a[k]
      /\ \A k \in 1..Len(b) : c[Len(a) + k] = b[k]
  BY <1>1, Concat2
<1>3. c = [k \in 1..(Len(a) + Len(b)) |-> c[k]]
  BY <1>2
<1>4. ASSUME NEW k \in 1..(Len(a) + Len(b)) PROVE r[k] = c[k]
  <2>1. CASE k <= Len(a)
    <3>1. k \in 1..Len(a)
      BY <1>2, <2>1
    <3> QED BY <1>2, <3>1
  <2>2. CASE k > Len(a)
    <3>1. k - Len(a) \in 1..Len(b) /\ Len(a) + (k - Len(a)) = k
      BY <1>2, <2>2
    <3> QED BY <1>2, <3>1
  <2> QED BY <1>2, <2>1, <2>2
<1>5. r = c
  BY <1>3, <1>4
<1> QED BY <1>1, <1>5

\* Where the words of a sentence go.
From == timeOffset + Pause

New == [k \in 1..Len(result) |-> [start |-> result[k].start + From,
                                  end   |-> result[k].end + From]]

(* What a sentence adds to the files is one segment, with marks inside it. *)
LEMMA SpeakFacts ==
  ASSUME RequestInv, AppendChunk
  PROVE  /\ From \in Nat /\ From = T!NextStart
         /\ audioLen \in Nat /\ audioLen > 0
         /\ segments' = Append(segments, [from |-> From, to |-> From + audioLen])
         /\ allSamples' = From + audioLen
         /\ New \in Seq([start : Nat, end : Nat]) /\ Len(New) = Len(result)
         /\ \A k \in 1..Len(New) :
              /\ From <= New[k].start /\ New[k].start < New[k].end
              /\ New[k].end <= From + audioLen
         /\ \A j, k \in 1..Len(New) : j < k => New[j].end <= New[k].start
<1>1. /\ allSamples \in Nat /\ timeOffset = allSamples
      /\ audioLen \in Nat /\ audioLen > 0
      /\ first <=> allSamples = 0
  BY DEF RequestInv, OffsetInv, OffsetIsLength, AppendChunk, PutTogether
<1>2. /\ allSamples = IF segments = <<>> THEN 0 ELSE segments[Len(segments)].to
      /\ segments # <<>> => allSamples > 0
  BY DEF RequestInv, FileInv
<1>3. Pause \in Nat /\ From \in Nat /\ From = T!NextStart
  BY <1>1, <1>2, SamplesAssumption DEF Pause, From, T!NextStart
<1>4. /\ WP!TypeOK /\ WP!Ordered
      /\ \A k \in 1..Len(result) : result[k].end <= audioLen
  BY DEF AppendChunk, PutTogether, RequestInv, LabelInv, WP!BuilderInv, WP!OrderInv, WP!EndInv
<1>5. ASSUME NEW k \in 1..Len(result)
      PROVE  /\ result[k].start \in Nat /\ result[k].end \in Nat
             /\ result[k].start < result[k].end /\ result[k].end <= audioLen
  <2> DEFINE Stamps == [word : 1..Len(words), start : Nat, end : Nat]
  <2>1. result \in Seq(Stamps)
    BY <1>4 DEF WP!TypeOK
  <2> HIDE DEF Stamps
  <2>4. result[k] \in Stamps
    BY <1>5, <2>1
  <2>2. result[k].start \in Nat /\ result[k].end \in Nat
    BY <2>4 DEF Stamps
  <2>3. result[k].start < result[k].end /\ result[k].end <= audioLen
    BY <1>4 DEF WP!Ordered
  <2> QED BY <2>2, <2>3
<1>6. Len(result) \in Nat
  BY <1>4 DEF WP!TypeOK
<1>7. /\ Len(New) = Len(result)
      /\ \A k \in 1..Len(result) : New[k] = [start |-> result[k].start + From,
                                             end   |-> result[k].end + From]
  BY <1>6 DEF New
<1>8. ASSUME NEW k \in 1..Len(result)
      PROVE  [start |-> result[k].start + From, end |-> result[k].end + From]
               \in [start : Nat, end : Nat]
  BY <1>3, <1>5
<1>9. New \in Seq([start : Nat, end : Nat])
  BY <1>6, <1>8 DEF New
<1>10. ASSUME NEW k \in 1..Len(New)
       PROVE  /\ From <= New[k].start /\ New[k].start < New[k].end
              /\ New[k].end <= From + audioLen
  <2>1. New[k].start = result[k].start + From /\ New[k].end = result[k].end + From
    <3>1. k \in 1..Len(result)
      BY <1>7, <1>10
    <3>2. New[k] = [start |-> result[k].start + From, end |-> result[k].end + From]
      BY <1>7, <3>1
    <3> QED BY <3>2
  <2>2. /\ result[k].start \in Nat /\ result[k].end \in Nat
        /\ result[k].start < result[k].end /\ result[k].end <= audioLen
    BY <1>5, <1>7
  <2> QED BY <1>1, <1>3, <2>1, <2>2
<1>11. ASSUME NEW j \in 1..Len(New), NEW k \in 1..Len(New), j < k
       PROVE  New[j].end <= New[k].start
  <2>1. result[j].end <= result[k].start
    BY <1>4, <1>7, <1>11 DEF WP!Ordered
  <2>2. New[j].end = result[j].end + From /\ New[k].start = result[k].start + From
    <3>1. j \in 1..Len(result) /\ k \in 1..Len(result)
      BY <1>7, <1>11
    <3>2. /\ New[j] = [start |-> result[j].start + From, end |-> result[j].end + From]
          /\ New[k] = [start |-> result[k].start + From, end |-> result[k].end + From]
      BY <1>7, <3>1
    <3> QED BY <3>2
  <2>3. result[j].end \in Nat /\ result[k].start \in Nat
    BY <1>5, <1>7
  <2> QED BY <1>3, <2>1, <2>2, <2>3
<1>12. /\ segments' = Append(segments, [from |-> From, to |-> From + audioLen])
       /\ allSamples' = From + audioLen
  BY <1>1, <1>3 DEF AppendChunk, PutTogether, From
<1> QED BY <1>1, <1>3, <1>7, <1>9, <1>10, <1>11, <1>12

(* A sentence that is heard is a step of the timeline.                     *)
LEMMA AppendStep ==
  ASSUME RequestInv, AppendChunk
  PROVE  FileInv' /\ T!Next
<1> DEFINE seg == [from |-> From, to |-> From + audioLen]
           add == [k \in 1..Len(result) |-> Shifted(result[k], From)]
<1>1. PICK A : allWords \in Seq(A)
  BY DEF RequestInv, FileInv
<1>2. /\ From \in Nat /\ From = T!NextStart /\ audioLen \in Nat /\ audioLen > 0
      /\ segments' = Append(segments, seg) /\ allSamples' = From + audioLen
      /\ New \in Seq([start : Nat, end : Nat]) /\ Len(New) = Len(result)
      /\ \A k \in 1..Len(New) :
           /\ From <= New[k].start /\ New[k].start < New[k].end
           /\ New[k].end <= From + audioLen
      /\ \A j, k \in 1..Len(New) : j < k => New[j].end <= New[k].start
  BY SpeakFacts
<1>3. Len(result) \in Nat
  BY <1>2
<1>4. allWords' = allWords \o add
  BY DEF AppendChunk, PutTogether, From
<1>5. /\ add \in Seq({add[k] : k \in 1..Len(result)}) /\ Len(add) = Len(result)
  BY <1>3
<1>6. /\ allWords' \in Seq(A \cup {add[k] : k \in 1..Len(result)})
      /\ Len(allWords) \in Nat /\ Len(allWords') = Len(allWords) + Len(result)
      /\ \A k \in 1..Len(allWords) : allWords'[k] = allWords[k]
      /\ \A k \in 1..Len(result) : allWords'[Len(allWords) + k] = add[k]
  BY <1>1, <1>4, <1>5, Concat2
<1>7. seg \in [from : Nat, to : Nat] /\ seg.from = From /\ seg.to = From + audioLen
  BY <1>2
<1>8. segments \in Seq([from : Nat, to : Nat])
  BY DEF RequestInv, FileInv
<1> HIDE DEF seg
<1>9. /\ segments' \in Seq([from : Nat, to : Nat]) /\ segments' # <<>>
      /\ segments'[Len(segments')] = seg
  <2>1. segments' = Append(segments, seg) /\ seg \in [from : Nat, to : Nat]
    BY <1>2, <1>7
  <2> QED BY <1>8, <2>1
<1>10. FileInv'
  BY <1>2, <1>6, <1>7, <1>9 DEF FileInv
<1> DEFINE m == Spans(allWords)
           mm == Spans(allWords')
<1>11. /\ Len(m) = Len(allWords) /\ Len(mm) = Len(allWords) + Len(New)
       /\ m = [k \in 1..Len(allWords) |-> [start |-> allWords[k].start, end |-> allWords[k].end]]
       /\ mm = [k \in 1..(Len(allWords) + Len(New)) |->
                  [start |-> allWords'[k].start, end |-> allWords'[k].end]]
  BY <1>2, <1>3, <1>6 DEF Spans
<1>12. ASSUME NEW k \in 1..Len(allWords) PROVE mm[k] = m[k]
  BY <1>2, <1>3, <1>6, <1>11, <1>12
<1>13. ASSUME NEW k \in 1..Len(New) PROVE mm[Len(allWords) + k] = New[k]
  <2>1. /\ New[k] = [start |-> result[k].start + From, end |-> result[k].end + From]
        /\ add[k].start = result[k].start + From /\ add[k].end = result[k].end + From
    BY <1>2, <1>13 DEF New, Shifted
  <2>2. Len(allWords) + k \in 1..(Len(allWords) + Len(New))
    BY <1>2, <1>3, <1>6, <1>13
  <2>3. allWords'[Len(allWords) + k] = add[k]
    BY <1>2, <1>6, <1>13
  <2> HIDE DEF add, mm, m
  <2> QED BY <1>11, <2>1, <2>2, <2>3
<1> HIDE DEF add, mm, m
<1>14. SubSeq(mm, Len(m) + 1, Len(mm)) = New
  <2>1. SubSeq(mm, Len(m) + 1, Len(mm)) = [k \in 1..Len(New) |-> mm[Len(allWords) + k]]
    BY <1>2, <1>3, <1>6, <1>11
  <2>2. New = [k \in 1..Len(New) |-> New[k]]
    BY <1>2
  <2> QED BY <1>13, <2>1, <2>2
<1>15. mm = m \o New
  <2>1. m \in Seq({m[k] : k \in 1..Len(allWords)})
    BY <1>6, <1>11
  <2>2. /\ mm = [k \in 1..(Len(m) + Len(New)) |-> mm[k]]
        /\ \A k \in 1..Len(m) : mm[k] = m[k]
        /\ \A k \in 1..Len(New) : mm[Len(m) + k] = New[k]
    BY <1>11, <1>12, <1>13
  <2> QED BY <1>2, <2>1, <2>2, IsConcat
<1>16. T!Speak(seg, New)
  BY <1>2, <1>7, <1>15 DEF T!Speak, mm, m
<1>17. T!Next
  BY <1>9, <1>14, <1>16 DEF T!Next, mm, m
<1> QED BY <1>10, <1>17

(* A step that leaves the files alone keeps what is known of them.         *)
LEMMA FileSame ==
  ASSUME FileInv, UNCHANGED <<segments, allSamples, allWords>> PROVE FileInv'
BY DEF FileInv

(* The request keeps its invariant, and only a sentence moves the timeline. *)
LEMMA RequestStep ==
  ASSUME RequestInv, [Next]_vars
  PROVE  RequestInv' /\ [T!Next]_(T!vars)
<1>1. OffsetInv'
  <2>1. CASE UNCHANGED vars
    BY <2>1 DEF vars, chunkVars, fileVars, RequestInv, OffsetInv, OffsetIsLength
  <2> QED BY <2>1, OffsetStep DEF RequestInv
<1>2. SpansInv' /\ TokenInv'
  BY SpansStep, TokensStep DEF RequestInv
<1>3. LabelInv'
  <2>1. CASE phase' # "label"
    BY <2>1 DEF LabelInv
  <2>2. CASE phase' = "label" /\ phase = "label"
    BY <2>2, LabelStep DEF RequestInv
  <2>3. CASE phase' = "label" /\ phase # "label"
    <3>1. Infer
      BY <2>3 DEF Next, Split, Begin, StartSentence, Tokenize, SkipSilent, Label,
                  AppendChunk, PutTogether, Finish, vars
    <3> QED BY <3>1, InferStep
  <2> QED BY <2>1, <2>2, <2>3
<1>4. FileInv' /\ [T!Next]_(T!vars)
  <2>1. CASE AppendChunk
    BY <2>1, AppendStep
  <2>2. CASE ~AppendChunk
    <3>1. UNCHANGED <<segments, allSamples, allWords>>
      BY <2>2 DEF Next, Split, Begin, StartSentence, Tokenize, SkipSilent, Infer, Label,
                  Finish, vars, fileVars
    <3> QED BY <3>1, FileSame DEF RequestInv, T!vars, Spans
  <2> QED BY <2>1, <2>2
<1> QED BY <1>1, <1>2, <1>3, <1>4 DEF RequestInv

(* It holds of a request at its start.                                     *)
LEMMA RequestInit == Init => RequestInv /\ T!Init
<1> SUFFICES ASSUME Init PROVE RequestInv /\ T!Init
  OBVIOUS
<1>1. OffsetInv
  BY DEF Init, OffsetInv, OffsetIsLength
<1>2. segments = <<>> /\ allWords = <<>> /\ allSamples = 0 /\ phase = "split"
  BY DEF Init
<1>3. FileInv
  BY <1>2 DEF FileInv
<1>4. Spans(allWords) = <<>>
  BY <1>2 DEF Spans
<1> QED BY <1>1, <1>2, <1>3, <1>4, SpansInit DEF RequestInv, LabelInv, TokenInv, T!Init

(* The request's invariant holds throughout.                               *)
LEMMA RequestInvariance == Spec => []RequestInv
BY RequestInit, RequestStep, PTL DEF Spec

(* Whatever the text, the pronunciations and the times the model returns,  *)
(* what synthesize_to_wav puts together is a timeline: sentences apart by  *)
(* the silence, every word inside its sentence and none over another.      *)
THEOREM TimelineImplemented == Spec => TimelineSpec
<1>1. RequestInv /\ [Next]_vars => [T!Next]_(T!vars)
  BY RequestStep
<1> QED BY <1>1, RequestInit, RequestInvariance, PTL DEF Spec, TimelineSpec, T!Spec

-----------------------------------------------------------------------------
(* What is known of a timeline                                             *)

TimeMarks == Spans(allWords)

Segment == [from : Nat, to : Nat]
Mark    == [start : Nat, end : Nat]

\* What the next segment is placed by: the last one ends last.
SegmentsInv ==
  /\ segments \in Seq(Segment)
  /\ \A k \in 1..Len(segments) : segments[k].from < segments[k].to
  /\ T!SegmentsApart

TimeMarksInv ==
  /\ TimeMarks \in Seq(Mark)
  /\ T!MarksInOrder
  /\ T!MarksInsideSegments

TimeInv == SegmentsInv /\ TimeMarksInv

(* A new segment starts past the silence after every earlier one.          *)
LEMMA TimelineSegments ==
  ASSUME SegmentsInv, NEW seg, NEW new, T!Speak(seg, new)
  PROVE  /\ SegmentsInv'
         /\ Len(segments) \in Nat
         /\ Len(segments') = Len(segments) + 1
         /\ \A k \in 1..Len(segments) :
              segments'[k] = segments[k] /\ segments[k].to <= seg.from
         /\ segments'[Len(segments) + 1] = seg
<1>1. /\ segments \in Seq(Segment) /\ seg \in Segment
      /\ segments' = Append(segments, seg)
      /\ seg.from = T!NextStart /\ seg.from < seg.to
  BY DEF SegmentsInv, T!Speak, Segment
<1>2. /\ segments' \in Seq(Segment)
      /\ Len(segments) \in Nat
      /\ Len(segments') = Len(segments) + 1
      /\ \A k \in 1..Len(segments) : segments'[k] = segments[k]
      /\ segments'[Len(segments) + 1] = seg
  BY <1>1
<1>3. ASSUME NEW k \in 1..Len(segments)
      PROVE  segments[k].to + SILENCE_SAMPLES <= seg.from /\ segments[k].to <= seg.from
  <2>1. segments # <<>> /\ seg.from = segments[Len(segments)].to + SILENCE_SAMPLES
    BY <1>1, <1>2 DEF T!NextStart
  <2>2. /\ segments[k].from \in Nat /\ segments[k].to \in Nat
        /\ segments[Len(segments)].from \in Nat
        /\ segments[Len(segments)].to \in Nat
    <3>1. segments[k] \in Segment /\ segments[Len(segments)] \in Segment
      BY <1>1, <1>2
    <3> QED BY <3>1 DEF Segment
  <2>3. CASE k = Len(segments)
    BY <2>1, <2>2, <2>3, SamplesAssumption
  <2>4. CASE k < Len(segments)
    <3>1. Len(segments) \in 1..Len(segments)
      BY <1>2
    <3>2. segments[k].to + SILENCE_SAMPLES <= segments[Len(segments)].from
      BY <2>4, <3>1 DEF SegmentsInv, T!SegmentsApart
    <3>3. segments[Len(segments)].from < segments[Len(segments)].to
      BY <3>1 DEF SegmentsInv
    <3> QED BY <2>1, <2>2, <3>2, <3>3, SamplesAssumption
  <2> QED BY <1>2, <2>3, <2>4
<1>4. ASSUME NEW k \in 1..Len(segments')
      PROVE  segments'[k].from < segments'[k].to
  BY <1>1, <1>2 DEF SegmentsInv
<1>5. ASSUME NEW j \in 1..Len(segments'), NEW k \in 1..Len(segments'), j < k
      PROVE  segments'[j].to + SILENCE_SAMPLES <= segments'[k].from
  <2>1. j \in 1..Len(segments)
    BY <1>2, <1>5
  <2>2. CASE k \in 1..Len(segments)
    BY <1>2, <1>5, <2>1, <2>2 DEF SegmentsInv, T!SegmentsApart
  <2>3. CASE k = Len(segments) + 1
    BY <1>2, <1>3, <2>1, <2>3
  <2> QED BY <1>2, <2>2, <2>3
<1> QED BY <1>2, <1>3, <1>4, <1>5 DEF SegmentsInv, T!SegmentsApart

(* The marks of the new segment follow every mark there was.               *)
LEMMA TimelineMarks ==
  ASSUME TimeInv, NEW seg, NEW new, T!Speak(seg, new)
  PROVE  TimeMarksInv'
<1>1. /\ TimeMarks \in Seq(Mark) /\ new \in Seq(Mark)
      /\ seg.from \in Nat /\ seg.to \in Nat
      /\ TimeMarks' = TimeMarks \o new
  BY DEF TimeInv, TimeMarksInv, T!Speak, Mark, TimeMarks
<1>2. /\ TimeMarks' \in Seq(Mark)
      /\ Len(TimeMarks) \in Nat /\ Len(new) \in Nat
      /\ Len(TimeMarks') = Len(TimeMarks) + Len(new)
      /\ \A k \in 1..Len(TimeMarks) : TimeMarks'[k] = TimeMarks[k]
      /\ \A k \in (Len(TimeMarks) + 1)..(Len(TimeMarks) + Len(new)) :
           TimeMarks'[k] = new[k - Len(TimeMarks)]
  BY <1>1
<1>3. /\ SegmentsInv'
      /\ Len(segments) \in Nat
      /\ Len(segments') = Len(segments) + 1
      /\ \A k \in 1..Len(segments) :
           segments'[k] = segments[k] /\ segments[k].to <= seg.from
      /\ segments'[Len(segments) + 1] = seg
  BY TimelineSegments DEF TimeInv
<1>4. ASSUME NEW k \in 1..Len(TimeMarks)
      PROVE  /\ TimeMarks[k].start \in Nat /\ TimeMarks[k].end \in Nat
             /\ TimeMarks[k].end <= seg.from
             /\ \E s \in 1..Len(segments) :
                  /\ segments[s].from <= TimeMarks[k].start
                  /\ TimeMarks[k].start < TimeMarks[k].end
                  /\ TimeMarks[k].end <= segments[s].to
  <2>1. TimeMarks[k].start \in Nat /\ TimeMarks[k].end \in Nat
    <3>1. TimeMarks[k] \in Mark
      BY <1>1
    <3> QED BY <3>1 DEF Mark
  <2>2. PICK s \in 1..Len(segments) :
               /\ segments[s].from <= TimeMarks[k].start
               /\ TimeMarks[k].start < TimeMarks[k].end
               /\ TimeMarks[k].end <= segments[s].to
    BY DEF TimeInv, TimeMarksInv, T!MarksInsideSegments, TimeMarks
  <2>3. segments[s].to \in Nat /\ segments[s].to <= seg.from
    <3>1. segments \in Seq(Segment)
      BY DEF TimeInv, SegmentsInv
    <3>2. segments[s] \in Segment
      BY <3>1
    <3> QED BY <1>3, <3>2 DEF Segment
  <2>4. TimeMarks[k].end <= seg.from
    BY <1>1, <2>1, <2>2, <2>3
  <2> QED BY <2>1, <2>2, <2>4
<1>5. ASSUME NEW k \in 1..Len(new)
      PROVE  /\ new[k].start \in Nat /\ new[k].end \in Nat
             /\ seg.from <= new[k].start
             /\ new[k].start < new[k].end
             /\ new[k].end <= seg.to
  <2>1. new[k] \in Mark
    BY <1>1
  <2> QED BY <2>1 DEF Mark, T!Speak
<1>6. ASSUME NEW k \in 1..Len(TimeMarks')
      PROVE  \/ k \in 1..Len(TimeMarks) /\ TimeMarks'[k] = TimeMarks[k]
             \/ /\ k - Len(TimeMarks) \in 1..Len(new)
                /\ k \in (Len(TimeMarks) + 1)..(Len(TimeMarks) + Len(new))
                /\ TimeMarks'[k] = new[k - Len(TimeMarks)]
  BY <1>2
<1>7. ASSUME NEW j \in 1..Len(TimeMarks'), NEW k \in 1..Len(TimeMarks'), j < k
      PROVE  TimeMarks'[j].end <= TimeMarks'[k].start
  <2>1. CASE k \in 1..Len(TimeMarks) /\ TimeMarks'[k] = TimeMarks[k]
    <3>1. j \in 1..Len(TimeMarks) /\ TimeMarks'[j] = TimeMarks[j]
      BY <1>2, <1>7, <2>1
    <3> QED BY <1>7, <2>1, <3>1 DEF TimeInv, TimeMarksInv, T!MarksInOrder, TimeMarks
  <2>2. CASE /\ k - Len(TimeMarks) \in 1..Len(new)
             /\ TimeMarks'[k] = new[k - Len(TimeMarks)]
    <3>1. CASE j \in 1..Len(TimeMarks) /\ TimeMarks'[j] = TimeMarks[j]
      <4>1. TimeMarks[j].end \in Nat /\ TimeMarks[j].end <= seg.from
        BY <1>4, <3>1
      <4>2. /\ new[k - Len(TimeMarks)].start \in Nat
            /\ seg.from <= new[k - Len(TimeMarks)].start
        BY <1>5, <2>2
      <4> QED BY <1>1, <2>2, <3>1, <4>1, <4>2
    <3>2. CASE /\ j - Len(TimeMarks) \in 1..Len(new)
               /\ TimeMarks'[j] = new[j - Len(TimeMarks)]
      <4>1. j - Len(TimeMarks) < k - Len(TimeMarks)
        BY <1>2, <1>7
      <4> QED BY <2>2, <3>2, <4>1 DEF T!Speak
    <3> QED BY <1>6, <3>1, <3>2
  <2> QED BY <1>6, <2>1, <2>2
<1>8. ASSUME NEW k \in 1..Len(TimeMarks')
      PROVE  \E s \in 1..Len(segments') :
               /\ segments'[s].from <= TimeMarks'[k].start
               /\ TimeMarks'[k].start < TimeMarks'[k].end
               /\ TimeMarks'[k].end <= segments'[s].to
  <2>1. CASE k \in 1..Len(TimeMarks) /\ TimeMarks'[k] = TimeMarks[k]
    <3>1. PICK s \in 1..Len(segments) :
                 /\ segments[s].from <= TimeMarks[k].start
                 /\ TimeMarks[k].start < TimeMarks[k].end
                 /\ TimeMarks[k].end <= segments[s].to
      BY <1>4, <2>1
    <3>2. s \in 1..Len(segments') /\ segments'[s] = segments[s]
      BY <1>3
    <3> QED BY <2>1, <3>1, <3>2
  <2>2. CASE /\ k - Len(TimeMarks) \in 1..Len(new)
             /\ TimeMarks'[k] = new[k - Len(TimeMarks)]
    <3>1. Len(segments) + 1 \in 1..Len(segments')
      BY <1>3
    <3> QED BY <1>3, <1>5, <2>2, <3>1
  <2> QED BY <1>6, <2>1, <2>2
<1> QED BY <1>2, <1>7, <1>8 DEF TimeMarksInv, T!MarksInOrder, T!MarksInsideSegments, TimeMarks

(* The invariant holds of every state of every timeline.                   *)
LEMMA TimelineInvariance == TimelineSpec => []TimeInv
<1>1. T!Init => TimeInv
  BY DEF T!Init, TimeInv, SegmentsInv, TimeMarksInv, T!SegmentsApart, T!MarksInOrder,
         T!MarksInsideSegments, Segment, Mark, TimeMarks
<1>2. TimeInv /\ [T!Next]_(T!vars) => TimeInv'
  <2> SUFFICES ASSUME TimeInv, [T!Next]_(T!vars) PROVE TimeInv'
    OBVIOUS
  <2>1. CASE T!Next
    BY <2>1, TimelineSegments, TimelineMarks DEF T!Next, TimeInv
  <2>2. CASE UNCHANGED T!vars
    BY <2>2 DEF T!vars, TimeInv, SegmentsInv, TimeMarksInv, T!SegmentsApart, T!MarksInOrder,
                T!MarksInsideSegments, TimeMarks
  <2> QED BY <2>1, <2>2
<1> QED BY <1>1, <1>2, PTL DEF TimelineSpec, T!Spec

(* What a timeline is: sentences one after the other with the silence      *)
(* between them, words in the order they are heard over spans that do not  *)
(* overlap, and no word that lasts into a silence or past the end.         *)
THEOREM TimelineCorrect ==
  TimelineSpec => [](T!SegmentsApart /\ T!MarksInOrder /\ T!MarksInsideSegments)
<1>1. TimeInv => T!SegmentsApart /\ T!MarksInOrder /\ T!MarksInsideSegments
  BY DEF TimeInv, SegmentsInv, TimeMarksInv
<1> QED BY <1>1, TimelineInvariance, PTL

-----------------------------------------------------------------------------
(* The words where they are spoken                                         *)

(* Where the marks stand as in prose, the groups that the builder sees are *)
(* the words that the front end listed.                                    *)
LEMMA GroupsAreWords ==
  ASSUME GP!SentenceInv, scan = "done", G!WellSpaced, G!OneGroupPronunciations
  PROVE  /\ WP!Tokens
         /\ \A k \in WP!Voiced : WP!Group(k) = owner[k] /\ owner[k] <= Len(words)
<1> DEFINE last == Len(tokenIds) - 1
<1>1. GP!Aligned /\ GP!Framed /\ GP!TypeOK /\ GP!OwnerInv
  <2>1. GP!WellSpaced
    BY DEF G!WellSpaced, GP!WellSpaced, G!PunctChars, G!PUNCT_TOKENS, G!Space,
           GP!PunctChars, GP!PUNCT_TOKENS, GP!Space
  <2>2. GP!OneGroupPronunciations
    BY DEF G!OneGroupPronunciations, G!OneGroup, G!Marks, G!PunctChars, G!PUNCT_TOKENS,
           G!SPACE_TOKEN, GP!OneGroupPronunciations, GP!OneGroup, GP!Marks, GP!PunctChars,
           GP!PUNCT_TOKENS, GP!SPACE_TOKEN
  <2> QED BY <2>1, <2>2 DEF GP!SentenceInv, GP!TypeInv, GP!GroupsInv, GP!AlignInv
<1>2. /\ tokenIds \in Seq(Nat) /\ Len(tokenIds) \in Nat /\ Len(tokenIds) >= 2
      /\ \A k \in 1..Len(tokenIds) : tokenIds[k] = PAD_TOKEN <=> k = 1 \/ k = Len(tokenIds)
      /\ owner \in Seq(Nat) /\ Len(owner) = Len(tokenIds)
      /\ \A k \in 1..Len(owner) : owner[k] <= Len(words)
  <2>1. Len(tokenIds) \in Nat /\ tokenIds \in Seq(Nat)
    BY SentenceFacts
  <2>2. /\ \A k \in 1..Len(tokenIds) : tokenIds[k] = PAD_TOKEN <=> k = 1 \/ k = Len(tokenIds)
        /\ Len(tokenIds) >= 2
    BY <1>1, TokenCapAssumption DEF GP!Framed, GP!PAD_TOKEN, PAD_TOKEN
  <2> QED BY <1>1, <2>1, <2>2 DEF GP!TypeOK
<1>3. WP!Tokens
  BY <1>2 DEF WP!Tokens
<1>4. ASSUME NEW k \in 2..last
      PROVE  /\ tokenIds[k] # WP!PAD_TOKEN
             /\ owner[k] = owner[k - 1] + (IF k \in WP!Voiced /\ k - 1 \notin WP!Voiced
                                           THEN 1 ELSE 0)
  <2>1. /\ k \in 2..Len(tokenIds) /\ k \in 1..Len(tokenIds) /\ k - 1 \in 1..Len(tokenIds)
        /\ k # 1 /\ k # Len(tokenIds)
    BY <1>2
  <2>2. tokenIds[k] # PAD_TOKEN
    BY <1>2, <2>1
  <2>3. owner[k] = owner[k - 1] + (IF GP!Opens(k) THEN 1 ELSE 0)
    BY <1>1, <2>1, <2>2 DEF GP!Aligned, GP!PAD_TOKEN, PAD_TOKEN
  <2>4. GP!Opens(k) <=> k \in WP!Voiced /\ k - 1 \notin WP!Voiced
    BY <2>1 DEF GP!Opens, GP!Separators, GP!PAD_TOKEN, GP!SPACE_TOKEN, WP!Voiced,
                WP!PAD_TOKEN, WP!SPACE_TOKEN
  <2> QED BY <2>2, <2>3, <2>4 DEF WP!PAD_TOKEN, PAD_TOKEN
<1>5. tokenIds[1] = WP!PAD_TOKEN /\ owner[1] = 0
  BY <1>1, <1>2 DEF GP!OwnerInv, WP!PAD_TOKEN, PAD_TOKEN
<1>6. \A k \in 1..last : WP!Group(k) = owner[k]
  <2>1. last \in 1..Len(tokenIds)
    BY <1>2
  <2> HIDE DEF last
  <2> QED BY <1>3, <1>4, <1>5, <2>1, WP!GroupsCounted, SamplesAssumption
<1>7. ASSUME NEW k \in WP!Voiced PROVE WP!Group(k) = owner[k] /\ owner[k] <= Len(words)
  <2>1. k \in 1..Len(tokenIds) /\ tokenIds[k] # PAD_TOKEN
    BY DEF WP!Voiced, WP!PAD_TOKEN, PAD_TOKEN
  <2>2. k \in 1..last
    BY <1>2, <2>1
  <2> QED BY <1>2, <1>6, <2>1, <2>2
<1> QED BY <1>3, <1>7

(* Then the words that are heard are the first ones, as many as there are  *)
(* groups, each of the tokens of its group.                                *)
LEMMA HeardFacts ==
  ASSUME GP!SentenceInv, scan = "done", G!WellSpaced, G!OneGroupPronunciations
  PROVE  /\ WP!GroupCount \in Nat /\ WP!GroupCount <= Len(words)
         /\ Cardinality(Heard) = WP!GroupCount
         /\ \A k \in Nat : TokensOfWord(k) = WP!TokensOf(k)
<1>1. /\ WP!Tokens /\ Len(words) \in Nat
      /\ \A k \in WP!Voiced : WP!Group(k) = owner[k] /\ owner[k] <= Len(words)
  BY GroupsAreWords, SentenceFacts
<1>2. /\ WP!GroupCount \in Nat
      /\ \A k \in WP!Voiced : WP!Group(k) \in 1..WP!GroupCount
      /\ \A g \in 1..WP!GroupCount : WP!TokensOf(g) # {}
  BY <1>1, WP!GroupEnds, WP!GroupsNumbered, SamplesAssumption
<1>3. ASSUME NEW k \in Nat PROVE TokensOfWord(k) = WP!TokensOf(k)
  BY <1>1 DEF TokensOfWord, WP!TokensOf, WP!Voiced, WP!PAD_TOKEN, WP!SPACE_TOKEN,
              PAD_TOKEN, SPACE_TOKEN
<1>4. ASSUME NEW g \in 1..WP!GroupCount PROVE g \in 1..Len(words)
  <2>1. PICK k \in WP!Voiced : WP!Group(k) = g
    BY <1>2 DEF WP!TokensOf
  <2> QED BY <1>1, <1>2, <2>1
<1>5. Heard = 1..WP!GroupCount
  <2>1. ASSUME NEW g \in Heard PROVE g \in 1..WP!GroupCount
    <3>1. g \in Nat /\ WP!TokensOf(g) # {}
      BY <1>1, <1>3 DEF Heard
    <3>2. PICK k \in WP!Voiced : WP!Group(k) = g
      BY <3>1 DEF WP!TokensOf
    <3> QED BY <1>2, <3>2
  <2>2. ASSUME NEW g \in 1..WP!GroupCount PROVE g \in Heard
    BY <1>2, <1>3, <1>4 DEF Heard
  <2> QED BY <2>1, <2>2
<1>6. Cardinality(1..WP!GroupCount) = WP!GroupCount
  <2>1. 1 \in Int /\ WP!GroupCount \in Int
    BY <1>2
  <2>2. Cardinality(1..WP!GroupCount) = IF 1 > WP!GroupCount THEN 0 ELSE WP!GroupCount - 1 + 1
    BY <2>1, FS_Interval
  <2> HIDE DEF WP!GroupCount
  <2> QED BY <1>2, <2>2
<1>7. WP!GroupCount <= Len(words)
  BY <1>1, <1>2, <1>4
<1> QED BY <1>2, <1>3, <1>5, <1>6, <1>7

(* So the timestamps are those of the words that are heard.                *)
LEMMA WhereSpoken ==
  ASSUME RequestInv PROVE WordsWhereSpoken
<1> SUFFICES ASSUME phase = "label", step = "done", G!WellSpaced, G!OneGroupPronunciations
             PROVE  /\ Len(result) = Cardinality(Heard)
                    /\ \A k \in 1..Len(result) :
                         /\ result[k].word = k
                         /\ result[k].start = W!SpanStart(Min(TokensOfWord(k)))
                         /\ result[k].end =
                              IF k < Len(result) THEN W!SpanEnd(Max(TokensOfWord(k)))
                                                 ELSE audioLen
  BY DEF WordsWhereSpoken
<1>1. /\ GP!SentenceInv /\ scan = "done"
      /\ WP!TypeOK /\ WP!OrderInv /\ WP!EndInv /\ WP!LabelInv
      /\ WP!OneRowPerToken /\ audioLen = WP!ModelTotal
  BY DEF RequestInv, TokenInv, LabelInv, WP!BuilderInv
<1>2. /\ WP!GroupCount \in Nat /\ WP!GroupCount <= Len(words) /\ Len(words) \in Nat
      /\ Cardinality(Heard) = WP!GroupCount
      /\ \A k \in Nat : TokensOfWord(k) = WP!TokensOf(k)
  BY <1>1, HeardFacts, SentenceFacts
<1>3. /\ Len(result) = WP!Min({WP!GroupCount, Len(words)})
      /\ \A k \in 1..Len(result) :
           /\ result[k].start = WP!SpanStart(WP!Min(WP!TokensOf(k)))
           /\ k < Len(result) => result[k].end = WP!SpanEnd(WP!Max(WP!TokensOf(k)))
  <2>1. WP!LabelsMatchGroups
    BY <1>1, WP!LabelsFollow, SamplesAssumption
  <2> QED BY <1>1, <2>1 DEF WP!LabelsMatchGroups
<1>4. Len(result) = Cardinality(Heard)
  <2>1. WP!Min({WP!GroupCount, Len(words)}) = Min({WP!GroupCount, Len(words)})
    BY DEF WP!Min, Min
  <2>2. /\ Min({WP!GroupCount, Len(words)}) \in {WP!GroupCount, Len(words)}
        /\ \A y \in {WP!GroupCount, Len(words)} : Min({WP!GroupCount, Len(words)}) <= y
    <3>1. {WP!GroupCount, Len(words)} \in SUBSET Nat /\ {WP!GroupCount, Len(words)} # {}
      BY <1>2
    <3> QED BY <3>1, MinFacts
  <2> QED BY <1>2, <1>3, <2>1, <2>2
<1>5. ASSUME NEW k \in 1..Len(result)
      PROVE  /\ result[k].word = k
             /\ result[k].start = W!SpanStart(Min(TokensOfWord(k)))
             /\ result[k].end = IF k < Len(result) THEN W!SpanEnd(Max(TokensOfWord(k)))
                                                   ELSE audioLen
  <2>1. Len(result) \in Nat /\ k \in Nat
    BY <1>1 DEF WP!TypeOK
  <2>2. result[k].word = k
    BY <1>1 DEF WP!OrderInv, WP!Ordered
  <2>3. ASSUME NEW X PROVE WP!Min(X) = Min(X) /\ WP!Max(X) = Max(X)
    BY DEF WP!Min, Min, WP!Max, Max
  <2>4. ASSUME NEW n PROVE WP!SpanStart(n) = W!SpanStart(n) /\ WP!SpanEnd(n) = W!SpanEnd(n)
    BY DEF WP!SpanStart, WP!SpanEnd, WP!Scaled, WP!ModelTotal, WP!Frames, WP!N,
           W!SpanStart, W!SpanEnd, W!Scaled, W!ModelTotal, W!Frames, W!N
  <2>5. TokensOfWord(k) = WP!TokensOf(k)
    BY <1>2, <2>1
  <2>6. result[k].start = W!SpanStart(Min(TokensOfWord(k)))
    BY <1>3, <2>3, <2>4, <2>5
  <2>7. CASE k < Len(result)
    BY <1>3, <2>2, <2>3, <2>4, <2>5, <2>6, <2>7
  <2>8. CASE k = Len(result)
    <3>1. result # <<>> /\ result[Len(result)].end = audioLen
      BY <1>1, <2>1, <2>8 DEF WP!EndInv
    <3> QED BY <2>1, <2>2, <2>6, <2>8, <3>1
  <2> QED BY <2>1, <2>7, <2>8
<1> QED BY <1>4, <1>5

(* In text whose marks stand where prose puts them, whatever it is cut     *)
(* into and however long it is, every word that is heard is timed, over    *)
(* exactly the audio of its own tokens and the marks after it.             *)
THEOREM WhereSpokenCorrect == Spec => []WordsWhereSpoken
<1>1. RequestInv => WordsWhereSpoken
  BY WhereSpoken
<1> QED BY <1>1, RequestInvariance, PTL

-----------------------------------------------------------------------------
(* The words in the order of the text                                      *)

\* The characters of a sentence are where they were in the text, before all
\* that is still to speak.
PlaceInv ==
  phase \in {"g2p", "label"} =>
    /\ Len(text) \in Nat
    /\ \A n \in 1..Len(text) :
         places[n] \in 1..Len(document) /\ text[n] = Normal(document[places[n]])
    /\ \A m, n \in 1..Len(text) : m < n => places[m] < places[n]
    /\ \A n \in 1..Len(text), s \in 1..Len(todo) : places[n] < todo[s][1]

\* MarkedInTextOrder, and that the words timed so far come before the sentence
\* at hand and before all that is still to speak.
MarkInv ==
  /\ MarkedInTextOrder
  /\ phase = "split" => allWords = <<>>
  /\ phase \in {"g2p", "label"} =>
       \A k \in DOMAIN allWords, n \in 1..Len(text) : allWords[k].word < places[n]
  /\ \A k \in DOMAIN allWords, s \in 1..Len(todo) : allWords[k].word < todo[s][1]

(* A sentence starts behind all that is timed and ends before the next.    *)
LEMMA MarksStart ==
  ASSUME RequestInv, PlaceInv, MarkInv, StartSentence
  PROVE  PlaceInv' /\ MarkInv'
<1>1. /\ todo # <<>> /\ todo' = Tail(todo) /\ UNCHANGED <<document, allWords>>
      /\ phase' = "g2p" /\ places' = Places(Head(todo)[1], Head(todo)[2])
      /\ text' = [k \in DOMAIN places' |-> Normal(document[places'[k]])]
  BY DEF StartSentence, splitVars, fileVars
<1>2. /\ Len(todo) \in Nat \ {0} /\ Len(todo') = Len(todo) - 1
      /\ \A n \in 1..Len(todo') : n + 1 \in 1..Len(todo) /\ todo'[n] = todo[n + 1]
      /\ todo[1] \in Nat \X Nat /\ Head(todo) = todo[1]
  BY <1>1, TailFacts DEF RequestInv
<1> DEFINE from == todo[1][1]
           to == todo[1][2]
<1>3. /\ from \in Nat /\ to \in Nat /\ 1 <= from /\ to <= Len(document)
      /\ document \in Seq(DocumentChars) /\ Len(document) \in Nat
      /\ \A s \in 1..Len(todo') : to < todo'[s][1] /\ todo'[s][1] \in Nat
  <2>1. /\ todo \in Seq(Nat \X Nat) /\ 1 \in 1..Len(todo)
        /\ 1 <= todo[1][1] /\ todo[1][2] <= Len(document)
        /\ document \in Seq(DocumentChars)
    BY <1>2 DEF RequestInv, SpansInv
  <2>2. ASSUME NEW s \in 1..Len(todo')
        PROVE  todo[1][2] < todo'[s][1] /\ todo'[s][1] \in Nat
    <3>1. s + 1 \in 1..Len(todo) /\ 1 < s + 1 /\ todo'[s] = todo[s + 1]
      BY <1>2
    <3>2. todo[1][2] < todo[s + 1][1]
      BY <2>1, <3>1 DEF RequestInv, SpansInv
    <3>3. todo[s + 1] \in Nat \X Nat
      BY <2>1, <3>1
    <3> QED BY <3>1, <3>2, <3>3
  <2> QED BY <1>2, <2>1, <2>2
<1>4. places' = Places(from, to)
  BY <1>1, <1>2
<1> HIDE DEF from, to
<1>5. /\ Len(places') \in Nat /\ DOMAIN places' = 1..Len(places')
      /\ \A n \in 1..Len(places') : places'[n] \in from..to /\ places'[n] \in 1..Len(document)
      /\ \A m, n \in 1..Len(places') : m < n => places'[m] < places'[n]
  BY <1>3, <1>4, PlacesFacts
<1>6. /\ Len(text') = Len(places')
      /\ \A n \in 1..Len(text') : text'[n] = Normal(document[places'[n]])
  BY <1>1, <1>5
<1>7. PlaceInv'
  <2>1. ASSUME NEW n \in 1..Len(text'), NEW s \in 1..Len(todo')
        PROVE  places'[n] < todo'[s][1]
    BY <1>3, <1>5, <1>6
  <2> QED BY <1>1, <1>5, <1>6, <2>1 DEF PlaceInv
<1>8. MarkInv'
  <2>1. ASSUME NEW k \in DOMAIN allWords, NEW n \in 1..Len(text')
        PROVE  allWords[k].word < places'[n]
    <3>1. allWords[k].word < from
      BY <1>2 DEF MarkInv, from
    <3>2. allWords[k].word \in Nat /\ places'[n] \in from..to
      BY <1>3, <1>5, <1>6 DEF MarkInv, MarkedInTextOrder
    <3> QED BY <1>3, <3>1, <3>2
  <2>2. ASSUME NEW k \in DOMAIN allWords, NEW s \in 1..Len(todo')
        PROVE  allWords[k].word < todo'[s][1]
    BY <1>2 DEF MarkInv
  <2>3. MarkedInTextOrder'
    BY <1>1 DEF MarkInv, MarkedInTextOrder
  <2> QED BY <1>1, <2>1, <2>2, <2>3 DEF MarkInv
<1> QED BY <1>7, <1>8

(* The words of a sentence are words of the text, in its order.            *)
LEMMA WordPlaces ==
  ASSUME RequestInv, PlaceInv, AppendChunk
  PROVE  /\ Len(result) \in Nat
         /\ \A k \in 1..Len(result) :
              /\ words[result[k].word][1] \in 1..Len(text)
              /\ places[words[result[k].word][1]] \in 1..Len(document)
              /\ Normal(document[places[words[result[k].word][1]]]) \in {"letter", "symbol"}
         /\ \A j, k \in 1..Len(result) : j < k =>
              places[words[result[j].word][1]] < places[words[result[k].word][1]]
<1>1. /\ GP!SentenceInv /\ WP!TypeOK /\ WP!OrderInv /\ WP!OneRowPerToken /\ phase = "label"
  BY DEF AppendChunk, PutTogether, RequestInv, TokenInv, LabelInv, WP!BuilderInv
<1>2. /\ Len(result) \in Nat
      /\ \A k \in 1..Len(result) : result[k].word = k /\ result[k].word \in 1..Len(words)
  <2>1. result \in Seq([word : 1..Len(words), start : Nat, end : Nat])
    BY <1>1 DEF WP!TypeOK
  <2> DEFINE Stamps == [word : 1..Len(words), start : Nat, end : Nat]
  <2>2. result \in Seq(Stamps)
    BY <2>1
  <2>3. ASSUME NEW r \in Stamps PROVE r.word \in 1..Len(words)
    OBVIOUS
  <2> HIDE DEF Stamps
  <2>4. \A k \in 1..Len(result) : result[k] \in Stamps
    BY <2>2
  <2>5. \A k \in 1..Len(result) : result[k].word = k
    BY <1>1 DEF WP!OrderInv, WP!Ordered
  <2> QED BY <2>2, <2>3, <2>4, <2>5
<1>3. /\ \A k \in 1..Len(words) :
           words[k][1] \in 1..Len(text) /\ text[words[k][1]] \notin GP!Wide \cup GP!Breaks
      /\ \A j, k \in 1..Len(words) : j < k => words[j][1] < words[k][1]
  BY <1>1 DEF GP!SentenceInv, GP!StartsInv
<1>4. ASSUME NEW n \in 1..Len(text), text[n] \notin GP!Wide \cup GP!Breaks
      PROVE  text[n] \in {"letter", "symbol"}
  <2>1. text[n] \in GP!Chars
    <3>1. text \in Seq(G!Chars)
      BY <1>1 DEF GP!SentenceInv, GP!TypeInv, GP!TypeOK
    <3>2. text \in Seq(GP!Chars)
      BY <3>1, FrontEndConstants
    <3> QED BY <3>2
  <2> QED BY <1>4, <2>1 DEF GP!Chars, GP!Wide, GP!Breaks, GP!PunctChars, GP!WidePunctChars,
                            GP!PUNCT_TOKENS, GP!Space
<1>5. /\ \A n \in 1..Len(text) :
           places[n] \in 1..Len(document) /\ text[n] = Normal(document[places[n]])
      /\ \A m, n \in 1..Len(text) : m < n => places[m] < places[n]
  BY <1>1 DEF PlaceInv
<1>6. ASSUME NEW k \in 1..Len(result)
      PROVE  /\ words[result[k].word][1] \in 1..Len(text)
             /\ places[words[result[k].word][1]] \in 1..Len(document)
             /\ Normal(document[places[words[result[k].word][1]]]) \in {"letter", "symbol"}
  <2>1. words[result[k].word][1] \in 1..Len(text)
        /\ text[words[result[k].word][1]] \notin GP!Wide \cup GP!Breaks
    BY <1>2, <1>3
  <2> QED BY <1>4, <1>5, <2>1
<1>7. ASSUME NEW j \in 1..Len(result), NEW k \in 1..Len(result), j < k
      PROVE  places[words[result[j].word][1]] < places[words[result[k].word][1]]
  <2>1. words[result[j].word][1] < words[result[k].word][1]
    BY <1>2, <1>3, <1>7
  <2> QED BY <1>5, <1>6, <2>1
<1> QED BY <1>2, <1>6, <1>7

(* The words of a sentence go behind those that are timed.                 *)
LEMMA MarksAppend ==
  ASSUME RequestInv, PlaceInv, MarkInv, AppendChunk
  PROVE  MarkInv'
<1> DEFINE place(k) == places[words[result[k].word][1]]
           add == [k \in 1..Len(result) |-> Shifted(result[k], timeOffset + Pause)]
<1>1. /\ phase = "label" /\ phase' = "next" /\ allWords' = allWords \o add
      /\ UNCHANGED <<document, todo>>
  BY DEF AppendChunk, PutTogether, splitVars
<1>2. /\ Len(result) \in Nat
      /\ \A k \in 1..Len(result) :
           /\ words[result[k].word][1] \in 1..Len(text)
           /\ place(k) \in 1..Len(document)
           /\ Normal(document[place(k)]) \in {"letter", "symbol"}
      /\ \A j, k \in 1..Len(result) : j < k => place(j) < place(k)
  BY WordPlaces
<1>3. /\ \E B : add \in Seq(B)
      /\ Len(add) = Len(result)
      /\ \A k \in 1..Len(result) : add[k].word = place(k)
  <2>1. add \in Seq({add[k] : k \in 1..Len(result)}) /\ Len(add) = Len(result)
    BY <1>2
  <2>2. \A k \in 1..Len(result) : add[k].word = place(k)
    BY DEF Shifted
  <2> HIDE DEF add
  <2> QED BY <2>1, <2>2
<1>4. PICK A : allWords \in Seq(A)
  BY DEF RequestInv, FileInv
<1> DEFINE n == Len(allWords)
<1> HIDE DEF add
<1>5. /\ n \in Nat /\ DOMAIN allWords = 1..n /\ DOMAIN allWords' = 1..(n + Len(result))
      /\ \A k \in 1..n : allWords'[k] = allWords[k]
      /\ \A k \in 1..Len(result) : allWords'[n + k] = add[k]
  <2> PICK B : add \in Seq(B)
    BY <1>3
  <2>1. /\ allWords' \in Seq(A \cup B)
        /\ Len(allWords) \in Nat /\ Len(allWords') = Len(allWords) + Len(add)
        /\ \A k \in 1..Len(allWords) : allWords'[k] = allWords[k]
        /\ \A k \in 1..Len(add) : allWords'[Len(allWords) + k] = add[k]
    <3> HIDE DEF n, place
    <3>1. allWords' = allWords \o add /\ add \in Seq(B) /\ allWords \in Seq(A)
      BY <1>1, <1>4
    <3> QED BY <3>1, Concat2
  <2>2. DOMAIN allWords = 1..Len(allWords) /\ DOMAIN allWords' = 1..Len(allWords')
    BY <1>4, <2>1
  <2> QED BY <1>3, <2>1, <2>2
<1> HIDE DEF n, place
\* A word is one of those that were there or one that is new.
<1>6. ASSUME NEW k \in DOMAIN allWords'
      PROVE  \/ k \in 1..n /\ allWords'[k] = allWords[k]
             \/ k - n \in 1..Len(result) /\ k > n /\ allWords'[k].word = place(k - n)
  <2>1. CASE k <= n
    BY <1>5, <2>1
  <2>2. CASE k > n
    <3>1. k - n \in 1..Len(result) /\ n + (k - n) = k
      BY <1>2, <1>5, <2>2
    <3>2. allWords'[k] = add[k - n]
      BY <1>5, <3>1
    <3> QED BY <1>3, <2>2, <3>1, <3>2
  <2> QED BY <1>5, <2>1, <2>2
<1>7. /\ \A k \in 1..n : /\ allWords[k].word \in DOMAIN document
                         /\ Normal(document[allWords[k].word]) \in {"letter", "symbol"}
      /\ \A j, k \in 1..n : j < k => allWords[j].word < allWords[k].word
      /\ \A k \in 1..n, m \in 1..Len(text) : allWords[k].word < places[m]
      /\ \A k \in 1..n, s \in 1..Len(todo) : allWords[k].word < todo[s][1]
  BY <1>1, <1>5 DEF MarkInv, MarkedInTextOrder
<1>8. ASSUME NEW k \in DOMAIN allWords'
      PROVE  /\ allWords'[k].word \in DOMAIN document
             /\ Normal(document[allWords'[k].word]) \in {"letter", "symbol"}
  <2>1. DOMAIN document = 1..Len(document)
    BY DEF RequestInv, SpansInv
  <2> QED BY <1>2, <1>6, <1>7, <2>1
<1>9. ASSUME NEW j \in DOMAIN allWords', NEW k \in DOMAIN allWords', j < k
      PROVE  allWords'[j].word < allWords'[k].word
  <2>1. CASE k \in 1..n
    <3>1. j \in 1..n /\ allWords'[j] = allWords[j] /\ allWords'[k] = allWords[k]
      BY <1>5, <1>9, <2>1
    <3> QED BY <1>7, <1>9, <2>1, <3>1
  <2>2. CASE k \notin 1..n /\ j \in 1..n
    <3>1. k - n \in 1..Len(result) /\ allWords'[k].word = place(k - n)
          /\ allWords'[j] = allWords[j]
      BY <1>5, <1>6, <2>2
    <3>2. \E m \in 1..Len(text) : place(k - n) = places[m]
      BY <1>2, <3>1 DEF place
    <3> QED BY <1>7, <2>2, <3>1, <3>2
  <2>3. CASE k \notin 1..n /\ j \notin 1..n
    <3>1. /\ k - n \in 1..Len(result) /\ allWords'[k].word = place(k - n)
          /\ j - n \in 1..Len(result) /\ allWords'[j].word = place(j - n)
      BY <1>6, <2>3
    <3>2. j - n < k - n
      BY <1>5, <1>9
    <3> QED BY <1>2, <3>1, <3>2
  <2> QED BY <2>1, <2>2, <2>3
<1>10. ASSUME NEW k \in DOMAIN allWords', NEW s \in 1..Len(todo)
       PROVE  allWords'[k].word < todo[s][1]
  <2>1. CASE k \in 1..n /\ allWords'[k] = allWords[k]
    BY <1>7, <2>1
  <2>2. CASE k - n \in 1..Len(result) /\ allWords'[k].word = place(k - n)
    <3>1. \E m \in 1..Len(text) : place(k - n) = places[m]
      BY <1>2, <2>2 DEF place
    <3> QED BY <1>1, <2>2, <3>1 DEF PlaceInv
  <2> QED BY <1>6, <2>1, <2>2
<1> QED BY <1>1, <1>8, <1>9, <1>10 DEF MarkInv, MarkedInTextOrder

(* Every step keeps the words in the order of the text.                    *)
LEMMA MarksStep ==
  ASSUME RequestInv, PlaceInv, MarkInv, [Next]_vars
  PROVE  PlaceInv' /\ MarkInv'
<1>1. CASE StartSentence
  BY <1>1, MarksStart
<1>2. CASE AppendChunk
  <2>1. PlaceInv'
    BY <1>2 DEF AppendChunk, PutTogether, PlaceInv
  <2> QED BY <1>2, <2>1, MarksAppend
<1>3. CASE Begin
  <2>1. allWords = <<>> /\ allWords' = <<>> /\ phase' = "next"
    BY <1>3 DEF Begin, MarkInv, fileVars
  <2> QED BY <2>1 DEF PlaceInv, MarkInv, MarkedInTextOrder
<1>4. CASE Split \/ Tokenize \/ SkipSilent \/ Infer \/ Label \/ Finish \/ UNCHANGED vars
  <2>1. /\ UNCHANGED <<document, places, text, todo, allWords>>
        /\ phase' \in {"g2p", "label"} => phase \in {"g2p", "label"}
        /\ phase' = "split" => phase = "split"
    BY <1>4 DEF Split, S!Next, S!Ordinary, S!Stop, S!Newline, S!Finish, Tokenize, G!Next,
                G!Whitespace, G!Punctuation, G!SkipWide, G!Word, G!SilentWord,
                G!VoicedWord, G!Finish, SkipSilent, Infer, Label, Finish,
                vars, splitVars, g2pVars, fileVars
  <2> QED BY <2>1 DEF PlaceInv, MarkInv, MarkedInTextOrder
<1> QED BY <1>1, <1>2, <1>3, <1>4 DEF Next

(* However the text is cut, normalized, tokenized and timed, the timestamps *)
(* name words of it in the order they stand there, none twice.             *)
THEOREM MarkedCorrect == Spec => []MarkedInTextOrder
<1>1. Init => PlaceInv /\ MarkInv
  <2> SUFFICES ASSUME Init PROVE PlaceInv /\ MarkInv
    OBVIOUS
  <2>1. allWords = <<>> /\ phase = "split"
    BY DEF Init
  <2> QED BY <2>1 DEF PlaceInv, MarkInv, MarkedInTextOrder
<1>2. RequestInv /\ PlaceInv /\ MarkInv /\ [Next]_vars => PlaceInv' /\ MarkInv'
  BY MarksStep
<1>3. MarkInv => MarkedInTextOrder
  BY DEF MarkInv
<1> QED BY <1>1, <1>2, <1>3, RequestInvariance, PTL DEF Spec

-----------------------------------------------------------------------------
(* The times as they are printed                                           *)

(* The powers of ten, as they are defined.                                 *)
LEMMA PowerFacts ==
  /\ PowerOfTen \in [Nat -> Nat \ {0}]
  /\ PowerOfTen[0] = 1
  /\ \A e \in Nat : PowerOfTen[e + 1] = 10 * PowerOfTen[e]
<1> DEFINE V == Nat \ {0}
           rule == [e \in Nat |-> [g \in [Nat -> V] |-> IF e = 0 THEN 1 ELSE 10 * g[e - 1]]]
<1>1. IsRule(rule, Order, Nat, V)
  <2>1. ASSUME NEW e \in Nat, NEW g \in [Nat -> V] PROVE rule[e][g] \in V
    <3>1. CASE e = 0
      BY <3>1
    <3>2. CASE e # 0
      <4>1. e - 1 \in Nat
        BY <3>2
      <4>2. g[e - 1] \in V
        BY <4>1
      <4> QED BY <3>2, <4>2
    <3> QED BY <3>1, <3>2
  <2>2. ASSUME NEW e \in Nat, NEW g \in [Nat -> V], NEW h \in [Nat -> V],
               \A y \in Nat : Order[y] < Order[e] => g[y] = h[y]
        PROVE  rule[e][g] = rule[e][h]
    <3>1. e # 0 => e - 1 \in Nat /\ e - 1 < e
      OBVIOUS
    <3> QED BY <2>2, <3>1 DEF Order
  <2> HIDE DEF rule, V
  <2> QED BY <2>1, <2>2 DEF IsRule
<1>2. PICK f \in [Nat -> V] : \A e \in Nat : f[e] = rule[e][f]
  <2>1. V # {}
    OBVIOUS
  <2> HIDE DEF rule, V
  <2>2. \E f : Follows(f, rule, Nat, V)
    BY  <1>1, <2>1, RecursionOnNat
  <2> QED BY <2>2 DEF Follows
<1>3. f = [e \in Nat |-> IF e = 0 THEN 1 ELSE 10 * f[e - 1]]
  BY <1>2
<1>4. PowerOfTen = [e \in Nat |-> IF e = 0 THEN 1 ELSE 10 * PowerOfTen[e - 1]]
  BY <1>3 DEF PowerOfTen
<1>5. PowerOfTen[0] = 1
  BY <1>4
<1>6. ASSUME NEW e \in Nat PROVE PowerOfTen[e + 1] = 10 * PowerOfTen[e]
  <2>1. e + 1 \in Nat /\ e + 1 # 0 /\ (e + 1) - 1 = e
    OBVIOUS
  <2> QED BY <1>4, <2>1
<1>7. ASSUME NEW e \in Nat PROVE PowerOfTen[e] \in Nat \ {0}
  <2> DEFINE Q == {n \in Nat : PowerOfTen[n] \in Nat \ {0}}
  <2>1. 0 \in Q
    BY <1>5
  <2>2. \A n \in Nat : n \in Q => n + 1 \in Q
    BY <1>6
  <2> HIDE DEF Q
  <2>3. e \in Q
    BY <2>1, <2>2, Induction
  <2> USE DEF Q
  <2> QED BY <2>3
<1> QED BY <1>4, <1>5, <1>6, <1>7

(* The power of a sum is the product of the powers.                        *)
LEMMA PowerOfSum ==
  \A a, b \in Nat : PowerOfTen[a + b] = PowerOfTen[a] * PowerOfTen[b]
<1> SUFFICES ASSUME NEW a \in Nat, NEW b \in Nat
             PROVE  PowerOfTen[a + b] = PowerOfTen[a] * PowerOfTen[b]
  OBVIOUS
<1> DEFINE Q == {n \in Nat : PowerOfTen[a + n] = PowerOfTen[a] * PowerOfTen[n]}
<1>1. 0 \in Q
  <2>1. a + 0 = a /\ PowerOfTen[a] * 1 = PowerOfTen[a]
    BY PowerFacts
  <2> QED BY <2>1, PowerFacts
<1>2. ASSUME NEW n \in Nat, n \in Q PROVE n + 1 \in Q
  <2> DEFINE x == PowerOfTen[a]
             y == PowerOfTen[n]
  <2>1. /\ PowerOfTen[a + n] = x * y
        /\ PowerOfTen[n + 1] = 10 * y
        /\ PowerOfTen[(a + n) + 1] = 10 * PowerOfTen[a + n]
        /\ a + (n + 1) = (a + n) + 1
        /\ x \in Nat /\ y \in Nat
    BY <1>2, PowerFacts
  <2> HIDE DEF x, y
  <2>2. 10 * (x * y) = x * (10 * y)
    BY <2>1
  <2> USE DEF x
  <2> QED BY <2>1, <2>2
<1> HIDE DEF Q
<1>3. b \in Q
  BY <1>1, <1>2, Induction
<1> USE DEF Q
<1> QED BY <1>3

(* Powers grow, past every number.                                         *)
LEMMA PowerGrows ==
  /\ \A a, b \in Nat : a <= b => PowerOfTen[a] <= PowerOfTen[b]
  /\ \A a \in Nat : a < PowerOfTen[a]
<1>1. ASSUME NEW a \in Nat, NEW b \in Nat, a <= b PROVE PowerOfTen[a] <= PowerOfTen[b]
  <2> DEFINE x == PowerOfTen[a]
             y == PowerOfTen[b - a]
  <2>1. b - a \in Nat /\ a + (b - a) = b
    BY <1>1
  <2>2. x \in Nat \ {0} /\ y \in Nat \ {0}
    BY <2>1, PowerFacts
  <2>4. PowerOfTen[a + (b - a)] = x * y
    BY <2>1, PowerOfSum
  <2>5. PowerOfTen[b] = x * y
    BY <2>1, <2>4
  <2> HIDE DEF x, y
  <2>3. x <= x * y
    BY <2>2
  <2> USE DEF x
  <2> QED BY <2>3, <2>5
<1>2. ASSUME NEW a \in Nat PROVE a < PowerOfTen[a]
  <2> DEFINE Q == {n \in Nat : n < PowerOfTen[n]}
  <2>1. 0 \in Q
    BY PowerFacts
  <2>2. \A n \in Nat : n \in Q => n + 1 \in Q
    BY PowerFacts
  <2> HIDE DEF Q
  <2>3. a \in Q
    BY <2>1, <2>2, Induction
  <2> USE DEF Q
  <2> QED BY <2>3
<1> QED BY <1>1, <1>2

(* A number rounded to the nearest multiple of a unit: not past a multiple *)
(* of it that the number, or the number and half a unit, is not past.      *)
LEMMA Rounding ==
  ASSUME NEW t \in Nat, NEW u \in Nat \ {0}, NEW m \in Nat,
         NEW r, r = ((t + u \div 2) \div u) * u
  PROVE  /\ r \in Nat
         /\ t <= m * u => r <= m * u
         /\ t + u \div 2 < m * u => r < m * u
         /\ m * u <= t + u \div 2 => m * u <= r
<1> DEFINE h == u \div 2
           q == (t + h) \div u
<1>1. h \in Nat /\ h < u
  OBVIOUS
<1>2. q \in Nat /\ q * u <= t + h /\ t + h < (q + 1) * u
  <2> HIDE DEF h
  <2>1. t + h \in Nat
    BY <1>1
  <2> QED BY <2>1
<1>3. r = q * u
  OBVIOUS
<1> HIDE DEF h, q
<1>4. ASSUME t <= m * u PROVE r <= m * u
  <2>1. q * u < (m + 1) * u
    BY <1>1, <1>2, <1>4
  <2>2. q < m + 1
    BY <1>2, <2>1
  <2> QED BY <1>2, <1>3, <2>2
<1>5. ASSUME t + h < m * u PROVE r < m * u
  BY <1>1, <1>2, <1>3, <1>5
<1>6. ASSUME m * u <= t + h PROVE m * u <= r
  <2>1. m * u < (q + 1) * u
    BY <1>1, <1>2, <1>6
  <2>2. m < q + 1
    BY <1>2, <2>1
  <2> QED BY <1>2, <1>3, <2>2
<1>7. r \in Nat
  BY <1>2, <1>3
<1> USE DEF h
<1> QED BY <1>4, <1>5, <1>6, <1>7

(* A unit is the smallest power of ten that leaves a time no more digits   *)
(* than are printed.                                                       *)
LEMMA UnitFacts ==
  ASSUME NEW t \in Nat
  PROVE  \E e \in Nat : /\ Unit(t) = PowerOfTen[e]
                        /\ t < PowerOfTen[e + Precision]
                        /\ e > 0 => PowerOfTen[e - 1 + Precision] <= t
<1> DEFINE Few(e) == t < PowerOfTen[e + Precision]
           Least(e) == Few(e) /\ (e > 0 => PowerOfTen[e - 1 + Precision] <= t)
           E == {e \in Nat : Few(e)}
<1>0. Precision \in Nat /\ PowerOfTen \in [Nat -> Nat]
  BY PrecisionAssumption, PowerFacts
<1>1. t \in E
  <2>1. t + Precision \in Nat /\ t <= t + Precision
    BY <1>0
  <2>2. t < PowerOfTen[t] /\ PowerOfTen[t] <= PowerOfTen[t + Precision]
    BY <2>1, PowerGrows
  <2> QED BY <1>0, <2>1, <2>2
<1>2. Min(E) \in E /\ \A e \in E : Min(E) <= e
  BY <1>1, MinFacts
<1> DEFINE m == Min(E)
<1>3. m \in Nat /\ m \in 0..t /\ Few(m) /\ \A e \in E : m <= e
  BY <1>1, <1>2
<1> HIDE DEF m
<1>4. ASSUME m > 0 PROVE PowerOfTen[m - 1 + Precision] <= t
  <2>1. m - 1 \in Nat /\ ~(m <= m - 1)
    BY <1>3, <1>4
  <2>2. ~Few(m - 1)
    BY <1>3, <2>1
  <2>3. m - 1 + Precision \in Nat
    BY <1>0, <2>1
  <2> QED BY <1>0, <2>2, <2>3
<1>5. Least(m) /\ m \in 0..t
  BY <1>3, <1>4
<1> DEFINE c == CHOOSE e \in 0..t : Least(e)
<1>6. c \in 0..t /\ Least(c)
  <2> HIDE DEF Least
  <2> QED BY <1>5
<1>7. Unit(t) = PowerOfTen[c]
  BY DEF Unit
<1> HIDE DEF c
<1> QED BY <1>6, <1>7

(* Of two times, either the units are the same, or there is a number       *)
(* between them that both units divide and the greater unit is ten times   *)
(* the smaller at least.                                                   *)
LEMMA UnitsGrow ==
  ASSUME NEW s \in Nat, NEW t \in Nat, s <= t
  PROVE  /\ Unit(s) \in Nat \ {0} /\ Unit(t) \in Nat \ {0}
         /\ \/ Unit(s) = Unit(t)
            \/ \E m, n \in Nat : /\ m * Unit(s) = n * Unit(t)
                                 /\ s < m * Unit(s) /\ n * Unit(t) <= t
                                 /\ Unit(s) <= Unit(t)
<1>0. /\ Precision \in Nat /\ Precision >= 1
      /\ PowerOfTen \in [Nat -> Nat \ {0}] /\ PowerOfTen \in [Nat -> Nat]
  BY PrecisionAssumption, PowerFacts
<1>1. PICK d \in Nat : /\ Unit(s) = PowerOfTen[d]
                       /\ s < PowerOfTen[d + Precision]
                       /\ d > 0 => PowerOfTen[d - 1 + Precision] <= s
  BY UnitFacts
<1>2. PICK e \in Nat : /\ Unit(t) = PowerOfTen[e]
                       /\ t < PowerOfTen[e + Precision]
                       /\ e > 0 => PowerOfTen[e - 1 + Precision] <= t
  BY UnitFacts
<1>3. Unit(s) \in Nat \ {0} /\ Unit(t) \in Nat \ {0}
  BY <1>0, <1>1, <1>2
<1>4. CASE d = e
  BY <1>1, <1>2, <1>3, <1>4
<1>5. CASE e < d
  <2>1. d > 0 /\ e + Precision \in Nat /\ d - 1 + Precision \in Nat
        /\ e + Precision <= d - 1 + Precision
    BY <1>0, <1>5
  <2>2. PowerOfTen[e + Precision] <= PowerOfTen[d - 1 + Precision]
    BY <2>1, PowerGrows
  <2>3. PowerOfTen[e + Precision] \in Nat /\ PowerOfTen[d - 1 + Precision] \in Nat
    BY <1>0, <2>1
  <2>4. PowerOfTen[d - 1 + Precision] <= s
    BY <1>1, <2>1
  <2> QED BY <1>2, <2>2, <2>3, <2>4
<1>6. CASE d < e
  <2> DEFINE p == e - 1 + Precision
             m == PowerOfTen[p - d]
             n == PowerOfTen[Precision - 1]
  <2>1. /\ p \in Nat /\ p - d \in Nat /\ Precision - 1 \in Nat
        /\ d + (p - d) = p /\ e + (Precision - 1) = p
        /\ d + Precision \in Nat /\ d + Precision <= p /\ e > 0
    BY <1>0, <1>6
  <2>2. PowerOfTen[d + (p - d)] = PowerOfTen[d] * m
        /\ PowerOfTen[e + (Precision - 1)] = PowerOfTen[e] * n
    BY <2>1, PowerOfSum
  <2>3. m \in Nat /\ n \in Nat /\ PowerOfTen[p] \in Nat /\ PowerOfTen[d + Precision] \in Nat
    BY <1>0, <2>1
  <2>4. PowerOfTen[d + Precision] <= PowerOfTen[p] /\ PowerOfTen[d] <= PowerOfTen[e]
    BY <1>6, <2>1, PowerGrows
  <2>5. PowerOfTen[p] <= t
    BY <1>2, <2>1
  <2>6. m * Unit(s) = PowerOfTen[p] /\ n * Unit(t) = PowerOfTen[p]
    <3> HIDE DEF m, n, p
    <3> QED BY <1>1, <1>2, <1>3, <2>1, <2>2, <2>3
  <2>7. s < PowerOfTen[p]
    BY <1>1, <2>3, <2>4
  <2>8. Unit(s) <= Unit(t)
    BY <1>1, <1>2, <2>4
  <2> HIDE DEF m, n, p
  <2> QED BY <1>3, <2>3, <2>5, <2>6, <2>7, <2>8
<1> QED BY <1>4, <1>5, <1>6

(* Printing keeps the order of two times, and tells them apart where they  *)
(* are a unit of the later one apart.                                      *)
LEMMA PrintingKeepsOrder ==
  ASSUME NEW s \in Nat, NEW t \in Nat, s <= t
  PROVE  /\ Printed(s) \in Nat /\ Printed(t) \in Nat
         /\ Printed(s) <= Printed(t)
         /\ t - s >= Unit(t) => Printed(s) < Printed(t)
<1> DEFINE u == Unit(s)
           v == Unit(t)
           a == Printed(s)
           b == Printed(t)
<1>1. /\ u \in Nat \ {0} /\ v \in Nat \ {0}
      /\ \/ u = v
         \/ \E m, n \in Nat : /\ m * u = n * v
                              /\ s < m * u /\ n * v <= t /\ u <= v
  BY UnitsGrow
<1>2. a = ((s + u \div 2) \div u) * u /\ b = ((t + v \div 2) \div v) * v
  BY DEF Printed
<1> HIDE DEF u, v, a, b
<1>3. /\ a \in Nat
      /\ \A m \in Nat : /\ s <= m * u => a <= m * u
                        /\ s + u \div 2 < m * u => a < m * u
                        /\ m * u <= s + u \div 2 => m * u <= a
  <2>1. u \in Nat \ {0} /\ a = ((s + u \div 2) \div u) * u
    BY <1>1, <1>2
  <2>2. ASSUME NEW m \in Nat
        PROVE  /\ a \in Nat
               /\ s <= m * u => a <= m * u
               /\ s + u \div 2 < m * u => a < m * u
               /\ m * u <= s + u \div 2 => m * u <= a
    BY <2>1, Rounding
  <2> QED BY <2>2
<1>4. /\ b \in Nat
      /\ \A m \in Nat : /\ t <= m * v => b <= m * v
                        /\ t + v \div 2 < m * v => b < m * v
                        /\ m * v <= t + v \div 2 => m * v <= b
  BY <1>1, <1>2, Rounding
<1>5. CASE u = v
  <2> DEFINE h == u \div 2
             p == (s + h) \div u
             q == (t + h) \div u
  <2>1. h \in Nat
    BY <1>1
  <2>2. a = p * u /\ b = q * u
    BY <1>2, <1>5
  <2> HIDE DEF h
  <2>3. p \in Nat /\ q \in Nat /\ p * u <= s + h /\ t + h < (q + 1) * u
    BY <1>1, <2>1
  <2> HIDE DEF p, q
  <2>4. p <= q
    <3>1. p * u < (q + 1) * u
      BY <1>1, <2>1, <2>3
    <3>2. p < q + 1
      BY <1>1, <2>3, <3>1
    <3> QED BY <2>3, <3>2
  <2>5. ASSUME t - s >= v PROVE p < q
    <3>1. (p + 1) * u = p * u + u
      BY <1>1, <2>3
    <3>2. p * u + u < (q + 1) * u
      BY <1>1, <1>5, <2>1, <2>3, <2>5
    <3>3. p + 1 < q + 1
      BY <1>1, <2>3, <3>1, <3>2
    <3> QED BY <2>3, <3>3
  <2>6. p <= q => p * u <= q * u
    BY <1>1, <2>3
  <2>7. p < q => p * u < q * u
    BY <1>1, <2>3
  <2> USE DEF u, v, a, b
  <2> QED BY <1>3, <1>4, <2>2, <2>4, <2>5, <2>6, <2>7
<1>6. ASSUME NEW m \in Nat, NEW n \in Nat, m * u = n * v, s < m * u, n * v <= t, u <= v
      PROVE  a <= b /\ (t - s >= v => a < b)
  <2> DEFINE g == u \div 2
             h == v \div 2
  <2>1. g \in Nat /\ h \in Nat /\ g <= h
    BY <1>1, <1>6
  <2>2. a <= m * u
    BY <1>1, <1>3, <1>6
  <2>3. n * v <= b
    BY <1>1, <1>4, <1>6, <2>1
  <2>4. ASSUME t - s >= v PROVE a < b
    <3>1. CASE s + g < m * u
      <4>1. a < m * u
        BY <1>3, <3>1
      <4> QED BY <1>1, <1>3, <1>4, <1>6, <2>3, <4>1
    <3>2. CASE m * u <= s + g
      <4>1. (n + 1) * v = n * v + v /\ n + 1 \in Nat
        BY <1>1
      <4>2. (n + 1) * v <= t + h
        <5> HIDE DEF g, h
        <5> QED BY <1>1, <1>6, <2>1, <2>4, <3>2, <4>1
      <4>3. (n + 1) * v <= b
        BY <1>4, <4>1, <4>2
      <4> QED BY <1>1, <1>3, <1>4, <1>6, <2>2, <4>1, <4>3
    <3>3. m * u \in Int /\ s + g \in Int
      BY <1>1, <2>1
    <3> QED BY <3>1, <3>2, <3>3
  <2> QED BY <1>1, <1>3, <1>4, <1>6, <2>2, <2>3, <2>4
<1> USE DEF u, v, a, b
<1> QED BY <1>1, <1>3, <1>4, <1>5, <1>6

\* The words with their printed times, none where there is no audio, and then
\* there are no words either.
PrintInv == phase = "done" => json = [k \in DOMAIN allWords |-> Entry(allWords[k])]

(* The words are printed at the end, all of them.                          *)
LEMMA PrintStep ==
  ASSUME RequestInv, TimeInv, PrintInv, [Next]_vars
  PROVE  PrintInv'
<1>1. CASE Finish
  <2>1. PICK A : allWords \in Seq(A)
    BY DEF RequestInv, FileInv
  <2>2. UNCHANGED allWords
    BY <1>1 DEF Finish, fileVars
  <2>3. CASE allSamples = 0
    <3>1. segments = <<>>
      BY <2>3 DEF RequestInv, FileInv
    <3>2. Len(TimeMarks) = Len(allWords)
      BY <2>1 DEF TimeMarks, Spans
    <3>3. ASSUME 1 \in 1..Len(allWords) PROVE FALSE
      <4>1. \E s \in 1..Len(segments) : TRUE
        BY <3>2, <3>3 DEF TimeInv, TimeMarksInv, T!MarksInsideSegments, TimeMarks
      <4> QED BY <3>1, <4>1
    <3>4. Len(allWords) = 0 /\ DOMAIN allWords = {}
      BY <2>1, <3>3
    <3>5. <<>> = [k \in DOMAIN allWords |-> Entry(allWords[k])]
      BY <3>4
    <3> QED BY <1>1, <2>2, <2>3, <3>5 DEF Finish, PrintInv
  <2>4. CASE allSamples # 0
    BY <1>1, <2>2, <2>4 DEF Finish, PrintInv
  <2> QED BY <2>3, <2>4
<1>2. CASE UNCHANGED vars
  BY <1>2 DEF PrintInv, vars, fileVars
<1>3. CASE Split \/ Begin \/ StartSentence \/ Tokenize \/ SkipSilent \/ Infer \/ Label
             \/ AppendChunk
  <2>1. phase' # "done"
    BY <1>3 DEF Split, Begin, StartSentence, Tokenize, SkipSilent, Infer, Label,
                AppendChunk, PutTogether
  <2> QED BY <2>1 DEF PrintInv
<1> QED BY <1>1, <1>2, <1>3 DEF Next

(* What is printed of words in order is in order.                          *)
LEMMA PrintedWords ==
  ASSUME RequestInv, TimeInv, PrintInv PROVE PrintedInOrder
<1> SUFFICES ASSUME phase = "done"
             PROVE  /\ Len(json) = Len(allWords)
                    /\ \A k \in DOMAIN json :
                         /\ json[k].word = allWords[k].word
                         /\ json[k].start <= json[k].end
                         /\ allWords[k].end - allWords[k].start >= Unit(allWords[k].end)
                              => json[k].start < json[k].end
                    /\ \A j, k \in DOMAIN json : j < k => json[j].end <= json[k].start
  BY DEF PrintedInOrder
<1>1. PICK A : allWords \in Seq(A)
  BY DEF RequestInv, FileInv
<1> DEFINE n == Len(allWords)
<1>2. n \in Nat /\ DOMAIN allWords = 1..n
  BY <1>1
<1>3. json = [k \in 1..n |-> Entry(allWords[k])]
  BY <1>2 DEF PrintInv
<1> HIDE DEF n
<1>4. /\ DOMAIN json = 1..n /\ Len(json) = n
      /\ \A k \in 1..n : /\ json[k].word = allWords[k].word
                         /\ json[k].start = Printed(allWords[k].start)
                         /\ json[k].end = Printed(allWords[k].end)
  BY <1>2, <1>3 DEF Entry
<1>5. /\ Len(TimeMarks) = n
      /\ \A k \in 1..n : /\ TimeMarks[k].start = allWords[k].start
                         /\ TimeMarks[k].end = allWords[k].end
  BY <1>2 DEF TimeMarks, Spans, n
<1>6. ASSUME NEW k \in 1..n
      PROVE  /\ allWords[k].start \in Nat /\ allWords[k].end \in Nat
             /\ allWords[k].start < allWords[k].end
  <2>1. TimeMarks[k] \in Mark
    BY <1>5 DEF TimeInv, TimeMarksInv
  <2>2. TimeMarks[k].start < TimeMarks[k].end
    BY <1>5 DEF TimeInv, TimeMarksInv, T!MarksInsideSegments, TimeMarks
  <2> QED BY <1>5, <2>1, <2>2 DEF Mark
<1>7. ASSUME NEW j \in 1..n, NEW k \in 1..n, j < k
      PROVE  allWords[j].end <= allWords[k].start
  BY <1>5, <1>7 DEF TimeInv, TimeMarksInv, T!MarksInOrder, TimeMarks
<1>8. ASSUME NEW k \in 1..n
      PROVE  /\ json[k].start <= json[k].end
             /\ allWords[k].end - allWords[k].start >= Unit(allWords[k].end)
                  => json[k].start < json[k].end
  <2>1. /\ allWords[k].start \in Nat /\ allWords[k].end \in Nat
        /\ allWords[k].start <= allWords[k].end
    BY <1>6
  <2> QED BY <1>4, <2>1, PrintingKeepsOrder
<1>9. ASSUME NEW j \in 1..n, NEW k \in 1..n, j < k
      PROVE  json[j].end <= json[k].start
  <2>1. /\ allWords[j].end \in Nat /\ allWords[k].start \in Nat
        /\ allWords[j].end <= allWords[k].start
    BY <1>6, <1>7, <1>9
  <2> QED BY <1>4, <2>1, PrintingKeepsOrder
<1> USE DEF n
<1> QED BY <1>4, <1>8, <1>9

(* The JSON's numbers are rounded, and the words still follow each other   *)
(* in it and none overlaps another, whatever the length of the audio.      *)
THEOREM PrintedCorrect == Spec => []PrintedInOrder
<1>1. Init => PrintInv
  BY DEF Init, PrintInv
<1>2. RequestInv /\ TimeInv /\ PrintInv /\ [Next]_vars => PrintInv'
  BY PrintStep
<1>3. RequestInv /\ TimeInv /\ PrintInv => PrintedInOrder
  BY PrintedWords
<1> QED BY <1>1, <1>2, <1>3, RequestInvariance, TimelineImplemented, TimelineInvariance,
           PTL DEF Spec
=============================================================================
