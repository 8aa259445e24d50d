----------------------------- MODULE G2PProofs -----------------------------
(***************************************************************************)
(* Theorems about G2P, for every set of texts and pronunciations and every *)
(* cap.                                                                    *)
(***************************************************************************)
EXTENDS G2P, SequenceFacts, TLAPS

(* The token of a mark is neither a pad nor a space.                       *)
LEMMA PunctTokenFacts ==
  ASSUME NEW c \in PunctChars
  PROVE  /\ PUNCT_TOKENS[c] \in Nat
         /\ PUNCT_TOKENS[c] # PAD_TOKEN
         /\ PUNCT_TOKENS[c] # SPACE_TOKEN
         /\ PUNCT_TOKENS[c] \in Marks
  BY DEF PunctChars, PUNCT_TOKENS, PAD_TOKEN, SPACE_TOKEN, Marks

(* What a word may be pronounced as is a sequence of tokens, none a pad.   *)
LEMMA WordTokenFacts ==
  ASSUME NEW from, NEW to, NEW toks \in WordToTokens(from, to)
  PROVE  /\ toks \in Seq(Nat)
         /\ \A k \in 1..Len(toks) : toks[k] # PAD_TOKEN
<1>1. CASE toks \in Pronunciations
  <2>1. toks \in Seq(Nat \ {PAD_TOKEN})
    BY <1>1, PronunciationsAssumption
  <2> QED BY <2>1
<1>2. CASE toks = <<>>
  BY <1>2
<1> QED BY <1>1, <1>2 DEF WordToTokens

(* A text is a sequence.                                                   *)
LEMMA TextFacts ==
  ASSUME NEW t \in Texts
  PROVE  t \in Seq(Chars) /\ Len(t) \in Nat
BY TextsAssumption

(* A history entry per token, all alike.                                   *)
LEMMA ConstantlyFacts ==
  ASSUME NEW w \in Nat, NEW n \in Nat
  PROVE  /\ Constantly(w, n) \in Seq(Nat) /\ Len(Constantly(w, n)) = n
         /\ \A k \in 1..n : Constantly(w, n)[k] = w
BY DEF Constantly

(* A separator is at most one SPACE.                                       *)
LEMMA SeparatorFacts ==
  /\ Separator \in Seq(Nat)
  /\ Len(Separator) \in {0, 1}
  /\ \A k \in 1..Len(Separator) : Separator[k] = SPACE_TOKEN
BY DEF Separator, SPACE_TOKEN

-----------------------------------------------------------------------------
(* Type correctness                                                        *)

\* The sequence is never empty and starts with the pad, which no mark and no
\* word takes away: what makes reading and removing its last token sound.
Leading == tokenIds # <<>> /\ tokenIds[1] = PAD_TOKEN

(* A mark never takes the leading pad away.                                *)
LEMMA KeptFacts ==
  ASSUME TypeOK, Leading
  PROVE  Kept \in 1..Len(tokenIds)
<1>1. Len(tokenIds) \in Nat \ {0}
  BY DEF TypeOK, Leading
<1>2. Len(tokenIds) = 1 => Last(tokenIds) # SPACE_TOKEN
  BY DEF Last, Leading, PAD_TOKEN, SPACE_TOKEN
<1> QED BY <1>1, <1>2 DEF Kept

(* Nor does the cut, which leaves room for the last pad.                   *)
LEMMA FitFacts ==
  ASSUME TypeOK, Leading
  PROVE  Fit \in 1..Len(tokenIds) /\ Fit < TokenCap
<1>1. Len(tokenIds) \in Nat \ {0}
  BY DEF TypeOK, Leading
<1> QED BY <1>1, TokenCapAssumption DEF Fit

TypeInv == TypeOK /\ Leading

(* The facts of the invariant the steps below need.                        *)
LEMMA TypeFacts ==
  ASSUME TypeInv
  PROVE  /\ tokenIds \in Seq(Nat) /\ Len(tokenIds) \in Nat \ {0}
         /\ owner \in Seq(Nat) /\ Len(owner) = Len(tokenIds)
         /\ \A k \in 1..Len(tokenIds) : owner[k] \in Nat /\ owner[k] <= Len(words)
         /\ tokenIds # <<>> /\ tokenIds[1] = PAD_TOKEN
         /\ words \in Seq(Nat \X Nat) /\ Len(words) \in Nat
         /\ Len(text) \in Nat /\ pos \in 1..(Len(text) + 1)
<1>1. words \in Seq(Nat \X Nat) /\ Len(words) \in Nat
  BY DEF TypeInv, TypeOK
<1>2. Len(text) \in Nat /\ pos \in 1..(Len(text) + 1)
  BY TextFacts DEF TypeInv, TypeOK
<1>3. /\ tokenIds \in Seq(Nat) /\ Len(tokenIds) \in Nat \ {0}
      /\ owner \in Seq(Nat) /\ Len(owner) = Len(tokenIds)
      /\ tokenIds # <<>> /\ tokenIds[1] = PAD_TOKEN
      /\ \A k \in 1..Len(tokenIds) : owner[k] \in Nat /\ owner[k] <= Len(words)
  BY DEF TypeInv, TypeOK, Leading
<1> QED BY <1>1, <1>2, <1>3

(* The types hold at the start, and every branch of the loop keeps them.   *)
LEMMA TypeInit == Init => TypeInv
<1> SUFFICES ASSUME Init PROVE TypeInv
  OBVIOUS
<1>1. PICK t \in Texts : Start(t)
  BY DEF Init
<1>2. text \in Texts /\ Len(text) \in Nat
  BY <1>1, TextFacts DEF Start
<1>3. Leading /\ tokenIds \in Seq(Nat) /\ owner \in Seq(Nat) /\ Len(owner) = Len(tokenIds)
  BY <1>1 DEF Start, Leading, PAD_TOKEN
<1>4. /\ words \in Seq(Nat \X Nat)
      /\ \A k \in 1..Len(owner) : owner[k] <= Len(words)
  BY <1>1 DEF Start
<1>5. pos \in 1..(Len(text) + 1)
  BY <1>1, <1>2 DEF Start
<1>6. needSpace \in BOOLEAN /\ scan \in {"scanning", "done"}
  BY <1>1 DEF Start
<1> QED BY <1>2, <1>3, <1>4, <1>5, <1>6 DEF TypeInv, TypeOK

(* White space.                                                            *)
LEMMA TypeWhitespace ==
  ASSUME TypeInv, Whitespace PROVE TypeInv'
BY TextFacts DEF TypeInv, TypeOK, Leading, Whitespace, Reading

\* What a mark leaves and adds, index by index.
LEMMA PunctuationFacts ==
  ASSUME TypeInv, Punctuation
  PROVE  /\ Kept \in 1..Len(tokenIds)
         /\ tokenIds' \in Seq(Nat) /\ owner' \in Seq(Nat) /\ tokenIds' # <<>>
         /\ Len(tokenIds') = Kept + 1 /\ Len(owner') = Kept + 1
         /\ \A k \in 1..Kept : tokenIds'[k] = tokenIds[k] /\ owner'[k] = owner[k]
         /\ tokenIds'[Kept + 1] = PUNCT_TOKENS[text[pos]]
         /\ owner'[Kept + 1] = Len(words)
<1>1. Kept \in 1..Len(tokenIds)
  BY KeptFacts DEF TypeInv
<1>2. /\ Kept \in Nat /\ Kept <= Len(tokenIds) /\ Kept <= Len(owner)
      /\ tokenIds \in Seq(Nat) /\ owner \in Seq(Nat) /\ Len(words) \in Nat
  BY <1>1, TypeFacts
<1>3. PUNCT_TOKENS[text[pos]] \in Nat
  BY PunctTokenFacts DEF Punctuation
<1>4. /\ tokenIds' = Append(SubSeq(tokenIds, 1, Kept), PUNCT_TOKENS[text[pos]])
      /\ owner' = Append(SubSeq(owner, 1, Kept), Len(words))
  BY DEF Punctuation
<1>5. /\ tokenIds' \in Seq(Nat) /\ tokenIds' # <<>>
      /\ Len(tokenIds') = Kept + 1
      /\ \A k \in 1..Kept : tokenIds'[k] = tokenIds[k]
      /\ tokenIds'[Kept + 1] = PUNCT_TOKENS[text[pos]]
  <2> DEFINE e == PUNCT_TOKENS[text[pos]]
  <2>1. /\ Kept \in Nat /\ Kept <= Len(tokenIds) /\ tokenIds \in Seq(Nat)
        /\ e \in Nat /\ tokenIds' = Append(SubSeq(tokenIds, 1, Kept), e)
    BY <1>2, <1>3, <1>4
  <2> HIDE DEF e
  <2>2. /\ tokenIds' \in Seq(Nat) /\ Len(tokenIds') = Kept + 1
        /\ \A k \in 1..Kept : tokenIds'[k] = tokenIds[k]
        /\ tokenIds'[Kept + 1] = e
    BY <2>1, CutAppend
  <2>3. tokenIds' # <<>>
    BY <2>1, <2>2
  <2> QED BY <2>2, <2>3 DEF e
<1>6. /\ owner' \in Seq(Nat) /\ Len(owner') = Kept + 1
      /\ \A k \in 1..Kept : owner'[k] = owner[k]
      /\ owner'[Kept + 1] = Len(words)
  BY <1>2, <1>4, CutAppend
<1> QED BY <1>1, <1>5, <1>6

(* A mark.                                                                 *)
LEMMA TypePunctuation ==
  ASSUME TypeInv, Punctuation PROVE TypeInv'
<1>1. Leading'
  BY PunctuationFacts, TypeFacts DEF Leading
<1>2. ASSUME NEW k \in 1..Len(owner') PROVE owner'[k] <= Len(words)
  <2>1. /\ Kept \in Nat /\ k \in 1..(Kept + 1) /\ Kept <= Len(tokenIds)
        /\ Len(words) \in Nat /\ Len(tokenIds) \in Nat
    BY PunctuationFacts, TypeFacts
  <2>2. CASE k = Kept + 1
    BY <2>1, <2>2, PunctuationFacts
  <2>3. CASE k \in 1..Kept
    <3>1. owner'[k] = owner[k] /\ k \in 1..Len(tokenIds)
      BY <2>1, <2>3, PunctuationFacts
    <3> QED BY <3>1, TypeFacts
  <2> QED BY <2>1, <2>2, <2>3
<1>3. pos' \in 1..(Len(text) + 1)
  BY TypeFacts DEF Punctuation, Reading
<1>4. tokenIds' \in Seq(Nat) /\ owner' \in Seq(Nat) /\ Len(owner') = Len(tokenIds')
  BY PunctuationFacts
<1> QED BY <1>1, <1>2, <1>3, <1>4 DEF TypeInv, TypeOK, Punctuation

(* A multi-byte character.                                                 *)
LEMMA TypeSkipWide ==
  ASSUME TypeInv, SkipWide PROVE TypeInv'
BY TextFacts DEF TypeInv, TypeOK, Leading, SkipWide, Reading

\* What a voiced word adds, index by index.
LEMMA VoicedWordFacts ==
  ASSUME TypeInv, NEW to \in pos..Len(text), NEW toks \in WordToTokens(pos, to),
         VoicedWord(to, toks)
  PROVE  /\ Len(Separator) \in {0, 1} /\ Len(toks) \in Nat \ {0}
         /\ tokenIds' \in Seq(Nat) /\ owner' \in Seq(Nat)
         /\ Len(tokenIds') = Len(tokenIds) + Len(Separator) + Len(toks)
         /\ Len(owner') = Len(tokenIds')
         /\ \A k \in 1..Len(tokenIds) : tokenIds'[k] = tokenIds[k] /\ owner'[k] = owner[k]
         /\ \A k \in 1..Len(Separator) :
              /\ tokenIds'[Len(tokenIds) + k] = SPACE_TOKEN
              /\ owner'[Len(tokenIds) + k] = Len(words)
         /\ \A k \in 1..Len(toks) :
              /\ tokenIds'[Len(tokenIds) + Len(Separator) + k] = toks[k]
              /\ owner'[Len(tokenIds) + Len(Separator) + k] = Len(words) + 1
         /\ words' \in Seq(Nat \X Nat) /\ Len(words') = Len(words) + 1
<1> DEFINE before == Constantly(Len(words), Len(Separator))
           own    == Constantly(Len(words) + 1, Len(toks))
<1>1. /\ toks \in Seq(Nat) /\ Len(toks) \in Nat \ {0}
      /\ Separator \in Seq(Nat) /\ Len(Separator) \in {0, 1}
      /\ \A k \in 1..Len(Separator) : Separator[k] = SPACE_TOKEN
  BY WordTokenFacts, SeparatorFacts DEF VoicedWord
<1>2. /\ tokenIds \in Seq(Nat) /\ Len(tokenIds) \in Nat \ {0} /\ Len(words) \in Nat
      /\ owner \in Seq(Nat) /\ Len(owner) = Len(tokenIds)
  BY TypeFacts
<1>3. /\ before \in Seq(Nat) /\ Len(before) = Len(Separator)
      /\ \A k \in 1..Len(before) : before[k] = Len(words)
  <2>1. Len(Separator) \in Nat /\ Len(words) \in Nat
    BY <1>1, <1>2
  <2> QED BY <2>1, ConstantlyFacts
<1>4. /\ own \in Seq(Nat) /\ Len(own) = Len(toks)
      /\ \A k \in 1..Len(own) : own[k] = Len(words) + 1
  <2>1. Len(toks) \in Nat /\ Len(words) + 1 \in Nat
    BY <1>1, <1>2
  <2> QED BY <2>1, ConstantlyFacts
<1>5. /\ tokenIds' = tokenIds \o Separator \o toks
      /\ owner' = owner \o before \o own
      /\ words' = Append(words, <<pos, to>>)
  BY DEF VoicedWord
<1>6. words' \in Seq(Nat \X Nat) /\ Len(words') = Len(words) + 1
  <2>1. <<pos, to>> \in Nat \X Nat
    BY TypeFacts
  <2>2. words \in Seq(Nat \X Nat)
    BY TypeFacts
  <2> QED BY <2>1, <2>2, <1>5
<1> HIDE DEF before, own
<1>7. /\ tokenIds' \in Seq(Nat)
      /\ Len(tokenIds') = Len(tokenIds) + Len(Separator) + Len(toks)
      /\ \A k \in 1..Len(tokenIds) : tokenIds'[k] = tokenIds[k]
      /\ \A k \in 1..Len(Separator) : tokenIds'[Len(tokenIds) + k] = Separator[k]
      /\ \A k \in 1..Len(toks) :
           tokenIds'[Len(tokenIds) + Len(Separator) + k] = toks[k]
  <2>1. tokenIds \in Seq(Nat) /\ Separator \in Seq(Nat) /\ toks \in Seq(Nat)
    BY <1>1, <1>2
  <2>2. tokenIds' = tokenIds \o Separator \o toks
    BY <1>5
  <2> QED BY <2>1, <2>2, Concat3
<1>8. /\ owner' \in Seq(Nat)
      /\ Len(owner') = Len(owner) + Len(before) + Len(own)
      /\ \A k \in 1..Len(owner) : owner'[k] = owner[k]
      /\ \A k \in 1..Len(before) : owner'[Len(owner) + k] = before[k]
      /\ \A k \in 1..Len(own) : owner'[Len(owner) + Len(before) + k] = own[k]
  <2>1. owner \in Seq(Nat) /\ before \in Seq(Nat) /\ own \in Seq(Nat)
    BY <1>2, <1>3, <1>4
  <2>2. owner' = owner \o before \o own
    BY <1>5
  <2> QED BY <2>1, <2>2, Concat3
<1>9. Len(owner') = Len(tokenIds')
  BY <1>2, <1>3, <1>4, <1>7, <1>8
<1>10. ASSUME NEW k \in 1..Len(Separator)
       PROVE  /\ tokenIds'[Len(tokenIds) + k] = SPACE_TOKEN
              /\ owner'[Len(tokenIds) + k] = Len(words)
  BY <1>1, <1>2, <1>3, <1>7, <1>8
<1>11. ASSUME NEW k \in 1..Len(toks)
       PROVE  /\ tokenIds'[Len(tokenIds) + Len(Separator) + k] = toks[k]
              /\ owner'[Len(tokenIds) + Len(Separator) + k] = Len(words) + 1
  BY <1>2, <1>3, <1>4, <1>7, <1>8
<1>12. ASSUME NEW k \in 1..Len(tokenIds)
       PROVE  tokenIds'[k] = tokenIds[k] /\ owner'[k] = owner[k]
  BY <1>2, <1>7, <1>8
<1> QED BY <1>1, <1>6, <1>7, <1>8, <1>9, <1>10, <1>11, <1>12

(* A word with tokens.                                                     *)
LEMMA TypeVoicedWord ==
  ASSUME TypeInv, NEW to \in pos..Len(text), NEW toks \in WordToTokens(pos, to),
         VoicedWord(to, toks)
  PROVE  TypeInv'
<1>1. /\ Len(Separator) \in {0, 1} /\ Len(toks) \in Nat \ {0}
      /\ tokenIds' \in Seq(Nat) /\ owner' \in Seq(Nat)
      /\ Len(tokenIds') = Len(tokenIds) + Len(Separator) + Len(toks)
      /\ Len(owner') = Len(tokenIds')
      /\ words' \in Seq(Nat \X Nat) /\ Len(words') = Len(words) + 1
  BY VoicedWordFacts
<1>2. Len(tokenIds) \in Nat \ {0} /\ Len(words) \in Nat
  BY TypeFacts
<1>3. Leading'
  <2>1. Len(tokenIds') # 0
    BY <1>1, <1>2
  <2>2. tokenIds'[1] = tokenIds[1]
    BY <1>2, VoicedWordFacts
  <2> QED BY <2>1, <2>2, <1>1, TypeFacts DEF Leading
<1>4. ASSUME NEW k \in 1..Len(owner') PROVE owner'[k] <= Len(words')
  <2>0. Len(words) \in Nat /\ Len(words') = Len(words) + 1
    BY <1>1, <1>2
  <2>1. CASE k \in 1..Len(tokenIds)
    <3>1. owner'[k] = owner[k]
      BY <2>1, VoicedWordFacts
    <3>2. owner[k] \in Nat /\ owner[k] <= Len(words)
      BY <2>1, TypeFacts
    <3> QED BY <3>1, <3>2, <2>0
  <2>2. CASE k - Len(tokenIds) \in 1..Len(Separator)
    <3>1. owner'[Len(tokenIds) + (k - Len(tokenIds))] = Len(words)
      BY <2>2, VoicedWordFacts
    <3>2. Len(tokenIds) + (k - Len(tokenIds)) = k
      BY <1>1, <1>2
    <3> QED BY <3>1, <3>2, <2>0
  <2>3. CASE k - (Len(tokenIds) + Len(Separator)) \in 1..Len(toks)
    <3> DEFINE j == k - (Len(tokenIds) + Len(Separator))
    <3>1. owner'[Len(tokenIds) + Len(Separator) + j] = Len(words) + 1
      BY <2>3, VoicedWordFacts
    <3>2. Len(tokenIds) + Len(Separator) + j = k
      BY <1>1, <1>2
    <3> QED BY <3>1, <3>2, <2>0
  <2>4. \/ k \in 1..Len(tokenIds)
        \/ k - Len(tokenIds) \in 1..Len(Separator)
        \/ k - (Len(tokenIds) + Len(Separator)) \in 1..Len(toks)
    <3>1. /\ Len(tokenIds) \in Nat /\ Len(Separator) \in Nat /\ Len(toks) \in Nat
          /\ k \in 1..(Len(tokenIds) + Len(Separator) + Len(toks))
      BY <1>1, <1>2
    <3> QED BY <3>1
  <2> QED BY <2>1, <2>2, <2>3, <2>4
<1>5. pos' \in 1..(Len(text) + 1)
  BY TypeFacts DEF VoicedWord, Reading
<1> QED BY <1>1, <1>3, <1>4, <1>5 DEF TypeInv, TypeOK, VoicedWord

(* A word without.                                                         *)
LEMMA TypeSilentWord ==
  ASSUME TypeInv, NEW to \in pos..Len(text), SilentWord(to)
  PROVE  TypeInv'
BY TextFacts DEF TypeInv, TypeOK, Leading, SilentWord, Reading

\* What the cut and the last pad leave, index by index.
LEMMA FinishFacts ==
  ASSUME TypeInv, Finish
  PROVE  /\ Fit \in 1..Len(tokenIds) /\ Fit < TokenCap
         /\ tokenIds' \in Seq(Nat) /\ owner' \in Seq(Nat) /\ tokenIds' # <<>>
         /\ Len(tokenIds') = Fit + 1 /\ Len(owner') = Fit + 1
         /\ \A k \in 1..Fit : tokenIds'[k] = tokenIds[k] /\ owner'[k] = owner[k]
         /\ tokenIds'[Fit + 1] = PAD_TOKEN
         /\ owner'[Fit + 1] = Len(words)
<1>1. Fit \in 1..Len(tokenIds) /\ Fit < TokenCap
  BY FitFacts DEF TypeInv
<1>2. /\ Fit \in Nat /\ Fit <= Len(tokenIds) /\ Fit <= Len(owner)
      /\ tokenIds \in Seq(Nat) /\ owner \in Seq(Nat) /\ Len(words) \in Nat
  BY <1>1, TypeFacts
<1>3. PAD_TOKEN \in Nat
  BY DEF PAD_TOKEN
<1>4. /\ tokenIds' = Append(SubSeq(tokenIds, 1, Fit), PAD_TOKEN)
      /\ owner' = Append(SubSeq(owner, 1, Fit), Len(words))
  BY DEF Finish
<1>5. /\ tokenIds' \in Seq(Nat) /\ tokenIds' # <<>>
      /\ Len(tokenIds') = Fit + 1
      /\ \A k \in 1..Fit : tokenIds'[k] = tokenIds[k]
      /\ tokenIds'[Fit + 1] = PAD_TOKEN
  <2>1. /\ Fit \in Nat /\ Fit <= Len(tokenIds) /\ tokenIds \in Seq(Nat)
        /\ tokenIds' = Append(SubSeq(tokenIds, 1, Fit), PAD_TOKEN)
    BY <1>2, <1>4
  <2>2. /\ tokenIds' \in Seq(Nat) /\ Len(tokenIds') = Fit + 1
        /\ \A k \in 1..Fit : tokenIds'[k] = tokenIds[k]
        /\ tokenIds'[Fit + 1] = PAD_TOKEN
    BY <1>3, <2>1, CutAppend
  <2>3. tokenIds' # <<>>
    BY <1>3, <2>1, <2>2
  <2> QED BY <2>2, <2>3
<1>6. /\ owner' \in Seq(Nat) /\ Len(owner') = Fit + 1
      /\ \A k \in 1..Fit : owner'[k] = owner[k]
      /\ owner'[Fit + 1] = Len(words)
  BY <1>2, <1>4, CutAppend
<1> QED BY <1>1, <1>5, <1>6

(* The cut and the last pad.                                               *)
LEMMA TypeFinish ==
  ASSUME TypeInv, Finish PROVE TypeInv'
<1>1. Leading'
  BY FinishFacts, TypeFacts DEF Leading
<1>2. ASSUME NEW k \in 1..Len(owner') PROVE owner'[k] <= Len(words)
  <2>1. /\ Fit \in Nat /\ k \in 1..(Fit + 1) /\ Fit <= Len(tokenIds)
        /\ Len(words) \in Nat /\ Len(tokenIds) \in Nat
    BY FinishFacts, TypeFacts
  <2>2. CASE k = Fit + 1
    BY <2>1, <2>2, FinishFacts
  <2>3. CASE k \in 1..Fit
    <3>1. owner'[k] = owner[k] /\ k \in 1..Len(tokenIds)
      BY <2>1, <2>3, FinishFacts
    <3> QED BY <3>1, TypeFacts
  <2> QED BY <2>1, <2>2, <2>3
<1>3. tokenIds' \in Seq(Nat) /\ owner' \in Seq(Nat) /\ Len(owner') = Len(tokenIds')
  BY FinishFacts
<1> QED BY <1>1, <1>2, <1>3 DEF TypeInv, TypeOK, Finish

(* So does every step.                                                     *)
LEMMA TypeStep ==
  ASSUME TypeInv, [Next]_vars PROVE TypeInv'
<1>1. CASE Whitespace BY <1>1, TypeWhitespace
<1>2. CASE Punctuation BY <1>2, TypePunctuation
<1>3. CASE SkipWide BY <1>3, TypeSkipWide
<1>4. CASE Word
  <2>1. PICK to \in pos..Len(text) : \E toks \in WordToTokens(pos, to) :
          IF toks = <<>> THEN SilentWord(to) ELSE VoicedWord(to, toks)
    BY <1>4 DEF Word
  <2>2. PICK toks \in WordToTokens(pos, to) :
          IF toks = <<>> THEN SilentWord(to) ELSE VoicedWord(to, toks)
    BY <2>1
  <2> QED BY <2>2, TypeVoicedWord, TypeSilentWord
<1>5. CASE Finish BY <1>5, TypeFinish
<1>6. CASE UNCHANGED vars
  BY <1>6 DEF vars, TypeInv, TypeOK, Leading
<1> QED BY <1>1, <1>2, <1>3, <1>4, <1>5, <1>6 DEF Next

(* And every state has them.                                               *)
LEMMA TypeInvariance == Spec => []TypeInv
BY TypeInit, TypeStep, PTL DEF Spec

(* The front end keeps its types on every text: in particular the history  *)
(* names, for each token, a word that is listed.                           *)
THEOREM TypeCorrect == Spec => []TypeOK
BY TypeInvariance, PTL DEF TypeInv

-----------------------------------------------------------------------------
(* The frame: one pad, the tokens, one pad                                 *)

(* At the start there is the first pad alone.                              *)
LEMMA FramedInit == Init => Framed
<1> SUFFICES ASSUME Init PROVE Framed
  OBVIOUS
<1>1. tokenIds = <<PAD_TOKEN>> /\ scan = "scanning"
  BY DEF Init, Start
<1> QED BY <1>1 DEF Framed

(* A mark is no pad.                                                       *)
LEMMA FramedPunctuation ==
  ASSUME TypeInv, Framed, Punctuation PROVE Framed'
<1>1. scan = "scanning" /\ scan' = "scanning"
  BY DEF Punctuation, Reading
<1>2. PUNCT_TOKENS[text[pos]] # PAD_TOKEN
  BY PunctTokenFacts DEF Punctuation
<1>3. ASSUME NEW k \in 1..Len(tokenIds') PROVE tokenIds'[k] = PAD_TOKEN <=> k = 1
  <2>1. Kept \in 1..Len(tokenIds) /\ Len(tokenIds) \in Nat /\ k \in 1..(Kept + 1)
    BY PunctuationFacts, TypeFacts
  <2>2. CASE k \in 1..Kept
    <3>1. tokenIds'[k] = tokenIds[k] /\ k \in 1..Len(tokenIds)
      BY <2>1, <2>2, PunctuationFacts
    <3> QED BY <3>1, <1>1 DEF Framed
  <2>3. CASE k = Kept + 1
    <3>1. k # 1 /\ tokenIds'[k] = PUNCT_TOKENS[text[pos]]
      BY <2>1, <2>3, PunctuationFacts
    <3> QED BY <3>1, <1>2
  <2> QED BY <2>1, <2>2, <2>3
<1>4. tokenIds' # <<>>
  BY PunctuationFacts
<1> QED BY <1>1, <1>3, <1>4 DEF Framed

(* Nor is a token of a word.                                               *)
LEMMA FramedVoicedWord ==
  ASSUME TypeInv, Framed, NEW to \in pos..Len(text), NEW toks \in WordToTokens(pos, to),
         VoicedWord(to, toks)
  PROVE  Framed'
<1>1. scan = "scanning" /\ scan' = "scanning"
  BY DEF VoicedWord, Reading
<1>2. /\ Len(tokenIds) \in Nat \ {0} /\ Len(Separator) \in Nat /\ Len(toks) \in Nat \ {0}
      /\ Len(tokenIds') = Len(tokenIds) + Len(Separator) + Len(toks)
      /\ tokenIds' \in Seq(Nat)
  BY TypeFacts, VoicedWordFacts
<1>3. ASSUME NEW k \in 1..Len(tokenIds') PROVE tokenIds'[k] = PAD_TOKEN <=> k = 1
  <2>1. CASE k \in 1..Len(tokenIds)
    <3>1. tokenIds'[k] = tokenIds[k]
      BY <2>1, VoicedWordFacts
    <3> QED BY <3>1, <2>1, <1>1 DEF Framed
  <2>2. CASE k - Len(tokenIds) \in 1..Len(Separator)
    <3>1. tokenIds'[Len(tokenIds) + (k - Len(tokenIds))] = SPACE_TOKEN
      BY <2>2, VoicedWordFacts
    <3>2. Len(tokenIds) + (k - Len(tokenIds)) = k /\ k # 1
      BY <1>2, <2>2
    <3> QED BY <3>1, <3>2 DEF SPACE_TOKEN, PAD_TOKEN
  <2>3. CASE k - (Len(tokenIds) + Len(Separator)) \in 1..Len(toks)
    <3> DEFINE j == k - (Len(tokenIds) + Len(Separator))
    <3>1. tokenIds'[Len(tokenIds) + Len(Separator) + j] = toks[j]
      BY <2>3, VoicedWordFacts
    <3>2. Len(tokenIds) + Len(Separator) + j = k /\ k # 1
      BY <1>2, <2>3
    <3>3. toks[j] # PAD_TOKEN
      BY <2>3, WordTokenFacts
    <3> QED BY <3>1, <3>2, <3>3
  <2>4. \/ k \in 1..Len(tokenIds)
        \/ k - Len(tokenIds) \in 1..Len(Separator)
        \/ k - (Len(tokenIds) + Len(Separator)) \in 1..Len(toks)
    BY <1>2
  <2> QED BY <2>1, <2>2, <2>3, <2>4
<1>4. tokenIds' # <<>>
  BY <1>2
<1> QED BY <1>1, <1>3, <1>4 DEF Framed

(* The last pad closes the frame, within the cap.                          *)
LEMMA FramedFinish ==
  ASSUME TypeInv, Framed, Finish PROVE Framed'
<1>1. scan = "scanning" /\ scan' = "done"
  BY DEF Finish
<1>2. Fit \in 1..Len(tokenIds) /\ Fit < TokenCap /\ Len(tokenIds) \in Nat
  BY FinishFacts, TypeFacts
<1>3. ASSUME NEW k \in 1..Len(tokenIds')
      PROVE  tokenIds'[k] = PAD_TOKEN <=> (k = 1 \/ k = Len(tokenIds'))
  <2>1. k \in 1..(Fit + 1) /\ Len(tokenIds') = Fit + 1
    BY FinishFacts
  <2>2. CASE k \in 1..Fit
    <3>1. tokenIds'[k] = tokenIds[k] /\ k \in 1..Len(tokenIds) /\ k # Len(tokenIds')
      BY <1>2, <2>1, <2>2, FinishFacts
    <3> QED BY <3>1, <1>1 DEF Framed
  <2>3. CASE k = Fit + 1
    BY <2>1, <2>3, FinishFacts
  <2> QED BY <1>2, <2>1, <2>2, <2>3
<1>4. tokenIds' # <<>> /\ Len(tokenIds') = Fit + 1
  BY FinishFacts
<1>5. Len(tokenIds') \in 2..TokenCap
  BY <1>2, <1>4, TokenCapAssumption
<1> QED BY <1>1, <1>3, <1>4, <1>5 DEF Framed

(* Every step keeps the frame.                                             *)
LEMMA FramedStep ==
  ASSUME TypeInv, Framed, [Next]_vars PROVE Framed'
<1>1. CASE Whitespace \/ SkipWide \/ UNCHANGED vars
  <2>1. tokenIds' = tokenIds /\ scan' = scan
    BY <1>1 DEF Whitespace, SkipWide, vars
  <2> QED BY <2>1 DEF Framed
<1>2. CASE Punctuation BY <1>2, FramedPunctuation
<1>3. CASE Word
  <2>1. PICK to \in pos..Len(text) : \E toks \in WordToTokens(pos, to) :
          IF toks = <<>> THEN SilentWord(to) ELSE VoicedWord(to, toks)
    BY <1>3 DEF Word
  <2>2. PICK toks \in WordToTokens(pos, to) :
          IF toks = <<>> THEN SilentWord(to) ELSE VoicedWord(to, toks)
    BY <2>1
  <2>3. CASE SilentWord(to)
    <3>1. tokenIds' = tokenIds /\ scan' = scan
      BY <2>3 DEF SilentWord
    <3> QED BY <3>1 DEF Framed
  <2> QED BY <2>2, <2>3, FramedVoicedWord
<1>4. CASE Finish BY <1>4, FramedFinish
<1> QED BY <1>1, <1>2, <1>3, <1>4 DEF Next

(* Whatever the text, the vocabulary and the cap, the model is fed a pad,  *)
(* tokens that are no pad, a pad, and no more than the cap.                *)
THEOREM FrameCorrect == Spec => []Framed
<1>1. Init => Framed
  BY FramedInit
<1>2. TypeInv /\ Framed /\ [Next]_vars => Framed'
  BY FramedStep
<1>3. Spec => []TypeInv
  BY TypeInvariance
<1> QED BY <1>1, <1>2, <1>3, PTL DEF Spec

-----------------------------------------------------------------------------
(* Spaces                                                                  *)

\* No separator is asked for where there is one.
Asked == needSpace /\ scan = "scanning" => Last(tokenIds) \notin Separators

SpacesBetween ==
  \A k \in 2..Len(tokenIds) :
    /\ tokenIds[k] = SPACE_TOKEN => tokenIds[k - 1] \notin Separators
    /\ tokenIds[k - 1] = SPACE_TOKEN => tokenIds[k] \notin Marks

SpaceInv == Asked /\ SpacesBetween

(* A mark is neither separator.                                            *)
LEMMA MarkFacts ==
  /\ PAD_TOKEN \notin Marks /\ SPACE_TOKEN \notin Marks
  /\ PAD_TOKEN # SPACE_TOKEN
  /\ PAD_TOKEN \in Separators /\ SPACE_TOKEN \in Separators
  /\ \A m \in Marks : m \notin Separators
BY DEF Marks, PunctChars, PUNCT_TOKENS, PAD_TOKEN, SPACE_TOKEN, Separators

(* Where pronunciations are of one group, so is a word's: it does not open *)
(* with a separator or a mark and has none but at its end.                 *)
LEMMA OneGroupFacts ==
  ASSUME OneGroupPronunciations, NEW from, NEW to, NEW toks \in WordToTokens(from, to),
         toks # <<>>
  PROVE  /\ toks[1] \notin Separators /\ toks[1] \notin Marks
         /\ \A k \in 1..(Len(toks) - 1) : toks[k] \notin Separators
<1>1. toks \in Pronunciations /\ OneGroup(toks)
  BY DEF WordToTokens, OneGroupPronunciations
<1>2. toks \in Seq(Nat) /\ Len(toks) \in Nat \ {0} /\ \A k \in 1..Len(toks) : toks[k] # PAD_TOKEN
  BY WordTokenFacts
<1>3. toks[1] # PAD_TOKEN /\ toks[1] \notin Marks /\ toks[1] # SPACE_TOKEN
  BY <1>1, <1>2 DEF OneGroup
<1>4. ASSUME NEW k \in 1..(Len(toks) - 1) PROVE toks[k] \notin Separators
  <2>1. k \in 1..Len(toks) /\ toks[k] # SPACE_TOKEN
    BY <1>1, <1>2 DEF OneGroup
  <2> QED BY <1>2, <2>1 DEF Separators
<1> QED BY <1>3, <1>4 DEF Separators

(* A mark takes the place of a SPACE, before which there is none.          *)
LEMMA KeptNoSpace ==
  ASSUME TypeInv, SpaceInv
  PROVE  /\ tokenIds[Kept] # SPACE_TOKEN
         /\ Kept = Len(tokenIds) \/ (Kept + 1 = Len(tokenIds) /\ tokenIds[Len(tokenIds)] = SPACE_TOKEN
                                     /\ tokenIds[Kept] \notin Separators)
<1>1. /\ Len(tokenIds) \in Nat \ {0} /\ Kept \in 1..Len(tokenIds)
      /\ Last(tokenIds) = tokenIds[Len(tokenIds)]
  BY TypeFacts, KeptFacts DEF TypeInv, Last
<1>2. CASE Last(tokenIds) # SPACE_TOKEN
  BY <1>1, <1>2 DEF Kept
<1>3. CASE Last(tokenIds) = SPACE_TOKEN
  <2>1. Kept = Len(tokenIds) - 1 /\ Len(tokenIds) \in 2..Len(tokenIds)
    BY <1>1, <1>3 DEF Kept
  <2>2. tokenIds[Len(tokenIds) - 1] \notin Separators
    BY <1>1, <1>3, <2>1 DEF SpaceInv, SpacesBetween
  <2> QED BY <1>1, <1>3, <2>1, <2>2, MarkFacts
<1> QED BY <1>2, <1>3

(* The last token of a longer sequence.                                    *)
LEMMA LastFacts ==
  ASSUME TypeInv PROVE Last(tokenIds) = tokenIds[Len(tokenIds)]
BY DEF Last

(* A mark keeps it.                                                        *)
LEMMA SpacePunctuation ==
  ASSUME TypeInv, SpaceInv, Punctuation PROVE SpaceInv'
<1>1. Kept \in 1..Len(tokenIds) /\ Len(tokenIds) \in Nat /\ Len(tokenIds') = Kept + 1
  BY PunctuationFacts, TypeFacts
<1>2. tokenIds'[Kept + 1] \in Marks
  BY PunctuationFacts, PunctTokenFacts DEF Punctuation
<1>3. ASSUME NEW k \in 2..Len(tokenIds')
      PROVE  /\ tokenIds'[k] = SPACE_TOKEN => tokenIds'[k - 1] \notin Separators
             /\ tokenIds'[k - 1] = SPACE_TOKEN => tokenIds'[k] \notin Marks
  <2>1. CASE k = Kept + 1
    <3>1. k - 1 = Kept /\ Kept \in 1..Kept
      BY <1>1, <2>1
    <3>2. tokenIds'[k - 1] = tokenIds[Kept]
      BY <3>1, PunctuationFacts
    <3> QED BY <1>2, <2>1, <3>2, KeptNoSpace, MarkFacts
  <2>2. CASE k \in 2..Kept
    <3>1. k \in 1..Kept /\ k - 1 \in 1..Kept /\ k \in 2..Len(tokenIds)
      BY <1>1, <2>2
    <3>2. tokenIds'[k] = tokenIds[k] /\ tokenIds'[k - 1] = tokenIds[k - 1]
      BY <3>1, PunctuationFacts
    <3> QED BY <3>1, <3>2 DEF SpaceInv, SpacesBetween
  <2> QED BY <1>1, <2>1, <2>2
<1>4. needSpace' = FALSE
  BY DEF Punctuation
<1> QED BY <1>3, <1>4 DEF SpaceInv, Asked, SpacesBetween

(* So does a word.                                                         *)
LEMMA SpaceVoicedWord ==
  ASSUME OneGroupPronunciations, TypeInv, SpaceInv,
         NEW to \in pos..Len(text), NEW toks \in WordToTokens(pos, to), VoicedWord(to, toks)
  PROVE  SpaceInv'
<1> DEFINE n == Len(tokenIds)
           s == Len(Separator)
           m == Len(toks)
<1>1. /\ n \in Nat \ {0} /\ s \in {0, 1} /\ m \in Nat \ {0}
      /\ Len(tokenIds') = n + s + m
      /\ \A k \in 1..n : tokenIds'[k] = tokenIds[k]
      /\ \A k \in 1..s : tokenIds'[n + k] = SPACE_TOKEN
      /\ \A k \in 1..m : tokenIds'[n + s + k] = toks[k]
  BY TypeFacts, VoicedWordFacts
<1>2. /\ toks[1] \notin Separators /\ toks[1] \notin Marks
      /\ \A k \in 1..(m - 1) : toks[k] \notin Separators
  BY OneGroupFacts DEF VoicedWord
<1>3. s = 1 => tokenIds[n] \notin Separators
  <2>1. s = 1 => needSpace
    BY DEF Separator
  <2>2. scan = "scanning"
    BY DEF VoicedWord, Reading
  <2> QED BY <2>1, <2>2, LastFacts DEF SpaceInv, Asked
<1> HIDE DEF n, s, m
<1>4. ASSUME NEW k \in 2..(n + s + m)
      PROVE  /\ tokenIds'[k] = SPACE_TOKEN => tokenIds'[k - 1] \notin Separators
             /\ tokenIds'[k - 1] = SPACE_TOKEN => tokenIds'[k] \notin Marks
  <2>1. CASE k \in 2..n
    <3>1. k \in 1..n /\ k - 1 \in 1..n
      BY <1>1, <2>1
    <3>2. tokenIds'[k] = tokenIds[k] /\ tokenIds'[k - 1] = tokenIds[k - 1]
      BY <1>1, <3>1
    <3> QED BY <2>1, <3>2 DEF SpaceInv, SpacesBetween, n
  <2>2. CASE s = 1 /\ k = n + 1
    <3>1. k - 1 = n /\ n \in 1..n /\ 1 \in 1..s
      BY <1>1, <2>2
    <3>2. tokenIds'[k - 1] = tokenIds[n] /\ tokenIds'[k] = SPACE_TOKEN
      BY <1>1, <2>2, <3>1
    <3> QED BY <1>3, <2>2, <3>2, MarkFacts
  <2>3. CASE k = n + s + 1
    <3>1. 1 \in 1..m
      BY <1>1
    <3>2. tokenIds'[k] = toks[1]
      BY <1>1, <2>3, <3>1
    <3> QED BY <1>2, <3>2, MarkFacts
  <2>4. CASE k - (n + s) \in 2..m
    <3> DEFINE j == k - (n + s)
    <3>0. n \in Nat /\ s \in Nat /\ m \in Nat
      BY <1>1
    <3>1. j \in 1..m /\ j - 1 \in 1..m /\ j - 1 \in 1..(m - 1) /\ k = n + s + j /\ k - 1 = n + s + (j - 1)
      BY <2>4, <3>0
    <3>2. tokenIds'[n + s + j] = toks[j] /\ tokenIds'[n + s + (j - 1)] = toks[j - 1]
      BY <1>1, <3>1
    <3>3. toks[j - 1] \notin Separators
      BY <1>2, <3>1
    <3> HIDE DEF j
    <3> QED BY <3>1, <3>2, <3>3, MarkFacts
  <2>5. k \in 2..n \/ (s = 1 /\ k = n + 1) \/ k = n + s + 1 \/ k - (n + s) \in 2..m
    BY <1>1
  <2> QED BY <2>1, <2>2, <2>3, <2>4, <2>5
<1>5. needSpace' = FALSE
  BY DEF VoicedWord
<1> QED BY <1>1, <1>4, <1>5 DEF SpaceInv, Asked, SpacesBetween

(* And the cut with the last pad.                                          *)
LEMMA SpaceFinish ==
  ASSUME TypeInv, SpaceInv, Finish PROVE SpaceInv'
<1>1. Fit \in 1..Len(tokenIds) /\ Len(tokenIds) \in Nat /\ Len(tokenIds') = Fit + 1
  BY FinishFacts, TypeFacts
<1>2. ASSUME NEW k \in 2..Len(tokenIds')
      PROVE  /\ tokenIds'[k] = SPACE_TOKEN => tokenIds'[k - 1] \notin Separators
             /\ tokenIds'[k - 1] = SPACE_TOKEN => tokenIds'[k] \notin Marks
  <2>1. CASE k = Fit + 1
    BY <2>1, FinishFacts, MarkFacts
  <2>2. CASE k \in 2..Fit
    <3>1. k \in 1..Fit /\ k - 1 \in 1..Fit /\ k \in 2..Len(tokenIds)
      BY <1>1, <2>2
    <3>2. tokenIds'[k] = tokenIds[k] /\ tokenIds'[k - 1] = tokenIds[k - 1]
      BY <3>1, FinishFacts
    <3> QED BY <3>1, <3>2 DEF SpaceInv, SpacesBetween
  <2> QED BY <1>1, <2>1, <2>2
<1>3. scan' = "done"
  BY DEF Finish
<1> QED BY <1>2, <1>3 DEF SpaceInv, Asked, SpacesBetween

(* A step that leaves the tokens alone only asks for a separator where     *)
(* there is none.                                                          *)
LEMMA SpaceSame ==
  ASSUME TypeInv, SpaceInv, UNCHANGED tokenIds,
         \/ UNCHANGED <<needSpace, scan>>
         \/ needSpace' = (needSpace \/ Last(tokenIds) \notin Separators) /\ scan' = scan
  PROVE  SpaceInv'
<1>1. Last(tokenIds)' = Last(tokenIds)
  BY DEF Last
<1>2. Asked'
  BY <1>1 DEF TypeInv, TypeOK, SpaceInv, Asked
<1>3. SpacesBetween'
  BY DEF SpaceInv, SpacesBetween
<1> QED BY <1>2, <1>3 DEF SpaceInv

(* Every step keeps it where espeak answers a word with one group.         *)
LEMMA SpaceStep ==
  ASSUME OneGroupPronunciations, TypeInv, SpaceInv, [Next]_vars PROVE SpaceInv'
<1>1. CASE Whitespace
  BY <1>1, SpaceSame DEF Whitespace, Separators
<1>2. CASE Punctuation BY <1>2, SpacePunctuation
<1>3. CASE SkipWide
  BY <1>3, SpaceSame DEF SkipWide
<1>4. CASE Word
  <2>1. PICK to \in pos..Len(text) : \E toks \in WordToTokens(pos, to) :
          IF toks = <<>> THEN SilentWord(to) ELSE VoicedWord(to, toks)
    BY <1>4 DEF Word
  <2>2. PICK toks \in WordToTokens(pos, to) :
          IF toks = <<>> THEN SilentWord(to) ELSE VoicedWord(to, toks)
    BY <2>1
  <2>3. CASE SilentWord(to)
    BY <2>3, SpaceSame DEF SilentWord
  <2> QED BY <2>2, <2>3, SpaceVoicedWord
<1>5. CASE Finish BY <1>5, SpaceFinish
<1>6. CASE UNCHANGED vars
  BY <1>6, SpaceSame DEF vars
<1> QED BY <1>1, <1>2, <1>3, <1>4, <1>5, <1>6 DEF Next

\* The invariant, where espeak answers a word with one group.
SpacesInv == OneGroupPronunciations => SpaceInv

(* It holds at the start.                                                  *)
LEMMA SpacesInit == Init => SpacesInv
<1>1. Init => tokenIds = <<PAD_TOKEN>> /\ needSpace = FALSE
  BY DEF Init, Start
<1> QED BY <1>1 DEF SpacesInv, SpaceInv, Asked, SpacesBetween

(* Every step keeps it.                                                    *)
LEMMA SpacesStep == TypeInv /\ SpacesInv /\ [Next]_vars => SpacesInv'
BY SpaceStep DEF SpacesInv, OneGroupPronunciations, OneGroup

(* It holds of every state.                                                *)
LEMMA SpaceInvariance == Spec => []SpacesInv
BY SpacesInit, SpacesStep, TypeInvariance, PTL DEF Spec

(* Whatever the text and the pronunciations, if each is one group: a SPACE *)
(* follows a phoneme or a mark, never another SPACE, and no mark follows   *)
(* it.                                                                     *)
THEOREM SpacesCorrect == Spec => []SpacesSeparate
<1>1. SpacesInv => SpacesSeparate
  BY DEF SpacesInv, SpaceInv, SpacesBetween, SpacesSeparate
<1> QED BY <1>1, SpaceInvariance, PTL

-----------------------------------------------------------------------------
(* Groups and words                                                        *)

\* A token belongs to the word listed last, the first one to none.
OwnerInv ==
  /\ owner[1] = 0
  /\ owner[Len(tokenIds)] = Len(words)

\* Word w has a token that opens its group.
Spoken(w) ==
  \E k \in 2..Len(tokenIds) :
    owner[k] = w /\ owner[k - 1] = w - 1 /\ tokenIds[k] \notin Separators

ListedInv ==
  OneGroupPronunciations /\ (scan = "scanning" \/ Len(tokenIds) < TokenCap)
    => \A w \in 1..Len(words) : Spoken(w)

\* What must follow where neither a separator nor a space is behind.
Settled ==
  pos <= Len(text) /\ Last(tokenIds) \notin Separators /\ ~needSpace
    => text[pos] \in {Space, "cut"} \cup PunctChars

AlignInv ==
  OneGroupPronunciations /\ WellSpaced =>
    Aligned /\ (scan = "scanning" => Settled)

GroupsInv == OwnerInv /\ ListedInv /\ AlignInv

(* What comes before a place comes before a later one.                     *)
LEMMA Earlier ==
  ASSUME NEW p \in Nat, NEW q \in Nat, p <= q, NEW k \in 1..(p - 1)
  PROVE  k \in Nat /\ k < p /\ k \in 1..(q - 1)
OBVIOUS

(* What is well spaced was so before.                                      *)
LEMMA WellSpacedBefore ==
  ASSUME TypeInv, WellSpaced', text' = text, pos' \in Nat, pos <= pos',
         \/ words' = words
         \/ \E to \in Nat : words' = Append(words, <<pos, to>>)
  PROVE  WellSpaced
<1> SUFFICES ASSUME NEW k \in 1..(pos - 1), k <= Len(text), text[k] \in PunctChars
             PROVE  /\ words # <<>> /\ words[1][1] < k
                    /\ k < Len(text) => text[k + 1] \in {Space, "cut"} \cup PunctChars
  BY DEF WellSpaced
<1>0. pos \in Nat /\ words \in Seq(Nat \X Nat)
  BY TypeFacts
<1>1. k \in Nat /\ k < pos /\ k \in 1..(pos' - 1)
  BY <1>0, Earlier
<1>2. /\ words' # <<>> /\ words'[1][1] < k
      /\ k < Len(text) => text[k + 1] \in {Space, "cut"} \cup PunctChars
  BY <1>1 DEF WellSpaced
<1>3. CASE words' = words
  BY <1>2, <1>3
<1>4. ASSUME NEW to \in Nat, words' = Append(words, <<pos, to>>)
      PROVE  words # <<>> /\ words[1][1] < k
  <2>1. CASE words = <<>>
    <3>1. words'[1] = <<pos, to>>
      BY <1>4, <2>1
    <3> QED BY <1>0, <1>1, <1>2, <3>1
  <2>2. CASE words # <<>>
    <3>1. Len(words) \in Nat \ {0} /\ <<pos, to>> \in Nat \X Nat
      BY <1>0, <2>2
    <3>2. words'[1] = words[1]
      BY <1>0, <1>4, <3>1
    <3> QED BY <1>2, <2>2, <3>2
  <2> QED BY <2>1, <2>2
<1> QED BY <1>2, <1>3, <1>4

(* A step that leaves the tokens and the words alone.                      *)
LEMMA GroupsSame ==
  ASSUME TypeInv, GroupsInv, UNCHANGED <<text, tokenIds, words, owner, scan>>,
         pos' \in Nat, pos <= pos',
         WellSpaced /\ scan = "scanning" /\ Settled => Settled'
  PROVE  GroupsInv'
<1>1. OwnerInv'
  BY DEF GroupsInv, OwnerInv
<1>2. ListedInv'
  BY DEF GroupsInv, ListedInv, Spoken, OneGroupPronunciations, OneGroup
<1>3. AlignInv'
  <2>1. WellSpaced' => WellSpaced
    BY WellSpacedBefore
  <2>2. Aligned => Aligned'
    BY DEF Aligned, Opens
  <2> QED BY <2>1, <2>2 DEF GroupsInv, AlignInv
<1> QED BY <1>1, <1>2, <1>3 DEF GroupsInv

(* White space, characters without a sound and words without one.          *)
LEMMA GroupsQuiet ==
  ASSUME TypeInv, GroupsInv,
         Whitespace \/ SkipWide \/ \E to \in pos..Len(text) : SilentWord(to)
  PROVE  GroupsInv'
<1>0. Last(tokenIds)' = Last(tokenIds) /\ pos \in Nat /\ Len(text) \in Nat
  BY TypeFacts DEF Last, Whitespace, SkipWide, SilentWord
<1>1. CASE Whitespace
  <2>1. /\ UNCHANGED <<text, tokenIds, words, owner, scan>> /\ pos' = pos + 1
        /\ needSpace' = (needSpace \/ Last(tokenIds) \notin Separators)
    BY <1>1 DEF Whitespace, Separators
  <2>2. Settled'
    BY <1>0, <2>1 DEF Settled, TypeInv, TypeOK
  <2>3. pos' \in Nat /\ pos <= pos'
    BY <1>0, <2>1
  <2> QED BY <2>1, <2>2, <2>3, GroupsSame
<1>2. CASE SkipWide
  <2>1. /\ UNCHANGED <<text, needSpace, tokenIds, words, owner, scan>> /\ pos' = pos + 1
        /\ pos <= Len(text) /\ text[pos] = "wide"
    BY <1>2 DEF SkipWide, Reading
  <2>2. text[pos] \notin {Space, "cut"} \cup PunctChars
    BY <2>1 DEF Space, PunctChars, PUNCT_TOKENS
  <2>3. Settled => Settled'
    BY <1>0, <2>1, <2>2 DEF Settled
  <2>4. pos' \in Nat /\ pos <= pos'
    BY <1>0, <2>1
  <2> QED BY <2>1, <2>3, <2>4, GroupsSame
<1>3. CASE \E to \in pos..Len(text) : SilentWord(to)
  <2>0. PICK to \in pos..Len(text) : SilentWord(to)
    BY <1>3
  <2>1. /\ UNCHANGED <<text, needSpace, tokenIds, words, owner, scan>> /\ pos' = to + 1
        /\ pos <= Len(text) /\ IsWord(pos, to)
    BY <2>0 DEF SilentWord, Reading
  <2>2. text[pos] \notin {Space, "cut"} \cup PunctChars
    <3>1. text[pos] \notin Wide /\ text[pos] \notin Breaks
      BY <1>0, <2>1 DEF IsWord
    <3> QED BY <3>1 DEF Wide, Breaks
  <2>3. Settled => Settled'
    BY <1>0, <2>1, <2>2 DEF Settled
  <2>4. pos' \in Nat /\ pos <= pos'
    BY <1>0, <2>1
  <2> QED BY <2>1, <2>3, <2>4, GroupsSame
<1> QED BY <1>1, <1>2, <1>3

(* A mark joins the group of the word before it.                           *)
LEMMA GroupsPunctuation ==
  ASSUME TypeInv, Framed, SpacesInv, GroupsInv, Punctuation PROVE GroupsInv'
<1> DEFINE n == Len(tokenIds)
<1>1. /\ n \in Nat \ {0} /\ Kept \in 1..n /\ Len(tokenIds') = Kept + 1
      /\ \A k \in 1..Kept : tokenIds'[k] = tokenIds[k] /\ owner'[k] = owner[k]
      /\ tokenIds'[Kept + 1] \in Marks /\ owner'[Kept + 1] = Len(words)
      /\ Last(tokenIds) = tokenIds[n]
  BY PunctuationFacts, TypeFacts, PunctTokenFacts, LastFacts DEF Punctuation
<1>2. /\ words' = words /\ text' = text /\ scan = "scanning" /\ scan' = scan
      /\ pos' = pos + 1 /\ pos \in 1..Len(text) /\ text[pos] \in PunctChars
      /\ Len(text) \in Nat /\ Len(words) \in Nat
  BY TypeFacts DEF Punctuation, Reading
<1>3. OwnerInv'
  BY <1>1, <1>2 DEF GroupsInv, OwnerInv
<1>4. ListedInv'
  <2> SUFFICES ASSUME OneGroupPronunciations, NEW w \in 1..Len(words) PROVE Spoken(w)'
    BY <1>2 DEF ListedInv, OneGroupPronunciations, OneGroup
  <2>1. PICK k \in 2..n :
          owner[k] = w /\ owner[k - 1] = w - 1 /\ tokenIds[k] \notin Separators
    BY <1>2 DEF GroupsInv, ListedInv, Spoken
  <2>2. Kept = n \/ (Kept + 1 = n /\ tokenIds[n] = SPACE_TOKEN)
    BY KeptNoSpace DEF SpacesInv
  <2>3. k # n \/ Kept = n
    BY <2>1, <2>2, MarkFacts
  <2>4. k \in 1..Kept /\ k - 1 \in 1..Kept /\ k \in 2..Len(tokenIds')
    BY <1>1, <2>2, <2>3
  <2>5. tokenIds'[k] = tokenIds[k] /\ owner'[k] = owner[k] /\ owner'[k - 1] = owner[k - 1]
    BY <1>1, <2>4
  <2> QED BY <2>1, <2>4, <2>5 DEF Spoken
<1>5. AlignInv'
  <2> SUFFICES ASSUME OneGroupPronunciations, WellSpaced' PROVE Aligned' /\ Settled'
    BY <1>2 DEF AlignInv, OneGroupPronunciations, OneGroup
  <2>1. Aligned /\ SpaceInv
    <3>1. WellSpaced
      BY <1>2, WellSpacedBefore
    <3> QED BY <3>1 DEF GroupsInv, AlignInv, SpacesInv
  <2>2. /\ words # <<>>
        /\ pos < Len(text) => text[pos + 1] \in {Space, "cut"} \cup PunctChars
    <3>1. pos \in 1..(pos' - 1) /\ pos <= Len(text')
      BY <1>2
    <3> QED BY <1>2, <3>1 DEF WellSpaced
  <2>3. tokenIds[n] # PAD_TOKEN
    <3>1. owner[n] # owner[1]
      BY <1>2, <2>2, TypeFacts DEF GroupsInv, OwnerInv
    <3>2. n # 1 /\ n \in 1..Len(tokenIds)
      BY <1>1, <3>1
    <3> QED BY <1>2, <3>2 DEF Framed
  <2>4. tokenIds[Kept] \notin Separators /\ owner[Kept] = Len(words)
    <3>1. CASE Kept = n
      BY <2>1, <2>3, <3>1, KeptNoSpace DEF GroupsInv, OwnerInv, Separators
    <3>2. CASE Kept + 1 = n /\ tokenIds[n] = SPACE_TOKEN /\ tokenIds[Kept] \notin Separators
      <4>1. n \in 2..n /\ n - 1 = Kept
        BY <1>1, <3>2
      <4>2. ~Opens(n)
        BY <3>2, MarkFacts DEF Opens
      <4>3. owner[n] = owner[n - 1] + 0
        BY <2>1, <3>2, <4>1, <4>2, MarkFacts DEF Aligned
      <4>4. owner[Kept] \in Nat /\ owner[n] = Len(words)
        BY <1>1, TypeFacts DEF GroupsInv, OwnerInv
      <4> QED BY <3>2, <4>1, <4>3, <4>4
    <3> QED BY <2>1, <3>1, <3>2, KeptNoSpace
  <2>5. ASSUME NEW k \in 2..Len(tokenIds'), tokenIds'[k] # PAD_TOKEN
        PROVE  owner'[k] = owner'[k - 1] + (IF Opens(k)' THEN 1 ELSE 0)
    <3>1. CASE k = Kept + 1
      <4>1. k - 1 = Kept /\ Kept \in 1..Kept
        BY <1>1, <3>1
      <4>2. tokenIds'[k - 1] = tokenIds[Kept] /\ owner'[k - 1] = owner[Kept]
        BY <1>1, <4>1
      <4>3. ~Opens(k)'
        BY <2>4, <4>2 DEF Opens
      <4> QED BY <1>1, <1>2, <2>4, <3>1, <4>2, <4>3
    <3>2. CASE k \in 2..Kept
      <4>1. k \in 1..Kept /\ k - 1 \in 1..Kept /\ k \in 2..n
        BY <1>1, <3>2
      <4>2. /\ tokenIds'[k] = tokenIds[k] /\ tokenIds'[k - 1] = tokenIds[k - 1]
            /\ owner'[k] = owner[k] /\ owner'[k - 1] = owner[k - 1]
        BY <1>1, <4>1
      <4>3. Opens(k)' <=> Opens(k)
        BY <2>5, <4>1, <4>2 DEF Opens
      <4> QED BY <2>1, <2>5, <4>1, <4>2, <4>3 DEF Aligned
    <3> QED BY <1>1, <3>1, <3>2
  <2>6. Settled'
    <3>1. pos' <= Len(text) => text[pos'] \in {Space, "cut"} \cup PunctChars
      BY <1>2, <2>2
    <3> QED BY <1>2, <3>1 DEF Settled
  <2> QED BY <2>5, <2>6 DEF Aligned
<1> QED BY <1>3, <1>4, <1>5 DEF GroupsInv

(* A word with tokens opens a group of its own, the last one.              *)
LEMMA GroupsVoicedWord ==
  ASSUME TypeInv, Framed, SpacesInv, GroupsInv,
         NEW to \in pos..Len(text), NEW toks \in WordToTokens(pos, to), VoicedWord(to, toks)
  PROVE  GroupsInv'
<1> DEFINE n == Len(tokenIds)
           s == Len(Separator)
           m == Len(toks)
           v == Len(words)
<1>1. /\ n \in Nat \ {0} /\ s \in {0, 1} /\ m \in Nat \ {0} /\ v \in Nat
      /\ Len(tokenIds') = n + s + m /\ Len(words') = v + 1
      /\ \A k \in 1..n : tokenIds'[k] = tokenIds[k] /\ owner'[k] = owner[k]
      /\ \A k \in 1..s : tokenIds'[n + k] = SPACE_TOKEN /\ owner'[n + k] = v
      /\ \A k \in 1..m : tokenIds'[n + s + k] = toks[k] /\ owner'[n + s + k] = v + 1
  BY TypeFacts, VoicedWordFacts
<1>2. /\ text' = text /\ scan = "scanning" /\ scan' = scan
      /\ words' = Append(words, <<pos, to>>) /\ pos' = to + 1
      /\ pos \in 1..Len(text) /\ Len(text) \in Nat /\ to \in pos..Len(text)
      /\ IsWord(pos, to) /\ toks # <<>>
      /\ s = IF needSpace /\ Last(tokenIds) # PAD_TOKEN THEN 1 ELSE 0
  BY TypeFacts DEF VoicedWord, Reading, Separator
<1>3. owner[1] = 0 /\ owner[n] = v /\ Last(tokenIds) = tokenIds[n]
  BY LastFacts DEF GroupsInv, OwnerInv
<1> HIDE DEF n, s, m, v
<1>4. /\ n \in Nat /\ s \in Nat /\ m \in Nat
      /\ n \in 1..n /\ 1 \in 1..n /\ 1 \in 1..m /\ m \in 1..m
  BY <1>1
<1>5. tokenIds'[n + s + 1] = toks[1] /\ owner'[n + s + 1] = v + 1 /\ owner'[n + s] = v
  <2>1. owner'[n + s] = v
    <3>1. CASE s = 0
      <4>1. n + s = n
        BY <1>4, <3>1
      <4> QED BY <1>1, <1>3, <1>4, <4>1
    <3>2. CASE s = 1
      <4>1. 1 \in 1..s /\ n + s = n + 1
        BY <3>2
      <4> QED BY <1>1, <4>1
    <3> QED BY <1>1, <3>1, <3>2
  <2> QED BY <1>1, <1>4, <2>1
<1>6. OwnerInv'
  <2>1. owner'[1] = 0 /\ owner'[n + s + m] = v + 1
    BY <1>1, <1>3, <1>4
  <2> QED BY <1>1, <2>1 DEF OwnerInv
<1>7. ListedInv'
  <2> SUFFICES ASSUME OneGroupPronunciations, NEW w \in 1..(v + 1) PROVE Spoken(w)'
    BY <1>1 DEF ListedInv, OneGroupPronunciations, OneGroup
  <2>1. CASE w \in 1..v
    <3>1. PICK k \in 2..n :
            owner[k] = w /\ owner[k - 1] = w - 1 /\ tokenIds[k] \notin Separators
      BY <1>2, <2>1 DEF GroupsInv, ListedInv, Spoken, n, v
    <3>2. k \in 1..n /\ k - 1 \in 1..n /\ k \in 2..(n + s + m)
      BY <1>4
    <3>3. tokenIds'[k] = tokenIds[k] /\ owner'[k] = owner[k] /\ owner'[k - 1] = owner[k - 1]
      BY <1>1, <3>2
    <3> QED BY <1>1, <3>1, <3>2, <3>3 DEF Spoken
  <2>2. CASE w = v + 1
    <3> DEFINE k == n + s + 1
    <3>1. k \in 2..(n + s + m) /\ k - 1 = n + s
      BY <1>1, <1>4
    <3>2. toks[1] \notin Separators
      BY <1>2, OneGroupFacts
    <3>3. w - 1 = v
      BY <1>1, <2>2
    <3>4. owner'[k] = w /\ owner'[k - 1] = w - 1 /\ tokenIds'[k] \notin Separators
      BY <1>5, <2>2, <3>1, <3>2, <3>3
    <3> HIDE DEF k
    <3> QED BY <1>1, <3>1, <3>4 DEF Spoken
  <2> QED BY <1>1, <2>1, <2>2
<1>8. AlignInv'
  <2> SUFFICES ASSUME OneGroupPronunciations, WellSpaced' PROVE Aligned' /\ Settled'
    BY <1>2 DEF AlignInv, OneGroupPronunciations, OneGroup
  <2>1. Aligned /\ Settled /\ SpaceInv
    <3>1. pos' \in Nat /\ pos <= pos' /\ to \in Nat
      BY <1>2
    <3>2. WellSpaced
      BY <1>2, <3>1, WellSpacedBefore
    <3> QED BY <1>2, <3>2 DEF GroupsInv, AlignInv, SpacesInv
  <2>2. text[pos] \notin {Space, "cut"} \cup PunctChars
    <3>1. text[pos] \notin Wide /\ text[pos] \notin Breaks
      BY <1>2 DEF IsWord
    <3> QED BY <3>1 DEF Wide, Breaks
  <2>3. \/ s = 1 /\ tokenIds[n] \notin Separators
        \/ s = 0 /\ tokenIds[n] \in Separators
    <3>1. CASE needSpace
      <4>1. tokenIds[n] \notin Separators
        BY <1>2, <1>3, <2>1, <3>1 DEF SpaceInv, Asked
      <4> QED BY <1>2, <1>3, <3>1, <4>1, MarkFacts
    <3>2. CASE ~needSpace
      <4>1. Last(tokenIds) \in Separators
        BY <1>2, <2>1, <2>2, <3>2 DEF Settled
      <4> QED BY <1>2, <1>3, <3>2, <4>1
    <3> QED BY <3>1, <3>2
  <2>4. toks[1] \notin Separators /\ \A k \in 1..(m - 1) : toks[k] \notin Separators
    BY <1>2, OneGroupFacts DEF m
  <2>5. ASSUME NEW k \in 2..(n + s + m), tokenIds'[k] # PAD_TOKEN
        PROVE  owner'[k] = owner'[k - 1] + (IF Opens(k)' THEN 1 ELSE 0)
    <3>0. Opens(k)' <=> tokenIds'[k] \notin Separators /\ tokenIds'[k - 1] \in Separators
      BY <1>1 DEF Opens
    <3>1. CASE k \in 2..n
      <4>1. k \in 1..n /\ k - 1 \in 1..n
        BY <1>4, <3>1
      <4>2. /\ tokenIds'[k] = tokenIds[k] /\ tokenIds'[k - 1] = tokenIds[k - 1]
            /\ owner'[k] = owner[k] /\ owner'[k - 1] = owner[k - 1]
        BY <1>1, <4>1
      <4>3. Opens(k)' <=> Opens(k)
        BY <3>0, <3>1, <4>2 DEF Opens, n
      <4> QED BY <2>1, <2>5, <3>1, <4>2, <4>3 DEF Aligned, n
    <3>2. CASE s = 1 /\ k = n + 1
      <4>1. k - 1 = n /\ 1 \in 1..s
        BY <1>4, <3>2
      <4>2. tokenIds'[k] = SPACE_TOKEN /\ owner'[k] = v /\ owner'[k - 1] = v
        BY <1>1, <1>3, <1>4, <3>2, <4>1
      <4>3. ~Opens(k)'
        BY <3>0, <4>2, MarkFacts
      <4> QED BY <1>1, <4>2, <4>3
    <3>3. CASE k = n + s + 1
      <4>1. k - 1 = n + s
        BY <1>4, <3>3
      <4>2. tokenIds'[k - 1] \in Separators
        <5>1. CASE s = 1
          <6>1. 1 \in 1..s /\ n + s = n + 1
            BY <5>1
          <6> QED BY <1>1, <4>1, <6>1, MarkFacts
        <5>2. CASE s = 0
          <6>1. n + s = n
            BY <1>4, <5>2
          <6> QED BY <1>1, <1>4, <2>3, <4>1, <5>2, <6>1
        <5> QED BY <1>1, <5>1, <5>2
      <4>3. Opens(k)'
        BY <1>5, <2>4, <3>0, <3>3, <4>2
      <4> QED BY <1>5, <3>3, <4>1, <4>3
    <3>4. CASE k - (n + s) \in 2..m
      <4> DEFINE j == k - (n + s)
      <4>1. /\ j \in 1..m /\ j - 1 \in 1..m /\ j - 1 \in 1..(m - 1)
            /\ k = n + s + j /\ k - 1 = n + s + (j - 1)
        BY <1>4, <3>4
      <4>2. /\ tokenIds'[n + s + (j - 1)] = toks[j - 1]
            /\ owner'[n + s + j] = v + 1 /\ owner'[n + s + (j - 1)] = v + 1
        BY <1>1, <4>1
      <4>3. toks[j - 1] \notin Separators
        BY <2>4, <4>1
      <4> HIDE DEF j
      <4>4. ~Opens(k)'
        BY <3>0, <4>1, <4>2, <4>3
      <4> QED BY <1>1, <4>1, <4>2, <4>4
    <3>5. k \in 2..n \/ (s = 1 /\ k = n + 1) \/ k = n + s + 1 \/ k - (n + s) \in 2..m
      <4>1. s \in {0, 1} /\ k \in 2..(n + s + m)
        BY <1>1
      <4> QED BY <1>4, <4>1
    <3> QED BY <3>1, <3>2, <3>3, <3>4, <3>5
  <2>6. Settled'
    <3>1. pos' <= Len(text) => text[pos'] \in Breaks
      BY <1>2 DEF IsWord
    <3> QED BY <1>2, <3>1 DEF Settled, Breaks
  <2>7. Aligned'
    BY <1>1, <2>5 DEF Aligned
  <2> QED BY <2>6, <2>7
<1> QED BY <1>6, <1>7, <1>8 DEF GroupsInv

(* The cut only takes words away, the last pad belongs to the last.        *)
LEMMA GroupsFinish ==
  ASSUME TypeInv, GroupsInv, Finish PROVE GroupsInv'
<1> DEFINE n == Len(tokenIds)
<1>1. /\ n \in Nat \ {0} /\ Fit \in 1..n /\ Len(tokenIds') = Fit + 1
      /\ \A k \in 1..Fit : tokenIds'[k] = tokenIds[k] /\ owner'[k] = owner[k]
      /\ tokenIds'[Fit + 1] = PAD_TOKEN /\ owner'[Fit + 1] = Len(words)
  BY FinishFacts, TypeFacts
<1>2. /\ UNCHANGED <<text, pos, words>> /\ scan = "scanning" /\ scan' = "done"
      /\ Len(words) \in Nat /\ pos \in Nat
  BY TypeFacts DEF Finish
<1>3. OwnerInv'
  BY <1>1, <1>2 DEF GroupsInv, OwnerInv
<1>4. ListedInv'
  <2> SUFFICES ASSUME OneGroupPronunciations, Len(tokenIds') < TokenCap,
                      NEW w \in 1..Len(words)
               PROVE  Spoken(w)'
    BY <1>2 DEF ListedInv, OneGroupPronunciations, OneGroup
  <2>1. PICK k \in 2..n :
          owner[k] = w /\ owner[k - 1] = w - 1 /\ tokenIds[k] \notin Separators
    BY <1>2 DEF GroupsInv, ListedInv, Spoken
  <2>2. Fit = n
    BY <1>1, TokenCapAssumption DEF Fit
  <2>3. k \in 1..Fit /\ k - 1 \in 1..Fit /\ k \in 2..Len(tokenIds')
    BY <1>1, <2>2
  <2>4. tokenIds'[k] = tokenIds[k] /\ owner'[k] = owner[k] /\ owner'[k - 1] = owner[k - 1]
    BY <1>1, <2>3
  <2> QED BY <2>1, <2>3, <2>4 DEF Spoken
<1>5. AlignInv'
  <2> SUFFICES ASSUME OneGroupPronunciations, WellSpaced' PROVE Aligned'
    BY <1>2 DEF AlignInv, OneGroupPronunciations, OneGroup
  <2>1. Aligned
    <3>1. WellSpaced
      BY <1>2, WellSpacedBefore
    <3> QED BY <3>1 DEF GroupsInv, AlignInv
  <2>2. ASSUME NEW k \in 2..Len(tokenIds'), tokenIds'[k] # PAD_TOKEN
        PROVE  owner'[k] = owner'[k - 1] + (IF Opens(k)' THEN 1 ELSE 0)
    <3>1. k \in 1..Fit /\ k - 1 \in 1..Fit /\ k \in 2..n
      <4>1. k # Fit + 1
        BY <1>1, <2>2
      <4>2. n \in Nat /\ Fit \in 1..n /\ k \in 2..(Fit + 1)
        BY <1>1
      <4> HIDE DEF n
      <4> QED BY <4>1, <4>2
    <3>2. /\ tokenIds'[k] = tokenIds[k] /\ tokenIds'[k - 1] = tokenIds[k - 1]
          /\ owner'[k] = owner[k] /\ owner'[k - 1] = owner[k - 1]
      BY <1>1, <3>1
    <3>3. Opens(k)' <=> Opens(k)
      BY <3>1, <3>2, <2>2 DEF Opens
    <3> QED BY <2>1, <2>2, <3>1, <3>2, <3>3 DEF Aligned
  <2> QED BY <2>2 DEF Aligned
<1> QED BY <1>3, <1>4, <1>5 DEF GroupsInv

(* Every step keeps the groups.                                            *)
LEMMA GroupsStep ==
  ASSUME TypeInv, Framed, SpacesInv, GroupsInv, [Next]_vars PROVE GroupsInv'
<1>1. CASE Whitespace \/ SkipWide
  BY <1>1, GroupsQuiet
<1>2. CASE Punctuation BY <1>2, GroupsPunctuation
<1>3. CASE Word
  <2>1. PICK to \in pos..Len(text) : \E toks \in WordToTokens(pos, to) :
          IF toks = <<>> THEN SilentWord(to) ELSE VoicedWord(to, toks)
    BY <1>3 DEF Word
  <2>2. PICK toks \in WordToTokens(pos, to) :
          IF toks = <<>> THEN SilentWord(to) ELSE VoicedWord(to, toks)
    BY <2>1
  <2> QED BY <2>2, GroupsQuiet, GroupsVoicedWord
<1>4. CASE Finish BY <1>4, GroupsFinish
<1>5. CASE UNCHANGED vars
  <2>1. /\ UNCHANGED <<text, tokenIds, words, owner, scan, pos, needSpace>>
        /\ pos \in Nat
    BY <1>5, TypeFacts DEF vars
  <2>2. Settled => Settled'
    BY <2>1 DEF Settled, Last
  <2> QED BY <2>1, <2>2, GroupsSame
<1> QED BY <1>1, <1>2, <1>3, <1>4, <1>5 DEF Next

(* There are none at the start.                                            *)
LEMMA GroupsInit == Init => GroupsInv
<1> SUFFICES ASSUME Init PROVE GroupsInv
  OBVIOUS
<1>1. tokenIds = <<PAD_TOKEN>> /\ words = <<>> /\ owner = <<0>>
  BY DEF Init, Start
<1>2. OwnerInv /\ ListedInv /\ Aligned
  BY <1>1 DEF OwnerInv, ListedInv, Aligned
<1>3. Settled
  BY <1>1, MarkFacts DEF Settled, Last
<1> QED BY <1>2, <1>3 DEF GroupsInv, AlignInv

(* The groups are kept in every state.                                     *)
LEMMA GroupsInvariance == Spec => []GroupsInv
<1>1. Init => GroupsInv
  BY GroupsInit
<1>2. TypeInv /\ Framed /\ SpacesInv /\ GroupsInv /\ [Next]_vars => GroupsInv'
  BY GroupsStep
<1> QED BY <1>1, <1>2, TypeInvariance, FrameCorrect, SpaceInvariance, PTL DEF Spec

(* Whatever the text, where its marks stand as in prose and each           *)
(* pronunciation is one group: the n-th group of tokens is the n-th listed *)
(* word's.                                                                 *)
THEOREM AlignedCorrect == Spec => []AlignedWhenWellSpaced
<1>1. GroupsInv => AlignedWhenWellSpaced
  BY DEF GroupsInv, AlignInv, AlignedWhenWellSpaced
<1> QED BY <1>1, GroupsInvariance, PTL

(* Every listed word has a token of its own, if the cap cuts nothing off.  *)
THEOREM ListedCorrect == Spec => []ListedWordsAreSpoken
<1>1. TypeInv /\ GroupsInv => ListedWordsAreSpoken
  <2> SUFFICES ASSUME TypeInv, GroupsInv, OneGroupPronunciations, Len(tokenIds) < TokenCap,
                      NEW w \in 1..Len(words)
               PROVE  \E i \in 1..Len(tokenIds) :
                        owner[i] = w /\ owner[i - 1] = w - 1 /\ tokenIds[i] # PAD_TOKEN
    BY DEF ListedWordsAreSpoken
  <2>1. PICK k \in 2..Len(tokenIds) :
          owner[k] = w /\ owner[k - 1] = w - 1 /\ tokenIds[k] \notin Separators
    BY DEF GroupsInv, ListedInv, Spoken
  <2>2. k \in 1..Len(tokenIds) /\ tokenIds[k] # PAD_TOKEN
    BY <2>1, TypeFacts, MarkFacts
  <2> QED BY <2>1, <2>2
<1> QED BY <1>1, TypeInvariance, GroupsInvariance, PTL

-----------------------------------------------------------------------------
(* What holds of a sentence, for the request it is part of                 *)

\* The words are listed in the order they start at, each at a character that
\* is no blank and no mark.
StartsInv ==
  /\ \A k \in 1..Len(words) :
       /\ words[k][1] \in 1..Len(text) /\ words[k][1] < pos
       /\ text[words[k][1]] \notin Wide \cup Breaks
  /\ \A j, k \in 1..Len(words) : j < k => words[j][1] < words[k][1]

(* A word that is listed starts after those before it.                     *)
LEMMA StartsVoicedWord ==
  ASSUME TypeInv, StartsInv, NEW to \in pos..Len(text), NEW toks, VoicedWord(to, toks)
  PROVE  StartsInv'
<1>1. /\ words \in Seq(Nat \X Nat) /\ pos \in Nat /\ pos >= 1 /\ Len(text) \in Nat
      /\ to \in Nat /\ pos <= to /\ to <= Len(text) /\ Len(words) \in Nat
  BY TypeFacts DEF TypeInv, TypeOK
<1>2. /\ text' = text /\ pos' = to + 1 /\ words' = Append(words, <<pos, to>>)
      /\ text[pos] \notin Wide \cup Breaks
  BY <1>1 DEF VoicedWord, IsWord
<1>3. /\ Len(words') = Len(words) + 1
      /\ \A k \in 1..Len(words) : words'[k] = words[k]
      /\ words'[Len(words) + 1] = <<pos, to>>
  <2>1. <<pos, to>> \in Nat \X Nat
    BY <1>1
  <2> QED BY <1>1, <1>2, <2>1
<1>4. ASSUME NEW k \in 1..Len(words'), k # Len(words) + 1
      PROVE  k \in 1..Len(words) /\ words'[k] = words[k]
  <2>1. k \in 1..(Len(words) + 1)
    BY <1>3, <1>4
  <2>2. k \in 1..Len(words)
    BY <1>1, <1>4, <2>1
  <2> QED BY <1>3, <2>2
<1>5. ASSUME NEW k \in 1..Len(words)
      PROVE  words[k][1] \in 1..Len(text) /\ words[k][1] < pos
  BY DEF StartsInv
<1>6. ASSUME NEW k \in 1..Len(words')
      PROVE  /\ words'[k][1] \in 1..Len(text') /\ words'[k][1] < pos'
             /\ text'[words'[k][1]] \notin Wide \cup Breaks
  <2>1. CASE k = Len(words) + 1
    BY <1>1, <1>2, <1>3, <2>1
  <2>2. CASE k # Len(words) + 1
    <3>1. k \in 1..Len(words) /\ words'[k] = words[k]
      BY <1>4, <2>2
    <3>2. /\ words[k][1] \in 1..Len(text) /\ words[k][1] < pos
          /\ text[words[k][1]] \notin Wide \cup Breaks
      BY <3>1 DEF StartsInv
    <3> QED BY <1>1, <1>2, <3>1, <3>2
  <2> QED BY <2>1, <2>2
<1>7. ASSUME NEW j \in 1..Len(words'), NEW k \in 1..Len(words'), j < k
      PROVE  words'[j][1] < words'[k][1]
  <2>1. j \in 1..Len(words) /\ words'[j] = words[j]
    <3>1. j # Len(words) + 1
      BY <1>1, <1>3, <1>7
    <3> QED BY <1>4, <3>1
  <2>2. CASE k = Len(words) + 1
    BY <1>3, <1>5, <2>1, <2>2
  <2>3. CASE k # Len(words) + 1
    BY <1>4, <1>7, <2>1, <2>3 DEF StartsInv
  <2> QED BY <2>2, <2>3
<1> QED BY <1>6, <1>7 DEF StartsInv

(* Nothing else lists a word, and no step goes back.                       *)
LEMMA StartsStep ==
  ASSUME TypeInv, StartsInv, [Next]_vars PROVE StartsInv'
<1>1. pos \in Nat /\ Len(text) \in Nat /\ words \in Seq(Nat \X Nat)
  BY TypeFacts DEF TypeInv, TypeOK
<1>2. ASSUME UNCHANGED <<text, words>>, pos' \in Nat, pos <= pos' PROVE StartsInv'
  <2>1. ASSUME NEW k \in 1..Len(words)
        PROVE  /\ words[k][1] \in 1..Len(text) /\ words[k][1] < pos'
               /\ text[words[k][1]] \notin Wide \cup Breaks
    <3>1. /\ words[k][1] \in 1..Len(text) /\ words[k][1] < pos
          /\ text[words[k][1]] \notin Wide \cup Breaks
      BY DEF StartsInv
    <3> QED BY <1>1, <1>2, <3>1
  <2> QED BY <1>2, <2>1 DEF StartsInv
<1>3. CASE Whitespace \/ Punctuation \/ SkipWide
  <2>1. UNCHANGED <<text, words>> /\ pos' = pos + 1
    BY <1>3 DEF Whitespace, Punctuation, SkipWide
  <2> QED BY <1>1, <1>2, <2>1
<1>4. CASE Finish \/ UNCHANGED vars
  <2>1. UNCHANGED <<text, words, pos>>
    BY <1>4 DEF Finish, vars
  <2> QED BY <1>1, <1>2, <2>1
<1>5. CASE Word
  <2>1. PICK to \in pos..Len(text) : \E toks \in WordToTokens(pos, to) :
          IF toks = <<>> THEN SilentWord(to) ELSE VoicedWord(to, toks)
    BY <1>5 DEF Word
  <2>2. PICK toks \in WordToTokens(pos, to) :
          IF toks = <<>> THEN SilentWord(to) ELSE VoicedWord(to, toks)
    BY <2>1
  <2>3. CASE SilentWord(to)
    <3>1. UNCHANGED <<text, words>> /\ pos' = to + 1
      BY <2>3 DEF SilentWord
    <3> QED BY <1>1, <1>2, <3>1
  <2> QED BY <2>2, <2>3, StartsVoicedWord
<1> QED BY <1>3, <1>4, <1>5 DEF Next

SentenceInv == TypeInv /\ Framed /\ SpacesInv /\ GroupsInv /\ StartsInv

(* All of it holds when the text is given.                                 *)
LEMMA SentenceInit == Init => SentenceInv
<1>1. Init => words = <<>>
  BY DEF Init, Start
<1>2. Init => StartsInv
  BY <1>1 DEF StartsInv
<1> QED BY <1>2, TypeInit, FramedInit, SpacesInit, GroupsInit DEF SentenceInv

(* Every step keeps all of it.                                             *)
LEMMA SentenceStep ==
  ASSUME SentenceInv, [Next]_vars PROVE SentenceInv'
BY TypeStep, FramedStep, SpacesStep, GroupsStep, StartsStep DEF SentenceInv

-----------------------------------------------------------------------------
(* The pass cannot run for ever                                            *)

\* What is left to do: the characters not yet read, and the trailing pad.
Remaining == (Len(text) + 1 - pos) + (IF scan = "scanning" THEN 1 ELSE 0)

RemainingFalls == Remaining \in Nat /\ Remaining' \in 0..(Remaining - 1)

(* One branch of the loop: each steps over at least one character and past *)
(* none that is not there, and the pad is pushed once.                     *)
LEMMA RemainingStep ==
  ASSUME TypeInv, Next PROVE RemainingFalls
<1>1. /\ Len(text) \in Nat /\ pos \in Nat /\ pos <= Len(text) + 1
      /\ scan \in {"scanning", "done"}
  BY TypeFacts DEF TypeInv, TypeOK
<1>2. ASSUME UNCHANGED <<text, scan>>, pos' \in (pos + 1)..(Len(text) + 1)
      PROVE  RemainingFalls
  <2>1. CASE scan = "scanning"
    BY <1>1, <1>2, <2>1 DEF RemainingFalls, Remaining
  <2>2. CASE scan # "scanning"
    BY <1>1, <1>2, <2>2 DEF RemainingFalls, Remaining
  <2> QED BY <2>1, <2>2
<1>3. CASE Whitespace \/ Punctuation \/ SkipWide
  <2>1. pos <= Len(text) /\ pos' = pos + 1 /\ UNCHANGED <<text, scan>>
    BY <1>3 DEF Whitespace, Punctuation, SkipWide, Reading
  <2> QED BY <1>1, <1>2, <2>1
<1>4. CASE Word
  <2>1. PICK to \in pos..Len(text) : \E toks \in WordToTokens(pos, to) :
          IF toks = <<>> THEN SilentWord(to) ELSE VoicedWord(to, toks)
    BY <1>4 DEF Word
  <2>2. pos' = to + 1 /\ UNCHANGED <<text, scan>>
    BY <2>1 DEF SilentWord, VoicedWord
  <2> QED BY <1>1, <1>2, <2>1, <2>2
<1>5. CASE Finish
  <2>1. scan = "scanning" /\ UNCHANGED <<text, pos>> /\ scan' = "done"
    BY <1>5 DEF Finish
  <2>2. /\ Remaining = (Len(text) + 1 - pos) + 1
        /\ Remaining' = (Len(text) + 1 - pos) + 0
    BY <2>1 DEF Remaining
  <2> QED BY <1>1, <2>2 DEF RemainingFalls
<1> QED BY <1>3, <1>4, <1>5 DEF Next

(* Every branch of the loop consumes input, so that a pass takes no more   *)
(* steps than the text has characters, and one (the while loop of          *)
(* G2P::text_to_tokens_ex and the pad pushed after it).                    *)
THEOREM PassIsBounded == Spec => [][RemainingFalls]_vars
<1>1. TypeInv /\ [Next]_vars => [RemainingFalls]_vars
  BY RemainingStep
<1> QED BY <1>1, TypeInvariance, PTL DEF Spec
=============================================================================
