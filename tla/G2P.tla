-------------------------------- MODULE G2P --------------------------------
(***************************************************************************)
(* The main loop of the grapheme-to-phoneme front end: one left-to-right   *)
(* pass over the normalized text that emits the padded token sequence fed  *)
(* to the model and, beside it, the list of words that label it            *)
(* (G2P::text_to_tokens_ex in src/misaki/g2p.cpp).                         *)
(*                                                                         *)
(* The two outputs are only tied together by a convention: a SPACE token   *)
(* between two groups of tokens means "next word".  The caller that turns  *)
(* token times into word times relies on nothing else.                     *)
(*                                                                         *)
(* A character is the name of its class ("letter", "symbol", "space",      *)
(* "wide", "cut") or of a punctuation mark:                                *)
(*   letter   an ASCII letter or an apostrophe, what strip_punct keeps;    *)
(*   symbol   any other ASCII character that is no space and no mark;      *)
(*   wide     a multi-byte character that is no mark;                      *)
(*   cut      a multi-byte character whose bytes run past the end.         *)
(***************************************************************************)
EXTENDS Vocab, Integers, SequencesExt

CONSTANTS
  Texts,           \* the texts TextNormalizer may return
  Pronunciations,  \* the token sequences a word may be pronounced as
  TokenCap         \* the longest token sequence the model takes (512)

Space     == "space"
Wide      == {"wide", "cut"} \cup WidePunctChars   \* first byte >= 0x80
Chars     == {"letter", "symbol", "space", "wide", "cut"} \cup PunctChars

\* What TextNormalizer::normalize_whitespace guarantees, and UTF-8 with
\* nothing after a character that runs past the end: the texts that come up.
IsNormalized(t) ==
  \A k \in 1..Len(t) :
    /\ t[k] = Space => k \in 2..(Len(t) - 1) /\ t[k + 1] # Space
    /\ t[k] = "cut" => k = Len(t)

ASSUME TextsAssumption == Texts \subseteq Seq(Chars)
ASSUME PronunciationsAssumption ==
  Pronunciations \subseteq Seq(Nat \ {PAD_TOKEN})
ASSUME TokenCapAssumption == TokenCap \in Nat /\ TokenCap >= 2

VARIABLES
  text,       \* the normalized text
  pos,        \* 1-based index of the next character
  needSpace,  \* need_space: a space was seen since the last token
  tokenIds,   \* out.token_ids
  words,      \* out.words, a word being the <<first, last>> of its characters
  owner,      \* history: per token, how many words were listed at its emission
  scan        \* "scanning" or "done"

vars == <<text, pos, needSpace, tokenIds, words, owner, scan>>

Constantly(w, n) == [k \in 1..n |-> w]

Start(t) ==
  /\ text = t
  /\ pos = 1
  /\ needSpace = FALSE
  /\ tokenIds = <<PAD_TOKEN>>
  /\ words = <<>>
  /\ owner = <<0>>
  /\ scan = "scanning"

Init == \E t \in Texts : Start(t)

Reading == scan = "scanning" /\ pos <= Len(text)

-----------------------------------------------------------------------------
(* What a word is and how it may be pronounced                             *)

\* The characters that end a word: the inner loop steps over every
\* multi-byte character, punctuation marks included.
Breaks == {Space} \cup (PunctChars \ WidePunctChars)

\* A word is looked up from its letters alone; without letters, or when
\* neither the dictionary nor espeak knows it, it has no tokens.
WordToTokens(from, to) ==
  IF \E k \in from..to : text[k] = "letter" THEN Pronunciations ELSE {<<>>}

IsWord(from, to) ==
  /\ from <= to
  /\ text[from] \notin Wide
  /\ \A k \in from..to : text[k] \notin Breaks
  /\ to < Len(text) => text[to + 1] \in Breaks

-----------------------------------------------------------------------------
(* Seeded faults: what a slip in the loop would make of a branch.  Nothing *)
(* uses them but the runs that show a property notices the slip.           *)

\* need_space only set after a phoneme, not after a mark.
WhitespaceNotAfterMarks ==
  /\ Reading /\ text[pos] = Space
  /\ needSpace' = (Last(tokenIds) > 15)
  /\ pos' = pos + 1
  /\ UNCHANGED <<text, tokenIds, words, owner, scan>>

\* No pop_back before a mark.
KeptAll == Len(tokenIds)

\* The wrong sequence length for a multi-byte character.
SkipWideAndNext ==
  /\ Reading /\ text[pos] = "wide"
  /\ pos' = pos + 2
  /\ UNCHANGED <<text, needSpace, tokenIds, words, owner, scan>>

\* `continue` before `pos += len`.
SkipWideNever ==
  /\ Reading /\ text[pos] = "wide"
  /\ UNCHANGED vars

\* words.push_back outside of `if (!toks.empty())`.
SilentWordListed(to) ==
  /\ Reading /\ IsWord(pos, to)
  /\ words' = Append(words, <<pos, to>>)
  /\ pos' = to + 1
  /\ UNCHANGED <<text, needSpace, tokenIds, owner, scan>>

\* `>` for `>=` in the test of the cap.
FitOneMore == IF Len(tokenIds) > TokenCap THEN TokenCap - 1 ELSE Len(tokenIds)

-----------------------------------------------------------------------------
(* One action per branch of the loop                                       *)

Whitespace ==
  /\ Reading /\ text[pos] = Space
  /\ needSpace' = (needSpace \/ Last(tokenIds) \notin {PAD_TOKEN, SPACE_TOKEN})
  /\ pos' = pos + 1
  /\ UNCHANGED <<text, tokenIds, words, owner, scan>>

\* How many tokens survive when a trailing SPACE gives way to a mark.
Kept == IF Last(tokenIds) = SPACE_TOKEN THEN Len(tokenIds) - 1 ELSE Len(tokenIds)

Punctuation ==
  /\ Reading /\ text[pos] \in PunctChars
  /\ tokenIds' = Append(SubSeq(tokenIds, 1, Kept), PUNCT_TOKENS[text[pos]])
  /\ owner' = Append(SubSeq(owner, 1, Kept), Len(words))
  /\ needSpace' = FALSE
  /\ pos' = pos + 1
  /\ UNCHANGED <<text, words, scan>>

SkipWide ==
  /\ Reading /\ text[pos] = "wide"
  /\ pos' = pos + 1
  /\ UNCHANGED <<text, needSpace, tokenIds, words, owner, scan>>

\* The separator a voiced word is preceded by.
Separator ==
  IF needSpace /\ Last(tokenIds) # PAD_TOKEN THEN <<SPACE_TOKEN>> ELSE <<>>

VoicedWord(to, toks) ==
  /\ Reading /\ IsWord(pos, to) /\ toks # <<>>
  /\ tokenIds' = tokenIds \o Separator \o toks
  /\ owner' = owner \o Constantly(Len(words), Len(Separator))
                    \o Constantly(Len(words) + 1, Len(toks))
  /\ words' = Append(words, <<pos, to>>)
  /\ needSpace' = FALSE
  /\ pos' = to + 1
  /\ UNCHANGED <<text, scan>>

SilentWord(to) ==
  /\ Reading /\ IsWord(pos, to)
  /\ pos' = to + 1
  /\ UNCHANGED <<text, needSpace, tokenIds, words, owner, scan>>

Word ==
  \E to \in pos..Len(text) : \E toks \in WordToTokens(pos, to) :
    IF toks = <<>> THEN SilentWord(to) ELSE VoicedWord(to, toks)

\* Where the sequence is cut to make room for the trailing pad.
Fit == IF Len(tokenIds) >= TokenCap THEN TokenCap - 1 ELSE Len(tokenIds)

Finish ==
  /\ scan = "scanning"
  /\ pos <= Len(text) => text[pos] = "cut"
  /\ tokenIds' = Append(SubSeq(tokenIds, 1, Fit), PAD_TOKEN)
  /\ owner' = Append(SubSeq(owner, 1, Fit), Len(words))
  /\ scan' = "done"
  /\ UNCHANGED <<text, pos, needSpace, words>>

Next == Whitespace \/ Punctuation \/ SkipWide \/ Word \/ Finish

Spec == Init /\ [][Next]_vars /\ WF_vars(Next)

-----------------------------------------------------------------------------
(* Vocabulary of the properties                                            *)

Marks      == {PUNCT_TOKENS[c] : c \in PunctChars}
Separators == {PAD_TOKEN, SPACE_TOKEN}

\* A pronunciation that is one group of tokens.  espeak may leave a SPACE at
\* the end of one, never trimmed by espeak_ipa.
OneGroup(p) ==
  p # <<>> => /\ p[1] \notin {SPACE_TOKEN} \cup Marks
              /\ \A k \in 1..(Len(p) - 1) : p[k] # SPACE_TOKEN

OneGroupPronunciations == \A p \in Pronunciations : OneGroup(p)

\* Token i opens a group: it follows a separator and is none.
Opens(i) ==
  /\ i \in 2..Len(tokenIds)
  /\ tokenIds[i] \notin Separators
  /\ tokenIds[i - 1] \in Separators

\* Every mark read so far came after a listed word and before a space,
\* another mark or the end.
WellSpaced ==
  \A k \in 1..(pos - 1) :
    (k <= Len(text) /\ text[k] \in PunctChars) =>
      /\ words # <<>> /\ words[1][1] < k
      /\ k < Len(text) => text[k + 1] \in {Space, "cut"} \cup PunctChars

-----------------------------------------------------------------------------
(* Properties                                                              *)

(* Types, and the history kept in step with the tokens.                    *)
TypeOK ==
  /\ text \in Texts
  /\ pos \in 1..(Len(text) + 1)
  /\ needSpace \in BOOLEAN
  /\ tokenIds \in Seq(Nat)
  /\ words \in Seq(Nat \X Nat)
  /\ owner \in Seq(Nat)
  /\ Len(owner) = Len(tokenIds)
  /\ \A k \in 1..Len(owner) : owner[k] <= Len(words)
  /\ scan \in {"scanning", "done"}

(* The model is always fed one PAD, the tokens, one PAD, and never more    *)
(* than it takes: select_style and the timestamp loop of kokoro_tts.cpp    *)
(* both count on it.                                                       *)
Framed ==
  /\ tokenIds # <<>>
  /\ \A i \in 1..Len(tokenIds) :
       tokenIds[i] = PAD_TOKEN <=> i = 1 \/ (scan = "done" /\ i = Len(tokenIds))
  /\ scan = "done" => Len(tokenIds) \in 2..TokenCap

(* A SPACE only ever separates: it follows a phoneme or a mark, and no     *)
(* mark comes right after it (the pop_back before each mark, and the tests *)
(* on back() that guard need_space).                                       *)
SpacesSeparate ==
  OneGroupPronunciations =>
    \A i \in 2..Len(tokenIds) :
      /\ tokenIds[i] = SPACE_TOKEN => tokenIds[i - 1] \notin Separators
      /\ tokenIds[i - 1] = SPACE_TOKEN => tokenIds[i] \notin Marks

(* On text whose marks stand where prose puts them, the n-th group of      *)
(* tokens is exactly the n-th listed word's, with the marks that follow    *)
(* it: all that build_word_timestamps needs to label the groups.           *)
Aligned ==
  \A i \in 2..Len(tokenIds) :
    tokenIds[i] # PAD_TOKEN =>
      owner[i] = owner[i - 1] + (IF Opens(i) THEN 1 ELSE 0)

AlignedWhenWellSpaced == OneGroupPronunciations /\ WellSpaced => Aligned

(* Every word listed has a token of its own in the sequence, but for those *)
(* the cap cuts off: no label without sound.                               *)
ListedWordsAreSpoken ==
  OneGroupPronunciations /\ scan = "done" /\ Len(tokenIds) < TokenCap =>
    \A w \in 1..Len(words) :
      \E i \in 1..Len(tokenIds) :
        owner[i] = w /\ owner[i - 1] = w - 1 /\ tokenIds[i] # PAD_TOKEN

(* The pass over the text ends: every branch of the loop consumes input.   *)
Terminates == <>(scan = "done")

(* g2p.h:43 says of words: "one entry per SPACE-delimited group": two      *)
(* listed words never share a group of tokens.                             *)
OneEntryPerGroup ==
  \A i \in 2..Len(tokenIds) :
    tokenIds[i] # PAD_TOKEN /\ owner[i - 1] > 0 /\ ~Opens(i)
      => owner[i] = owner[i - 1]

(* g2p.h:15 says words are tokenized by a "split on whitespace and         *)
(* punctuation": every mark of the text is a token of its own.             *)
EveryMarkIsAToken ==
  scan = "done" /\ Len(tokenIds) < TokenCap =>
    Cardinality({k \in 1..Len(text) : text[k] \in PunctChars}) =
    Cardinality({i \in 1..Len(tokenIds) : tokenIds[i] \in Marks})
=============================================================================
