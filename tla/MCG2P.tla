------------------------------- MODULE MCG2P -------------------------------
(* Bounded instances of G2P for TLC.                                       *)
EXTENDS G2P

CONSTANTS
  MCAlphabet,    \* the characters texts are made of
  MCMaxText      \* the longest text, in characters

MCTexts == {t \in BoundedSeq(MCAlphabet, MCMaxText) : IsNormalized(t)}

\* An unknown word, a word of one phoneme, of two, and one that espeak
\* leaves with a trailing space.
MCPronunciations == {<<>>, <<50>>, <<50, 51>>, <<50, SPACE_TOKEN>>}

\* Only the words of a dictionary: each has a single phoneme.
MCKnownWords == {<<50>>}

\* Texts that quote the way prose does: a space, or an end of the text, on
\* one side of each quotation mark.
MCQuotations ==
  {t \in MCTexts : \A k \in 1..Len(t) :
     t[k] = "quote" => (k = 1 \/ t[k - 1] = Space)
                    # (k = Len(t) \/ t[k + 1] = Space)}
=============================================================================
