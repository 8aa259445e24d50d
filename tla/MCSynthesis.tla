---------------------------- MODULE MCSynthesis ----------------------------
(* A bounded instance of Synthesis for TLC.                                *)
EXTENDS Synthesis

CONSTANTS
  MCMaxFrames,     \* the longest audio of a sentence, in frames
  MCMaxDuration    \* the longest a token lasts, in frames

\* Blanks only, or a mark alone; one sentence, or two with or without a space
\* between, of which either may be silent; a stop that ends no sentence, one in
\* quotes; an abbreviation cut off from its name, one that runs into the next
\* word, and two that become two words each; lines, one of them empty and
\* one of them silent; words that meet without a space; a word with a character
\* that nobody pronounces.
MCDocuments ==
  { <<"space", "newline">>,
    <<"comma", "upper", "stop", "space">>,
    <<"upper", "stop", "space", "upper">>,
    <<"upper", "stop", "space", "letter", "newline", "letter">>,
    <<"upper", "stop", "quote", "upper", "comma", "letter">>,
    <<"upper", "abbrev", "space", "upper", "stop">>,
    <<"upper", "abbrev", "letter", "tab", "letter">>,
    <<"letter", "gap", "cetera", "apostrophe", "space", "upper", "abbrev", "space", "symbol">>,
    <<"bracket", "letter", "gap", "letter", "abbrev", "letter", "stop", "wideCloser", "tab", "upper">>,
    <<"letter", "newline", "newline", "space", "letter", "comma", "space", "letter">>,
    <<"comma", "newline", "symbol", "space", "wide", "letter">>,
    <<"letter", "newline", "wide", "letter", "newline", "letter">> }

\* Unknown words, and words of one phoneme and of two.
MCPronunciations == {<<>>, <<50>>, <<50, 51>>}

MCSorted(R) ==
  [k \in 1..Cardinality(R) |-> CHOOSE x \in R : Cardinality({y \in R : y <= x}) = k]

MCRows ==
  {row \in {MCSorted(R) : R \in SUBSET (1..MCMaxFrames)} \ {<<>>} :
     \A k \in DOMAIN row :
       row[k] - (IF k = 1 THEN 0 ELSE row[k - 1]) <= MCMaxDuration}
=============================================================================
