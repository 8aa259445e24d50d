------------------------------- MODULE Vocab -------------------------------
(***************************************************************************)
(* The tokens of the model (src/misaki/vocab.h).  The front end and the    *)
(* timestamp builder give a meaning of their own to the pad, to the SPACE  *)
(* and to the marks; the others are phonemes, opaque to both.              *)
(***************************************************************************)
EXTENDS Naturals

PAD_TOKEN   == 0     \* frames a sequence; has no entry in the vocabulary
SPACE_TOKEN == 16    \* the vocabulary's " "

\* The tokens that vocab.h assigns: those above SPACE are phonemes, stresses
\* and tones.
Vocabulary ==
  (1..6) \cup (9..25) \cup {31, 33, 35, 36, 39} \cup (41..48) \cup (50..72) \cup
  (75..78) \cup (80..83) \cup (85..87) \cup {90, 92, 99} \cup (101..103) \cup
  (110..116) \cup (118..120) \cup {123, 125, 126} \cup (128..133) \cup {135, 136} \cup
  (138..140) \cup {142, 143, 147, 148} \cup (156..158) \cup {162, 164, 169} \cup
  (171..173) \cup {177}

(***************************************************************************)
(* PUNCT_TOKENS of g2p.cpp, keyed by a name for each character.            *)
(***************************************************************************)
PUNCT_TOKENS ==
  [ semicolon  |-> 1,  colon     |-> 2,  comma      |-> 3,  stop   |-> 4,
    bang       |-> 5,  query     |-> 6,  slash      |-> 7,  emDash |-> 9,
    ellipsis   |-> 10, quote     |-> 11, leftParen  |-> 12,
    rightParen |-> 13, leftQuote |-> 14, rightQuote |-> 15 ]

PunctChars == DOMAIN PUNCT_TOKENS

\* The punctuation characters whose UTF-8 form has more than one byte.
WidePunctChars == {"emDash", "ellipsis", "leftQuote", "rightQuote"}
=============================================================================
