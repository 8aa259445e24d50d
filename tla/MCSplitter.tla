----------------------------- MODULE MCSplitter -----------------------------
(* A bounded instance of Splitter for TLC.                                  *)
EXTENDS Splitter

CONSTANTS
  MCAlphabet,    \* the characters texts are made of
  MCMaxText      \* the longest text, in characters

MCTexts == BoundedSeq(MCAlphabet, MCMaxText)
=============================================================================
