-------------------------- MODULE MCWordTimestamps --------------------------
(* Bounded instances of WordTimestamps for TLC.                             *)
EXTENDS WordTimestamps

CONSTANTS
  MCMaxBody,     \* the longest token sequence, its two pads not counted
  MCMaxWords,    \* the most labels
  MCMaxFrames,   \* the longest audio, in frames
  MCLengths      \* the samples that a frame may really be rendered to

\* A phoneme, a SPACE, and their sequences between pads, as G2P frames them.
MCTokens ==
  {<<PAD_TOKEN>> \o b \o <<PAD_TOKEN>> : b \in BoundedSeq({50, SPACE_TOKEN}, MCMaxBody)}

MCSorted(S) ==
  [k \in 1..Cardinality(S) |-> CHOOSE x \in S : Cardinality({y \in S : y <= x}) = k]

\* As many rows of cumulative frames as there are tokens, or a row too few,
\* or none.
MCCalls ==
  LET rows == {MCSorted(S) : S \in SUBSET (1..MCMaxFrames)}
      fit(t) == {e \in rows : Len(e) \in {0, Len(t) - 1, Len(t)}}
  IN UNION {
       { [tokenIds |-> t, nWords |-> n, ends |-> e, shapeOk |-> e # <<>> \/ n > 0,
          audioLen |-> (IF e = <<>> THEN 0 ELSE e[Len(e)]) * a] :
         n \in 0..MCMaxWords, a \in MCLengths, e \in fit(t) }
       : t \in MCTokens }
=============================================================================
