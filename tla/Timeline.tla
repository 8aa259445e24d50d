------------------------------ MODULE Timeline ------------------------------
(***************************************************************************)
(* What synthesize_to_wav promises of the two files it writes, whatever    *)
(* the text, the voice or the model: the audio is a row of segments, one   *)
(* per sentence that has a sound, with a fixed silence between two of      *)
(* them, and the timestamps are marks in time order, each inside one       *)
(* segment and none over another.                                          *)
(***************************************************************************)
EXTENDS Integers, Sequences

CONSTANT Silence     \* samples between two segments, a natural number

VARIABLES
  segments,   \* the spans of the audio that sentences fill: [from, to]
  marks       \* the word timestamps: records with a start and an end

vars == <<segments, marks>>

Init == segments = <<>> /\ marks = <<>>

\* Where the next segment starts.
NextStart == IF segments = <<>> THEN 0 ELSE segments[Len(segments)].to + Silence

\* One more sentence is heard, and the marks of its words are added.
Speak(segment, new) ==
  /\ segment \in [from : Nat, to : Nat]
  /\ segment.from = NextStart /\ segment.from < segment.to
  /\ new \in Seq([start : Nat, end : Nat])
  /\ \A k \in 1..Len(new) :
       segment.from <= new[k].start /\ new[k].start < new[k].end /\ new[k].end <= segment.to
  /\ \A j, k \in 1..Len(new) : j < k => new[j].end <= new[k].start
  /\ segments' = Append(segments, segment)
  /\ marks' = marks \o new

\* The segment and the marks of a step are those the sequences grow by.
Next ==
  /\ segments' # <<>>
  /\ Speak(segments'[Len(segments')], SubSeq(marks', Len(marks) + 1, Len(marks')))

Spec == Init /\ [][Next]_vars

-----------------------------------------------------------------------------
(* Segments follow each other with the silence between them.               *)
SegmentsApart ==
  \A j, k \in 1..Len(segments) : j < k => segments[j].to + Silence <= segments[k].from

(* Words are reported in the order they are heard, over spans that do not  *)
(* overlap.                                                                *)
MarksInOrder ==
  \A j, k \in 1..Len(marks) : j < k => marks[j].end <= marks[k].start

(* No word lasts into the silence between sentences or past the end.       *)
MarksInsideSegments ==
  \A k \in 1..Len(marks) : \E s \in 1..Len(segments) :
    /\ segments[s].from <= marks[k].start
    /\ marks[k].start < marks[k].end
    /\ marks[k].end <= segments[s].to
=============================================================================
