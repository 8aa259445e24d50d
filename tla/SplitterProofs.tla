--------------------------- MODULE SplitterProofs ---------------------------
(***************************************************************************)
(* That cutting a text into sentences loses nothing of it and cuts only    *)
(* where a line ends or a capital follows, whatever the texts.             *)
(***************************************************************************)
EXTENDS Splitter, SequenceFacts, TLAPS

(* A text is a sequence, and the indexes are within it.                    *)
LEMMA TypeFacts ==
  ASSUME TypeOK
  PROVE  /\ Len(text) \in Nat
         /\ i \in Nat /\ 1 <= i /\ i <= Len(text) + 1
         /\ start \in Nat /\ 1 <= start /\ start <= i
         /\ out \in Seq((1..Len(text)) \X (1..Len(text))) /\ Len(out) \in Nat
         /\ \A n \in 1..Len(out) : out[n][1] \in Nat /\ out[n][2] \in 1..Len(text)
<1>1. text \in Seq(Chars)
  BY TextsAssumption DEF TypeOK
<1>2. Len(text) \in Nat
  BY <1>1
<1>3. /\ i \in 1..(Len(text) + 1) /\ start \in 1..i
      /\ out \in Seq((1..Len(text)) \X (1..Len(text)))
  BY DEF TypeOK
<1>4. ASSUME NEW n \in 1..Len(out)
      PROVE  out[n][1] \in Nat /\ out[n][2] \in 1..Len(text)
  <2>1. out[n] \in (1..Len(text)) \X (1..Len(text))
    BY <1>3
  <2> QED BY <2>1
<1> QED BY <1>2, <1>3, <1>4

(* The loop over the closers stops at the stop or at one of them.          *)
LEMMA CloserFacts ==
  ASSUME TypeOK, NEW k \in 1..Len(text)
  PROVE  LastCloser(k) \in k..Len(text)
<1> DEFINE M == {m \in k..Len(text) : \A n \in (k + 1)..m : text[n] = "closer"}
<1>1. Len(text) \in Nat
  BY TypeFacts
<1>2. M \in SUBSET (0..Len(text)) /\ k \in M
  BY <1>1
<1>3. Max(M) \in M
  <2> HIDE DEF M
  <2> QED BY <1>1, <1>2, MaxFacts
<1> QED BY <1>3 DEF LastCloser

(* A sentence runs from its first character that is no blank, and there is *)
(* none where all are blank.                                               *)
LEMMA SentenceFacts ==
  ASSUME NEW from \in Nat, NEW to \in Nat
  PROVE  \/ /\ Sentence(from, to) = <<>>
            /\ \A k \in from..to : ~Solid(k)
         \/ \E f \in from..to :
              /\ Sentence(from, to) = << <<f, to>> >>
              /\ Solid(f) /\ \A k \in from..(f - 1) : ~Solid(k)
<1> DEFINE solid == {k \in from..to : text[k] \notin Blanks}
<1>1. CASE solid = {}
  BY <1>1 DEF Sentence, Solid
<1>2. CASE solid # {}
  <2>1. solid \in SUBSET Nat
    OBVIOUS
  <2>2. Min(solid) \in solid /\ \A y \in solid : Min(solid) <= y
    <3> HIDE DEF solid
    <3> QED BY <1>2, <2>1, MinFacts
  <2> DEFINE f == Min(solid)
  <2>3. Sentence(from, to) = << <<f, to>> >>
    BY <1>2 DEF Sentence
  <2>4. f \in from..to /\ Solid(f)
    BY <2>2 DEF Solid
  <2> HIDE DEF f
  <2>5. ASSUME NEW k \in from..(f - 1) PROVE ~Solid(k)
    <3>1. k \in from..to /\ k < f /\ k \in Nat /\ f \in Nat
      BY <2>4
    <3>2. k \in solid => f <= k
      BY <2>2 DEF f
    <3> QED BY <3>1, <3>2 DEF Solid
  <2> QED BY <2>3, <2>4, <2>5
<1> QED BY <1>1, <1>2

-----------------------------------------------------------------------------
(* The invariant                                                           *)

\* Unless the last sentence ended a line, the next one starts with a capital.
CapitalNext ==
  out # <<>> =>
    \/ text[out[Len(out)][2]] = "newline"
    \/ \A k \in start..Len(text) :
         Solid(k) /\ (\A n \in start..(k - 1) : ~Solid(n)) => text[k] = "upper"

Inv == TypeOK /\ NothingLost /\ CutsBeforeCapitals /\ CapitalNext

\* What holds of the sentences when the text from start to `to` is cut off.
Cut(to) == out' = out \o Sentence(start, to) /\ start' = to + 1

(* Cutting the text where a line ends, where nothing but blanks is left or *)
(* before a capital keeps the invariant.                                   *)
LEMMA CutStep ==
  ASSUME Inv, NEW to \in Nat, start <= to + 1, to <= Len(text),
         text' = text, Cut(to), i' \in (to + 1)..(Len(text) + 1), scanning' \in BOOLEAN,
         \/ to \in 1..Len(text) /\ text[to] = "newline"
         \/ \A k \in (to + 1)..Len(text) :
              Solid(k) /\ (\A n \in (to + 1)..(k - 1) : ~Solid(n)) => text[k] = "upper"
  PROVE  Inv'
<1> DEFINE L == Len(text)
<1>1. /\ L \in Nat /\ start \in Nat /\ 1 <= start
      /\ out \in Seq((1..L) \X (1..L)) /\ Len(out) \in Nat
      /\ \A n \in 1..Len(out) : out[n][1] \in Nat /\ out[n][2] \in 1..L
      /\ \A n \in 1..Len(out) : out[n][2] < start
      /\ text \in Texts
  BY TypeFacts DEF Inv, TypeOK
<1>2. i' \in 1..(L + 1) /\ start' \in 1..i'
  BY <1>1 DEF Cut
<1>3. CASE Sentence(start, to) = <<>> /\ \A k \in start..to : ~Solid(k)
  <2>1. out' = out
    BY <1>1, <1>3 DEF Cut
  <2>2. \A n \in 1..Len(out) : out[n][2] < start'
    BY <1>1 DEF Cut
  <2>3. TypeOK'
    BY <1>1, <1>2, <2>1, <2>2 DEF TypeOK, Inv
  <2>4. NothingLost'
    <3>1. ASSUME NEW k \in 1..(start' - 1), Solid(k)
          PROVE  \E n \in 1..Len(out) : k \in out[n][1]..out[n][2]
      <4>1. k \in 1..(start - 1)
        BY <1>1, <1>3, <3>1 DEF Cut
      <4> QED BY <3>1, <4>1 DEF Inv, NothingLost
    <3> QED BY <2>1, <3>1 DEF Inv, NothingLost, Solid
  <2>5. CutsBeforeCapitals'
    BY <2>1 DEF Inv, CutsBeforeCapitals
  <2>6. CapitalNext'
    <3> SUFFICES ASSUME out # <<>>, text[out[Len(out)][2]] # "newline",
                        NEW k \in start'..L, Solid(k),
                        \A n \in start'..(k - 1) : ~Solid(n)
                 PROVE  text[k] = "upper"
      BY <2>1 DEF CapitalNext, Solid
    <3>1. k \in start..L
      BY <1>1 DEF Cut
    <3>2. ASSUME NEW n \in start..(k - 1) PROVE ~Solid(n)
      BY <1>1, <1>3, <3>1 DEF Cut
    <3> QED BY <3>1, <3>2 DEF Inv, CapitalNext
  <2> QED BY <2>3, <2>4, <2>5, <2>6 DEF Inv
<1>4. ASSUME NEW f \in start..to,
             Sentence(start, to) = << <<f, to>> >>,
             Solid(f), \A k \in start..(f - 1) : ~Solid(k)
      PROVE  Inv'
  <2> DEFINE m == Len(out) + 1
             s == <<f, to>>
  <2>1. out' = Append(out, s) /\ s \in (1..L) \X (1..L) /\ f \in 1..to /\ to \in 1..L
    BY <1>1, <1>4 DEF Cut
  <2>2. s[1] = f /\ s[2] = to
    OBVIOUS
  <2> HIDE DEF s
  <2>3. /\ out' \in Seq((1..L) \X (1..L)) /\ Len(out') = m
        /\ \A n \in 1..Len(out) : out'[n] = out[n]
        /\ out'[m] = s
    BY <1>1, <2>1
  <2>4. ASSUME NEW n \in 1..m
        PROVE  \/ n \in 1..Len(out) /\ out'[n] = out[n]
               \/ n = m /\ out'[n] = s
    <3>1. n \in 1..Len(out) \/ n = m
      <4>1. Len(out) \in Nat /\ n \in Nat /\ 1 <= n /\ n <= Len(out) + 1
        BY <1>1
      <4> QED BY <4>1
    <3> QED BY <2>3, <3>1
  <2>5. ASSUME NEW n \in 1..m PROVE out'[n][2] < start'
    <3>1. start' = to + 1
      BY DEF Cut
    <3>2. CASE n \in 1..Len(out) /\ out'[n] = out[n]
      <4>1. out[n][2] < start /\ out[n][2] \in Nat
        BY <1>1, <3>2
      <4> QED BY <1>1, <3>1, <3>2, <4>1
    <3> QED BY <2>2, <2>4, <3>1, <3>2
  <2>6. TypeOK'
    BY <1>1, <1>2, <2>3, <2>5 DEF TypeOK, Inv
  <2>7. NothingLost'
    <3>1. ASSUME NEW n \in 1..m PROVE out'[n][1] <= out'[n][2] /\ Solid(out'[n][1])
      BY <1>4, <2>1, <2>2, <2>4 DEF Inv, NothingLost
    <3>2. ASSUME NEW n \in 1..m, NEW p \in 1..m, p < n PROVE out'[p][2] < out'[n][1]
      <4>1. p \in 1..Len(out)
        BY <1>1, <3>2
      <4>0. out'[p] = out[p]
        BY <2>3, <4>1
      <4>2. CASE n \in 1..Len(out) /\ out'[n] = out[n]
        BY <3>2, <4>0, <4>1, <4>2 DEF Inv, NothingLost
      <4>3. CASE out'[n] = s
        <5>1. out[p][2] < start
          BY <1>1, <4>1
        <5>2. out[p][2] \in Nat /\ start <= f /\ f \in Nat
          BY <1>1, <4>1
        <5>3. out[p][2] < f
          BY <1>1, <5>1, <5>2
        <5> QED BY <2>2, <4>0, <4>3, <5>3
      <4> QED BY <2>4, <4>2, <4>3
    <3>3. ASSUME NEW k \in 1..(start' - 1), Solid(k)
          PROVE  \E n \in 1..m : k \in out'[n][1]..out'[n][2]
      <4>1. CASE k < start
        <5>1. PICK n \in 1..Len(out) : k \in out[n][1]..out[n][2]
          BY <1>1, <3>3, <4>1 DEF Inv, NothingLost
        <5>2. n \in 1..m /\ out'[n] = out[n]
          BY <1>1, <2>3
        <5> QED BY <5>1, <5>2
      <4>2. CASE k >= start
        <5>1. k \in f..to
          BY <1>1, <1>4, <3>3, <4>2 DEF Cut
        <5>2. m \in 1..m /\ k \in out'[m][1]..out'[m][2]
          BY <1>1, <2>2, <2>3, <5>1
        <5> QED BY <5>2
      <4> QED BY <1>1, <4>1, <4>2
    <3> QED BY <2>3, <3>1, <3>2, <3>3 DEF NothingLost, Solid
  <2>8. CutsBeforeCapitals'
    <3>1. ASSUME NEW n \in 1..(m - 1)
          PROVE  text[out'[n][2]] = "newline" \/ text[out'[n + 1][1]] = "upper"
      <4>1. n \in 1..Len(out) /\ out'[n] = out[n]
        BY <1>1, <2>3
      <4>2. CASE n < Len(out)
        <5>0. n \in Nat /\ 1 <= n /\ Len(out) \in Nat
          BY <1>1, <4>1
        <5>1. n \in 1..(Len(out) - 1) /\ n + 1 \in 1..Len(out)
          BY <4>2, <5>0
        <5>2. out'[n + 1] = out[n + 1]
          BY <2>3, <5>1
        <5> QED BY <4>1, <5>1, <5>2 DEF Inv, CutsBeforeCapitals
      <4>3. CASE n = Len(out)
        <5>1. out # <<>> /\ out'[n + 1] = s
          BY <1>1, <2>3, <4>1, <4>3
        <5>2. f \in start..L
          BY <1>1, <2>1
        <5>3. text[out[n][2]] = "newline" \/ text[f] = "upper"
          BY <1>4, <4>3, <5>1, <5>2 DEF Inv, CapitalNext
        <5> QED BY <2>2, <4>1, <5>1, <5>3
      <4> QED BY <1>1, <4>1, <4>2, <4>3
    <3> QED BY <1>1, <2>3, <3>1 DEF CutsBeforeCapitals
  <2>9. CapitalNext'
    <3>1. out'[Len(out')][2] = to
      BY <2>2, <2>3
    <3>2. start' = to + 1
      BY DEF Cut
    <3> QED BY <2>1, <3>1, <3>2 DEF CapitalNext, Solid
  <2> QED BY <2>6, <2>7, <2>8, <2>9 DEF Inv
<1>5. \/ Sentence(start, to) = <<>> /\ \A k \in start..to : ~Solid(k)
      \/ \E f \in start..to :
           /\ Sentence(start, to) = << <<f, to>> >>
           /\ Solid(f) /\ \A k \in start..(f - 1) : ~Solid(k)
  BY <1>1, SentenceFacts
<1> QED BY <1>3, <1>4, <1>5

(* One step of the scan.                                                   *)
LEMMA ScanStep ==
  ASSUME Inv, Next
  PROVE  Inv'
<1>1. /\ Len(text) \in Nat
      /\ i \in Nat /\ 1 <= i /\ i <= Len(text) + 1
      /\ start \in Nat /\ 1 <= start /\ start <= i
  BY TypeFacts DEF Inv
<1>2. ASSUME UNCHANGED <<text, start, out, scanning>>, i' \in i..(Len(text) + 1)
      PROVE  Inv'
  <2>1. TypeOK'
    BY <1>1, <1>2 DEF Inv, TypeOK
  <2> QED BY <1>2, <2>1 DEF Inv, NothingLost, CutsBeforeCapitals, CapitalNext, Solid
<1>3. CASE Ordinary
  BY <1>1, <1>2, <1>3 DEF Ordinary, Reading
<1>4. CASE Newline
  BY <1>1, <1>4, CutStep DEF Newline, Reading, Cut, Inv, TypeOK
<1>5. CASE Finish
  <2>1. i = Len(text) + 1
    BY <1>1, <1>5 DEF Finish
  <2>2. /\ \A k \in (Len(text) + 1)..Len(text) : FALSE
        /\ text' = text /\ i' \in (Len(text) + 1)..(Len(text) + 1)
        /\ Cut(Len(text)) /\ scanning' \in BOOLEAN
    <3>1. \A k \in (Len(text) + 1)..Len(text) : FALSE
      BY <1>1
    <3>2. /\ out' = out \o Sentence(start, Len(text)) /\ start' = i
          /\ scanning' = FALSE /\ text' = text /\ i' = i
      BY <1>5 DEF Finish
    <3>3. i \in (Len(text) + 1)..(Len(text) + 1)
      BY <1>1, <2>1
    <3> QED BY <2>1, <3>1, <3>2, <3>3 DEF Cut
  <2> QED BY <1>1, <2>1, <2>2, CutStep
<1>6. CASE Stop
  <2> DEFINE last == LastCloser(i)
  <2>1. i \in 1..Len(text)
    BY <1>1, <1>6 DEF Stop, Reading
  <2>2. last \in i..Len(text) /\ i' = last + 1 /\ UNCHANGED <<text, scanning>>
    BY <1>6, <2>1, CloserFacts DEF Stop, Inv
  <2>3. CASE EndsAfter(last)
    <3>1. Cut(last)
      BY <1>6, <2>3 DEF Stop, Cut
    <3>2. ASSUME NEW k \in (last + 1)..Len(text), Solid(k),
                 \A n \in (last + 1)..(k - 1) : ~Solid(n)
          PROVE  text[k] = "upper"
      <4>1. ~\A n \in (last + 1)..Len(text) : text[n] = "space"
        BY <3>2 DEF Solid, Blanks
      <4>2. PICK m \in (last + 1)..Len(text) :
              text[m] = "upper" /\ \A n \in (last + 1)..(m - 1) : text[n] = "space"
        BY <2>3, <4>1 DEF EndsAfter
      <4>3. Solid(m)
        BY <4>2 DEF Solid, Blanks
      <4> HIDE DEF last
      <4>4. /\ last \in Nat /\ k \in Nat /\ m \in Nat
            /\ last + 1 <= k /\ last + 1 <= m
        BY <1>1, <2>2
      <4>5. ~(m < k)
        BY <3>2, <4>3, <4>4
      <4>6. ~(k < m)
        <5>1. ASSUME k < m PROVE text[k] = "space"
          BY <4>2, <4>4, <5>1
        <5> QED BY <3>2, <5>1 DEF Solid, Blanks
      <4>7. k = m
        BY <4>4, <4>5, <4>6
      <4> QED BY <4>2, <4>7
    <3>3. /\ last \in Nat /\ start <= last + 1 /\ last <= Len(text)
          /\ i' \in (last + 1)..(Len(text) + 1) /\ scanning' \in BOOLEAN
      BY <1>1, <2>2 DEF Inv, TypeOK
    <3> HIDE DEF last
    <3> QED BY <2>2, <3>1, <3>2, <3>3, CutStep
  <2>4. CASE ~EndsAfter(last)
    BY <1>1, <1>2, <1>6, <2>2, <2>4 DEF Stop
  <2> QED BY <2>3, <2>4
<1> QED BY <1>3, <1>4, <1>5, <1>6 DEF Next

(* The invariant holds before the scan.                                    *)
LEMMA SplitterInit == Init => Inv
<1> SUFFICES ASSUME Init PROVE Inv
  OBVIOUS
<1>1. text \in Texts /\ text \in Seq(Chars) /\ i = 1 /\ start = 1 /\ out = <<>>
  BY TextsAssumption DEF Init
<1>2. Len(text) \in Nat
  BY <1>1
<1>3. TypeOK
  BY <1>1, <1>2 DEF TypeOK, Init
<1> QED BY <1>1, <1>3 DEF Inv, NothingLost, CutsBeforeCapitals, CapitalNext

(* It holds of every state of the scan.                                    *)
LEMMA SplitterInvariance == Spec => []Inv
<1>1. Init => Inv
  BY SplitterInit
<1>2. Inv /\ [Next]_vars => Inv'
  <2> SUFFICES ASSUME Inv, [Next]_vars PROVE Inv'
    OBVIOUS
  <2>1. CASE UNCHANGED vars
    BY <2>1 DEF vars, Inv, TypeOK, NothingLost, CutsBeforeCapitals, CapitalNext, Solid
  <2> QED BY <2>1, ScanStep
<1> QED BY <1>1, <1>2, PTL DEF Spec

(* Every character of the text that is no blank is spoken in exactly one   *)
(* sentence, in order, whatever the text (split_sentences).                *)
THEOREM NothingLostCorrect == Spec => []NothingLost
<1>1. Inv => NothingLost
  BY DEF Inv
<1> QED BY <1>1, SplitterInvariance, PTL

(* Every sentence but the last ends a line or comes before a capital.      *)
THEOREM CutsCorrect == Spec => []CutsBeforeCapitals
<1>1. Inv => CutsBeforeCapitals
  BY DEF Inv
<1> QED BY <1>1, SplitterInvariance, PTL

-----------------------------------------------------------------------------
(* The scan cannot run for ever                                            *)

\* What is left to do: the characters not yet read, and the last sentence.
Remaining == (Len(text) + 1 - i) + (IF scanning THEN 1 ELSE 0)

RemainingFalls == Remaining \in Nat /\ Remaining' \in 0..(Remaining - 1)

(* One step of the scan: the closers a stop takes along end within the     *)
(* text, and what follows the loop runs once.                              *)
LEMMA RemainingStep ==
  ASSUME Inv, Next PROVE RemainingFalls
<1>1. /\ Len(text) \in Nat /\ i \in Nat /\ 1 <= i /\ i <= Len(text) + 1
      /\ scanning \in BOOLEAN
  BY TypeFacts DEF Inv, TypeOK
<1>2. ASSUME UNCHANGED <<text, scanning>>, i' \in (i + 1)..(Len(text) + 1)
      PROVE  RemainingFalls
  <2>1. CASE scanning
    BY <1>1, <1>2, <2>1 DEF RemainingFalls, Remaining
  <2>2. CASE ~scanning
    BY <1>1, <1>2, <2>2 DEF RemainingFalls, Remaining
  <2> QED BY <2>1, <2>2
<1>3. CASE Ordinary \/ Newline
  <2>1. i <= Len(text) /\ i' = i + 1 /\ UNCHANGED <<text, scanning>>
    BY <1>3 DEF Ordinary, Newline, Reading
  <2> QED BY <1>1, <1>2, <2>1
<1>4. CASE Stop
  <2>1. /\ i \in 1..Len(text) /\ i' = LastCloser(i) + 1
        /\ UNCHANGED <<text, scanning>>
    BY <1>1, <1>4 DEF Stop, Reading
  <2>2. LastCloser(i) \in i..Len(text)
    BY <2>1, CloserFacts DEF Inv
  <2> QED BY <1>1, <1>2, <2>1, <2>2
<1>5. CASE Finish
  <2>1. scanning /\ i = Len(text) + 1 /\ UNCHANGED <<text, i>> /\ scanning' = FALSE
    BY <1>1, <1>5 DEF Finish
  <2>2. Remaining = 1 /\ Remaining' = 0
    BY <1>1, <2>1 DEF Remaining
  <2> QED BY <2>2 DEF RemainingFalls
<1> QED BY <1>3, <1>4, <1>5 DEF Next

(* Every step of the scan leaves less to do, so that it takes no more steps *)
(* than the text has characters, and one (the while loop of                *)
(* split_sentences and the add after it).                                  *)
THEOREM ScanIsBounded == Spec => [][RemainingFalls]_vars
<1>1. Inv /\ [Next]_vars => [RemainingFalls]_vars
  BY RemainingStep
<1> QED BY <1>1, SplitterInvariance, PTL DEF Spec
=============================================================================
