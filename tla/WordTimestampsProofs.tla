------------------------ MODULE WordTimestampsProofs ------------------------
(***************************************************************************)
(* That the timestamps are well typed and in order, whatever the tokens,   *)
(* the words, the model's rows and the length of its audio.                *)
(***************************************************************************)
EXTENDS WordTimestamps, SequenceFacts, FiniteSetTheorems, TLAPS

Stamp == [word : 1..nWords, start : Nat, end : Nat]

-----------------------------------------------------------------------------
(* Times                                                                   *)

(* Rounded-down division keeps two numbers apart that differ by the        *)
(* divisor.                                                                *)
LEMMA DivApart ==
  ASSUME NEW a \in Nat, NEW b \in Nat, NEW d \in Nat, d > 0, a + d <= b
  PROVE  a \div d \in Nat /\ b \div d \in Nat /\ a \div d < b \div d
<1> DEFINE p == a \div d
           q == b \div d
<1>1. p \in Int /\ a = d * p + (a % d) /\ a % d \in 0..(d - 1)
  OBVIOUS
<1>2. q \in Int /\ b = d * q + (b % d) /\ b % d \in 0..(d - 1)
  OBVIOUS
<1>3. p >= 0 /\ q >= 0
  OBVIOUS
<1> HIDE DEF p, q
<1>4. d * p < d * q
  BY <1>1, <1>2
<1>5. p < q
  BY <1>1, <1>2, <1>3, <1>4
<1> QED BY <1>1, <1>2, <1>3, <1>5 DEF p, q

(* When the audio has a sample for every frame, scaling keeps the order of *)
(* two frame counts, strictly.                                             *)
LEMMA ScaledApart ==
  ASSUME TypeOK, N > 0, audioLen >= Frames, Frames \in Nat \ {0},
         NEW f \in Nat, NEW g \in Nat, f < g
  PROVE  Scaled(f) \in Nat /\ Scaled(g) \in Nat /\ Scaled(f) < Scaled(g)
<1>1. audioLen \in Nat /\ HopLength \in Nat \ {0}
  BY HopLengthAssumption DEF TypeOK, IsCall
<1>2. ModelTotal > 0 /\ audioLen > 0
  BY <1>1 DEF ModelTotal
<1>3. f * audioLen \in Nat /\ g * audioLen \in Nat
  BY <1>1
<1>4. f * audioLen + Frames <= g * audioLen
  <2>1. PICK h \in Nat : g = f + 1 + h
    <3>1. g - f - 1 \in Nat /\ g = f + 1 + (g - f - 1)
      OBVIOUS
    <3> QED BY <3>1
  <2>2. g * audioLen = f * audioLen + audioLen + h * audioLen
    BY <1>1, <2>1
  <2>3. h * audioLen \in Nat
    BY <1>1
  <2> QED BY <1>1, <1>3, <2>2, <2>3
<1>5. /\ Scaled(f) = (f * audioLen) \div Frames
      /\ Scaled(g) = (g * audioLen) \div Frames
  BY <1>2 DEF Scaled
<1> QED BY <1>3, <1>4, <1>5, DivApart

(* A time is a number of samples.                                          *)
LEMMA ScaledType ==
  ASSUME TypeOK, NEW f \in Nat
  PROVE  Scaled(f) \in Nat
<1>1. audioLen \in Nat /\ HopLength \in Nat \ {0} /\ ends \in Seq(Nat \ {0})
  BY HopLengthAssumption DEF TypeOK, IsCall
<1>2. Frames \in Nat
  BY <1>1 DEF Frames, N
<1>3. CASE ModelTotal > 0 /\ audioLen > 0
  <2>1. Frames > 0
    BY <1>1, <1>2, <1>3 DEF ModelTotal
  <2>2. f * audioLen \in Nat
    BY <1>1
  <2>3. (f * audioLen) \div Frames \in Nat
    BY <1>2, <2>1, <2>2
  <2> QED BY <1>3, <2>3 DEF Scaled
<1>4. CASE ~(ModelTotal > 0 /\ audioLen > 0)
  BY <1>1, <1>4 DEF Scaled
<1> QED BY <1>3, <1>4

(* Where a group starts and ends is a number.                              *)
LEMMA SpanType ==
  ASSUME TypeOK, NEW k \in Nat
  PROVE  SpanStart(k) \in Nat /\ SpanEnd(k) \in Nat
<1>1. ends \in Seq(Nat \ {0})
  BY DEF TypeOK, IsCall
<1>2. CASE k \in 1..N
  <2>1. ends[k] \in Nat
    BY <1>1, <1>2 DEF N
  <2>2. k \in 2..N => ends[k - 1] \in Nat
    BY <1>1, <1>2 DEF N
  <2> QED BY <1>2, <2>1, <2>2, ScaledType DEF SpanStart, SpanEnd
<1>3. CASE k \notin 1..N
  <2>1. k \notin 2..N
    BY <1>1, <1>3 DEF N
  <2> QED BY <1>3, <2>1 DEF SpanStart, SpanEnd
<1> QED BY <1>2, <1>3

\* How far the tokens before the next one reach.
Reached == IF i = 1 THEN 0 ELSE SpanEnd(i - 1)

(* With a row per token, the next token starts where the last one ended    *)
(* and takes some time.                                                    *)
LEMMA SpanApart ==
  ASSUME TypeOK, OneRowPerToken, i <= Len(tokenIds)
  PROVE  /\ SpanStart(i) \in Nat /\ SpanEnd(i) \in Nat
         /\ SpanStart(i) = Reached
         /\ SpanStart(i) < SpanEnd(i)
<1>1. /\ ends \in Seq(Nat \ {0})
      /\ \A j, k \in 1..Len(ends) : j < k => ends[j] < ends[k]
      /\ i \in 1..N /\ N \in Nat /\ N = Len(ends)
      /\ audioLen >= Frames /\ audioLen \in Nat
  BY DEF TypeOK, IsCall, OneRowPerToken, N
<1>2. ends[i] \in Nat \ {0} /\ Frames \in Nat \ {0}
  BY <1>1 DEF Frames
<1>3. N > 0
  BY <1>1
<1>4. CASE i = 1
  <2>1. SpanStart(i) = 0 /\ Reached = 0
    BY <1>4 DEF SpanStart, Reached
  <2>2. SpanEnd(i) = Scaled(ends[i])
    BY <1>1 DEF SpanEnd
  <2>3. 0 \in Nat /\ ends[i] \in Nat /\ 0 < ends[i] /\ audioLen >= Frames
    BY <1>1, <1>2
  <2>4. Scaled(0) \in Nat /\ Scaled(ends[i]) \in Nat /\ Scaled(0) < Scaled(ends[i])
    BY <1>2, <1>3, <2>3, ScaledApart
  <2> QED BY <2>1, <2>2, <2>4
<1>5. CASE i # 1
  <2>1. i \in 2..N /\ i - 1 \in 1..N
    BY <1>1, <1>5
  <2>2. ends[i - 1] \in Nat /\ ends[i - 1] < ends[i]
    BY <1>1, <2>1
  <2>3. /\ SpanStart(i) = Scaled(ends[i - 1]) /\ SpanEnd(i) = Scaled(ends[i])
        /\ Reached = Scaled(ends[i - 1])
    BY <1>1, <1>5, <2>1 DEF SpanStart, SpanEnd, Reached
  <2>4. /\ Scaled(ends[i - 1]) \in Nat /\ Scaled(ends[i]) \in Nat
        /\ Scaled(ends[i - 1]) < Scaled(ends[i])
    BY <1>1, <1>2, <1>3, <2>2, ScaledApart
  <2> QED BY <2>3, <2>4
<1> QED BY <1>4, <1>5

-----------------------------------------------------------------------------
(* Types                                                                   *)

(* What a call of flush_word leaves behind.                                *)
LEMMA FlushFacts ==
  ASSUME TypeOK, FlushWord
  PROVE  \/ UNCHANGED <<wordStart, wordEnd, wordIdx, result>>
         \/ /\ wordStart # NoWord /\ wordIdx \in Nat
            /\ wordIdx + 1 \in 1..nWords /\ wordIdx' = wordIdx + 1
            /\ wordStart' = NoWord /\ wordEnd' = 0
            /\ result' \in Seq(Stamp)
            /\ Len(result) \in Nat /\ Len(result') = Len(result) + 1
            /\ \A k \in 1..Len(result) : result'[k] = result[k]
            /\ result'[Len(result) + 1] =
                 [word |-> wordIdx + 1, start |-> wordStart, end |-> wordEnd]
<1>1. /\ wordStart \in Nat \cup {NoWord} /\ wordEnd \in Nat
      /\ wordIdx \in 0..nWords /\ nWords \in Nat
      /\ result \in Seq(Stamp)
  BY DEF TypeOK, IsCall, Stamp
<1>2. CASE wordStart < 0 \/ ~(wordIdx < nWords)
  BY <1>2 DEF FlushWord, Emit
<1>3. CASE ~(wordStart < 0 \/ ~(wordIdx < nWords))
  <2> DEFINE e == [word |-> wordIdx + 1, start |-> wordStart, end |-> wordEnd]
  <2>1. /\ wordStart # NoWord /\ wordStart \in Nat
        /\ wordIdx \in Nat /\ wordIdx + 1 \in 1..nWords
    BY <1>1, <1>3 DEF NoWord
  <2>2. e \in Stamp
    BY <1>1, <2>1 DEF Stamp
  <2>3. /\ result' = Append(result, e) /\ wordIdx' = wordIdx + 1
        /\ wordStart' = NoWord /\ wordEnd' = 0
    BY <1>3 DEF FlushWord, Emit
  <2> HIDE DEF e
  <2>4. /\ result' \in Seq(Stamp)
        /\ Len(result) \in Nat /\ Len(result') = Len(result) + 1
        /\ \A k \in 1..Len(result) : result'[k] = result[k]
        /\ result'[Len(result) + 1] = e
    BY <1>1, <2>2, <2>3
  <2> QED BY <2>1, <2>3, <2>4 DEF e
<1> QED BY <1>2, <1>3

(* The tail only moves the end of the last timestamp, and moves it up.     *)
LEMMA TailFacts ==
  ASSUME TypeOK, ExtendTail
  PROVE  /\ result' \in Seq(Stamp)
         /\ Len(result) \in Nat /\ Len(result') = Len(result)
         /\ \A k \in 1..Len(result) :
              /\ result[k] \in Stamp
              /\ result'[k].word = result[k].word
              /\ result'[k].start = result[k].start
              /\ k # Len(result) => result'[k] = result[k]
              /\ result[k].end <= result'[k].end
<1>1. result \in Seq(Stamp) /\ ends \in Seq(Nat \ {0})
  BY DEF TypeOK, IsCall, Stamp
<1>2. Frames \in Nat
  BY <1>1 DEF Frames, N
<1>3. ModelTotal \in Nat
  BY <1>2, HopLengthAssumption DEF ModelTotal
<1>4. Len(result) \in Nat /\ \A k \in 1..Len(result) : result[k] \in Stamp
  BY <1>1
<1>5. CASE result' = result
  BY <1>1, <1>4, <1>5 DEF Stamp
<1>6. CASE result' # result
  <2> DEFINE n == Len(result)
             e == [result[n] EXCEPT !.end = ModelTotal]
  <2>1. /\ result # <<>> /\ ModelTotal > result[n].end
        /\ result' = [result EXCEPT ![n] = e]
    BY <1>6 DEF ExtendTail
  <2>2. n \in 1..n
    BY <1>1, <2>1
  <2>3. result[n] \in Stamp
    BY <1>4, <2>2
  <2>4. /\ e \in Stamp /\ e.word = result[n].word
        /\ e.start = result[n].start /\ result[n].end <= e.end
    BY <1>3, <2>1, <2>3 DEF Stamp
  <2> HIDE DEF e
  <2>5. /\ result' \in Seq(Stamp) /\ Len(result') = n
        /\ result'[n] = e
        /\ \A k \in 1..n : k # n => result'[k] = result[k]
    BY <1>1, <2>1, <2>2, <2>4
  <2>6. ASSUME NEW k \in 1..n
        PROVE  result[k].end <= result[k].end
    BY <1>4 DEF Stamp
  <2> QED BY <1>4, <2>4, <2>5, <2>6
<1> QED BY <1>5, <1>6

(* No step changes the arguments of the call.                              *)
LEMMA ArgumentsKept ==
  ASSUME Next \/ UNCHANGED vars
  PROVE  UNCHANGED <<tokenIds, nWords, ends, audioLen, shapeOk>>
BY DEF Next, Reject, SkipPad, EndGroup, Extend, Gather, FlushLast, ExtendTail,
       arguments, vars

(* Every step keeps the types.                                             *)
LEMMA TypeStep ==
  ASSUME TypeOK, Next
  PROVE  TypeOK'
<1>1. /\ IsCall([tokenIds |-> tokenIds, nWords |-> nWords, ends |-> ends,
                 audioLen |-> audioLen, shapeOk |-> shapeOk])'
      /\ UNCHANGED <<tokenIds, nWords>>
  BY ArgumentsKept DEF TypeOK
<1>2. /\ i \in 1..(Len(tokenIds) + 1) /\ Len(tokenIds) \in Nat
      /\ wordStart \in Nat \cup {NoWord} /\ wordEnd \in Nat
      /\ wordIdx \in 0..nWords /\ nWords \in Nat
      /\ result \in Seq(Stamp)
      /\ step \in {"scan", "tail", "done"}
  BY DEF TypeOK, IsCall, Stamp
<1>3. /\ i' \in 1..(Len(tokenIds) + 1)
      /\ step' \in {"scan", "tail", "done"}
  BY <1>2 DEF Next, Reject, SkipPad, EndGroup, Extend, Gather, FlushLast, ExtendTail, Scanning
<1>4. /\ wordStart' \in Nat \cup {NoWord} /\ wordEnd' \in Nat
      /\ wordIdx' \in 0..nWords
      /\ result' \in Seq(Stamp)
  <2>1. CASE FlushWord
    BY <1>2, <2>1, FlushFacts DEF NoWord
  <2>2. CASE Extend
    <3>1. SpanStart(i) \in Nat /\ SpanEnd(i) \in Nat
      BY <1>2, SpanType
    <3> QED BY <1>2, <2>2, <3>1 DEF Extend, Gather
  <2>3. CASE ExtendTail
    BY <1>2, <2>3, TailFacts DEF ExtendTail
  <2>4. CASE UNCHANGED <<wordStart, wordEnd, wordIdx, result>>
    BY <1>2, <2>4
  <2> QED BY <2>1, <2>2, <2>3, <2>4 DEF Next, Reject, SkipPad, EndGroup, FlushLast
<1> QED BY <1>1, <1>2, <1>3, <1>4 DEF TypeOK, Stamp

(* A timestamp always names one of the words that were listed, and the     *)
(* code never reads past the words or the tokens.                          *)
THEOREM TypeCorrect == Spec => []TypeOK
<1>1. Init => TypeOK
  <2> SUFFICES ASSUME Init PROVE TypeOK
    OBVIOUS
  <2>1. IsCall([tokenIds |-> tokenIds, nWords |-> nWords, ends |-> ends,
                audioLen |-> audioLen, shapeOk |-> shapeOk])
    BY CallsAssumption DEF Init, IsCall
  <2> QED BY <2>1 DEF Init, TypeOK, IsCall
<1>2. TypeOK /\ [Next]_vars => TypeOK'
  BY TypeStep DEF vars, TypeOK
<1> QED BY <1>1, <1>2, PTL DEF Spec

-----------------------------------------------------------------------------
(* Order                                                                   *)

\* The body of InOrder, and the count of the words given a time.
Ordered ==
  /\ wordIdx = Len(result)
  /\ \A k \in 1..Len(result) :
       result[k].word = k /\ result[k].start < result[k].end
  /\ \A j, k \in 1..Len(result) : j < k => result[j].end <= result[k].start

\* What the scan has reported or gathered lies before the next token.
Gathering ==
  step = "scan" =>
    /\ \A k \in 1..Len(result) : result[k].end <= Reached
    /\ wordStart = NoWord => wordEnd = 0
    /\ wordStart # NoWord =>
         /\ \A k \in 1..Len(result) : result[k].end <= wordStart
         /\ wordStart < wordEnd /\ wordEnd <= Reached

OrderInv == OneRowPerToken => Ordered /\ Gathering

(* A reported word is after the earlier ones, a gathered one being so.     *)
LEMMA FlushOrdered ==
  ASSUME TypeOK, Ordered, Gathering, step = "scan", FlushWord
  PROVE  /\ Ordered'
         /\ \A k \in 1..Len(result') : result'[k].end <= Reached
         /\ wordStart' = NoWord => wordEnd' = 0
         /\ wordStart' # NoWord =>
              /\ \A k \in 1..Len(result') : result'[k].end <= wordStart'
              /\ wordStart' < wordEnd' /\ wordEnd' <= Reached
<1>1. CASE UNCHANGED <<wordStart, wordEnd, wordIdx, result>>
  BY <1>1 DEF Ordered, Gathering
<1>2. CASE ~UNCHANGED <<wordStart, wordEnd, wordIdx, result>>
  <2> DEFINE n == Len(result)
  <2>1. /\ wordStart # NoWord /\ wordIdx \in Nat
        /\ wordIdx' = wordIdx + 1
        /\ wordStart' = NoWord /\ wordEnd' = 0
        /\ n \in Nat /\ Len(result') = n + 1
        /\ \A k \in 1..n : result'[k] = result[k]
        /\ result'[n + 1] =
             [word |-> wordIdx + 1, start |-> wordStart, end |-> wordEnd]
    BY <1>2, FlushFacts
  <2>2. /\ result'[n + 1].word = n + 1
        /\ result'[n + 1].start = wordStart /\ result'[n + 1].end = wordEnd
        /\ wordStart < wordEnd /\ wordEnd <= Reached
        /\ wordIdx' = n + 1
        /\ \A k \in 1..n : result[k].end <= wordStart /\ result[k].end <= Reached
    BY <2>1 DEF Ordered, Gathering
  <2>3. ASSUME NEW k \in 1..(n + 1)
        PROVE  /\ result'[k].word = k
               /\ result'[k].start < result'[k].end
               /\ result'[k].end <= Reached
    BY <2>1, <2>2 DEF Ordered
  <2>4. ASSUME NEW j \in 1..(n + 1), NEW k \in 1..(n + 1), j < k
        PROVE  result'[j].end <= result'[k].start
    <3>1. j \in 1..n
      BY <2>1, <2>4
    <3>2. CASE k \in 1..n
      BY <2>1, <2>4, <3>1, <3>2 DEF Ordered
    <3>3. CASE k = n + 1
      BY <2>1, <2>2, <3>1, <3>3
    <3> QED BY <2>1, <3>2, <3>3
  <2> QED BY <2>1, <2>2, <2>3, <2>4 DEF Ordered
<1> QED BY <1>1, <1>2

(* One step of the scan past token i.                                      *)
LEMMA ReachedStep ==
  ASSUME TypeOK, OneRowPerToken, i <= Len(tokenIds), i' = i + 1,
         UNCHANGED <<ends, audioLen>>
  PROVE  /\ Reached \in Nat /\ Reached' \in Nat
         /\ Reached' = SpanEnd(i) /\ Reached = SpanStart(i) /\ Reached < Reached'
<1>1. i \in Nat \ {0} /\ i' # 1 /\ i' - 1 = i
  BY DEF TypeOK
<1>2. Reached' = SpanEnd(i)
  BY <1>1 DEF Reached, SpanEnd, N, Scaled, ModelTotal, Frames
<1> QED BY <1>2, SpanApart

(* Every step keeps the entries in order.                                  *)
LEMMA OrderStep ==
  ASSUME TypeOK, OrderInv, Next
  PROVE  OrderInv'
<1> SUFFICES ASSUME OneRowPerToken'
             PROVE  Ordered' /\ Gathering'
  BY DEF OrderInv
<1>1. UNCHANGED <<tokenIds, nWords, ends, audioLen, shapeOk>>
  BY ArgumentsKept
<1>2. OneRowPerToken
  BY <1>1 DEF OneRowPerToken, N, Frames
<1>3. Ordered /\ Gathering
  BY <1>2 DEF OrderInv
<1>4. /\ i \in Nat \ {0} /\ wordEnd \in Nat /\ wordStart \in Nat \cup {NoWord}
      /\ result \in Seq(Stamp) /\ Len(result) \in Nat
  BY DEF TypeOK, Stamp
<1>5. ASSUME NEW k \in 1..Len(result)
      PROVE  result[k].end \in Nat
  <2>1. result[k] \in Stamp
    BY <1>4
  <2> QED BY <2>1 DEF Stamp
<1>6. ASSUME Scanning, i' = i + 1
      PROVE  /\ Reached \in Nat /\ Reached' \in Nat
             /\ Reached' = SpanEnd(i) /\ Reached = SpanStart(i)
             /\ Reached < Reached'
  BY <1>1, <1>2, <1>6, ReachedStep DEF Scanning
<1>7. CASE Reject
  BY <1>3, <1>7 DEF Reject, Ordered, Gathering
<1>8. CASE SkipPad
  BY <1>3, <1>4, <1>5, <1>6, <1>8 DEF SkipPad, Scanning, Ordered, Gathering
<1>9. CASE EndGroup
  <2>1. Reached \in Nat /\ Reached' \in Nat /\ Reached < Reached'
    BY <1>6, <1>9 DEF EndGroup
  <2>2. Ordered'
    BY <1>3, <1>9, FlushOrdered DEF EndGroup, Scanning
  <2>3. /\ \A k \in 1..Len(result') : result'[k].end <= Reached
        /\ wordStart' = NoWord => wordEnd' = 0
        /\ wordStart' # NoWord =>
             /\ \A k \in 1..Len(result') : result'[k].end <= wordStart'
             /\ wordStart' < wordEnd' /\ wordEnd' <= Reached
    BY <1>3, <1>9, FlushOrdered DEF EndGroup, Scanning
  <2>4. result' \in Seq(Stamp)' /\ wordEnd' \in Nat
    BY <1>1, TypeStep DEF TypeOK, Stamp
  <2>5. ASSUME NEW k \in 1..Len(result')
        PROVE  result'[k].end <= Reached'
    <3>1. result'[k] \in Stamp'
      BY <2>4
    <3>2. result'[k].end \in Nat
      BY <3>1 DEF Stamp
    <3> QED BY <2>1, <2>3, <3>2
  <2>6. wordEnd' <= Reached => wordEnd' <= Reached'
    BY <2>1, <2>4
  <2>7. Gathering'
    BY <2>3, <2>5, <2>6 DEF Gathering
  <2> QED BY <2>2, <2>7
<1>10. CASE Extend
  <2>1. /\ SpanStart(i) \in Nat /\ SpanEnd(i) \in Nat
        /\ SpanStart(i) = Reached /\ SpanEnd(i) = Reached'
        /\ SpanStart(i) < SpanEnd(i)
    BY <1>6, <1>10 DEF Extend, Gather
  <2>2. Ordered'
    BY <1>3, <1>10 DEF Extend, Gather, Ordered
  <2>3. step = "scan" /\ result' = result
    BY <1>10 DEF Extend, Gather, Scanning
  <2>4. wordEnd <= SpanStart(i)
    BY <1>3, <1>4, <2>1, <2>3 DEF Gathering
  <2>5. wordEnd' = SpanEnd(i)
    BY <1>4, <1>10, <2>1, <2>4 DEF Extend, Gather
  <2>6. CASE wordStart = NoWord
    <3>1. wordStart' = SpanStart(i)
      BY <1>10, <2>6 DEF Extend, Gather, NoWord
    <3>2. ASSUME NEW k \in 1..Len(result)
          PROVE  result[k].end <= SpanStart(i) /\ result[k].end <= Reached'
      <4>1. result[k].end <= Reached
        BY <1>3, <2>3 DEF Gathering
      <4> QED BY <1>5, <2>1, <4>1
    <3>3. SpanStart(i) # NoWord /\ SpanEnd(i) <= Reached'
      BY <2>1 DEF NoWord
    <3> QED BY <2>1, <2>2, <2>3, <2>5, <3>1, <3>2, <3>3 DEF Gathering
  <2>7. CASE wordStart # NoWord
    <3>1. wordStart' = wordStart /\ wordStart \in Nat
      BY <1>4, <1>10, <2>7 DEF Extend, Gather
    <3> QED BY <1>3, <1>4, <1>5, <2>1, <2>2, <2>3, <2>4, <2>5, <2>7, <3>1 DEF Gathering
  <2> QED BY <2>6, <2>7
<1>11. CASE FlushLast
  <2>1. Ordered'
    BY <1>3, <1>11, FlushOrdered DEF FlushLast
  <2> QED BY <1>11, <2>1 DEF FlushLast, Gathering
<1>12. CASE ExtendTail
  <2>1. Gathering'
    BY <1>12 DEF ExtendTail, Gathering
  <2>2. /\ Len(result') = Len(result)
        /\ \A k \in 1..Len(result) :
             /\ result[k] \in Stamp
             /\ result'[k].word = result[k].word
             /\ result'[k].start = result[k].start
             /\ k # Len(result) => result'[k] = result[k]
             /\ result[k].end <= result'[k].end
    BY <1>12, TailFacts
  <2>3. wordIdx' = Len(result')
    BY <1>3, <1>12, <2>2 DEF ExtendTail, Ordered
  <2>4. ASSUME NEW k \in 1..Len(result)
        PROVE  result'[k].word = k /\ result'[k].start < result'[k].end
    <3>1. result'[k].end \in Nat /\ result'[k].start \in Nat
      <4>1. result' \in Seq(Stamp)
        BY <1>12, TailFacts
      <4>2. result'[k] \in Stamp
        BY <2>2, <4>1
      <4> QED BY <4>2 DEF Stamp
    <3> QED BY <1>3, <1>5, <2>2, <3>1 DEF Ordered
  <2>5. ASSUME NEW j \in 1..Len(result), NEW k \in 1..Len(result), j < k
        PROVE  result'[j].end <= result'[k].start
    <3>1. j # Len(result)
      BY <1>4, <2>5
    <3> QED BY <1>3, <2>2, <2>5, <3>1 DEF Ordered
  <2> QED BY <2>1, <2>2, <2>3, <2>4, <2>5 DEF Ordered
<1> QED BY <1>7, <1>8, <1>9, <1>10, <1>11, <1>12 DEF Next

(* All that the order of the entries rests on.                             *)
LEMMA OrderInvariance == Spec => []OrderInv
<1>1. Init => OrderInv
  BY DEF Init, OrderInv, Ordered, Gathering, NoWord
<1>2. TypeOK /\ OrderInv /\ [Next]_vars => OrderInv'
  <2> SUFFICES ASSUME TypeOK, OrderInv, [Next]_vars PROVE OrderInv'
    OBVIOUS
  <2>1. CASE Next
    BY <2>1, OrderStep
  <2>2. CASE UNCHANGED vars
    BY <2>2 DEF vars, OrderInv, OneRowPerToken, Ordered, Gathering, Reached,
                SpanEnd, Scaled, ModelTotal, Frames, N
  <2> QED BY <2>1, <2>2
<1> QED BY <1>1, <1>2, TypeCorrect, PTL DEF Spec

(* With a row per token and a sample per frame, words are reported in the  *)
(* order they are spoken, none twice, over spans that do not overlap,      *)
(* after every step of build_word_timestamps.                              *)
THEOREM OrderCorrect == Spec => []InOrder
<1>1. OrderInv => InOrder
  BY DEF OrderInv, Ordered, InOrder
<1> QED BY <1>1, OrderInvariance, PTL

-----------------------------------------------------------------------------
(* The end of the audio                                                    *)

(* Division rounds down.                                                   *)
LEMMA DivBound ==
  ASSUME NEW a \in Nat, NEW b \in Nat, NEW d \in Nat, d > 0, a <= d * b
  PROVE  a \div d <= b
<1> DEFINE p == a \div d
<1>1. p \in Int /\ a = d * p + (a % d) /\ a % d \in 0..(d - 1)
  OBVIOUS
<1> HIDE DEF p
<1>2. d * p <= d * b
  BY <1>1
<1>3. ASSUME p > b PROVE FALSE
  <2>1. PICK h \in Nat : p = b + 1 + h
    <3>1. p - b - 1 \in Nat /\ p = b + 1 + (p - b - 1)
      BY <1>1, <1>3
    <3> QED BY <3>1
  <2>2. d * p = d * b + d + d * h
    BY <2>1
  <2>3. d * h \in Nat /\ d * b \in Nat
    OBVIOUS
  <2> QED BY <1>2, <2>2, <2>3
<1> QED BY <1>1, <1>3 DEF p

(* No token is said to end after the audio, with a row for each.           *)
LEMMA SpanInside ==
  ASSUME TypeOK, OneRowPerToken, NEW k \in 1..Len(tokenIds)
  PROVE  SpanEnd(k) <= audioLen
<1>1. /\ ends \in Seq(Nat \ {0}) /\ N = Len(ends) /\ N \in Nat /\ k \in 1..N
      /\ \A m, n \in 1..Len(ends) : m < n => ends[m] < ends[n]
      /\ audioLen \in Nat /\ audioLen >= Frames /\ HopLength \in Nat \ {0}
  BY HopLengthAssumption DEF TypeOK, IsCall, OneRowPerToken, N
<1>2. N \in 1..N /\ ends[k] \in Nat /\ ends[N] \in Nat \ {0} /\ Frames = ends[N]
  BY <1>1 DEF Frames
<1>3. ends[k] <= Frames
  BY <1>1, <1>2
<1>4. ModelTotal > 0 /\ audioLen > 0
  BY <1>1, <1>2 DEF ModelTotal
<1>5. SpanEnd(k) = (ends[k] * audioLen) \div Frames
  BY <1>1, <1>4 DEF SpanEnd, Scaled
<1>6. ends[k] * audioLen \in Nat /\ ends[k] * audioLen <= Frames * audioLen
  <2>1. PICK h \in Nat : Frames = ends[k] + h
    <3>1. Frames - ends[k] \in Nat /\ Frames = ends[k] + (Frames - ends[k])
      BY <1>2, <1>3
    <3> QED BY <3>1
  <2>2. Frames * audioLen = ends[k] * audioLen + h * audioLen
    BY <1>1, <1>2, <2>1
  <2>3. h * audioLen \in Nat /\ ends[k] * audioLen \in Nat
    BY <1>1, <1>2
  <2> QED BY <2>2, <2>3
<1> DEFINE a == ends[k] * audioLen
<1>7. a \in Nat /\ Frames \in Nat /\ Frames > 0 /\ audioLen \in Nat
  BY <1>1, <1>2, <1>6
<1>8. a <= Frames * audioLen
  BY <1>6
<1>9. SpanEnd(k) = a \div Frames
  BY <1>5
<1> HIDE DEF a
<1>10. a \div Frames <= audioLen
  BY <1>7, <1>8, DivBound
<1> QED BY <1>9, <1>10

\* Nothing gathered or reported reaches past the audio, and the last word
\* reported is stretched to its end.
EndInv ==
  OneRowPerToken /\ audioLen = ModelTotal =>
    /\ wordEnd <= audioLen
    /\ \A k \in 1..Len(result) : result[k].end <= audioLen
    /\ step = "done" /\ result # <<>> => result[Len(result)].end = audioLen

(* Every step keeps the last entry within the audio.                       *)
LEMMA EndStep ==
  ASSUME TypeOK, EndInv, Next
  PROVE  EndInv'
<1>1. UNCHANGED <<tokenIds, nWords, ends, audioLen, shapeOk>>
  BY ArgumentsKept
<1>2. (OneRowPerToken /\ audioLen = ModelTotal)'
        <=> OneRowPerToken /\ audioLen = ModelTotal
  BY <1>1 DEF OneRowPerToken, N, Frames, ModelTotal
<1> SUFFICES ASSUME OneRowPerToken, audioLen = ModelTotal
             PROVE  /\ wordEnd' <= audioLen
                    /\ \A k \in 1..Len(result') : result'[k].end <= audioLen
                    /\ step' = "done" /\ result' # <<>>
                         => result'[Len(result')].end = audioLen
  BY <1>1, <1>2 DEF EndInv
<1>3. /\ wordEnd <= audioLen
      /\ \A k \in 1..Len(result) : result[k].end <= audioLen
  BY DEF EndInv
<1>4. audioLen \in Nat /\ wordEnd \in Nat /\ Len(result) \in Nat
  BY DEF TypeOK, IsCall
<1>5. CASE Reject
  BY <1>5 DEF Reject, OneRowPerToken
<1>6. CASE SkipPad
  BY <1>3, <1>6 DEF SkipPad, Scanning
<1>7. CASE FlushWord /\ step' # "done"
  <2>1. CASE UNCHANGED <<wordStart, wordEnd, wordIdx, result>>
    BY <1>3, <1>7, <2>1
  <2>2. CASE ~UNCHANGED <<wordStart, wordEnd, wordIdx, result>>
    <3>1. /\ wordEnd' = 0 /\ Len(result') = Len(result) + 1
          /\ \A k \in 1..Len(result) : result'[k] = result[k]
          /\ result'[Len(result) + 1] =
               [word |-> wordIdx + 1, start |-> wordStart, end |-> wordEnd]
      BY <1>7, <2>2, FlushFacts
    <3>2. ASSUME NEW k \in 1..Len(result') PROVE result'[k].end <= audioLen
      <4>1. CASE k \in 1..Len(result)
        BY <1>3, <3>1, <4>1
      <4>2. CASE k = Len(result) + 1
        BY <1>3, <3>1, <4>2
      <4> QED BY <1>4, <3>1, <4>1, <4>2
    <3> QED BY <1>4, <1>7, <3>1, <3>2
  <2> QED BY <2>1, <2>2
<1>8. CASE Extend
  <2>1. SpanEnd(i) <= audioLen
    BY <1>8, SpanInside DEF Extend, Gather, Scanning, TypeOK
  <2> QED BY <1>3, <1>8, <2>1 DEF Extend, Gather, Scanning
<1>9. CASE ExtendTail
  <2>1. /\ Len(result') = Len(result)
        /\ \A k \in 1..Len(result) :
             /\ result[k] \in Stamp
             /\ k # Len(result) => result'[k] = result[k]
    BY <1>9, TailFacts
  <2>2. wordEnd' = wordEnd
    BY <1>9 DEF ExtendTail
  <2>3. CASE result = <<>>
    BY <1>3, <1>9, <2>2, <2>3 DEF ExtendTail
  <2>4. CASE result # <<>>
    <3>1. Len(result) \in 1..Len(result)
      <4>1. result \in Seq(Stamp)
        BY DEF TypeOK, Stamp
      <4> QED BY <2>4, <4>1
    <3>2. result[Len(result)].end \in Nat /\ result[Len(result)].end <= audioLen
      BY <1>3, <2>1, <3>1 DEF Stamp
    <3>3. result'[Len(result)].end = audioLen
      <4>1. CASE ModelTotal > result[Len(result)].end
        <5>1. result' = [result EXCEPT ![Len(result)].end = ModelTotal]
          BY <1>9, <2>4, <4>1 DEF ExtendTail
        <5>2. result \in Seq(Stamp) /\ result[Len(result)] \in Stamp
          BY <2>1, <3>1 DEF TypeOK, Stamp
        <5>3. result'[Len(result)] = [result[Len(result)] EXCEPT !.end = ModelTotal]
          BY <3>1, <5>1, <5>2
        <5> QED BY <5>2, <5>3 DEF Stamp
      <4>2. CASE ~(ModelTotal > result[Len(result)].end)
        BY <1>4, <1>9, <3>2, <4>2 DEF ExtendTail
      <4> QED BY <4>1, <4>2
    <3>4. ASSUME NEW k \in 1..Len(result) PROVE result'[k].end <= audioLen
      BY <1>3, <1>4, <2>1, <3>3
    <3> QED BY <1>3, <2>1, <2>2, <3>3, <3>4
  <2> QED BY <2>3, <2>4
<1>10. CASE EndGroup
  BY <1>7, <1>10 DEF EndGroup, Scanning
<1>11. CASE FlushLast
  BY <1>7, <1>11 DEF FlushLast
<1> QED BY <1>5, <1>6, <1>8, <1>9, <1>10, <1>11 DEF Next

(* When a frame is HopLength samples long, the last word reported ends     *)
(* with the audio, whatever comes after its last token: the adjustment at  *)
(* the end of build_word_timestamps leaves no tail unlabelled.             *)
THEOREM LastWordCorrect == Spec => []LastWordEndsWithAudio
<1>1. Init => EndInv
  <2> SUFFICES ASSUME Init PROVE EndInv
    OBVIOUS
  <2>1. audioLen \in Nat
    BY CallsAssumption DEF Init, IsCall
  <2> QED BY <2>1 DEF Init, EndInv
<1>2. TypeOK /\ EndInv /\ [Next]_vars => EndInv'
  <2> SUFFICES ASSUME TypeOK, EndInv, [Next]_vars PROVE EndInv'
    OBVIOUS
  <2>1. CASE Next
    BY <2>1, EndStep
  <2>2. CASE UNCHANGED vars
    BY <2>2 DEF vars, EndInv, OneRowPerToken, ModelTotal, Frames, N
  <2> QED BY <2>1, <2>2
<1>3. EndInv => LastWordEndsWithAudio
  BY DEF EndInv, LastWordEndsWithAudio
<1> QED BY <1>1, <1>2, <1>3, TypeCorrect, PTL DEF Spec

-----------------------------------------------------------------------------
(* Groups and labels                                                       *)

\* What is known of the tokens.
Tokens == tokenIds \in Seq(Nat) /\ Len(tokenIds) \in Nat

\* The SPACEs before token k, and the sections that hold a voiced token up to
\* it, a section being what lies between two SPACEs.
SpacesUpTo(k) == {j \in 1..(k - 1) : tokenIds[j] = SPACE_TOKEN}
Sections(k)   == {SpacesBefore(j) : j \in Voiced \cap (1..k)}

(* How many SPACEs there are before a token is counted from one to the next. *)
LEMMA SpacesCount ==
  ASSUME Tokens, NEW k \in 1..Len(tokenIds)
  PROVE  /\ SpacesBefore(k) \in Nat
         /\ SpacesBefore(k + 1) =
              SpacesBefore(k) + (IF tokenIds[k] = SPACE_TOKEN THEN 1 ELSE 0)
<1>1. k \in Nat /\ k \in 1..k /\ k - 1 \in Int /\ (k + 1) - 1 = k
  BY DEF Tokens
<1>2. IsFiniteSet(1..(k - 1))
  BY <1>1, FS_Interval
<1>3. IsFiniteSet(SpacesUpTo(k)) /\ Cardinality(SpacesUpTo(k)) \in Nat
  <2>1. SpacesUpTo(k) \in SUBSET (1..(k - 1))
    BY DEF SpacesUpTo
  <2> QED BY <1>2, <2>1, FS_Subset, FS_CardinalityType
<1>4. k \notin SpacesUpTo(k)
  BY <1>1 DEF SpacesUpTo
<1>5. /\ SpacesBefore(k) = Cardinality(SpacesUpTo(k))
      /\ SpacesBefore(k + 1) = Cardinality(SpacesUpTo(k + 1))
  BY DEF SpacesBefore, SpacesUpTo
<1>6. CASE tokenIds[k] = SPACE_TOKEN
  <2>1. SpacesUpTo(k + 1) = SpacesUpTo(k) \cup {k}
    BY <1>1, <1>6 DEF SpacesUpTo
  <2>2. Cardinality(SpacesUpTo(k + 1)) = Cardinality(SpacesUpTo(k)) + 1
    BY <1>3, <1>4, <2>1, FS_AddElement
  <2> QED BY <1>3, <1>6, <1>5, <2>2
<1>7. CASE tokenIds[k] # SPACE_TOKEN
  <2>1. SpacesUpTo(k + 1) = SpacesUpTo(k)
    BY <1>1, <1>7 DEF SpacesUpTo
  <2> QED BY <1>3, <1>7, <1>5, <2>1
<1> QED BY <1>6, <1>7

(* There are no fewer of them before a later token.                        *)
LEMMA SpacesGrow ==
  ASSUME Tokens, NEW j \in 1..(Len(tokenIds) + 1), NEW k \in 1..(Len(tokenIds) + 1),
         j <= k
  PROVE  SpacesBefore(j) \in Nat /\ SpacesBefore(k) \in Nat
         /\ SpacesBefore(j) <= SpacesBefore(k)
<1>1. SpacesUpTo(j) \in SUBSET SpacesUpTo(k) /\ SpacesUpTo(k) \in SUBSET (1..(k - 1))
  BY DEF SpacesUpTo, Tokens
<1>2. k - 1 \in Int /\ IsFiniteSet(1..(k - 1))
  BY FS_Interval DEF Tokens
<1>3. IsFiniteSet(SpacesUpTo(k))
  BY <1>1, <1>2, FS_Subset
<1>4. /\ IsFiniteSet(SpacesUpTo(j))
      /\ Cardinality(SpacesUpTo(j)) <= Cardinality(SpacesUpTo(k))
  BY <1>1, <1>3, FS_Subset
<1> QED BY <1>3, <1>4, FS_CardinalityType DEF SpacesBefore, SpacesUpTo

(* The sections up to a token are finitely many.                           *)
LEMMA SectionsFinite ==
  ASSUME Tokens, NEW k \in 0..Len(tokenIds)
  PROVE  /\ IsFiniteSet(Sections(k))
         /\ Group(k) \in Nat /\ Group(k) = Cardinality(Sections(k))
         /\ \A s \in Sections(k) : s \in Nat /\ s <= SpacesBefore(k + 1)
<1>1. k \in Nat /\ k + 1 \in 1..(Len(tokenIds) + 1)
  BY DEF Tokens
<1>2. ASSUME NEW s \in Sections(k)
      PROVE  s \in Nat /\ s <= SpacesBefore(k + 1)
  <2>1. PICK j \in Voiced \cap (1..k) : s = SpacesBefore(j)
    BY DEF Sections
  <2>2. j \in 1..(Len(tokenIds) + 1) /\ j <= k + 1
    BY <1>1, <2>1 DEF Tokens
  <2> QED BY <1>1, <2>1, <2>2, SpacesGrow
<1>3. SpacesBefore(k + 1) \in Nat
  BY <1>1, SpacesGrow
<1>4. IsFiniteSet(Sections(k))
  <2>1. Sections(k) \in SUBSET Nat
    BY <1>2
  <2> QED BY <1>2, <1>3, <2>1, FS_BoundedSetOfNaturals
<1> QED BY <1>2, <1>4, FS_CardinalityType DEF Group, Sections

(* A voiced token is of the group before it, or opens the next; any other  *)
(* leaves the count of groups.                                             *)
LEMMA GroupNext ==
  ASSUME Tokens, NEW k \in 1..Len(tokenIds)
  PROVE  /\ k \notin Voiced => Sections(k) = Sections(k - 1) /\ Group(k) = Group(k - 1)
         /\ k \in Voiced =>
              /\ SpacesBefore(k) \in Sections(k)
              /\ Group(k) = IF SpacesBefore(k) \in Sections(k - 1)
                            THEN Group(k - 1) ELSE Group(k - 1) + 1
<1>1. k - 1 \in 0..Len(tokenIds) /\ k \in 0..Len(tokenIds) /\ k \in 1..k
  BY DEF Tokens
<1>2. \A j : j \in 1..k <=> (j \in 1..(k - 1) \/ j = k)
  BY <1>1 DEF Tokens
<1>3. CASE k \notin Voiced
  <2>1. Voiced \cap (1..k) = Voiced \cap (1..(k - 1))
    BY <1>2, <1>3
  <2>2. Sections(k) = Sections(k - 1)
    BY <2>1 DEF Sections
  <2> QED BY <1>1, <1>3, <2>2, SectionsFinite
<1>4. CASE k \in Voiced
  <2>1. Sections(k) = Sections(k - 1) \cup {SpacesBefore(k)}
    BY <1>2, <1>4 DEF Sections
  <2>2. IsFiniteSet(Sections(k - 1))
    BY <1>1, SectionsFinite
  <2>3. Cardinality(Sections(k)) = IF SpacesBefore(k) \in Sections(k - 1)
                                   THEN Cardinality(Sections(k - 1))
                                   ELSE Cardinality(Sections(k - 1)) + 1
    BY <2>1, <2>2, FS_AddElement
  <2> QED BY <1>1, <1>4, <2>1, <2>3, SectionsFinite
<1> QED BY <1>3, <1>4

(* Later tokens are of no earlier group, and of a later one if their       *)
(* section is new.                                                         *)
LEMMA GroupGrows ==
  ASSUME Tokens, NEW j \in 0..Len(tokenIds), NEW k \in 0..Len(tokenIds), j <= k
  PROVE  /\ Group(j) <= Group(k)
         /\ k \in Voiced /\ SpacesBefore(k) \notin Sections(j) => Group(j) + 1 <= Group(k)
<1>1. Sections(j) \in SUBSET Sections(k)
  BY DEF Sections, Tokens
<1>2. Group(j) <= Group(k)
  BY <1>1, SectionsFinite, FS_Subset
<1>3. ASSUME k \in Voiced, SpacesBefore(k) \notin Sections(j)
      PROVE  Group(j) + 1 <= Group(k)
  <2>1. k \in 1..k
    BY <1>3 DEF Voiced, Tokens
  <2>2. SpacesBefore(k) \in Sections(k)
    BY <1>3, <2>1 DEF Sections
  <2>3. Sections(j) \cup {SpacesBefore(k)} \in SUBSET Sections(k)
    BY <1>1, <2>2
  <2>4. Cardinality(Sections(j) \cup {SpacesBefore(k)}) = Cardinality(Sections(j)) + 1
    BY <1>3, SectionsFinite, FS_AddElement
  <2>5. Cardinality(Sections(j)) + 1 <= Cardinality(Sections(k))
    BY <2>3, <2>4, SectionsFinite, FS_Subset
  <2> QED BY <2>5, SectionsFinite
<1> QED BY <1>2, <1>3

(* The tokens of a group, given its first and its last one.                *)
LEMMA GroupSpan ==
  ASSUME Tokens, NEW g, NEW f \in Voiced, NEW l \in Voiced,
         Group(f) = g, Group(l) = g,
         \A j \in Voiced : j < f => Group(j) # g,
         \A j \in Voiced : l < j => Group(j) # g
  PROVE  f = Min(TokensOf(g)) /\ l = Max(TokensOf(g))
<1>1. TokensOf(g) \in SUBSET (0..Len(tokenIds)) /\ TokensOf(g) \in SUBSET Nat
  BY DEF TokensOf, Voiced, Tokens
<1>2. f \in TokensOf(g) /\ l \in TokensOf(g)
  BY DEF TokensOf
<1>3. \A j \in TokensOf(g) : j \in Voiced /\ Group(j) = g /\ j \in Nat
  BY <1>1 DEF TokensOf
<1>4. f \in Nat /\ l \in Nat /\ Len(tokenIds) \in Nat
  BY <1>1, <1>2 DEF Tokens
<1>5. f = Min(TokensOf(g))
  <2>1. Min(TokensOf(g)) \in TokensOf(g) /\ \A y \in TokensOf(g) : Min(TokensOf(g)) <= y
    BY <1>1, <1>2, MinFacts
  <2>2. Min(TokensOf(g)) <= f /\ Min(TokensOf(g)) \in Nat /\ ~(Min(TokensOf(g)) < f)
    BY <1>2, <1>3, <2>1
  <2> QED BY <1>4, <2>2
<1>6. l = Max(TokensOf(g))
  <2>1. Max(TokensOf(g)) \in TokensOf(g) /\ \A y \in TokensOf(g) : y <= Max(TokensOf(g))
    BY <1>1, <1>2, <1>4, MaxFacts
  <2>2. l <= Max(TokensOf(g)) /\ Max(TokensOf(g)) \in Nat /\ ~(l < Max(TokensOf(g)))
    BY <1>2, <1>3, <2>1
  <2> QED BY <1>4, <2>2
<1> QED BY <1>5, <1>6

\* Each entry has the times of the group of its number.
Reported ==
  \A k \in 1..Len(result) :
    \E f, l \in Nat :
      /\ f = Min(TokensOf(k)) /\ l = Max(TokensOf(k))
      /\ result[k].start = SpanStart(f)
      /\ SpanEnd(l) <= result[k].end
      /\ k < Len(result) \/ step # "done" => result[k].end = SpanEnd(l)

\* With m tokens read and labels left, the words reported are those of all
\* groups but the one that is open, which is the one being gathered.
Counted ==
  \A m \in 0..Len(tokenIds) :
    m = i - 1 =>
      /\ wordIdx <= Group(m)
      /\ wordIdx < nWords /\ SpacesBefore(m + 1) \notin Sections(m) =>
           wordStart = NoWord /\ wordEnd = 0 /\ Group(m) = wordIdx
      /\ wordIdx < nWords /\ SpacesBefore(m + 1) \in Sections(m) =>
           /\ Group(m) = wordIdx + 1
           /\ \E f, l \in Voiced :
                /\ l <= m
                /\ Group(f) = wordIdx + 1 /\ Group(l) = wordIdx + 1
                /\ wordStart = SpanStart(f) /\ wordEnd = SpanEnd(l)
                /\ \A j \in Voiced : j < f => Group(j) <= wordIdx
                /\ \A j \in Voiced : j <= m => j <= l

\* The labels or the groups have run out.
Settled ==
  /\ wordIdx <= GroupCount
  /\ wordIdx < nWords => wordIdx = GroupCount

LabelInv ==
  OneRowPerToken =>
    /\ Reported
    /\ IF step = "scan" THEN Counted ELSE Settled

(* What the tokens and the rows determine stays as they do.                *)
LEMMA GroupsKept ==
  ASSUME UNCHANGED <<tokenIds, nWords, ends, audioLen, shapeOk>>
  PROVE  /\ Voiced' = Voiced /\ GroupCount' = GroupCount
         /\ OneRowPerToken' <=> OneRowPerToken
         /\ \A k : /\ SpacesBefore(k)' = SpacesBefore(k)
                   /\ Sections(k)' = Sections(k) /\ Group(k)' = Group(k)
                   /\ TokensOf(k)' = TokensOf(k)
                   /\ Min(TokensOf(k))' = Min(TokensOf(k))
                   /\ Max(TokensOf(k))' = Max(TokensOf(k))
                   /\ SpanStart(k)' = SpanStart(k) /\ SpanEnd(k)' = SpanEnd(k)
<1>1. Voiced' = Voiced
  BY DEF Voiced
<1>2. ASSUME NEW k PROVE SpacesBefore(k)' = SpacesBefore(k)
  BY DEF SpacesBefore
<1>3. ASSUME NEW k PROVE Sections(k)' = Sections(k) /\ Group(k)' = Group(k)
  BY <1>1, <1>2 DEF Sections, Group
<1>4. GroupCount' = GroupCount
  BY <1>1, <1>2 DEF GroupCount
<1>5. ASSUME NEW k
      PROVE  /\ TokensOf(k)' = TokensOf(k)
             /\ Min(TokensOf(k))' = Min(TokensOf(k))
             /\ Max(TokensOf(k))' = Max(TokensOf(k))
  <2>1. TokensOf(k)' = TokensOf(k)
    BY <1>1, <1>3 DEF TokensOf
  <2> QED BY <2>1 DEF Min, Max
<1>6. ASSUME NEW k PROVE SpanStart(k)' = SpanStart(k) /\ SpanEnd(k)' = SpanEnd(k)
  BY DEF SpanStart, SpanEnd, Scaled, ModelTotal, Frames, N
<1>7. OneRowPerToken' <=> OneRowPerToken
  BY DEF OneRowPerToken, N, Frames
<1> QED BY <1>1, <1>2, <1>3, <1>4, <1>5, <1>6, <1>7

(* flush_word after m tokens, when no later one is of a section seen so    *)
(* far: what was gathered is reported as the group it is.                  *)
LEMMA FlushLabels ==
  ASSUME TypeOK, OneRowPerToken, wordIdx = Len(result), Reported, Counted,
         step = "scan", FlushWord,
         NEW m \in 0..Len(tokenIds), m = i - 1,
         \A j \in Voiced : m < j => SpacesBefore(j) \notin Sections(m)
  PROVE  /\ wordIdx' <= Group(m)
         /\ wordIdx' < nWords =>
              wordStart' = NoWord /\ wordEnd' = 0 /\ Group(m) = wordIdx'
         /\ \A k \in 1..Len(result') :
              \E f, l \in Nat :
                /\ f = Min(TokensOf(k)) /\ l = Max(TokensOf(k))
                /\ result'[k].start = SpanStart(f)
                /\ SpanEnd(l) <= result'[k].end
                /\ result'[k].end = SpanEnd(l)
<1>1. /\ Tokens /\ wordIdx \in Nat /\ nWords \in Nat /\ wordIdx <= nWords
      /\ Group(m) \in Nat /\ Len(result) \in Nat
      /\ wordStart \in Nat \cup {NoWord}
  <2>1. Tokens
    BY DEF TypeOK, IsCall, Tokens
  <2> QED BY <2>1, SectionsFinite DEF TypeOK, IsCall
<1>2. \A k \in 1..Len(result) :
        \E f, l \in Nat :
          /\ f = Min(TokensOf(k)) /\ l = Max(TokensOf(k))
          /\ result[k].start = SpanStart(f)
          /\ SpanEnd(l) <= result[k].end
          /\ result[k].end = SpanEnd(l)
  BY DEF Reported
<1>3. CASE ~(wordIdx < nWords)
  <2>1. UNCHANGED <<wordStart, wordEnd, wordIdx, result>>
    BY <1>3 DEF FlushWord, Emit
  <2> QED BY <1>2, <1>3, <2>1 DEF Counted
<1>4. CASE wordIdx < nWords /\ SpacesBefore(m + 1) \notin Sections(m)
  <2>1. wordStart = NoWord /\ wordEnd = 0 /\ Group(m) = wordIdx
    BY <1>4 DEF Counted
  <2>2. UNCHANGED <<wordStart, wordEnd, wordIdx, result>>
    BY <2>1 DEF FlushWord, Emit, NoWord
  <2> QED BY <1>1, <1>2, <2>1, <2>2
<1>5. CASE wordIdx < nWords /\ SpacesBefore(m + 1) \in Sections(m)
  <2>1. Group(m) = wordIdx + 1
    BY <1>5 DEF Counted
  <2>2. PICK f \in Voiced, l \in Voiced :
          /\ l <= m
          /\ Group(f) = wordIdx + 1 /\ Group(l) = wordIdx + 1
          /\ wordStart = SpanStart(f) /\ wordEnd = SpanEnd(l)
          /\ \A j \in Voiced : j < f => Group(j) <= wordIdx
          /\ \A j \in Voiced : j <= m => j <= l
    BY <1>5 DEF Counted
  <2>3. f \in Nat /\ l \in Nat
    BY DEF Voiced
  <2>4. ASSUME NEW j \in Voiced PROVE /\ j < f => Group(j) # wordIdx + 1
                                      /\ l < j => Group(j) # wordIdx + 1
    <3>1. j \in 0..Len(tokenIds) /\ j \in Nat
      BY <1>1 DEF Voiced, Tokens
    <3>2. Group(j) \in Nat
      BY <1>1, <3>1, SectionsFinite
    <3>3. ASSUME l < j PROVE Group(m) + 1 <= Group(j)
      <4>1. m < j
        BY <1>1, <2>2, <2>3, <3>1, <3>3
      <4>2. SpacesBefore(j) \notin Sections(m)
        BY <4>1
      <4> QED BY <1>1, <3>1, <4>1, <4>2, GroupGrows
    <3> QED BY <1>1, <2>1, <2>2, <3>2, <3>3
  <2>5. f = Min(TokensOf(wordIdx + 1)) /\ l = Max(TokensOf(wordIdx + 1))
    BY <1>1, <2>2, <2>4, GroupSpan
  <2>6. wordStart \in Nat /\ wordEnd \in Nat
    BY <2>2, <2>3, SpanType
  <2>7. /\ wordIdx' = wordIdx + 1 /\ wordStart' = NoWord /\ wordEnd' = 0
        /\ Len(result') = Len(result) + 1
        /\ \A k \in 1..Len(result) : result'[k] = result[k]
        /\ result'[Len(result) + 1] =
             [word |-> wordIdx + 1, start |-> wordStart, end |-> wordEnd]
    <3>1. ~UNCHANGED <<wordStart, wordEnd, wordIdx, result>>
      BY <1>1, <1>5, <2>6 DEF FlushWord, Emit
    <3> QED BY <3>1, FlushFacts
  <2>8. ASSUME NEW k \in 1..Len(result')
        PROVE  \E a, b \in Nat :
                 /\ a = Min(TokensOf(k)) /\ b = Max(TokensOf(k))
                 /\ result'[k].start = SpanStart(a)
                 /\ SpanEnd(b) <= result'[k].end
                 /\ result'[k].end = SpanEnd(b)
    <3>1. CASE k \in 1..Len(result)
      BY <1>2, <2>7, <3>1
    <3>2. CASE k = wordIdx + 1
      <4>1. result'[k].start = SpanStart(f) /\ result'[k].end = SpanEnd(l)
        BY <2>2, <2>7, <3>2
      <4> QED BY <2>2, <2>3, <2>5, <2>6, <3>2, <4>1
    <3> QED BY <1>1, <2>7, <3>1, <3>2
  <2> QED BY <1>1, <2>1, <2>7, <2>8
<1> QED BY <1>3, <1>4, <1>5

(* A token that is neither a pad nor a SPACE joins the group being         *)
(* gathered, or opens the next one.                                        *)
LEMMA ExtendLabels ==
  ASSUME TypeOK, OneRowPerToken, Ordered, Gathering, Counted, Extend
  PROVE  Counted'
<1>1. UNCHANGED <<tokenIds, nWords, ends, audioLen, shapeOk>>
  BY DEF Extend, Gather, arguments
<1>2. /\ Voiced' = Voiced
      /\ \A k : /\ SpacesBefore(k)' = SpacesBefore(k)
                /\ Sections(k)' = Sections(k) /\ Group(k)' = Group(k)
                /\ SpanStart(k)' = SpanStart(k) /\ SpanEnd(k)' = SpanEnd(k)
  BY <1>1, GroupsKept
<1>3. /\ Tokens /\ i \in 1..Len(tokenIds) /\ i \in Nat /\ i - 1 \in 0..Len(tokenIds)
      /\ tokenIds[i] \notin {PAD_TOKEN, SPACE_TOKEN} /\ i \in Voiced
      /\ (i - 1) + 1 = i /\ step = "scan"
      /\ i' = i + 1 /\ wordIdx' = wordIdx /\ wordIdx \in Nat
      /\ wordStart \in Nat \cup {NoWord} /\ wordEnd \in Nat
  BY DEF TypeOK, IsCall, Tokens, Extend, Gather, Scanning, Voiced
<1>4. SpacesBefore(i + 1) = SpacesBefore(i) /\ SpacesBefore(i) \in Sections(i)
  BY <1>3, SpacesCount, GroupNext
<1>5. /\ Group(i) \in Nat /\ Group(i - 1) \in Nat
      /\ Group(i) = IF SpacesBefore(i) \in Sections(i - 1)
                    THEN Group(i - 1) ELSE Group(i - 1) + 1
  BY <1>3, GroupNext, SectionsFinite
<1>6. wordIdx <= Group(i)
  BY <1>3, <1>5 DEF Counted
<1>7. SpanStart(i) \in Nat /\ SpanEnd(i) \in Nat /\ SpanStart(i) < SpanEnd(i)
      /\ SpanStart(i) = Reached
  BY <1>3, SpanApart
<1>8. \A j \in Voiced : j \in Nat /\ (j <= i => j <= i - 1 \/ j = i)
  BY <1>3 DEF Voiced
<1>9. ASSUME wordIdx < nWords
      PROVE  /\ Group(i) = wordIdx + 1
             /\ \E f, l \in Voiced :
                  /\ l <= i
                  /\ Group(f) = wordIdx + 1 /\ Group(l) = wordIdx + 1
                  /\ wordStart' = SpanStart(f) /\ wordEnd' = SpanEnd(l)
                  /\ \A j \in Voiced : j < f => Group(j) <= wordIdx
                  /\ \A j \in Voiced : j <= i => j <= l
  <2>1. CASE SpacesBefore(i) \notin Sections(i - 1)
    <3>1. wordStart = NoWord /\ wordEnd = 0 /\ Group(i - 1) = wordIdx
      BY <1>3, <1>9, <2>1 DEF Counted
    <3>2. wordStart' = SpanStart(i) /\ wordEnd' = SpanEnd(i)
      BY <1>7, <3>1 DEF Extend, Gather, NoWord
    <3>3. Group(i) = wordIdx + 1
      BY <1>5, <2>1, <3>1
    <3>4. ASSUME NEW j \in Voiced, j < i PROVE Group(j) <= wordIdx
      <4>1. j \in 0..Len(tokenIds) /\ j <= i - 1
        BY <1>3, <3>4 DEF Voiced, Tokens
      <4> QED BY <1>3, <3>1, <4>1, GroupGrows
    <3>5. i <= i
      BY <1>3
    <3> QED BY <1>3, <3>2, <3>3, <3>4, <3>5
  <2>2. CASE SpacesBefore(i) \in Sections(i - 1)
    <3>1. /\ Group(i - 1) = wordIdx + 1
          /\ \E f, l \in Voiced :
               /\ l <= i - 1
               /\ Group(f) = wordIdx + 1 /\ Group(l) = wordIdx + 1
               /\ wordStart = SpanStart(f) /\ wordEnd = SpanEnd(l)
               /\ \A j \in Voiced : j < f => Group(j) <= wordIdx
               /\ \A j \in Voiced : j <= i - 1 => j <= l
      BY <1>3, <1>9, <2>2 DEF Counted
    <3>2. PICK f \in Voiced, l \in Voiced :
               /\ l <= i - 1
               /\ Group(f) = wordIdx + 1 /\ Group(l) = wordIdx + 1
               /\ wordStart = SpanStart(f) /\ wordEnd = SpanEnd(l)
               /\ \A j \in Voiced : j < f => Group(j) <= wordIdx
      BY <3>1
    <3>3. Group(i) = wordIdx + 1
      BY <1>5, <2>2, <3>1
    <3>4. wordStart \in Nat /\ wordStart # NoWord
      <4>1. f \in Nat
        BY <1>8
      <4> QED BY <3>2, <4>1, SpanType DEF NoWord
    <3>5. wordStart' = SpanStart(f)
      BY <3>2, <3>4 DEF Extend, Gather
    <3>6. wordEnd' = SpanEnd(i)
      <4>1. wordEnd <= Reached
        BY <1>3, <3>4 DEF Gathering
      <4>2. wordEnd < SpanEnd(i)
        BY <1>3, <1>7, <4>1
      <4> QED BY <1>3, <1>7, <4>2 DEF Extend, Gather
    <3>7. i <= i
      BY <1>3
    <3> QED BY <1>3, <3>2, <3>3, <3>5, <3>6, <3>7
  <2> QED BY <2>1, <2>2
<1>10. nWords' = nWords /\ Len(tokenIds)' = Len(tokenIds)
  BY <1>1
<1> SUFFICES ASSUME NEW m \in 0..Len(tokenIds), m = i
             PROVE  /\ wordIdx <= Group(m)
                    /\ SpacesBefore(m + 1) \in Sections(m)
                    /\ wordIdx < nWords =>
                         /\ Group(m) = wordIdx + 1
                         /\ \E f, l \in Voiced :
                              /\ l <= m
                              /\ Group(f) = wordIdx + 1 /\ Group(l) = wordIdx + 1
                              /\ wordStart' = SpanStart(f) /\ wordEnd' = SpanEnd(l)
                              /\ \A j \in Voiced : j < f => Group(j) <= wordIdx
                              /\ \A j \in Voiced : j <= m => j <= l
  <2>1. i' - 1 = i
    BY <1>3
  <2> QED BY <1>2, <1>3, <1>10, <2>1 DEF Counted
<1> QED BY <1>4, <1>6, <1>9

(* A pad or a SPACE opens no group, and a SPACE closes the one there is.   *)
LEMMA QuietToken ==
  ASSUME Tokens, NEW k \in 1..Len(tokenIds), tokenIds[k] \in {PAD_TOKEN, SPACE_TOKEN}
  PROVE  /\ Sections(k) = Sections(k - 1) /\ Group(k) = Group(k - 1)
         /\ tokenIds[k] = PAD_TOKEN => SpacesBefore(k + 1) = SpacesBefore(k)
         /\ tokenIds[k] = SPACE_TOKEN =>
              /\ SpacesBefore(k + 1) \notin Sections(k)
              /\ \A j \in Voiced : k - 1 < j => SpacesBefore(j) \notin Sections(k - 1)
<1>1. k \notin Voiced /\ k \in Nat /\ k - 1 \in 0..Len(tokenIds) /\ (k - 1) + 1 = k
  BY DEF Voiced, Tokens
<1>2. Sections(k) = Sections(k - 1) /\ Group(k) = Group(k - 1)
  BY <1>1, GroupNext
<1>3. \A s \in Sections(k - 1) : s \in Nat /\ s <= SpacesBefore(k)
  BY <1>1, SectionsFinite
<1>4. /\ SpacesBefore(k) \in Nat
      /\ SpacesBefore(k + 1) =
           SpacesBefore(k) + (IF tokenIds[k] = SPACE_TOKEN THEN 1 ELSE 0)
  BY SpacesCount
<1>5. ASSUME tokenIds[k] = SPACE_TOKEN, NEW j \in Voiced, k - 1 < j
      PROVE  SpacesBefore(j) \notin Sections(k - 1)
  <2>1. j \in 1..(Len(tokenIds) + 1) /\ k + 1 \in 1..(Len(tokenIds) + 1) /\ k + 1 <= j
    BY <1>1, <1>5 DEF Voiced, Tokens
  <2>2. SpacesBefore(j) \in Nat /\ SpacesBefore(k + 1) <= SpacesBefore(j)
    BY <2>1, SpacesGrow
  <2> QED BY <1>3, <1>4, <1>5, <2>2
<1>6. SPACE_TOKEN # PAD_TOKEN
  BY DEF SPACE_TOKEN, PAD_TOKEN
<1> QED BY <1>2, <1>3, <1>4, <1>5, <1>6

(* Every step keeps the labels with their groups.                          *)
LEMMA LabelStep ==
  ASSUME TypeOK, OrderInv, LabelInv, Next
  PROVE  LabelInv'
<1>1. UNCHANGED <<tokenIds, nWords, ends, audioLen, shapeOk>>
  BY ArgumentsKept
<1>2. /\ Voiced' = Voiced /\ GroupCount' = GroupCount
      /\ OneRowPerToken' <=> OneRowPerToken
      /\ \A k : /\ SpacesBefore(k)' = SpacesBefore(k)
                /\ Sections(k)' = Sections(k) /\ Group(k)' = Group(k)
                /\ Min(TokensOf(k))' = Min(TokensOf(k))
                /\ Max(TokensOf(k))' = Max(TokensOf(k))
                /\ SpanStart(k)' = SpanStart(k) /\ SpanEnd(k)' = SpanEnd(k)
  BY <1>1, GroupsKept
<1> SUFFICES ASSUME OneRowPerToken
             PROVE  Reported' /\ IF step' = "scan" THEN Counted' ELSE Settled'
  BY <1>2 DEF LabelInv
<1>3. /\ Ordered /\ Gathering /\ Reported /\ wordIdx = Len(result)
      /\ IF step = "scan" THEN Counted ELSE Settled
  BY DEF OrderInv, LabelInv, Ordered
<1>4. /\ Tokens /\ i \in Nat \ {0} /\ i <= Len(tokenIds) + 1
      /\ Len(result) \in Nat /\ wordIdx \in Nat /\ wordIdx <= nWords /\ nWords \in Nat
  BY DEF TypeOK, IsCall, Tokens
<1>5. CASE Reject
  BY <1>5 DEF Reject, OneRowPerToken
<1>6. CASE SkipPad
  <2>1. /\ step = "scan" /\ step' = "scan" /\ i' = i + 1
        /\ i \in 1..Len(tokenIds) /\ tokenIds[i] = PAD_TOKEN
        /\ UNCHANGED <<wordStart, wordEnd, wordIdx, result>>
    BY <1>4, <1>6 DEF SkipPad, Scanning, Tokens
  <2>2. Reported'
    BY <1>2, <1>3, <2>1 DEF Reported
  <2>3. /\ Sections(i) = Sections(i - 1) /\ Group(i) = Group(i - 1)
        /\ SpacesBefore(i + 1) = SpacesBefore(i)
        /\ \A j \in Voiced : j \in Nat /\ (j <= i => j <= i - 1)
    <3>1. \A j \in Voiced : j \in Nat /\ j # i
      BY <2>1 DEF Voiced
    <3> QED BY <1>4, <2>1, <3>1, QuietToken
  <2>4. /\ wordIdx <= Group(i)
        /\ wordIdx < nWords /\ SpacesBefore(i + 1) \notin Sections(i) =>
             wordStart = NoWord /\ wordEnd = 0 /\ Group(i) = wordIdx
        /\ wordIdx < nWords /\ SpacesBefore(i + 1) \in Sections(i) =>
             /\ Group(i) = wordIdx + 1
             /\ \E f, l \in Voiced :
                  /\ l <= i
                  /\ Group(f) = wordIdx + 1 /\ Group(l) = wordIdx + 1
                  /\ wordStart = SpanStart(f) /\ wordEnd = SpanEnd(l)
                  /\ \A j \in Voiced : j < f => Group(j) <= wordIdx
                  /\ \A j \in Voiced : j <= i => j <= l
    <3>1. i - 1 \in 0..Len(tokenIds) /\ (i - 1) + 1 = i
      BY <1>4, <2>1 DEF Tokens
    <3>2. \A l \in Voiced : l <= i - 1 => l <= i
      BY <1>4, <2>3
    <3> QED BY <1>3, <2>1, <2>3, <3>1, <3>2 DEF Counted
  <2>5. Counted'
    <3>1. i' - 1 = i
      BY <1>4, <2>1
    <3> QED BY <1>1, <1>2, <2>1, <2>4, <3>1 DEF Counted
  <2> QED BY <2>1, <2>2, <2>5
<1>7. CASE EndGroup
  <2>1. /\ step = "scan" /\ step' = "scan" /\ i' = i + 1 /\ FlushWord
        /\ i \in 1..Len(tokenIds) /\ tokenIds[i] = SPACE_TOKEN
        /\ i - 1 \in 0..Len(tokenIds)
    BY <1>4, <1>7 DEF EndGroup, Scanning, Tokens
  <2>2. /\ Sections(i) = Sections(i - 1) /\ Group(i) = Group(i - 1)
        /\ SpacesBefore(i + 1) \notin Sections(i)
        /\ \A j \in Voiced : i - 1 < j => SpacesBefore(j) \notin Sections(i - 1)
    BY <1>4, <2>1, QuietToken
  <2>3. /\ wordIdx' <= Group(i - 1)
        /\ wordIdx' < nWords =>
             wordStart' = NoWord /\ wordEnd' = 0 /\ Group(i - 1) = wordIdx'
        /\ \A k \in 1..Len(result') :
             \E f, l \in Nat :
               /\ f = Min(TokensOf(k)) /\ l = Max(TokensOf(k))
               /\ result'[k].start = SpanStart(f)
               /\ SpanEnd(l) <= result'[k].end
               /\ result'[k].end = SpanEnd(l)
    BY <1>3, <2>1, <2>2, FlushLabels
  <2>4. Reported'
    BY <1>2, <2>1, <2>3 DEF Reported
  <2>5. Counted'
    <3>1. i' - 1 = i
      BY <1>4, <2>1
    <3> QED BY <1>1, <1>2, <2>2, <2>3, <3>1 DEF Counted
  <2> QED BY <2>1, <2>4, <2>5
<1>8. CASE Extend
  <2>1. step = "scan" /\ step' = "scan" /\ result' = result
    BY <1>8 DEF Extend, Gather, Scanning
  <2>2. Reported'
    BY <1>2, <1>3, <2>1 DEF Reported
  <2>3. Counted'
    BY <1>3, <1>8, <2>1, ExtendLabels
  <2> QED BY <2>1, <2>2, <2>3
<1>9. CASE FlushLast
  <2>1. /\ step = "scan" /\ step' = "tail" /\ FlushWord /\ i - 1 = Len(tokenIds)
        /\ i - 1 \in 0..Len(tokenIds)
        /\ \A j \in Voiced : ~(i - 1 < j)
    <3>1. i - 1 = Len(tokenIds)
      BY <1>4, <1>9 DEF FlushLast, Tokens
    <3>2. \A j \in Voiced : j \in Nat /\ j <= Len(tokenIds)
      BY <1>4 DEF Voiced, Tokens
    <3> QED BY <1>4, <1>9, <3>1, <3>2 DEF FlushLast, Tokens
  <2>2. /\ wordIdx' <= Group(i - 1)
        /\ wordIdx' < nWords =>
             wordStart' = NoWord /\ wordEnd' = 0 /\ Group(i - 1) = wordIdx'
        /\ \A k \in 1..Len(result') :
             \E f, l \in Nat :
               /\ f = Min(TokensOf(k)) /\ l = Max(TokensOf(k))
               /\ result'[k].start = SpanStart(f)
               /\ SpanEnd(l) <= result'[k].end
               /\ result'[k].end = SpanEnd(l)
    BY <1>3, <2>1, FlushLabels
  <2>3. Reported'
    BY <1>2, <2>1, <2>2 DEF Reported
  <2>4. GroupCount = Group(i - 1)
    <3>1. Voiced \cap (1..Len(tokenIds)) = Voiced
      BY DEF Voiced
    <3> QED BY <2>1, <3>1 DEF GroupCount, Group
  <2>5. Settled'
    BY <1>1, <1>2, <2>2, <2>4 DEF Settled
  <2> QED BY <2>1, <2>3, <2>5
<1>10. CASE ExtendTail
  <2>1. step = "tail" /\ step' = "done" /\ wordIdx' = wordIdx
    BY <1>10 DEF ExtendTail
  <2>2. Settled'
    BY <1>1, <1>2, <1>3, <2>1 DEF Settled
  <2>3. /\ Len(result') = Len(result)
        /\ \A k \in 1..Len(result) :
             /\ result[k] \in Stamp
             /\ result'[k].start = result[k].start
             /\ k # Len(result) => result'[k] = result[k]
             /\ result[k].end <= result'[k].end
    BY <1>10, TailFacts
  <2>4. result' \in Seq(Stamp)
    BY <1>10, TailFacts
  <2>5. ASSUME NEW k \in 1..Len(result)
        PROVE  \E f, l \in Nat :
                 /\ f = Min(TokensOf(k)) /\ l = Max(TokensOf(k))
                 /\ result'[k].start = SpanStart(f)
                 /\ SpanEnd(l) <= result'[k].end
                 /\ k < Len(result') => result'[k].end = SpanEnd(l)
    <3>1. PICK f \in Nat, l \in Nat :
            /\ f = Min(TokensOf(k)) /\ l = Max(TokensOf(k))
            /\ result[k].start = SpanStart(f)
            /\ result[k].end = SpanEnd(l)
      BY <1>3, <2>1 DEF Reported
    <3>2. result[k].end <= result'[k].end
      BY <2>3
    <3>3. k < Len(result') => result'[k] = result[k]
      BY <1>4, <2>3
    <3> QED BY <2>3, <3>1, <3>2, <3>3
  <2>6. Reported'
    BY <1>2, <2>1, <2>3, <2>5 DEF Reported
  <2> QED BY <2>1, <2>2, <2>6
<1> QED BY <1>5, <1>6, <1>7, <1>8, <1>9, <1>10 DEF Next

(* Nothing is reported and no group seen before the first token is read.   *)
LEMMA LabelInit ==
  Tokens /\ i = 1 /\ wordIdx = 0 /\ wordStart = NoWord /\ wordEnd = 0
    /\ result = <<>> /\ step = "scan" => LabelInv
<1> SUFFICES ASSUME Tokens, i = 1, wordIdx = 0, wordStart = NoWord, wordEnd = 0,
                    result = <<>>, step = "scan"
             PROVE  LabelInv
  OBVIOUS
<1>1. Sections(0) = {} /\ Group(0) = 0
  <2>1. Voiced \cap (1..0) = {}
    OBVIOUS
  <2> QED BY <2>1, FS_EmptySet DEF Sections, Group
<1> QED BY <1>1 DEF LabelInv, Reported, Counted

(* A step that changes nothing keeps them too.                             *)
LEMMA LabelSame ==
  ASSUME LabelInv, UNCHANGED vars PROVE LabelInv'
<1>1. /\ UNCHANGED <<tokenIds, nWords, ends, audioLen, shapeOk>>
      /\ UNCHANGED <<i, wordStart, wordEnd, wordIdx, result, step>>
  BY DEF vars
<1>2. /\ Voiced' = Voiced /\ GroupCount' = GroupCount
      /\ OneRowPerToken' <=> OneRowPerToken
      /\ \A k : /\ SpacesBefore(k)' = SpacesBefore(k)
                /\ Sections(k)' = Sections(k) /\ Group(k)' = Group(k)
                /\ Min(TokensOf(k))' = Min(TokensOf(k))
                /\ Max(TokensOf(k))' = Max(TokensOf(k))
                /\ SpanStart(k)' = SpanStart(k) /\ SpanEnd(k)' = SpanEnd(k)
  BY <1>1, GroupsKept
<1> QED BY <1>1, <1>2 DEF LabelInv, Reported, Counted, Settled

(* In the end the labels are those of the groups.                          *)
LEMMA LabelsFollow == TypeOK /\ OrderInv /\ LabelInv => LabelsMatchGroups
<1> SUFFICES ASSUME TypeOK, OrderInv, LabelInv, step = "done", OneRowPerToken
             PROVE  /\ Len(result) = Min({GroupCount, nWords})
                    /\ \A k \in 1..Len(result) :
                         LET first == Min(TokensOf(k))
                             last  == Max(TokensOf(k))
                         IN /\ result[k].start = SpanStart(first)
                            /\ IF k < Len(result) THEN result[k].end = SpanEnd(last)
                                                  ELSE result[k].end >= SpanEnd(last)
  BY DEF LabelsMatchGroups
<1>1. Reported /\ Settled /\ wordIdx = Len(result)
  BY DEF LabelInv, OrderInv, Ordered
<1>2. wordIdx \in Nat /\ nWords \in Nat /\ wordIdx <= nWords /\ Tokens
  BY DEF TypeOK, IsCall, Tokens
<1>3. GroupCount \in Nat
  <2>1. Len(tokenIds) \in 0..Len(tokenIds) /\ Voiced \cap (1..Len(tokenIds)) = Voiced
    BY <1>2 DEF Voiced, Tokens
  <2>2. GroupCount = Group(Len(tokenIds))
    BY <2>1 DEF GroupCount, Group
  <2> QED BY <1>2, <2>1, <2>2, SectionsFinite
<1>4. wordIdx = Min({GroupCount, nWords})
  <2>1. {GroupCount, nWords} \in SUBSET Nat /\ {GroupCount, nWords} # {}
    BY <1>2, <1>3
  <2>2. /\ Min({GroupCount, nWords}) \in {GroupCount, nWords}
        /\ \A y \in {GroupCount, nWords} : Min({GroupCount, nWords}) <= y
    BY <2>1, MinFacts
  <2> QED BY <1>1, <1>2, <1>3, <2>2 DEF Settled
<1>5. ASSUME NEW k \in 1..Len(result)
      PROVE  /\ result[k].start = SpanStart(Min(TokensOf(k)))
             /\ SpanEnd(Max(TokensOf(k))) <= result[k].end
             /\ k < Len(result) => result[k].end = SpanEnd(Max(TokensOf(k)))
  BY <1>1 DEF Reported
<1> QED BY <1>1, <1>4, <1>5

(* Word k is given the time of the k-th group of tokens, from the start of *)
(* its first token to the end of its last one, and there are as many words *)
(* as there are groups and labels for them.                                *)
THEOREM LabelsCorrect == Spec => []LabelsMatchGroups
<1>1. Init => LabelInv
  <2>1. Init => Tokens
    BY CallsAssumption DEF Init, IsCall, Tokens
  <2> QED BY <2>1, LabelInit DEF Init
<1>2. TypeOK /\ OrderInv /\ LabelInv /\ [Next]_vars => LabelInv'
  BY LabelStep, LabelSame
<1> QED BY <1>1, <1>2, LabelsFollow, TypeCorrect, OrderInvariance, PTL DEF Spec

-----------------------------------------------------------------------------
(* What holds of a call, for the request it is part of                     *)

BuilderInv == TypeOK /\ OrderInv /\ EndInv /\ LabelInv

(* Every step keeps all of it.                                             *)
LEMMA BuilderStep ==
  ASSUME BuilderInv, [Next]_vars PROVE BuilderInv'
<1>1. CASE Next
  BY <1>1, TypeStep, OrderStep, EndStep, LabelStep DEF BuilderInv
<1>2. CASE UNCHANGED vars
  <2>1. /\ UNCHANGED <<tokenIds, nWords, ends, audioLen, shapeOk>>
        /\ UNCHANGED <<i, wordStart, wordEnd, wordIdx, result, step>>
    BY <1>2 DEF vars
  <2>2. TypeOK' /\ EndInv'
    BY <2>1 DEF BuilderInv, TypeOK, EndInv, OneRowPerToken, ModelTotal, Frames, N
  <2>3. OrderInv'
    BY <2>1 DEF BuilderInv, OrderInv, Ordered, Gathering, OneRowPerToken, Reached,
                SpanEnd, Scaled, ModelTotal, Frames, N
  <2> QED BY <1>2, <2>2, <2>3, LabelSame DEF BuilderInv
<1> QED BY <1>1, <1>2

(* There is no group before the first token, and GroupCount of them after  *)
(* the last one.                                                           *)
LEMMA GroupEnds ==
  ASSUME Tokens
  PROVE  Group(0) = 0 /\ Group(Len(tokenIds)) = GroupCount /\ GroupCount \in Nat
<1>1. Voiced \cap (1..0) = {} /\ Voiced \cap (1..Len(tokenIds)) = Voiced
  BY DEF Voiced, Tokens
<1>2. Group(0) = 0
  BY <1>1, FS_EmptySet DEF Group
<1>3. Group(Len(tokenIds)) = GroupCount
  BY <1>1 DEF Group, GroupCount
<1>4. Len(tokenIds) \in 0..Len(tokenIds)
  BY DEF Tokens
<1> QED BY <1>2, <1>3, <1>4, SectionsFinite

(* The groups are numbered from one to their count.                        *)
LEMMA GroupsNumbered ==
  ASSUME Tokens
  PROVE  /\ \A k \in Voiced : Group(k) \in 1..GroupCount
         /\ \A g \in 1..GroupCount : TokensOf(g) # {}
<1>1. ASSUME NEW k \in Voiced PROVE Group(k) \in 1..GroupCount
  <2>1. /\ k \in 1..Len(tokenIds) /\ k \in 0..Len(tokenIds)
        /\ Len(tokenIds) \in 0..Len(tokenIds) /\ k <= Len(tokenIds)
    BY DEF Voiced, Tokens
  <2>2. Group(k) <= GroupCount
    BY <2>1, GroupGrows, GroupEnds
  <2>3. SpacesBefore(k) \in Sections(k) /\ IsFiniteSet(Sections(k))
    BY <1>1, <2>1, GroupNext, SectionsFinite
  <2>4. Group(k) # 0 /\ Group(k) \in Nat
    BY <2>1, <2>3, SectionsFinite, FS_EmptySet
  <2> QED BY <2>2, <2>4, GroupEnds
<1>2. ASSUME NEW g \in 1..GroupCount PROVE TokensOf(g) # {}
  <2> DEFINE U == {k \in 0..Len(tokenIds) : g <= Group(k)}
             m == Min(U)
  <2>1. U \in SUBSET Nat /\ U # {}
    <3>1. Len(tokenIds) \in U
      BY <1>2, GroupEnds DEF Tokens
    <3> QED BY <3>1
  <2>2. m \in U /\ \A k \in U : m <= k
    BY <2>1, MinFacts
  <2> HIDE DEF m
  <2>3. m \in 1..Len(tokenIds)
    <3>1. m # 0
      BY <1>2, <2>2, GroupEnds
    <3> QED BY <2>2, <3>1
  <2>4. m - 1 \in 0..Len(tokenIds) /\ Group(m) \in Nat /\ Group(m - 1) \in Nat /\ m - 1 < m
    <3>1. m - 1 \in 0..Len(tokenIds) /\ m \in 0..Len(tokenIds) /\ m - 1 < m
      BY <2>3 DEF Tokens
    <3> QED BY <3>1, SectionsFinite
  <2>5. Group(m - 1) < g
    <3>1. ~(g <= Group(m - 1))
      BY <2>2, <2>3, <2>4
    <3> QED BY <2>4, <3>1
  <2>6. g <= Group(m)
    BY <2>2
  <2>7. m \in Voiced /\ Group(m) = Group(m - 1) + 1
    <3>1. /\ m \notin Voiced => Group(m) = Group(m - 1)
          /\ m \in Voiced => Group(m) \in {Group(m - 1), Group(m - 1) + 1}
      BY <2>3, GroupNext
    <3> QED BY <2>4, <2>5, <2>6, <3>1
  <2>8. Group(m) = g
    BY <2>4, <2>5, <2>6, <2>7
  <2> QED BY <2>7, <2>8 DEF TokensOf
<1> QED BY <1>1, <1>2

(* Whoever counts a group wherever a voiced token follows one that is not  *)
(* counts the groups.                                                      *)
LEMMA GroupsCounted ==
  ASSUME Tokens, NEW last \in 1..Len(tokenIds), NEW count,
         tokenIds[1] = PAD_TOKEN, count[1] = 0,
         \A k \in 2..last :
           /\ tokenIds[k] # PAD_TOKEN
           /\ count[k] = count[k - 1] + (IF k \in Voiced /\ k - 1 \notin Voiced THEN 1 ELSE 0)
  PROVE  \A k \in 1..last : Group(k) = count[k]
<1> DEFINE B == {k \in 1..last : Group(k) # count[k]}
           m == Min(B)
<1> SUFFICES ASSUME B # {} PROVE FALSE
  OBVIOUS
<1>1. m \in B /\ \A k \in B : m <= k
  <2>1. B \in SUBSET Nat
    OBVIOUS
  <2> QED BY <2>1, MinFacts
<1> HIDE DEF m
<1>2. m \in 1..last /\ Group(m) # count[m] /\ m \in 1..Len(tokenIds) /\ m \in Nat
  BY <1>1 DEF Tokens
<1>3. m # 1
  <2>1. 1 \in 1..Len(tokenIds) /\ 1 - 1 = 0
    BY DEF Tokens
  <2>2. Group(1) = 0
    BY <2>1, QuietToken, GroupEnds
  <2> QED BY <1>2, <2>2
<1>4. m \in 2..last /\ m - 1 \in 1..last /\ m - 1 \in 1..Len(tokenIds) /\ m - 1 < m
  BY <1>2, <1>3 DEF Tokens
<1>5. Group(m - 1) = count[m - 1]
  BY <1>1, <1>2, <1>4
<1>6. CASE m \notin Voiced
  BY <1>2, <1>4, <1>5, <1>6, GroupNext, SectionsFinite
<1>7. CASE m \in Voiced /\ m - 1 \in Voiced
  <2>1. (m - 1) + 1 = m /\ tokenIds[m - 1] # SPACE_TOKEN
    BY <1>2, <1>7 DEF Voiced
  <2>2. SpacesBefore(m) = SpacesBefore(m - 1)
    <3>1. SpacesBefore(m - 1) \in Nat /\ SpacesBefore((m - 1) + 1) = SpacesBefore(m - 1) + 0
      BY <1>4, <2>1, SpacesCount
    <3>2. SpacesBefore((m - 1) + 1) = SpacesBefore(m)
      BY <2>1
    <3> HIDE DEF SpacesBefore
    <3> QED BY <3>1, <3>2
  <2>3. SpacesBefore(m) \in Sections(m - 1)
    BY <1>4, <1>7, <2>2, GroupNext
  <2>4. Group(m) = Group(m - 1) /\ Group(m - 1) \in Nat
    BY <1>2, <1>4, <1>7, <2>3, GroupNext, SectionsFinite
  <2> QED BY <1>2, <1>4, <1>5, <1>7, <2>4
<1>8. CASE m \in Voiced /\ m - 1 \notin Voiced
  <2>1. SpacesBefore(m) \notin Sections(m - 1)
    <3>1. CASE m - 1 = 1
      <4>1. Sections(1) = Sections(0)
        BY <1>4, QuietToken
      <4>2. Voiced \cap (1..0) = {}
        OBVIOUS
      <4> QED BY <3>1, <4>1, <4>2 DEF Sections
    <3>2. CASE m - 1 # 1
      <4>1. tokenIds[m - 1] = SPACE_TOKEN
        BY <1>4, <1>8, <3>2 DEF Voiced
      <4>2. SpacesBefore((m - 1) + 1) \notin Sections(m - 1)
        BY <1>4, <4>1, QuietToken
      <4> QED BY <1>2, <4>2
    <3> QED BY <3>1, <3>2
  <2> QED BY <1>2, <1>4, <1>5, <1>8, <2>1, GroupNext
<1> QED BY <1>6, <1>7, <1>8

-----------------------------------------------------------------------------
(* The builder cannot run for ever                                         *)

\* What is left to do: the tokens not yet read, the last flush and the look
\* at the last row's end.
Remaining ==
  (Len(tokenIds) + 1 - i)
    + (IF step = "scan" THEN 2 ELSE IF step = "tail" THEN 1 ELSE 0)

RemainingFalls == Remaining \in Nat /\ Remaining' \in 0..(Remaining - 1)

(* One step of the builder: a round of the loop reads a token, and what    *)
(* follows the loop is done once.                                          *)
LEMMA RemainingStep ==
  ASSUME TypeOK, Next PROVE RemainingFalls
<1> DEFINE left == Len(tokenIds) + 1 - i
<1>1. left \in Nat /\ i \in Nat /\ Len(tokenIds) \in Nat
  BY DEF TypeOK, IsCall
<1>2. CASE SkipPad \/ EndGroup \/ Extend
  <2>1. /\ i <= Len(tokenIds) /\ i' = i + 1 /\ step = "scan"
        /\ UNCHANGED <<tokenIds, step>>
    BY <1>2 DEF SkipPad, EndGroup, Extend, Gather, Scanning, arguments
  <2>2. Remaining = left + 2 /\ Remaining' = left - 1 + 2 /\ left >= 1
    BY <1>1, <2>1 DEF Remaining
  <2>3. left \in Nat
    BY <1>1
  <2> HIDE DEF left
  <2> QED BY <2>2, <2>3 DEF RemainingFalls
<1>3. CASE Reject \/ FlushLast \/ ExtendTail
  <2>1. /\ UNCHANGED <<tokenIds, i>>
        /\ \/ step = "scan" /\ step' \in {"tail", "done"}
           \/ step = "tail" /\ step' = "done"
    BY <1>3 DEF Reject, FlushLast, ExtendTail, arguments
  <2>2. \/ Remaining = left + 2 /\ Remaining' = left + 1
        \/ Remaining = left + 2 /\ Remaining' = left + 0
        \/ Remaining = left + 1 /\ Remaining' = left + 0
    BY <2>1 DEF Remaining
  <2>3. left \in Nat
    BY <1>1
  <2> HIDE DEF left
  <2> QED BY <2>2, <2>3 DEF RemainingFalls
<1> QED BY <1>2, <1>3 DEF Next

(* Every step of the builder leaves less to do, so that it takes no more   *)
(* than one for each token and two (the for loop of build_word_timestamps, *)
(* the flush_word after it and the look at the last row).                  *)
THEOREM BuilderIsBounded == Spec => [][RemainingFalls]_vars
<1>1. TypeOK /\ [Next]_vars => [RemainingFalls]_vars
  BY RemainingStep
<1> QED BY <1>1, TypeCorrect, PTL DEF Spec
=============================================================================
