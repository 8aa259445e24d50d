--------------------------- MODULE FrontEndProofs ---------------------------
(***************************************************************************)
(* What is proved of the front end: how the dictionary is loaded, what a   *)
(* pronunciation is made of, and what the normalizer leaves.               *)
(***************************************************************************)
EXTENDS FrontEnd, SequenceFacts, TLAPS

-----------------------------------------------------------------------------
(* Pronunciations                                                          *)

\* What a token of a pronunciation is: one that the vocabulary has, and never
\* a SPACE or a mark.
Phoneme == {n \in Vocabulary : n > SPACE_TOKEN}
Phones  == Seq(L!PhoneNames \X (0..2))

(* The vocabulary of the lexicon is that of the front end.                 *)
LEMMA SameVocabulary == L!Vocabulary = Vocabulary
BY DEF L!Vocabulary, Vocabulary

(* The table of the phones of one token has phonemes only.                 *)
LEMMA SinglesSound ==
  ASSUME NEW name \in DOMAIN L!Singles PROVE L!Singles[name] \in Phoneme
<1> DEFINE numbers == {69, 72, 76, 44, 133, 46, 81, 86, 48, 92, 50, 102, 51, 82, 53, 54, 55, 56,
                       112, 58, 123, 61, 131, 62, 119, 135, 63, 64, 65, 52, 68, 147}
<1>1. \A n \in numbers : n \in Phoneme
  BY DEF Phoneme, Vocabulary, SPACE_TOKEN
<1>2. L!Singles[name] \in numbers
  BY DEF L!Singles
<1> QED BY <1>1, <1>2

(* So does that of the phones of two.                                      *)
LEMMA DiphthongsSound ==
  ASSUME NEW name \in DOMAIN L!Diphthongs PROVE L!Diphthongs[name] \in Seq(Phoneme)
<1> DEFINE first == {43, 47, 57, 76}
           second == {135, 102}
<1>1. first \in SUBSET Phoneme /\ second \in SUBSET Phoneme
  BY DEF Phoneme, Vocabulary, SPACE_TOKEN
<1>2. \E a \in first, b \in second : L!Diphthongs[name] = <<a, b>>
  BY DEF L!Diphthongs
<1> HIDE DEF first, second
<1> QED BY <1>1, <1>2

(* A phone is in one table only, and the two that go by their stress in    *)
(* none.                                                                   *)
LEMMA TablesApart ==
  /\ {"AH", "ER"} \cap (DOMAIN L!Singles \cup DOMAIN L!Diphthongs) = {}
  /\ DOMAIN L!Singles \cap DOMAIN L!Diphthongs = {}
BY DEF L!Singles, L!Diphthongs

(* Phones become phonemes, whatever they are.                              *)
LEMMA PhonesSound ==
  ASSUME NEW phones \in Phones PROVE L!ArpabetToTokens(phones) \in Seq(Phoneme)
<1> DEFINE parts == [k \in DOMAIN phones |-> L!PhoneToTokens(phones[k])]
<1>1. ASSUME NEW name, NEW s PROVE L!Sound(name, s) \in Seq(Phoneme)
  <2> DEFINE a == IF s = 0 THEN 83 ELSE 138
  <2>1. a \in Phoneme /\ 85 \in Phoneme /\ 87 \in Phoneme /\ 158 \in Phoneme
    BY DEF Phoneme, Vocabulary, SPACE_TOKEN
  <2>2. /\ <<a>> \in Seq(Phoneme) /\ <<85>> \in Seq(Phoneme) /\ <<87, 158>> \in Seq(Phoneme)
        /\ <<>> \in Seq(Phoneme)
    BY <2>1
  <2>3. CASE name = "AH"
    <3>1. L!Sound(name, s) = <<a>>
      BY <2>3, TablesApart DEF L!Sound
    <3> QED BY <2>2, <3>1, Zenon
  <2>4. CASE name = "ER"
    <3>1. L!Sound(name, s) = <<85>> \/ L!Sound(name, s) = <<87, 158>>
      BY <2>4, TablesApart DEF L!Sound
    <3> QED BY <2>2, <3>1, Zenon
  <2>5. CASE name \notin {"AH", "ER"} /\ name \in DOMAIN L!Singles
    <3>1. L!Sound(name, s) = <<L!Singles[name]>>
      BY <2>5, TablesApart DEF L!Sound
    <3>2. L!Singles[name] \in Phoneme
      BY <2>5, SinglesSound
    <3> QED BY <3>1, <3>2
  <2>6. CASE name \notin {"AH", "ER"} /\ name \notin DOMAIN L!Singles
    <3>1. name \in DOMAIN L!Diphthongs => L!Sound(name, s) = L!Diphthongs[name]
      BY <2>6 DEF L!Sound
    <3>2. name \notin DOMAIN L!Diphthongs => L!Sound(name, s) = <<>>
      BY <2>6 DEF L!Sound
    <3> QED BY <2>2, <3>1, <3>2, DiphthongsSound, Zenon
  <2> QED BY <2>3, <2>4, <2>5, <2>6
<1>2. ASSUME NEW s PROVE L!Stress(s) \in Seq(Phoneme)
  <2>1. 156 \in Phoneme /\ 157 \in Phoneme
    BY DEF Phoneme, Vocabulary, SPACE_TOKEN
  <2> QED BY <2>1 DEF L!Stress
<1>3. ASSUME NEW phone PROVE L!PhoneToTokens(phone) \in Seq(Phoneme)
  <2>1. L!Stress(phone[2]) \in Seq(Phoneme) /\ L!Sound(phone[1], phone[2]) \in Seq(Phoneme)
    BY <1>1, <1>2
  <2>2. L!PhoneToTokens(phone) = L!Stress(phone[2]) \o L!Sound(phone[1], phone[2])
    BY DEF L!PhoneToTokens
  <2> QED BY <2>1, <2>2
<1>4. parts \in Seq(Seq(Phoneme))
  <2>1. DOMAIN phones = 1..Len(phones) /\ Len(phones) \in Nat
    BY DEF Phones
  <2>2. parts = [k \in 1..Len(phones) |-> L!PhoneToTokens(phones[k])]
    BY <2>1
  <2>3. \A k \in 1..Len(phones) : L!PhoneToTokens(phones[k]) \in Seq(Phoneme)
    BY <1>3
  <2> QED BY <2>1, <2>2, <2>3
<1>5. L!ArpabetToTokens(phones) = FlattenSeq(parts)
  BY DEF L!ArpabetToTokens, L!FlattenSeq, FlattenSeq
<1> HIDE DEF parts
<1> QED BY <1>4, <1>5, FlattenElements

(* Every character of espeak's becomes tokens of the vocabulary.           *)
LEMMA CharsSound ==
  ASSUME NEW c \in L!IpaChars PROVE L!IpaCharToTokens(c) \in Seq(Vocabulary)
<1>1. CASE c[1] = "vocab"
  <2>1. L!IpaCharToTokens(c) = <<c[2]>>
    BY <1>1 DEF L!IpaCharToTokens
  <2>2. c[2] \in Vocabulary
    BY <1>1, SameVocabulary DEF L!IpaChars
  <2> QED BY <2>1, <2>2
<1>2. CASE c[1] = "substitute"
  <2> DEFINE x == L!IPA_SUBSTITUTIONS[c[2]]
             tokens == {<<87, 158>>, <<54>>, <<65>>, <<92>>, <<83>>}
  <2>1. L!IpaCharToTokens(c) = x
    BY <1>2 DEF L!IpaCharToTokens
  <2>2. c[2] \in DOMAIN L!IPA_SUBSTITUTIONS
    BY <1>2 DEF L!IpaChars
  <2>3. x \in tokens
    BY <2>2 DEF L!IPA_SUBSTITUTIONS
  <2>4. /\ 87 \in Vocabulary /\ 158 \in Vocabulary /\ 54 \in Vocabulary
        /\ 65 \in Vocabulary /\ 92 \in Vocabulary /\ 83 \in Vocabulary
    BY DEF Vocabulary
  <2>5. /\ <<87, 158>> \in Seq(Vocabulary) /\ <<54>> \in Seq(Vocabulary)
        /\ <<65>> \in Seq(Vocabulary) /\ <<92>> \in Seq(Vocabulary)
        /\ <<83>> \in Seq(Vocabulary)
    BY <2>4
  <2>6. \A y \in tokens : y \in Seq(Vocabulary)
    BY <2>5, Zenon
  <2> HIDE DEF x, tokens
  <2> QED BY <2>1, <2>3, <2>6
<1>3. CASE c[1] \notin {"vocab", "substitute"}
  BY <1>3 DEF L!IpaCharToTokens
<1> QED BY <1>1, <1>2, <1>3

(* What espeak answers becomes tokens of the vocabulary, so none is a pad. *)
LEMMA AnswersSound ==
  ASSUME NEW ipa \in Answers PROVE L!IpaToTokens(ipa) \in Seq(Vocabulary)
<1> DEFINE I == {k \in 1..Len(ipa) : ipa[k][1] = "cut"}
           there == IF I = {} THEN ipa ELSE SubSeq(ipa, 1, Min(I) - 1)
           C == L!IpaChars
           parts == [k \in DOMAIN there |-> L!IpaCharToTokens(there[k])]
<1>1. ipa \in Seq(C) /\ Len(ipa) \in Nat
  BY AnswersAssumption
<1>2. there \in Seq(C)
  <2>1. CASE I = {}
    BY <1>1, <2>1
  <2>2. CASE I # {}
    <3>1. I \in SUBSET Nat
      BY <1>1
    <3>2. Min(I) \in 1..Len(ipa) /\ there = SubSeq(ipa, 1, Min(I) - 1)
      BY <2>2, <3>1, MinFacts
    <3> HIDE DEF I, C, there
    <3> QED BY <1>1, <3>2
  <2> QED BY <2>1, <2>2
<1>3. \A c \in C : L!IpaCharToTokens(c) \in Seq(Vocabulary)
  BY CharsSound
<1>4. parts \in Seq(Seq(Vocabulary))
  <2> HIDE DEF there, C
  <2>1. DOMAIN there = 1..Len(there) /\ Len(there) \in Nat
    BY <1>2
  <2>2. \A k \in 1..Len(there) : L!IpaCharToTokens(there[k]) \in Seq(Vocabulary)
    BY <1>2, <1>3
  <2> QED BY <2>1, <2>2
<1>5. L!IpaToTokens(ipa) = FlattenSeq(parts)
  <2>1. (IF SelectInSeq(ipa, LAMBDA c : c[1] = "cut") = 0 THEN ipa
         ELSE SubSeq(ipa, 1, SelectInSeq(ipa, LAMBDA c : c[1] = "cut") - 1)) = there
    <3>1. SelectInSeq(ipa, LAMBDA c : c[1] = "cut") = IF I # {} THEN Min(I) ELSE 0
      BY DEF SelectInSeq
    <3>2. I # {} => Min(I) # 0
      <4>1. I \in SUBSET Nat /\ 0 \notin I
        BY <1>1
      <4> QED BY <4>1, MinFacts
    <3> HIDE DEF I
    <3> QED BY <3>1, <3>2
  <2>2. L!SelectInSeq(ipa, LAMBDA c : c[1] = "cut") = SelectInSeq(ipa, LAMBDA c : c[1] = "cut")
    BY DEF L!SelectInSeq, SelectInSeq, L!Min, Min
  <2>3. L!IpaToTokens(ipa) = L!FlattenSeq(parts)
    <3> HIDE DEF there
    <3> QED BY <2>1, <2>2 DEF L!IpaToTokens
  <2> HIDE DEF parts
  <2> QED BY <2>3 DEF L!FlattenSeq, FlattenSeq
<1> HIDE DEF parts
<1> QED BY <1>4, <1>5, FlattenElements

-----------------------------------------------------------------------------
(* The dictionary as it is loaded                                          *)

Line(W) == [word : W, marker : BOOLEAN, phones : Phones]

\* Functions of some words.
Dicts(W) == UNION {[X -> Seq(Phoneme)] : X \in SUBSET W}

(* One more line makes a dictionary a dictionary.                          *)
LEMMA AddLineType ==
  ASSUME NEW W, NEW d \in Dicts(W), NEW line \in Line(W)
  PROVE  L!AddLine(d, line) \in Dicts(W)
<1>1. PICK X \in SUBSET W : d \in [X -> Seq(Phoneme)]
  BY DEF Dicts
<1>2. line.word \in W /\ line.phones \in Phones
  BY DEF Line
<1>3. CASE L!AddLine(d, line) = d
  BY <1>3
<1>4. CASE L!AddLine(d, line) # d
  <2> DEFINE e == [w \in DOMAIN d \cup {line.word} |->
                     IF w = line.word THEN L!ArpabetToTokens(line.phones) ELSE d[w]]
  <2>1. L!AddLine(d, line) = e
    BY <1>4 DEF L!AddLine
  <2>2. X \cup {line.word} \in SUBSET W /\ DOMAIN d = X
    BY <1>1, <1>2
  <2>3. L!ArpabetToTokens(line.phones) \in Seq(Phoneme)
    BY <1>2, PhonesSound
  <2>4. e \in [X \cup {line.word} -> Seq(Phoneme)]
    BY <1>1, <2>2, <2>3
  <2>5. e \in Dicts(W)
    <3> HIDE DEF e
    <3> QED BY <2>2, <2>4, Zenon DEF Dicts
  <2> QED BY <2>1, <2>5, Zenon
<1> QED BY <1>3, <1>4

\* What the dictionary is after each line.
IsLoad(rows, lines, base, W) ==
  /\ rows \in [0..Len(lines) -> Dicts(W)]
  /\ rows[0] = base
  /\ \A k \in 1..Len(lines) : rows[k] = L!AddLine(rows[k - 1], lines[k])
  /\ L!FoldLeft(L!AddLine, base, lines) = rows[Len(lines)]

(* The loop of load, line by line.                                         *)
LEMMA LoadRows ==
  ASSUME NEW W, NEW lines \in Seq(Line(W)), NEW base \in Dicts(W)
  PROVE  \E rows : IsLoad(rows, lines, base, W)
<1> DEFINE n == Len(lines)
           D == SUBSET (1..n)
           V == Dicts(W)
           step(g, s) == IF s = {} THEN base
                         ELSE L!AddLine(g[s \ {Max(s)}], lines[Max(s)])
           rule == [s \in D |-> [g \in [D -> V] |-> step(g, s)]]
<1>1. n \in Nat /\ \A k \in 1..n : lines[k] \in Line(W)
  OBVIOUS
<1>2. /\ Top(n) \in [D -> Nat]
      /\ \A s \in D : s # {} => /\ Max(s) \in s /\ s \ {Max(s)} \in D
                                /\ Top(n)[s \ {Max(s)}] < Top(n)[s]
  BY <1>1, TopFalls
<1> HIDE DEF n, V
<1>3. ASSUME NEW s \in D, NEW g, \A r \in D : g[r] \in V
      PROVE  step(g, s) \in V
  <2>1. CASE s = {}
    BY <2>1 DEF V
  <2>2. CASE s # {}
    <3>1. Max(s) \in 1..n /\ s \ {Max(s)} \in D
      BY <1>2, <2>2
    <3>2. g[s \ {Max(s)}] \in Dicts(W) /\ lines[Max(s)] \in Line(W)
      BY <1>1, <1>3, <3>1 DEF V
    <3> QED BY <2>2, <3>2, AddLineType DEF V
  <2> QED BY <2>1, <2>2
<1>4. IsRule(rule, Top(n), D, V)
  <2>1. ASSUME NEW s \in D, NEW g \in [D -> V] PROVE rule[s][g] \in V
    BY <1>3
  <2>2. ASSUME NEW s \in D, NEW g \in [D -> V], NEW h \in [D -> V],
               \A y \in D : Top(n)[y] < Top(n)[s] => g[y] = h[y]
        PROVE  rule[s][g] = rule[s][h]
    <3>1. s # {} => g[s \ {Max(s)}] = h[s \ {Max(s)}]
      BY <1>2, <2>2
    <3> QED BY <3>1
  <2> HIDE DEF rule, D
  <2> QED BY <2>1, <2>2 DEF IsRule
<1>5. PICK f : Follows(f, rule, D, V)
  <2>1. V # {}
    BY DEF V
  <2> HIDE DEF rule, D
  <2> QED BY <1>2, <1>4, <2>1, RecursiveFunction
<1>6. f = [s \in D |-> step(f, s)]
  BY <1>5 DEF Follows
<1> DEFINE iter == CHOOSE it : it = [s \in D |-> step(it, s)]
<1>7. iter = [s \in D |-> step(iter, s)]
  <2> HIDE DEF D, step
  <2> QED BY <1>6
<1>8. L!FoldLeft(L!AddLine, base, lines) = iter[1..n]
  <2>1. DOMAIN lines = 1..n
    BY DEF n
  <2> QED BY <2>1 DEF L!FoldLeft, L!MapThenFoldSet, L!Max, Max
<1> HIDE DEF iter
<1> DEFINE rows == [k \in 0..n |-> iter[1..k]]
<1>9. rows[0] = base
  <2>1. 1..0 = {} /\ 1..0 \in D /\ 0 \in 0..n
    BY <1>1
  <2> QED BY <1>7, <2>1
<1>10. ASSUME NEW k \in 1..n PROVE rows[k] = L!AddLine(rows[k - 1], lines[k])
  <2>1. /\ k \in Nat \ {0} /\ 1..k \in D /\ k \in 0..n /\ k - 1 \in 0..n
    BY <1>1
  <2>2. Max(1..k) = k /\ (1..k) \ {k} = 1..(k - 1) /\ 1..k # {}
    BY <2>1, TopOfFirst
  <2>3. iter[1..k] = L!AddLine(iter[1..(k - 1)], lines[k])
    BY <1>7, <2>1, <2>2
  <2> QED BY <2>1, <2>3
<1>11. rows \in [0..n -> V]
  <2> DEFINE Q == {k \in Nat : k <= n => rows[k] \in V}
  <2>1. 0 \in Q
    BY <1>1, <1>9 DEF V
  <2>2. ASSUME NEW k \in Nat, k \in Q PROVE k + 1 \in Q
    <3> SUFFICES ASSUME k + 1 <= n PROVE rows[k + 1] \in V
      OBVIOUS
    <3>1. k + 1 \in 1..n /\ k <= n /\ (k + 1) - 1 = k
      BY <1>1
    <3> HIDE DEF rows
    <3>2. rows[k + 1] = L!AddLine(rows[k], lines[k + 1])
      BY <1>10, <3>1
    <3>3. rows[k] \in Dicts(W) /\ lines[k + 1] \in Line(W)
      BY <1>1, <2>2, <3>1 DEF V
    <3> QED BY <3>2, <3>3, AddLineType DEF V
  <2> HIDE DEF Q
  <2>3. \A k \in Nat : k \in Q
    BY <2>1, <2>2, Induction
  <2> USE DEF Q
  <2>4. \A k \in 0..n : rows[k] \in V
    <3> HIDE DEF rows
    <3> QED BY <1>1, <2>3
  <2> HIDE DEF Q
  <2> QED BY <2>4
<1>12. L!FoldLeft(L!AddLine, base, lines) = rows[n]
  BY <1>1, <1>8
<1> HIDE DEF rows
<1> USE DEF n, V
<1>13. IsLoad(rows, lines, base, W)
  BY <1>9, <1>10, <1>11, <1>12 DEF IsLoad
<1> QED BY <1>13

\* A line that gives a word its phones, and the first of several.
Has(line, w) == line.word = w /\ line.phones # <<>>
FirstOf(lines, m, w) == Has(lines[m], w) /\ \A j \in 1..(m - 1) : ~Has(lines[j], w)

(* Each word of a dictionary that was empty has the phones of the first    *)
(* line that has any for it, and no such word is missing.                  *)
LEMMA LoadedWords ==
  ASSUME NEW W, NEW lines \in Seq(Line(W)), NEW d,
         d = L!FoldLeft(L!AddLine, [w \in {} |-> <<>>], lines)
  PROVE  /\ d \in Dicts(W)
         /\ \A w \in DOMAIN d : \E m \in 1..Len(lines) :
              FirstOf(lines, m, w) /\ d[w] = L!ArpabetToTokens(lines[m].phones)
         /\ \A m \in 1..Len(lines), w \in W :
              Has(lines[m], w) /\ w # L!NoWord => w \in DOMAIN d
<1> DEFINE n == Len(lines)
           base == [w \in {} |-> <<>>]
           Told(g, w, m) == FirstOf(lines, m, w) /\ g[w] = L!ArpabetToTokens(lines[m].phones)
           Missed(g, m) == lines[m].word # L!NoWord /\ lines[m].phones # <<>>
                             /\ lines[m].word \notin DOMAIN g
           Good(g, k) == /\ \A w \in DOMAIN g : \E m \in 1..k : Told(g, w, m)
                         /\ \A w \in DOMAIN g : w # L!NoWord
                         /\ \A m \in 1..k : ~Missed(g, m)
<1>1. base \in Dicts(W)
  <2>1. base \in [{} -> Seq(Phoneme)] /\ {} \in SUBSET W
    OBVIOUS
  <2> QED BY <2>1 DEF Dicts
<1>2. PICK rows \in [0..n -> Dicts(W)] :
        /\ rows[0] = base
        /\ \A k \in 1..n : rows[k] = L!AddLine(rows[k - 1], lines[k])
        /\ L!FoldLeft(L!AddLine, base, lines) = rows[n]
  <2>1. \E rows : IsLoad(rows, lines, base, W)
    <3> HIDE DEF base
    <3> QED BY <1>1, LoadRows
  <2> QED BY <2>1 DEF IsLoad
<1>3. n \in Nat
  OBVIOUS
<1> HIDE DEF n
<1>4. ASSUME NEW k \in 1..n, Good(rows[k - 1], k - 1) PROVE Good(rows[k], k)
  <2> DEFINE g == rows[k - 1]
             h == rows[k]
             v == lines[k].word
  <2>1. k - 1 \in Nat /\ k \in 1..k /\ (\A m \in 1..(k - 1) : m \in 1..k)
        /\ \A m \in 1..k : m = k \/ m \in 1..(k - 1)
    BY <1>3
  <2>2. h = L!AddLine(g, lines[k])
    BY <1>2
  <2>3. /\ \A w \in DOMAIN g : \E m \in 1..(k - 1) : Told(g, w, m)
        /\ \A w \in DOMAIN g : w # L!NoWord
        /\ \A m \in 1..(k - 1) : ~Missed(g, m)
    BY <1>4
  <2> HIDE DEF g, h
  <2>4. CASE v = L!NoWord \/ lines[k].phones = <<>> \/ v \in DOMAIN g
    <3>1. h = g
      BY <2>2, <2>4 DEF L!AddLine
    <3>2. ~Missed(g, k)
      BY <2>4
    <3>3. \A w \in DOMAIN g : \E m \in 1..k : Told(g, w, m)
      BY <2>1, <2>3
    <3>4. \A m \in 1..k : ~Missed(g, m)
      <4> HIDE DEF Missed
      <4> QED BY <2>1, <2>3, <3>2
    <3> HIDE DEF Told, Missed
    <3>5. Good(h, k)
      BY <2>3, <3>1, <3>3, <3>4
    <3> QED BY <3>5 DEF h
  <2>5. CASE v # L!NoWord /\ lines[k].phones # <<>> /\ v \notin DOMAIN g
    <3>1. h = [w \in DOMAIN g \cup {v} |->
                 IF w = v THEN L!ArpabetToTokens(lines[k].phones) ELSE g[w]]
      BY <2>2, <2>5 DEF L!AddLine
    <3>2. /\ DOMAIN h = DOMAIN g \cup {v} /\ h[v] = L!ArpabetToTokens(lines[k].phones)
          /\ \A w \in DOMAIN g : w # v /\ h[w] = g[w]
      BY <2>5, <3>1
    <3>3. Told(h, v, k)
      <4>1. ASSUME NEW j \in 1..(k - 1), Has(lines[j], v) PROVE FALSE
        <5>1. ~Missed(g, j)
          BY <2>3
        <5> QED BY <2>5, <4>1, <5>1 DEF Has
      <4>2. Has(lines[k], v)
        BY <2>5 DEF Has
      <4> QED BY <3>2, <4>1, <4>2 DEF FirstOf
    <3>4. ASSUME NEW w \in DOMAIN h PROVE \E m \in 1..k : Told(h, w, m)
      <4>1. CASE w = v
        BY <2>1, <3>3, <4>1
      <4>2. CASE w # v
        <5>1. w \in DOMAIN g /\ h[w] = g[w]
          BY <3>2, <4>2
        <5>2. PICK m \in 1..(k - 1) : Told(g, w, m)
          BY <2>3, <5>1
        <5>3. Told(h, w, m) /\ m \in 1..k
          BY <2>1, <5>1, <5>2
        <5> QED BY <5>3
      <4> QED BY <4>1, <4>2
    <3>5. ASSUME NEW m \in 1..k PROVE ~Missed(h, m)
      <4>1. CASE m = k
        BY <3>2, <4>1
      <4>2. CASE m \in 1..(k - 1)
        BY <2>3, <3>2, <4>2
      <4> QED BY <2>1, <4>1, <4>2
    <3>6. \A w \in DOMAIN h : w # L!NoWord
      BY <2>3, <2>5, <3>2
    <3> HIDE DEF Told, Missed
    <3>7. Good(h, k)
      BY <3>4, <3>5, <3>6
    <3> QED BY <3>7 DEF h
  <2> QED BY <2>4, <2>5
<1>5. Good(rows[n], n)
  <2> DEFINE Q == {k \in Nat : k <= n => Good(rows[k], k)}
  <2>1. 0 \in Q
    <3>1. DOMAIN rows[0] = {} /\ 1..0 = {}
      BY <1>2
    <3>2. Good(rows[0], 0)
      BY <3>1
    <3> HIDE DEF Good
    <3> QED BY <3>2
  <2>2. ASSUME NEW k \in Nat, k \in Q PROVE k + 1 \in Q
    <3> HIDE DEF Good
    <3> SUFFICES ASSUME k + 1 <= n PROVE Good(rows[k + 1], k + 1)
      OBVIOUS
    <3>1. k + 1 \in 1..n /\ k <= n /\ (k + 1) - 1 = k
      BY <1>3
    <3>2. Good(rows[(k + 1) - 1], (k + 1) - 1)
      BY <2>2, <3>1
    <3> QED BY <1>4, <3>1, <3>2
  <2> HIDE DEF Q
  <2>3. n \in Q
    BY <1>3, <2>1, <2>2, Induction
  <2> USE DEF Q
  <2> HIDE DEF Good
  <2> QED BY <1>3, <2>3
<1>6. d = rows[n] /\ n \in 0..n
  BY <1>2, <1>3
<1>7. ASSUME NEW m \in 1..n, NEW w \in W, Has(lines[m], w), w # L!NoWord
      PROVE  w \in DOMAIN d
  <2>1. ~Missed(rows[n], m)
    BY <1>5, <1>7
  <2>2. lines[m].word = w /\ lines[m].phones # <<>>
    BY <1>7 DEF Has
  <2> QED BY <1>6, <1>7, <2>1, <2>2
<1>8. \A w \in DOMAIN d : \E m \in 1..n : Told(d, w, m)
  BY <1>5, <1>6
<1> USE DEF n
<1> QED BY <1>2, <1>6, <1>7, <1>8

-----------------------------------------------------------------------------
(* The download, the loading and the asking                                *)

\* The words of the dictionary as it was published.
WordsIn(lines) == {lines[k].word : k \in DOMAIN lines}

\* A file that may be on the disk: some lines of those published, and perhaps
\* what is left of the next.
Partial(file) ==
  /\ file = [exists |-> file.exists, whole |-> file.whole, cut |-> file.cut]
  /\ file.whole \in 0..Len(published)
  /\ \/ file.cut = <<>>
     \/ /\ file.whole < Len(published)
        /\ \E part \in L!Cuts(published[file.whole + 1]) : file.cut = <<part>>

\* The words that were loaded, and the last answer.
Loaded == dict = L!FoldLeft(L!AddLine, [w \in {} |-> <<>>],
                            SubSeq(published, 1, read.whole) \o read.cut)
Answered ==
  \/ answer = <<>>
  \/ answer = L!Lookup(asked)
  \/ L!Lookup(asked) = <<>> /\ \E ipa \in Answers : answer = L!IpaToTokens(ipa)

LexInv ==
  /\ published \in Dictionaries
  /\ Partial(disk) /\ Partial(read)
  /\ IF ready THEN Loaded ELSE dict = [w \in {} |-> <<>>] /\ answer = <<>>
  /\ Answered

(* What is left of a phone without its last letter may be a phone.         *)
LEMMA ShortPhone ==
  ASSUME NEW name \in DOMAIN L!FirstLetter PROVE L!FirstLetter[name] \in DOMAIN L!Singles
BY DEF L!FirstLetter, L!Singles

(* What is left of a line is a line of the same word.                      *)
LEMMA CutLine ==
  ASSUME NEW W, NEW line \in Line(W), NEW part \in L!Cuts(line)
  PROVE  part \in Line(W) /\ part.word = line.word
<1>1. line \in [word : W, marker : BOOLEAN, phones : Phones] /\ line.phones \in Phones
  BY DEF Line
<1>2. ASSUME NEW p \in Phones PROVE /\ [line EXCEPT !.phones = p] \in Line(W)
                                    /\ [line EXCEPT !.phones = p].word = line.word
  BY <1>1 DEF Line
<1>3. <<>> \in Phones
  BY DEF Phones
<1>4. CASE part = [line EXCEPT !.phones = <<>>]
  BY <1>2, <1>3, <1>4
<1>5. CASE part # [line EXCEPT !.phones = <<>>]
  <2> DEFINE Of(k, last) == [line EXCEPT !.phones = Append(SubSeq(line.phones, 1, k - 1), last)]
             Short(name) == IF name \in DOMAIN L!FirstLetter THEN L!FirstLetter[name]
                            ELSE "unknown"
             Lasts(phone) ==
               {phone, <<phone[1], 0>>, <<Short(phone[1]), 0>>, <<"unknown", 0>>}
             Sets == {{Of(k, last) : last \in Lasts(line.phones[k])} : k \in DOMAIN line.phones}
  <2>a. part \in UNION Sets
    <3>1. L!Cuts(line) = {[line EXCEPT !.phones = <<>>]} \cup UNION Sets
      BY DEF L!Cuts
    <3> HIDE DEF Sets
    <3> QED BY <1>5, <3>1
  <2>b. PICK k \in DOMAIN line.phones : part \in {Of(k, last) : last \in Lasts(line.phones[k])}
    <3> HIDE DEF Of, Lasts
    <3> QED BY <2>a
  <2>1. PICK last \in Lasts(line.phones[k]) : part = Of(k, last)
    <3> HIDE DEF Of, Lasts
    <3> QED BY <2>b
  <2>2. k \in 1..Len(line.phones) /\ line.phones[k] \in L!PhoneNames \X (0..2)
    BY <1>1 DEF Phones
  <2>3. last \in L!PhoneNames \X (0..2)
    <3>1. line.phones[k][1] \in L!PhoneNames /\ 0 \in 0..2 /\ "unknown" \in L!PhoneNames
      BY <2>2 DEF L!PhoneNames
    <3>2. Short(line.phones[k][1]) \in L!PhoneNames
      BY <3>1, ShortPhone DEF L!PhoneNames
    <3>3. /\ <<line.phones[k][1], 0>> \in L!PhoneNames \X (0..2)
          /\ <<Short(line.phones[k][1]), 0>> \in L!PhoneNames \X (0..2)
          /\ <<"unknown", 0>> \in L!PhoneNames \X (0..2)
      BY <3>1, <3>2
    <3> QED BY <2>1, <2>2, <3>3
  <2>4. SubSeq(line.phones, 1, k - 1) \in Phones
    BY <1>1, <2>2 DEF Phones
  <2>5. Append(SubSeq(line.phones, 1, k - 1), last) \in Phones
    BY <2>3, <2>4 DEF Phones
  <2>6. part = [line EXCEPT !.phones = Append(SubSeq(line.phones, 1, k - 1), last)]
    BY <2>1
  <2> QED BY <1>2, <2>5, <2>6
<1> QED BY <1>4, <1>5

(* The lines of a file are the first lines of the dictionary; the line it  *)
(* ends in has the word of the next.                                       *)
LEMMA FileLines ==
  ASSUME published \in Dictionaries, NEW file, Partial(file),
         NEW lines, lines = SubSeq(published, 1, file.whole) \o file.cut
  PROVE  /\ lines \in Seq(Line(WordsIn(published)))
         /\ Len(lines) \in {file.whole, file.whole + 1}
         /\ file.whole \in 0..Len(published)
         /\ \A k \in 1..file.whole : lines[k] = published[k]
         /\ file.whole < Len(lines) =>
              /\ Len(file.cut) = 1 /\ file.cut[1] = lines[Len(lines)]
              /\ 1 \in DOMAIN file.cut
<1> DEFINE W == WordsIn(published)
           n == file.whole
<1>1. published \in Seq(Line(W)) /\ n \in 0..Len(published)
  <2>1. published \in Seq([word : W, marker : BOOLEAN, phones : Phones])
    BY DictionariesAssumption DEF WordsIn, Phones
  <2> QED BY <2>1 DEF Line, Partial
<1> HIDE DEF W, n
<1> DEFINE p == SubSeq(published, 1, n)
<1>2. p \in Seq(Line(W)) /\ Len(p) = n /\ n \in Nat /\ \A k \in 1..n : p[k] = published[k]
  BY <1>1
<1> HIDE DEF p
<1>3. lines = p \o file.cut
  BY DEF p, n
<1>4. CASE file.cut = <<>>
  <2>1. p \o <<>> = p
    BY <1>2
  <2>2. lines = p
    BY <1>3, <1>4, <2>1
  <2>3. Len(lines) = n /\ ~(n < Len(lines)) /\ lines \in Seq(Line(W))
    BY ONLY <1>2, <2>2
  <2>4. Len(lines) \in {n, n + 1} /\ \A k \in 1..n : lines[k] = published[k]
    BY <1>2, <2>2, <2>3, Zenon
  <2> QED BY <1>1, <2>3, <2>4 DEF W, n
<1>5. CASE file.cut # <<>>
  <2>1. n < Len(published)
    BY <1>5 DEF Partial, n
  <2>2. PICK part \in L!Cuts(published[n + 1]) : file.cut = <<part>>
    BY <1>5 DEF Partial, n
  <2>3. part \in Line(W)
    <3>1. published[n + 1] \in Line(W)
      BY <1>1, <2>1
    <3> QED BY <3>1, CutLine
  <2>4. lines = Append(p, part)
    <3>1. p \o <<part>> = Append(p, part)
      BY <1>2, <2>3
    <3> QED BY <1>3, <2>2, <3>1
  <2>5. /\ lines \in Seq(Line(W)) /\ Len(lines) = n + 1 /\ lines[n + 1] = part
        /\ \A k \in 1..n : lines[k] = p[k]
    BY ONLY <1>2, <2>3, <2>4
  <2>6. /\ Len(file.cut) = 1 /\ file.cut[1] = part /\ 1 \in DOMAIN file.cut
    BY <2>2
  <2>7. /\ Len(lines) \in {n, n + 1} /\ \A k \in 1..n : lines[k] = published[k]
        /\ file.cut[1] = lines[Len(lines)]
    BY <1>2, <2>5, <2>6
  <2> QED BY <1>1, <2>5, <2>6, <2>7 DEF W, n
<1> QED BY <1>4, <1>5
(* At first nothing is loaded and the file is not there or whole.          *)
LEMMA LexStart ==
  Init => LexInv
<1> SUFFICES ASSUME Init PROVE LexInv
  OBVIOUS
<1>1. /\ published \in Dictionaries /\ disk \in {L!NoDict, L!AllOf(published)}
      /\ read = L!NoDict /\ dict = [w \in {} |-> <<>>] /\ ready = FALSE /\ answer = <<>>
  BY DEF Init, L!Init
<1>2. Len(published) \in Nat
  BY <1>1, DictionariesAssumption
<1>3. Partial(L!NoDict) /\ Partial(L!AllOf(published))
  BY <1>2 DEF Partial, L!NoDict, L!AllOf
<1> QED BY <1>1, <1>3 DEF LexInv, Answered

(* Each step of the download, the load and the asking keeps that.          *)
LEMMA LexSteps ==
  LexInv /\ [Next]_vars => LexInv'
<1> SUFFICES ASSUME LexInv, [Next]_vars PROVE LexInv'
  OBVIOUS
<1> USE DEF LexInv
<1>0. Len(published) \in Nat
  BY DictionariesAssumption
<1>1. CASE UNCHANGED wordVars
  BY <1>1 DEF wordVars, Partial, Loaded, Answered, L!Lookup
<1>2. CASE L!StartFetch
  <2>1. disk' = [exists |-> TRUE, whole |-> 0, cut |-> <<>>]
    BY <1>2 DEF L!StartFetch, L!NoDict
  <2>2. UNCHANGED <<published, dict, read, ready, asked, answer>>
    BY <1>2 DEF L!StartFetch
  <2>3. Partial(disk)'
    BY <1>0, <2>1, <2>2 DEF Partial
  <2> QED BY <2>2, <2>3 DEF Partial, Loaded, Answered, L!Lookup
<1>3. CASE L!Receive
  <2>1. UNCHANGED <<published, dict, read, ready, asked, answer>>
    BY <1>3 DEF L!Receive
  <2>2. disk.whole \in 0..Len(published) /\ disk.whole < Len(published)
    BY <1>3 DEF L!Receive, Partial
  <2>3. CASE disk' = [disk EXCEPT !.whole = @ + 1, !.cut = <<>>]
    <3>1. disk' = [exists |-> disk.exists, whole |-> disk.whole + 1, cut |-> <<>>]
      BY <2>3 DEF Partial
    <3>2. disk'.whole \in 0..Len(published)
      BY <1>0, <2>2, <3>1
    <3>3. Partial(disk)'
      BY <2>1, <3>1, <3>2 DEF Partial
    <3> QED BY <2>1, <3>3 DEF Partial, Loaded, Answered, L!Lookup
  <2>4. CASE \E part \in L!Cuts(published[disk.whole + 1]) : disk' = [disk EXCEPT !.cut = <<part>>]
    <3>1. PICK part \in L!Cuts(published[disk.whole + 1]) : disk' = [disk EXCEPT !.cut = <<part>>]
      BY <2>4
    <3>2. disk' = [exists |-> disk.exists, whole |-> disk.whole, cut |-> <<part>>]
      BY <3>1 DEF Partial
    <3>3. Partial(disk)'
      BY <2>1, <2>2, <3>2 DEF Partial
    <3> QED BY <2>1, <3>3 DEF Partial, Loaded, Answered, L!Lookup
  <2> QED BY <1>3, <2>3, <2>4 DEF L!Receive
<1>4. CASE L!EndFetch
  BY <1>4 DEF L!EndFetch, Partial, Loaded, Answered, L!Lookup
<1>5. CASE L!Load
  <2>1. /\ dict' = L!FoldLeft(L!AddLine, dict, SubSeq(published, 1, disk.whole) \o disk.cut)
        /\ read' = disk /\ ready' = TRUE /\ ~ready
        /\ UNCHANGED <<published, disk, asked, answer>>
    BY <1>5 DEF L!Load
  <2>2. Loaded'
    BY <2>1 DEF Loaded
  <2>3. Answered'
    BY <2>1 DEF Answered
  <2> QED BY <2>1, <2>2, <2>3 DEF Partial
<1>6. CASE \E word \in ToSet(WordsOf(text)) : L!WordToTokens(word)
  <2>1. PICK word : L!WordToTokens(word)
    BY <1>6
  <2>2. ready /\ asked' = word /\ UNCHANGED <<published, disk, dict, read, ready>>
    BY <2>1 DEF L!WordToTokens
  <2>3. L!Lookup(word) = L!Lookup(asked)'
    BY <2>2 DEF L!Lookup
  <2>4. Answered'
    BY <2>1, <2>3 DEF L!WordToTokens, Answered
  <2> QED BY <2>2, <2>4 DEF Partial, Loaded
<1> QED BY <1>1, <1>2, <1>3, <1>4, <1>5, <1>6
        DEF Next, Fetch, Construct, Normalize, Pronounce, vars

(* The words that were loaded are what the inductive invariant says of     *)
(* them in every state.                                                    *)
LEMMA LexAlways ==
  Spec => []LexInv
BY LexStart, LexSteps, PTL DEF Spec

(* Every word of the dictionary that was loaded has phones, be it whole or *)
(* not, which are those of the first entry of the whole dictionary or of   *)
(* the line that the file ends in.                                         *)
LEMMA FirstEntryListed ==
  LexInv => OnlyCutEntryDiffers /\ dict \in Dicts(WordsIn(published))
<1> SUFFICES ASSUME LexInv PROVE OnlyCutEntryDiffers /\ dict \in Dicts(WordsIn(published))
  OBVIOUS
<1> DEFINE W == WordsIn(published)
<1>1. CASE ~ready
  <2>1. dict = [w \in {} |-> <<>>]
    BY <1>1 DEF LexInv
  <2>2. dict \in [{} -> Seq(Phoneme)] /\ {} \in SUBSET W /\ DOMAIN dict = {}
    BY <2>1
  <2> QED BY <2>2 DEF OnlyCutEntryDiffers, L!OnlyCutEntryDiffers, Dicts
<1>2. CASE ready
  <2> DEFINE lines == SubSeq(published, 1, read.whole) \o read.cut
  <2>1. /\ published \in Dictionaries /\ Partial(read)
        /\ dict = L!FoldLeft(L!AddLine, [w \in {} |-> <<>>], lines)
    BY <1>2 DEF LexInv, Loaded
  <2>2. /\ lines \in Seq(Line(W))
        /\ Len(lines) \in {read.whole, read.whole + 1}
        /\ read.whole \in 0..Len(published)
        /\ \A k \in 1..read.whole : lines[k] = published[k]
        /\ read.whole < Len(lines) =>
             /\ Len(read.cut) = 1 /\ read.cut[1] = lines[Len(lines)]
             /\ 1 \in DOMAIN read.cut
    <3> HIDE DEF lines
    <3>1. lines = SubSeq(published, 1, read.whole) \o read.cut
      BY DEF lines
    <3> QED BY <2>1, <3>1, FileLines
  <2> HIDE DEF lines, W
  <2>3. /\ dict \in Dicts(W)
        /\ \A w \in DOMAIN dict : \E m \in 1..Len(lines) :
             FirstOf(lines, m, w) /\ dict[w] = L!ArpabetToTokens(lines[m].phones)
    BY <2>1, <2>2, LoadedWords
  <2>4. ASSUME NEW w \in DOMAIN dict
        PROVE  dict[w] = L!Listed(w) \/ \E k \in DOMAIN read.cut : read.cut[k].word = w
    <3>1. PICK m \in 1..Len(lines) :
            FirstOf(lines, m, w) /\ dict[w] = L!ArpabetToTokens(lines[m].phones)
      BY <2>3
    <3>2. CASE m <= read.whole
      <4> DEFINE I == {k \in 1..Len(published) : Has(published[k], w)}
      <4>1. m \in 1..read.whole /\ m \in 1..Len(published) /\ Len(published) \in Nat
        BY <2>2, <3>2
      <4>2. Has(published[m], w) /\ \A j \in 1..(m - 1) : ~Has(published[j], w)
        <5>1. Has(lines[m], w) /\ \A j \in 1..(m - 1) : ~Has(lines[j], w)
          BY <3>1 DEF FirstOf
        <5>2. \A j \in 1..(m - 1) : j \in 1..read.whole
          BY <2>2, <4>1
        <5> QED BY <2>2, <4>1, <5>1, <5>2
      <4>3. m \in I /\ \A j \in I : m <= j
        BY <4>1, <4>2
      <4>4. Min(I) = m
        <5>1. I \in SUBSET Nat /\ I # {}
          BY <4>3
        <5>2. Min(I) \in I /\ \A y \in I : Min(I) <= y
          BY <5>1, MinFacts
        <5>3. Min(I) \in Nat /\ m \in Nat /\ Min(I) <= m /\ m <= Min(I)
          BY <4>3, <5>1, <5>2
        <5> QED BY <5>3
      <4>5. L!SelectInSeq(published, LAMBDA line : line.word = w /\ line.phones # <<>>) = m
        <5>1. L!SelectInSeq(published, LAMBDA line : line.word = w /\ line.phones # <<>>)
                = IF I # {} THEN Min(I) ELSE 0
          BY DEF L!SelectInSeq, L!Min, Min, Has
        <5> HIDE DEF I
        <5> QED BY <4>3, <4>4, <5>1
      <4>6. L!Listed(w) = L!ArpabetToTokens(published[m].phones)
        BY <4>1, <4>5 DEF L!Listed
      <4> QED BY <2>2, <3>1, <4>1, <4>6
    <3>3. CASE ~(m <= read.whole)
      <4>1. m = Len(lines) /\ read.whole < Len(lines)
        BY <2>2, <3>1, <3>3
      <4>2. 1 \in DOMAIN read.cut /\ read.cut[1] = lines[m]
        BY <2>2, <4>1
      <4>3. lines[m].word = w
        BY <3>1 DEF FirstOf, Has
      <4> QED BY <4>2, <4>3
    <3> QED BY <3>2, <3>3
  <2> USE DEF W
  <2> QED BY <2>3, <2>4 DEF OnlyCutEntryDiffers, L!OnlyCutEntryDiffers
<1> QED BY <1>1, <1>2

(* However much of the dictionary there was when it was loaded, only the   *)
(* word the file ends in may be pronounced otherwise than the whole one    *)
(* says.                                                                   *)
THEOREM CutEntryCorrect ==
  Spec => []OnlyCutEntryDiffers
<1>1. LexInv => OnlyCutEntryDiffers
  BY FirstEntryListed
<1> QED BY <1>1, LexAlways, PTL

(* Every token of a pronunciation is one that the vocabulary has, so none  *)
(* is a pad, and those from the dictionary are neither a SPACE nor a mark, *)
(* whatever the dictionary and whatever espeak answers.                    *)
THEOREM OneGroupCorrect ==
  Spec => []OneGroup
<1>1. LexInv => OneGroup
  <2> SUFFICES ASSUME LexInv, NEW k \in DOMAIN answer
               PROVE  /\ answer[k] \in Vocabulary
                      /\ L!Lookup(asked) # <<>> => answer[k] > L!SPACE_TOKEN
    BY SameVocabulary DEF OneGroup, L!OneGroup
  <2>1. answer # <<>>
    OBVIOUS
  <2>2. CASE answer = L!Lookup(asked)
    <3>1. asked \in DOMAIN dict /\ answer = dict[asked]
      BY <2>1, <2>2 DEF L!Lookup
    <3>2. answer \in Seq(Phoneme)
      BY <3>1, FirstEntryListed DEF Dicts
    <3>3. answer[k] \in Phoneme
      BY <3>2
    <3> QED BY <3>3 DEF Phoneme, SPACE_TOKEN, L!SPACE_TOKEN
  <2>3. CASE L!Lookup(asked) = <<>> /\ \E ipa \in Answers : answer = L!IpaToTokens(ipa)
    <3>1. answer \in Seq(Vocabulary)
      BY <2>3, AnswersSound
    <3>2. answer[k] \in Vocabulary
      BY <3>1
    <3> QED BY <2>3, <3>2
  <2> QED BY <2>1, <2>2, <2>3 DEF LexInv, Answered
<1> QED BY <1>1, LexAlways, PTL

-----------------------------------------------------------------------------
(* A pass of the normalizer                                                *)

\* What a pass makes of the rest of the text, from each of its items on.
IsRewrite(from, t, ends, put, V) ==
  /\ from \in [1..(Len(t) + 1) -> Seq(V)]
  /\ from[Len(t) + 1] = <<>>
  /\ \A i \in 1..Len(t) :
       IF ends[i] = {} THEN from[i] = <<t[i]>> \o from[i + 1]
       ELSE from[i] = put[i][Max(ends[i])] \o from[Max(ends[i]) + 1]
  /\ N!Rewrite(t, ends, put) = from[1]

\* Matches and what is put in place of them.
IsMatching(t, ends, put, V) ==
  \A i \in 1..Len(t) :
    /\ ends[i] \subseteq i..Len(t)
    /\ ends[i] # {} => put[i][Max(ends[i])] \in Seq(V)

(* The rewriting of a text, item by item from its end.                     *)
LEMMA RewriteRows ==
  ASSUME NEW V, NEW t \in Seq(V), NEW ends, NEW put, IsMatching(t, ends, put, V)
  PROVE  \E from : IsRewrite(from, t, ends, put, V)
<1> DEFINE n == Len(t)
           D == 1..(n + 1)
           R == Seq(V)
           rank == [i \in D |-> n + 1 - i]
           next(i) == IF ends[i] = {} THEN i + 1 ELSE Max(ends[i]) + 1
           here(i) == IF ends[i] = {} THEN <<t[i]>> ELSE put[i][Max(ends[i])]
           step(g, i) == IF i > n THEN <<>>
                         ELSE IF ends[i] = {} THEN <<t[i]>> \o g[i + 1]
                         ELSE put[i][Max(ends[i])] \o g[Max(ends[i]) + 1]
           rule == [i \in D |-> [g \in [D -> R] |-> step(g, i)]]
<1>1. n \in Nat
  OBVIOUS
<1>2. \A i \in 1..n : /\ next(i) \in D /\ next(i) > i /\ here(i) \in R
                      /\ ends[i] # {} => Max(ends[i]) \in ends[i]
  <2> SUFFICES ASSUME NEW i \in 1..n
               PROVE  /\ next(i) \in D /\ next(i) > i /\ here(i) \in R
                      /\ ends[i] # {} => Max(ends[i]) \in ends[i]
    OBVIOUS
  <2>1. CASE ends[i] = {}
    <3>1. t[i] \in V
      OBVIOUS
    <3>2. <<t[i]>> \in R /\ i + 1 \in D /\ i + 1 > i
      BY <1>1, <3>1
    <3> QED BY <2>1, <3>2
  <2>2. CASE ends[i] # {}
    <3> HIDE DEF n
    <3>1. ends[i] \subseteq i..n /\ put[i][Max(ends[i])] \in R
      BY <2>2 DEF IsMatching, n
    <3>2. ends[i] \in SUBSET (0..n)
      BY <1>1, <3>1
    <3>3. Max(ends[i]) \in ends[i]
      BY <1>1, <2>2, <3>2, MaxFacts
    <3>4. Max(ends[i]) \in i..n
      BY <3>1, <3>3
    <3>5. Max(ends[i]) + 1 \in D /\ Max(ends[i]) + 1 > i
      BY <1>1, <3>4
    <3> QED BY <2>2, <3>1, <3>3, <3>5
  <2> QED BY <2>1, <2>2
<1>3. rank \in [D -> Nat] /\ \A i \in 1..n : rank[next(i)] < rank[i]
  <2>1. rank \in [D -> Nat]
    BY <1>1
  <2>2. ASSUME NEW i \in 1..n PROVE rank[next(i)] < rank[i]
    <3>0. next(i) \in D /\ next(i) > i
      BY <1>2
    <3>1. i \in D /\ next(i) \in D /\ next(i) > i
      BY <1>1, <3>0
    <3>2. i \in Nat /\ next(i) \in Nat
      BY <1>1, <3>1
    <3>3. rank[i] = n + 1 - i /\ rank[next(i)] = n + 1 - next(i)
      BY <3>1
    <3> HIDE DEF next, rank, n
    <3> QED BY <1>1, <3>1, <3>2, <3>3
  <2> QED BY <2>1, <2>2
<1>4. <<>> \in R
  OBVIOUS
<1>5. \A i \in 1..n : \A g : step(g, i) = here(i) \o g[next(i)]
  <2> SUFFICES ASSUME NEW i \in 1..n, NEW g PROVE step(g, i) = here(i) \o g[next(i)]
    OBVIOUS
  <2>1. ~(i > n)
    BY <1>1
  <2> QED BY <2>1
<1> HIDE DEF next, here
<1>6. \A i \in D : i \in 1..n \/ i = n + 1
  BY <1>1
<1>7. \A g : step(g, n + 1) = <<>>
  <2>1. n + 1 > n
    BY <1>1
  <2> QED BY <2>1
<1> HIDE DEF D, n, R, rank
<1>8. IsRule(rule, rank, D, R)
  <2> HIDE DEF step
  <2>1. ASSUME NEW i \in D, NEW g \in [D -> R] PROVE rule[i][g] \in R
    <3>1. CASE i \in 1..n
      <4>1. here(i) \in R /\ g[next(i)] \in R
        BY <1>2, <3>1
      <4>2. here(i) \o g[next(i)] \in R
        BY <4>1 DEF R
      <4> QED BY <1>5, <3>1, <4>2
    <3>2. CASE i = n + 1
      BY <1>4, <1>7, <3>2
    <3> QED BY <1>6, <3>1, <3>2
  <2>2. ASSUME NEW i \in D, NEW g \in [D -> R], NEW h \in [D -> R],
               \A y \in D : rank[y] < rank[i] => g[y] = h[y]
        PROVE  rule[i][g] = rule[i][h]
    <3>1. CASE i \in 1..n
      <4>1. g[next(i)] = h[next(i)]
        BY <1>2, <1>3, <2>2, <3>1
      <4>2. step(g, i) = step(h, i)
        BY <1>5, <3>1, <4>1
      <4> QED BY <4>2
    <3>2. CASE i = n + 1
      <4>1. step(g, i) = step(h, i)
        BY <1>7, <3>2
      <4> QED BY <4>1
    <3> QED BY <1>6, <3>1, <3>2
  <2> HIDE DEF rule
  <2> QED BY <2>1, <2>2 DEF IsRule
<1>9. PICK f : Follows(f, rule, D, R)
  <2> HIDE DEF rule
  <2> QED BY <1>3, <1>4, <1>8, RecursiveFunction
<1> DEFINE from == CHOOSE it : it = [i \in D |-> step(it, i)]
<1>10. f \in [D -> R] /\ f = [i \in D |-> step(f, i)]
  <2> HIDE DEF step
  <2> QED BY <1>9 DEF Follows
<1>11. from = [i \in D |-> step(from, i)]
  <2> HIDE DEF step
  <2> QED BY <1>10
<1>12. N!Rewrite(t, ends, put) = from[1]
  BY DEF N!Rewrite, D, n, N!Max, Max
<1> HIDE DEF from
<1>13. from[n + 1] = <<>>
  <2> HIDE DEF step
  <2>1. n + 1 \in D
    BY <1>1 DEF D
  <2> QED BY <1>7, <1>11, <2>1
<1>14. \A i \in 1..n : from[i] = here(i) \o from[next(i)]
  <2> HIDE DEF step
  <2>1. \A i \in 1..n : i \in D
    BY <1>1 DEF D
  <2> QED BY <1>5, <1>11, <2>1
<1>15. \A i \in D : from[i] \in R
  <2> DEFINE Q == {k \in Nat : \A i \in D : rank[i] = k => from[i] \in R}
  <2>1. ASSUME NEW k \in Nat, \A m \in Nat : m < k => m \in Q PROVE k \in Q
    <3> SUFFICES ASSUME NEW i \in D, rank[i] = k PROVE from[i] \in R
      OBVIOUS
    <3>1. CASE i \in 1..n
      <4>1. next(i) \in D /\ rank[next(i)] \in Nat /\ rank[next(i)] < k
        BY <1>2, <1>3, <3>1
      <4>2. from[next(i)] \in R /\ here(i) \in R
        BY <1>2, <2>1, <3>1, <4>1
      <4>3. here(i) \o from[next(i)] \in R
        BY <4>2 DEF R
      <4> QED BY <1>14, <3>1, <4>3
    <3>2. CASE i = n + 1
      BY <1>4, <1>13, <3>2
    <3> QED BY <1>6, <3>1, <3>2
  <2> HIDE DEF Q
  <2>2. \A k \in Nat : k \in Q
    BY <2>1, Descent
  <2> USE DEF Q
  <2> QED BY <1>3, <2>2
<1>16. from \in [D -> R]
  BY <1>11, <1>15
<1>17. IsRewrite(from, t, ends, put, V)
  <2>1. from \in [1..(Len(t) + 1) -> Seq(V)]
    BY <1>16 DEF D, n, R
  <2>2. ASSUME NEW i \in 1..Len(t), ends[i] = {} PROVE from[i] = <<t[i]>> \o from[i + 1]
    BY <1>14, <2>2 DEF here, next, n
  <2>3. ASSUME NEW i \in 1..Len(t), ends[i] # {}
        PROVE  from[i] = put[i][Max(ends[i])] \o from[Max(ends[i]) + 1]
    BY <1>14, <2>3 DEF here, next, n
  <2> QED BY <1>12, <1>13, <2>1, <2>2, <2>3 DEF IsRewrite, n
<1> QED BY <1>17

-----------------------------------------------------------------------------
(* The words of a number                                                   *)

Hundred  == 100
Thousand == 1000
Million  == 1000000
Billion  == 1000000000
Scales   == {Hundred, Thousand, Million, Billion}

(* The scale of a number is the largest there is in it, of which there are *)
(* less than a thousand unless it is a billion.                            *)
LEMMA ScaleFacts ==
  ASSUME NEW n \in Nat, n >= 100, NEW s, s = N!Scale(n)
  PROVE  /\ s \in Scales /\ s <= n
         /\ n < Thousand => s = Hundred
         /\ n >= Thousand /\ n < Million => s = Thousand
         /\ n >= Million /\ n < Billion => s = Million
         /\ n >= Billion => s = Billion
<1> DEFINE Fits(x) == /\ x <= n
                      /\ x = 100 => n < 1000
                      /\ x > 100 => n \div x < 1000 \/ x = 1000000000
<1>1. s = CHOOSE x \in Scales : Fits(x)
  BY SMT DEF N!Scale, Scales, Hundred, Thousand, Million, Billion
<1>2. n < 1000 => n \div 1000 < 1 /\ Fits(100)
  BY SMT
<1>3. n >= 1000 /\ n < 1000000 => Fits(1000)
  BY SMT
<1>4. n >= 1000000 /\ n < 1000000000 => Fits(1000000)
  BY SMT
<1>5. n >= 1000000000 => Fits(1000000000)
  BY SMT
<1>6. \E x \in Scales : Fits(x)
  <2> HIDE DEF Fits
  <2>1. {100, 1000, 1000000, 1000000000} \subseteq Scales
    BY SMT DEF Scales, Hundred, Thousand, Million, Billion
  <2> QED BY <1>2, <1>3, <1>4, <1>5, <2>1, SMT
<1>7. s \in Scales /\ Fits(s)
  <2> HIDE DEF Fits
  <2> QED BY <1>1, <1>6, SMT
<1>8. n < 1000 => s = 100
  BY <1>7, SMT DEF Scales, Hundred, Thousand, Million, Billion
<1>9. n >= 1000 /\ n < 1000000 => s = 1000
  BY <1>7, SMT DEF Scales, Hundred, Thousand, Million, Billion
<1>10. n >= 1000000 /\ n < 1000000000 => s = 1000000
  <2>1. n >= 1000000 => ~(n \div 1000 < 1000)
    BY SMT
  <2> QED BY <1>7, <2>1, SMT DEF Scales, Hundred, Thousand, Million, Billion
<1>11. n >= 1000000000 => s = 1000000000
  <2>1. n >= 1000000000 => ~(n \div 1000 < 1000) /\ ~(n \div 1000000 < 1000)
    BY SMT
  <2> QED BY <1>7, <2>1, SMT DEF Scales, Hundred, Thousand, Million, Billion
<1> QED BY <1>7, <1>8, <1>9, <1>10, <1>11, SMT DEF Hundred, Thousand, Million, Billion

(* A number is its scales and the rest, both of which are smaller.         *)
LEMMA Divided ==
  ASSUME NEW n \in Nat, NEW s \in Scales \cup {10}, s <= n
  PROVE  /\ n \div s \in Nat /\ n \div s < n /\ n \div s > 0
         /\ n % s \in Nat /\ n % s < s /\ n % s < n
         /\ n % s = n - s * (n \div s)
<1>1. CASE s = 10
  <2>1. n >= 10 =>
          /\ n \div 10 \in Nat /\ n \div 10 < n /\ n \div 10 > 0
          /\ n % 10 \in Nat /\ n % 10 < 10 /\ n % 10 < n
          /\ n % 10 = n - 10 * (n \div 10)
    BY SMT
  <2>2. n >= 10
    BY <1>1, SMT
  <2> QED BY <1>1, <2>1, <2>2, SMT
<1>2. CASE s = 100
  <2>1. n >= 100 =>
          /\ n \div 100 \in Nat /\ n \div 100 < n /\ n \div 100 > 0
          /\ n % 100 \in Nat /\ n % 100 < 100 /\ n % 100 < n
          /\ n % 100 = n - 100 * (n \div 100)
    BY SMT
  <2>2. n >= 100
    BY <1>2, SMT
  <2> QED BY <1>2, <2>1, <2>2, SMT
<1>3. CASE s = 1000
  <2>1. n >= 1000 =>
          /\ n \div 1000 \in Nat /\ n \div 1000 < n /\ n \div 1000 > 0
          /\ n % 1000 \in Nat /\ n % 1000 < 1000 /\ n % 1000 < n
          /\ n % 1000 = n - 1000 * (n \div 1000)
    BY SMT
  <2>2. n >= 1000
    BY <1>3, SMT
  <2> QED BY <1>3, <2>1, <2>2, SMT
<1>4. CASE s = 1000000
  <2>1. n >= 1000000 =>
          /\ n \div 1000000 \in Nat /\ n \div 1000000 < n /\ n \div 1000000 > 0
          /\ n % 1000000 \in Nat /\ n % 1000000 < 1000000 /\ n % 1000000 < n
          /\ n % 1000000 = n - 1000000 * (n \div 1000000)
    BY SMT
  <2>2. n >= 1000000
    BY <1>4, SMT
  <2> QED BY <1>4, <2>1, <2>2, SMT
<1>5. CASE s = 1000000000
  <2>1. n >= 1000000000 =>
          /\ n \div 1000000000 \in Nat /\ n \div 1000000000 < n /\ n \div 1000000000 > 0
          /\ n % 1000000000 \in Nat /\ n % 1000000000 < 1000000000 /\ n % 1000000000 < n
          /\ n % 1000000000 = n - 1000000000 * (n \div 1000000000)
    BY SMT
  <2>2. n >= 1000000000
    BY <1>5, SMT
  <2> QED BY <1>5, <2>1, <2>2, SMT
<1> QED BY <1>1, <1>2, <1>3, <1>4, <1>5, SMT DEF Scales, Hundred, Thousand, Million, Billion

\* What numbers and amounts are said with.
SaidWords == NumberWords \cup {<<"cents", 0>>}

\* The words after a scale.
Rest(words, r) == IF r = 0 THEN <<>> ELSE words[r]

(* The words of a number are those that its definition says, and all of    *)
(* them are among the few that numbers are said with.                      *)
LEMMA WordsFacts ==
  /\ N!Words \in [Nat -> Seq(SaidWords)]
  /\ \A n \in 0..19 : N!Words[n] = << <<"ones", n>> >>
  /\ \A n \in 20..99 : N!Words[n] = << <<"tens", n \div 10>> >> \o Rest(N!Words, n % 10)
  /\ \A n \in Nat : n >= 100 =>
       N!Words[n] = N!Words[n \div N!Scale(n)] \o << <<"scale", N!Scale(n)>> >>
                    \o Rest(N!Words, n % N!Scale(n))
<1> DEFINE V == Seq(SaidWords)
           step(g, n) ==
             IF n < 20 THEN << <<"ones", n>> >>
             ELSE IF n < 100 THEN << <<"tens", n \div 10>> >> \o Rest(g, n % 10)
             ELSE g[n \div N!Scale(n)] \o << <<"scale", N!Scale(n)>> >>
                  \o Rest(g, n % N!Scale(n))
           rule == [n \in Nat |-> [g \in [Nat -> V] |-> step(g, n)]]
<1>1. /\ \A n \in 0..19 : << <<"ones", n>> >> \in V
      /\ \A n \in 2..9 : << <<"tens", n>> >> \in V
      /\ \A s \in Scales : << <<"scale", s>> >> \in V
      /\ <<>> \in V
  <2>1. ASSUME NEW n \in 0..19 PROVE <<"ones", n>> \in SaidWords
    BY DEF SaidWords, NumberWords
  <2>2. ASSUME NEW n \in 2..9 PROVE <<"tens", n>> \in SaidWords
    BY DEF SaidWords, NumberWords
  <2>3. ASSUME NEW s \in Scales PROVE <<"scale", s>> \in SaidWords
    BY SMT DEF SaidWords, NumberWords, Scales, Hundred, Thousand, Million, Billion
  <2> QED BY <2>1, <2>2, <2>3
<1>2. \A n \in Nat : n >= 20 /\ n < 100 =>
        n \div 10 \in 2..9 /\ n % 10 \in Nat /\ n % 10 < n
  OBVIOUS
<1>3. \A n \in Nat : n >= 100 =>
        /\ N!Scale(n) \in Scales
        /\ n \div N!Scale(n) \in Nat /\ n \div N!Scale(n) < n
        /\ n % N!Scale(n) \in Nat /\ n % N!Scale(n) < n
  <2> SUFFICES ASSUME NEW n \in Nat, n >= 100
               PROVE  /\ N!Scale(n) \in Scales
                      /\ n \div N!Scale(n) \in Nat /\ n \div N!Scale(n) < n
                      /\ n % N!Scale(n) \in Nat /\ n % N!Scale(n) < n
    OBVIOUS
  <2>1. N!Scale(n) \in Scales /\ N!Scale(n) <= n
    BY ScaleFacts
  <2> QED BY <2>1, Divided
<1> HIDE DEF V
<1>4. ASSUME NEW n \in Nat, NEW g, \A m \in Nat : m < n => g[m] \in V
      PROVE  step(g, n) \in V
  <2>1. \A r \in Nat : r < n => Rest(g, r) \in V
    BY <1>1, <1>4 DEF Rest
  <2>2. CASE n < 20
    <3>1. n \in 0..19
      BY <2>2
    <3> QED BY <1>1, <2>2, <3>1
  <2>3. CASE n >= 20 /\ n < 100
    <3> DEFINE a == << <<"tens", n \div 10>> >>
               b == Rest(g, n % 10)
    <3>1. a \in V /\ b \in V
      BY <1>1, <1>2, <2>1, <2>3
    <3>2. step(g, n) = a \o b
      BY <2>3
    <3> HIDE DEF a, b, step
    <3> QED BY <3>1, <3>2 DEF V
  <2>4. CASE n >= 100
    <3> DEFINE a == g[n \div N!Scale(n)]
               b == << <<"scale", N!Scale(n)>> >>
               c == Rest(g, n % N!Scale(n))
    <3>a. a \in V
      BY <1>3, <1>4, <2>4
    <3>b. b \in V
      BY <1>1, <1>3, <2>4
    <3>c. c \in V
      BY <1>3, <2>1, <2>4
    <3>1. a \in V /\ b \in V /\ c \in V
      BY <3>a, <3>b, <3>c
    <3>2. ~(n < 20) /\ ~(n < 100)
      BY <2>4
    <3>3. step(g, n) = a \o b \o c
      BY <3>2
    <3> HIDE DEF a, b, c, step
    <3> QED BY <3>1, <3>3 DEF V
  <2> QED BY <2>2, <2>3, <2>4
<1>5. ASSUME NEW n \in Nat, NEW g, NEW h, \A m \in Nat : m < n => g[m] = h[m]
      PROVE  step(g, n) = step(h, n)
  <2>1. \A r \in Nat : r < n => Rest(g, r) = Rest(h, r)
    BY <1>5 DEF Rest
  <2>2. CASE n < 20
    BY <2>2
  <2>3. CASE n >= 20 /\ n < 100
    <3>1. Rest(g, n % 10) = Rest(h, n % 10)
      BY <1>2, <2>1, <2>3
    <3> QED BY <2>3, <3>1
  <2>4. CASE n >= 100
    <3>1. /\ g[n \div N!Scale(n)] = h[n \div N!Scale(n)]
          /\ Rest(g, n % N!Scale(n)) = Rest(h, n % N!Scale(n))
      BY <1>3, <1>5, <2>1, <2>4
    <3> QED BY <2>4, <3>1
  <2> QED BY <2>2, <2>3, <2>4
<1>6. IsRule(rule, Order, Nat, V)
  <2> HIDE DEF step
  <2>1. ASSUME NEW n \in Nat, NEW g \in [Nat -> V] PROVE rule[n][g] \in V
    BY <1>4
  <2>2. ASSUME NEW n \in Nat, NEW g \in [Nat -> V], NEW h \in [Nat -> V],
               \A y \in Nat : Order[y] < Order[n] => g[y] = h[y]
        PROVE  rule[n][g] = rule[n][h]
    <3>1. \A m \in Nat : m < n => g[m] = h[m]
      BY <2>2 DEF Order
    <3> QED BY <1>5, <3>1
  <2> HIDE DEF rule
  <2> QED BY <2>1, <2>2 DEF IsRule
<1>7. PICK f \in [Nat -> V] : \A n \in Nat : f[n] = rule[n][f]
  <2>1. V # {}
    BY <1>1
  <2> HIDE DEF rule
  <2>2. \E f : Follows(f, rule, Nat, V)
    BY <1>6, <2>1, RecursionOnNat
  <2> QED BY <2>2 DEF Follows
<1>8. f = [n \in Nat |-> step(f, n)]
  <2> HIDE DEF step
  <2> QED BY <1>7
<1>9. N!Words = [n \in Nat |-> step(N!Words, n)]
  <2> DEFINE W == CHOOSE w : w = [n \in Nat |-> step(w, n)]
  <2>1. W = [n \in Nat |-> step(W, n)]
    <3> HIDE DEF step
    <3> QED BY <1>8
  <2>2. N!Words = W
    BY DEF N!Words, Rest
  <2> HIDE DEF W, step
  <2> QED BY <2>1, <2>2
<1>10. \A n \in Nat : N!Words[n] = step(N!Words, n)
  <2> HIDE DEF step
  <2> QED BY <1>9
<1>11. \A n \in Nat : N!Words[n] \in V
  <2> DEFINE Q == {n \in Nat : N!Words[n] \in V}
  <2>1. ASSUME NEW n \in Nat, \A m \in Nat : m < n => m \in Q PROVE n \in Q
    <3> HIDE DEF step
    <3> QED BY <1>4, <1>10, <2>1
  <2> HIDE DEF Q
  <2>2. \A n \in Nat : n \in Q
    BY <2>1, Descent
  <2> USE DEF Q
  <2> QED BY <2>2
<1>12. N!Words \in [Nat -> V]
  <2> HIDE DEF step
  <2> QED BY <1>9, <1>11
<1>13. \A n \in 0..19 : N!Words[n] = << <<"ones", n>> >>
  <2> SUFFICES ASSUME NEW n \in 0..19 PROVE N!Words[n] = << <<"ones", n>> >>
    OBVIOUS
  <2>1. n \in Nat /\ n < 20
    OBVIOUS
  <2> QED BY <1>10, <2>1
<1>14. \A n \in 20..99 : N!Words[n] = << <<"tens", n \div 10>> >> \o Rest(N!Words, n % 10)
  <2> SUFFICES ASSUME NEW n \in 20..99
               PROVE  N!Words[n] = << <<"tens", n \div 10>> >> \o Rest(N!Words, n % 10)
    OBVIOUS
  <2>1. n \in Nat /\ ~(n < 20) /\ n < 100
    OBVIOUS
  <2> QED BY <1>10, <2>1, Zenon
<1>15. ASSUME NEW n \in Nat, n >= 100
       PROVE  N!Words[n] = N!Words[n \div N!Scale(n)] \o << <<"scale", N!Scale(n)>> >>
                           \o Rest(N!Words, n % N!Scale(n))
  <2>1. ~(n < 20) /\ ~(n < 100)
    BY <1>15
  <2> QED BY <1>10, <2>1
<1> HIDE DEF step
<1> QED BY <1>12, <1>13, <1>14, <1>15, Zenon DEF V

-----------------------------------------------------------------------------
(* How the words of a number are understood                                *)

Hearing == [total : Nat, group : Nat]
HeardAs(t, g) == [total |-> t, group |-> g]
Heard(h, words) == N!FoldLeft(N!Hear, h, words)

\* What was heard after each word.
IsHeard(rows, words, h) ==
  /\ rows \in [0..Len(words) -> Hearing]
  /\ rows[0] = h
  /\ \A k \in 1..Len(words) : rows[k] = N!Hear(rows[k - 1], words[k])
  /\ Heard(h, words) = rows[Len(words)]

(* What each word of a number does to what was heard before it.            *)
LEMMA HearFacts ==
  ASSUME NEW h \in Hearing
  PROVE  /\ \A n \in 0..19 : N!Hear(h, <<"ones", n>>) = HeardAs(h.total, h.group + n)
         /\ \A n \in 2..9 : N!Hear(h, <<"tens", n>>) = HeardAs(h.total, h.group + 10 * n)
         /\ N!Hear(h, <<"scale", Hundred>>) = HeardAs(h.total, Hundred * h.group)
         /\ N!Hear(h, <<"scale", Thousand>>) = HeardAs(h.total + h.group * Thousand, 0)
         /\ N!Hear(h, <<"scale", Million>>) = HeardAs(h.total + h.group * Million, 0)
         /\ N!Hear(h, <<"scale", Billion>>) = HeardAs((h.total + h.group) * Billion, 0)
         /\ N!Hear(h, <<"point", 0>>) = h /\ N!Hear(h, <<"cents", 0>>) = h
<1> USE DEF HeardAs
<1>1. h = [total |-> h.total, group |-> h.group] /\ h.total \in Nat /\ h.group \in Nat
  BY DEF Hearing
<1>2. ASSUME NEW n \in 0..19
      PROVE  N!Hear(h, <<"ones", n>>) = HeardAs(h.total, h.group + n)
  BY <1>1, SMT DEF N!Hear
<1>3. ASSUME NEW n \in 2..9
      PROVE  N!Hear(h, <<"tens", n>>) = HeardAs(h.total, h.group + 10 * n)
  BY <1>1, SMT DEF N!Hear
<1>4. N!Hear(h, <<"scale", Hundred>>) = HeardAs(h.total, Hundred * h.group)
  BY <1>1, SMT DEF N!Hear, Hundred
<1>5. N!Hear(h, <<"scale", Thousand>>) = HeardAs(h.total + h.group * Thousand, 0)
  BY <1>1, SMT DEF N!Hear, Thousand
<1>6. N!Hear(h, <<"scale", Million>>) = HeardAs(h.total + h.group * Million, 0)
  BY <1>1, SMT DEF N!Hear, Million
<1>7. N!Hear(h, <<"scale", Billion>>) = HeardAs((h.total + h.group) * Billion, 0)
  BY <1>1, SMT DEF N!Hear, Billion
<1>8. N!Hear(h, <<"point", 0>>) = h /\ N!Hear(h, <<"cents", 0>>) = h
  BY SMT DEF N!Hear
<1> HIDE DEF HeardAs
<1> QED BY <1>2, <1>3, <1>4, <1>5, <1>6, <1>7, <1>8

(* So that some is heard of any of them.                                   *)
LEMMA HearType ==
  ASSUME NEW h \in Hearing, NEW w \in SaidWords PROVE N!Hear(h, w) \in Hearing
<1>1. /\ h.total \in Nat /\ h.group \in Nat
      /\ \A t, g \in Nat : HeardAs(t, g) \in Hearing
  BY DEF Hearing, HeardAs
<1>2. Hundred \in Nat /\ Thousand \in Nat /\ Million \in Nat /\ Billion \in Nat
  BY SMT DEF Hundred, Thousand, Million, Billion
<1>3. ASSUME NEW n \in 0..19 PROVE N!Hear(h, <<"ones", n>>) \in Hearing
  <2>1. h.group + n \in Nat
    BY <1>1
  <2>2. N!Hear(h, <<"ones", n>>) = HeardAs(h.total, h.group + n)
    BY HearFacts
  <2> QED BY <1>1, <2>1, <2>2
<1>4. ASSUME NEW n \in 2..9 PROVE N!Hear(h, <<"tens", n>>) \in Hearing
  <2>1. h.group + 10 * n \in Nat
    BY <1>1
  <2>2. N!Hear(h, <<"tens", n>>) = HeardAs(h.total, h.group + 10 * n)
    BY HearFacts
  <2> QED BY <1>1, <2>1, <2>2
<1>5. ASSUME NEW s \in {Hundred, Thousand, Million, Billion} PROVE N!Hear(h, <<"scale", s>>) \in Hearing
  <2>1. /\ Hundred * h.group \in Nat /\ h.total + h.group * Thousand \in Nat
        /\ h.total + h.group * Million \in Nat /\ (h.total + h.group) * Billion \in Nat
    <3>1. /\ h.group * Million \in Nat /\ h.total + h.group \in Nat
          /\ Hundred * h.group \in Nat /\ h.group * Thousand \in Nat
      BY <1>1, <1>2, SMT
    <3>2. (h.total + h.group) * Billion \in Nat
      BY <1>2, <3>1, SMT
    <3> QED BY <1>1, <3>1, <3>2
  <2>2. /\ N!Hear(h, <<"scale", Hundred>>) = HeardAs(h.total, Hundred * h.group)
        /\ N!Hear(h, <<"scale", Thousand>>) = HeardAs(h.total + h.group * Thousand, 0)
        /\ N!Hear(h, <<"scale", Million>>) = HeardAs(h.total + h.group * Million, 0)
        /\ N!Hear(h, <<"scale", Billion>>) = HeardAs((h.total + h.group) * Billion, 0)
    BY HearFacts
  <2> QED BY <1>1, <2>1, <2>2
<1>6. N!Hear(h, <<"point", 0>>) \in Hearing /\ N!Hear(h, <<"cents", 0>>) \in Hearing
  BY HearFacts
<1>7. SaidWords = {<<"ones", n>> : n \in 0..19} \cup {<<"tens", n>> : n \in 2..9} \cup
                  {<<"scale", s>> : s \in {Hundred, Thousand, Million, Billion}} \cup
                  {<<"point", 0>>} \cup {<<"cents", 0>>}
  BY SMT DEF SaidWords, NumberWords, Hundred, Thousand, Million, Billion
<1>8. CASE w \in {<<"ones", n>> : n \in 0..19}
  BY <1>3, <1>8
<1>9. CASE w \in {<<"tens", n>> : n \in 2..9}
  BY <1>4, <1>9
<1>10. CASE w \in {<<"scale", s>> : s \in {Hundred, Thousand, Million, Billion}}
  BY <1>5, <1>10
<1> QED BY <1>6, <1>7, <1>8, <1>9, <1>10

(* The words of a number are heard one by one.                             *)
LEMMA HeardRows ==
  ASSUME NEW words \in Seq(SaidWords), NEW h \in Hearing
  PROVE  \E rows : IsHeard(rows, words, h)
<1> DEFINE n == Len(words)
           D == SUBSET (1..n)
           step(g, s) == IF s = {} THEN h ELSE N!Hear(g[s \ {Max(s)}], words[Max(s)])
           rule == [s \in D |-> [g \in [D -> Hearing] |-> step(g, s)]]
<1>1. n \in Nat /\ \A k \in 1..n : words[k] \in SaidWords
  OBVIOUS
<1>2. /\ Top(n) \in [D -> Nat]
      /\ \A s \in D : s # {} => /\ Max(s) \in s /\ s \ {Max(s)} \in D
                                /\ Top(n)[s \ {Max(s)}] < Top(n)[s]
  BY <1>1, TopFalls
<1> HIDE DEF n
<1>3. ASSUME NEW s \in D, NEW g, \A r \in D : g[r] \in Hearing
      PROVE  step(g, s) \in Hearing
  <2>1. CASE s = {}
    BY <2>1
  <2>2. CASE s # {}
    <3>1. Max(s) \in 1..n /\ s \ {Max(s)} \in D
      BY <1>2, <2>2
    <3>2. g[s \ {Max(s)}] \in Hearing /\ words[Max(s)] \in SaidWords
      BY <1>1, <1>3, <3>1
    <3> QED BY <2>2, <3>2, HearType
  <2> QED BY <2>1, <2>2
<1>4. IsRule(rule, Top(n), D, Hearing)
  <2>1. ASSUME NEW s \in D, NEW g \in [D -> Hearing] PROVE rule[s][g] \in Hearing
    BY <1>3
  <2>2. ASSUME NEW s \in D, NEW g \in [D -> Hearing], NEW i \in [D -> Hearing],
               \A y \in D : Top(n)[y] < Top(n)[s] => g[y] = i[y]
        PROVE  rule[s][g] = rule[s][i]
    <3>1. s # {} => g[s \ {Max(s)}] = i[s \ {Max(s)}]
      BY <1>2, <2>2
    <3> QED BY <3>1
  <2> HIDE DEF rule, D
  <2> QED BY <2>1, <2>2 DEF IsRule
<1>5. PICK f : Follows(f, rule, D, Hearing)
  <2>1. Hearing # {}
    OBVIOUS
  <2> HIDE DEF rule, D
  <2> QED BY <1>2, <1>4, <2>1, RecursiveFunction
<1>6. f = [s \in D |-> step(f, s)]
  BY <1>5 DEF Follows
<1> DEFINE iter == CHOOSE it : it = [s \in D |-> step(it, s)]
<1>7. iter = [s \in D |-> step(iter, s)]
  <2> HIDE DEF D, step
  <2> QED BY <1>6
<1>8. Heard(h, words) = iter[1..n]
  <2>1. DOMAIN words = 1..n
    BY DEF n
  <2> QED BY <2>1 DEF Heard, N!FoldLeft, N!MapThenFoldSet, N!Max, Max
<1> HIDE DEF iter
<1> DEFINE rows == [k \in 0..n |-> iter[1..k]]
<1>9. rows[0] = h
  <2>1. 1..0 = {} /\ 1..0 \in D /\ 0 \in 0..n
    BY <1>1
  <2> QED BY <1>7, <2>1
<1>10. ASSUME NEW k \in 1..n PROVE rows[k] = N!Hear(rows[k - 1], words[k])
  <2>1. k \in Nat \ {0} /\ 1..k \in D /\ k \in 0..n /\ k - 1 \in 0..n
    BY <1>1
  <2>2. Max(1..k) = k /\ (1..k) \ {k} = 1..(k - 1) /\ 1..k # {}
    BY <2>1, TopOfFirst
  <2>3. iter[1..k] = N!Hear(iter[1..(k - 1)], words[k])
    BY <1>7, <2>1, <2>2
  <2> QED BY <2>1, <2>3
<1>11. rows \in [0..n -> Hearing]
  <2> DEFINE Q == {k \in Nat : k <= n => rows[k] \in Hearing}
  <2>1. 0 \in Q
    BY <1>1, <1>9
  <2>2. ASSUME NEW k \in Nat, k \in Q PROVE k + 1 \in Q
    <3> SUFFICES ASSUME k + 1 <= n PROVE rows[k + 1] \in Hearing
      OBVIOUS
    <3>1. k + 1 \in 1..n /\ k <= n /\ (k + 1) - 1 = k
      BY <1>1
    <3> HIDE DEF rows
    <3>2. rows[k + 1] = N!Hear(rows[k], words[k + 1])
      BY <1>10, <3>1
    <3> QED BY <1>1, <2>2, <3>1, <3>2, HearType
  <2> HIDE DEF Q
  <2>3. \A k \in Nat : k \in Q
    BY <2>1, <2>2, Induction
  <2> USE DEF Q
  <2>4. \A k \in 0..n : rows[k] \in Hearing
    <3> HIDE DEF rows
    <3> QED BY <1>1, <2>3
  <2> HIDE DEF Q
  <2> QED BY <2>4
<1>12. Heard(h, words) = rows[n]
  BY <1>1, <1>8
<1> HIDE DEF rows
<1> USE DEF n
<1>13. IsHeard(rows, words, h)
  BY <1>9, <1>10, <1>11, <1>12 DEF IsHeard
<1> QED BY <1>13

(* Words heard after others are heard after what was heard of those.       *)
LEMMA HeardBoth ==
  ASSUME NEW s \in Seq(SaidWords), NEW t \in Seq(SaidWords), NEW h \in Hearing
  PROVE  /\ Heard(h, s) \in Hearing /\ Heard(h, s \o t) = Heard(Heard(h, s), t)
<1> DEFINE m == Len(s)
           n == Len(t)
           r == s \o t
<1>1. /\ m \in Nat /\ n \in Nat /\ Len(r) = m + n /\ r \in Seq(SaidWords)
      /\ \A k \in 1..m : r[k] = s[k]
      /\ \A k \in 1..n : r[m + k] = t[k]
  OBVIOUS
<1>2. PICK a : IsHeard(a, s, h)
  BY HeardRows
<1>3. a[m] \in Hearing /\ Heard(h, s) = a[m] /\ a[0] = h
      /\ \A k \in 1..m : a[k] = N!Hear(a[k - 1], s[k])
  BY <1>1, <1>2 DEF IsHeard
<1>4. PICK b : IsHeard(b, t, a[m])
  BY <1>3, HeardRows
<1>5. b[0] = a[m] /\ Heard(a[m], t) = b[n]
      /\ \A k \in 1..n : b[k] = N!Hear(b[k - 1], t[k])
  BY <1>1, <1>4 DEF IsHeard
<1>6. PICK c : IsHeard(c, r, h)
  <2> HIDE DEF r
  <2> QED BY <1>1, HeardRows
<1>7. c[0] = h /\ Heard(h, r) = c[m + n]
      /\ \A k \in 1..(m + n) : c[k] = N!Hear(c[k - 1], r[k])
  <2> HIDE DEF r
  <2> QED BY <1>1, <1>6 DEF IsHeard
<1> HIDE DEF m, n, r
<1>8. c[m] = a[m]
  <2> DEFINE Q == {k \in Nat : k <= m => c[k] = a[k]}
  <2>1. 0 \in Q
    BY <1>3, <1>7
  <2>2. ASSUME NEW k \in Nat, k \in Q PROVE k + 1 \in Q
    <3> SUFFICES ASSUME k + 1 <= m PROVE c[k + 1] = a[k + 1]
      OBVIOUS
    <3>1. k + 1 \in 1..m /\ k + 1 \in 1..(m + n) /\ k <= m /\ (k + 1) - 1 = k
      BY <1>1
    <3>2. c[k + 1] = N!Hear(c[k], r[k + 1]) /\ a[k + 1] = N!Hear(a[k], s[k + 1])
      BY <1>3, <1>7, <3>1
    <3> QED BY <1>1, <2>2, <3>1, <3>2
  <2> HIDE DEF Q
  <2>3. m \in Q
    BY <1>1, <2>1, <2>2, Induction
  <2> USE DEF Q
  <2> QED BY <1>1, <2>3
<1>9. c[m + n] = b[n]
  <2> DEFINE Q == {k \in Nat : k <= n => c[m + k] = b[k]}
  <2>1. 0 \in Q
    BY <1>1, <1>5, <1>8
  <2>2. ASSUME NEW k \in Nat, k \in Q PROVE k + 1 \in Q
    <3> SUFFICES ASSUME k + 1 <= n PROVE c[m + (k + 1)] = b[k + 1]
      OBVIOUS
    <3>1. /\ k + 1 \in 1..n /\ m + (k + 1) \in 1..(m + n) /\ k <= n /\ (k + 1) - 1 = k
          /\ (m + (k + 1)) - 1 = m + k
      BY <1>1
    <3>2. /\ c[m + (k + 1)] = N!Hear(c[m + k], r[m + (k + 1)])
          /\ b[k + 1] = N!Hear(b[k], t[k + 1])
      BY <1>5, <1>7, <3>1
    <3> QED BY <1>1, <2>2, <3>1, <3>2
  <2> HIDE DEF Q
  <2>3. n \in Q
    BY <1>1, <2>1, <2>2, Induction
  <2> USE DEF Q
  <2> QED BY <1>1, <2>3
<1> QED BY <1>3, <1>5, <1>7, <1>9 DEF r

(* Of no words nothing is heard, and of one what it says.                  *)
LEMMA HeardFew ==
  ASSUME NEW h \in Hearing
  PROVE  Heard(h, <<>>) = h /\ \A w \in SaidWords : Heard(h, <<w>>) = N!Hear(h, w)
<1>1. Heard(h, <<>>) = h
  <2>1. <<>> \in Seq(SaidWords) /\ Len(<<>>) = 0
    OBVIOUS
  <2>2. PICK a : IsHeard(a, <<>>, h)
    BY <2>1, HeardRows
  <2>3. a[0] = h /\ Heard(h, <<>>) = a[Len(<<>>)]
    BY <2>2 DEF IsHeard
  <2> QED BY <2>1, <2>3
<1>2. ASSUME NEW w \in SaidWords PROVE Heard(h, <<w>>) = N!Hear(h, w)
  <2> DEFINE r == <<w>>
  <2>1. r \in Seq(SaidWords) /\ Len(r) = 1 /\ r[1] = w
    OBVIOUS
  <2> HIDE DEF r
  <2>2. PICK a : IsHeard(a, r, h)
    BY <2>1, HeardRows
  <2>3. a[0] = h /\ a[1] = N!Hear(a[1 - 1], r[1]) /\ Heard(h, r) = a[1]
    BY <2>1, <2>2 DEF IsHeard
  <2> USE DEF r
  <2> QED BY <2>1, <2>3
<1> QED BY <1>1, <1>2

(* There are words of every number and of every rest.                      *)
LEMMA WordsType ==
  ASSUME NEW n \in Nat
  PROVE  N!Words[n] \in Seq(SaidWords) /\ Rest(N!Words, n) \in Seq(SaidWords)
<1>1. N!Words \in [Nat -> Seq(SaidWords)]
  BY WordsFacts, Zenon
<1>2. N!Words[n] \in Seq(SaidWords)
  BY <1>1
<1>3. <<>> \in Seq(SaidWords)
  OBVIOUS
<1> QED BY <1>2, <1>3, Zenon DEF Rest

(* A number of less than a hundred is understood from its words.           *)
LEMMA WordsToHundred ==
  ASSUME NEW h \in Hearing, NEW n \in Nat, n < Hundred
  PROVE  Heard(h, N!Words[n]) = HeardAs(h.total, h.group + n)
<1>1. n \in 0..99
  BY SMT DEF Hundred
<1>2. ASSUME NEW k \in 0..19, NEW g \in Hearing
      PROVE  Heard(g, N!Words[k]) = HeardAs(g.total, g.group + k)
  <2>1. <<"ones", k>> \in SaidWords
    BY DEF SaidWords, NumberWords
  <2>2. N!Hear(g, <<"ones", k>>) = HeardAs(g.total, g.group + k)
    BY HearFacts, Zenon
  <2>3. Heard(g, << <<"ones", k>> >>) = N!Hear(g, <<"ones", k>>)
    BY <2>1, HeardFew
  <2>4. N!Words[k] = << <<"ones", k>> >>
    BY WordsFacts, Zenon
  <2> QED BY <2>2, <2>3, <2>4
<1>3. CASE n \in 0..19
  BY <1>2, <1>3
<1>4. CASE n \in 20..99
  <2> DEFINE q == n \div 10
             r == n % 10
             w == <<"tens", q>>
             g == N!Hear(h, w)
  <2>1. q \in 2..9 /\ r \in 0..9 /\ r = n - 10 * q
    BY ONLY <1>4, SMT
  <2>2. N!Words[n] = <<w>> \o Rest(N!Words, r)
    BY <1>4, WordsFacts, Zenon
  <2> HIDE DEF q, r
  <2>3. w \in SaidWords /\ <<w>> \in Seq(SaidWords)
    <3>1. w \in SaidWords
      BY <2>1 DEF SaidWords, NumberWords
    <3> QED BY <3>1
  <2>4. g \in Hearing /\ g = HeardAs(h.total, h.group + 10 * q)
    <3>1. N!Hear(h, <<"tens", q>>) = HeardAs(h.total, h.group + 10 * q)
      BY <2>1, HearFacts
    <3> QED BY <2>3, <3>1, HearType
  <2>5. g.total = h.total /\ g.group = h.group + 10 * q /\ Heard(h, <<w>>) = g
    BY <2>3, <2>4, HeardFew DEF HeardAs
  <2> HIDE DEF w, g
  <2>6. Rest(N!Words, r) \in Seq(SaidWords)
    <3>1. r \in Nat
      BY <2>1
    <3> QED BY <3>1, WordsType
  <2>7. Heard(h, N!Words[n]) = Heard(g, Rest(N!Words, r))
    <3> DEFINE a == <<w>>
               b == Rest(N!Words, r)
    <3>1. a \in Seq(SaidWords) /\ b \in Seq(SaidWords) /\ N!Words[n] = a \o b
      BY <2>2, <2>3, <2>6
    <3> HIDE DEF a, b
    <3>2. Heard(h, a \o b) = Heard(Heard(h, a), b)
      BY <3>1, HeardBoth
    <3> USE DEF a, b
    <3> QED BY <2>2, <2>5, <3>2
  <2>8. Heard(g, Rest(N!Words, r)) = HeardAs(g.total, g.group + r)
    <3>1. CASE r = 0
      <4>1. Heard(g, <<>>) = g
        BY <2>4, HeardFew
      <4>2. g = HeardAs(g.total, g.group + 0)
        BY <2>4 DEF Hearing, HeardAs
      <4> QED BY <3>1, <4>1, <4>2 DEF Rest
    <3>2. CASE r # 0
      <4>1. r \in 0..19
        BY <2>1
      <4> QED BY <1>2, <2>4, <3>2, <4>1 DEF Rest
    <3> QED BY <3>1, <3>2
  <2>9. g.group + r = h.group + n
    <3>1. h.group \in Nat
      BY DEF Hearing
    <3> QED BY <2>1, <2>5, <3>1
  <2> QED BY <2>5, <2>7, <2>8, <2>9
<1> QED BY <1>1, <1>3, <1>4

(* The words of a number of a hundred and more: those of its scales, the   *)
(* scale, and the rest.                                                    *)
LEMMA WordsScaled ==
  ASSUME NEW h \in Hearing, NEW n \in Nat, n >= 100,
         NEW s, s = N!Scale(n), NEW q, q = n \div s, NEW r, r = n % s,
         NEW g, g = N!Hear(Heard(h, N!Words[q]), <<"scale", s>>)
  PROVE  /\ s \in Scales /\ q \in Nat \ {0} /\ q < n /\ r \in Nat /\ r < s /\ r = n - s * q
         /\ Heard(h, N!Words[q]) \in Hearing /\ g \in Hearing
         /\ Heard(h, N!Words[n]) = IF r = 0 THEN g ELSE Heard(g, N!Words[r])
<1>1. s \in Scales /\ s <= n
  BY ScaleFacts
<1>2. q \in Nat \ {0} /\ q < n /\ r \in Nat /\ r < s /\ r = n - s * q
  BY <1>1, Divided
<1> DEFINE a == N!Words[q]
           w == <<"scale", s>>
           b == <<w>>
           c == Rest(N!Words, r)
<1>3. N!Words[n] = a \o b \o c
  BY WordsFacts, Zenon
<1>4. a \in Seq(SaidWords) /\ c \in Seq(SaidWords)
  BY <1>2, WordsType
<1>5. w \in SaidWords /\ b \in Seq(SaidWords)
  <2>1. w \in SaidWords
    BY <1>1, SMT DEF SaidWords, NumberWords, Scales, Hundred, Thousand, Million, Billion
  <2> QED BY <2>1
<1>6. g = N!Hear(Heard(h, a), w)
  OBVIOUS
<1> HIDE DEF a, b, c, w
<1>7. Heard(h, a) \in Hearing
  BY <1>4, HeardBoth
<1>8. Heard(Heard(h, a), b) = g /\ g \in Hearing
  BY <1>5, <1>6, <1>7, HeardFew, HearType DEF b
<1>9. Heard(h, a \o b) = g /\ a \o b \in Seq(SaidWords)
  BY <1>4, <1>5, <1>8, HeardBoth
<1>10. Heard(h, (a \o b) \o c) = Heard(g, c)
  <2> DEFINE d == a \o b
  <2>1. d \in Seq(SaidWords) /\ Heard(h, d) = g
    BY <1>9
  <2> HIDE DEF d
  <2>2. Heard(h, d \o c) = Heard(g, c)
    BY <1>4, <2>1, HeardBoth
  <2> QED BY <2>2 DEF d
<1>11. Heard(g, c) = IF r = 0 THEN g ELSE Heard(g, N!Words[r])
  BY <1>8, HeardFew DEF c, Rest
<1> QED BY <1>1, <1>2, <1>3, <1>7, <1>8, <1>10, <1>11 DEF a

(* So is one of less than a thousand, if nothing was said since the last   *)
(* scale.                                                                  *)
LEMMA WordsToThousand ==
  ASSUME NEW h \in Hearing, h.group = 0, NEW n \in Nat, n < Thousand
  PROVE  Heard(h, N!Words[n]) = HeardAs(h.total, n)
<1>1. h.total \in Nat /\ h.group \in Nat
  BY DEF Hearing
<1>2. CASE n < Hundred
  <2>1. h.group + n = n
    OBVIOUS
  <2>2. Heard(h, N!Words[n]) = HeardAs(h.total, h.group + n)
    BY <1>2, WordsToHundred
  <2> QED BY <2>1, <2>2
<1>3. CASE ~(n < Hundred)
  <2> DEFINE s == N!Scale(n)
             q == n \div s
             r == n % s
             g == N!Hear(Heard(h, N!Words[q]), <<"scale", s>>)
  <2>1. n >= 100
    BY <1>3, SMT DEF Hundred
  <2>2. s = Hundred
    BY <2>1, ScaleFacts
  <2>3. /\ q \in Nat \ {0} /\ r \in Nat /\ r < s /\ r = n - s * q
        /\ g \in Hearing
        /\ Heard(h, N!Words[n]) = IF r = 0 THEN g ELSE Heard(g, N!Words[r])
    BY <2>1, WordsScaled
  <2> HIDE DEF q, r, s
  <2>4. q < Hundred
    BY <2>2, <2>3, SMT DEF Hundred, Thousand
  <2>5. Heard(h, N!Words[q]) = HeardAs(h.total, q)
    <3>1. h.group + q = q
      BY <2>3
    <3>2. Heard(h, N!Words[q]) = HeardAs(h.total, h.group + q)
      BY <2>3, <2>4, WordsToHundred
    <3> QED BY <3>1, <3>2
  <2>6. g = HeardAs(h.total, Hundred * q)
    <3> DEFINE e == HeardAs(h.total, q)
    <3>1. e \in Hearing /\ e.total = h.total /\ e.group = q
      BY <1>1, <2>3 DEF HeardAs, Hearing
    <3>2. g = N!Hear(e, <<"scale", Hundred>>)
      BY <2>2, <2>5
    <3> HIDE DEF e, g
    <3>3. N!Hear(e, <<"scale", Hundred>>) = HeardAs(e.total, Hundred * e.group)
      BY <3>1, HearFacts
    <3> QED BY <3>1, <3>2, <3>3
  <2>7. g.total = h.total /\ g.group = Hundred * q
    BY <2>6 DEF HeardAs
  <2> HIDE DEF g
  <2>8. CASE r = 0
    <3>1. n = Hundred * q
      BY <2>2, <2>3, <2>8, SMT DEF Hundred
    <3> QED BY <2>3, <2>6, <2>8, <3>1
  <2>9. CASE r # 0
    <3>1. Heard(g, N!Words[r]) = HeardAs(g.total, g.group + r)
      BY <2>2, <2>3, WordsToHundred
    <3>2. g.group + r = n
      BY <2>2, <2>3, <2>7, SMT DEF Hundred
    <3> QED BY <2>3, <2>7, <2>9, <3>1, <3>2
  <2> QED BY <2>8, <2>9
<1> QED BY <1>2, <1>3

\* The words of a number add it to what was heard before.
Adds(h, n) == /\ Heard(h, N!Words[n]) \in Hearing
              /\ Heard(h, N!Words[n]).total + Heard(h, N!Words[n]).group = h.total + n

(* So is one of thousands or of millions.                                  *)
LEMMA WordsOfScale ==
  ASSUME NEW s \in {Thousand, Million},
         \A h \in Hearing, n \in Nat : h.group = 0 /\ n < s => Adds(h, n),
         NEW h \in Hearing, h.group = 0, NEW n \in Nat, n >= s, N!Scale(n) = s, n \div s < Thousand
  PROVE  Adds(h, n)
<1> DEFINE q == n \div s
           r == n % s
           g == N!Hear(Heard(h, N!Words[q]), <<"scale", s>>)
<1>1. n >= 100
  BY SMT DEF Thousand, Million
<1>2. /\ q \in Nat \ {0} /\ r \in Nat /\ r < s /\ r = n - s * q
      /\ g \in Hearing
      /\ Heard(h, N!Words[n]) = IF r = 0 THEN g ELSE Heard(g, N!Words[r])
  BY <1>1, WordsScaled
<1>3. q < Thousand
  OBVIOUS
<1> HIDE DEF q, r
<1>4. h.total \in Nat /\ s \in Nat
  BY SMT DEF Hearing, Thousand, Million
<1>5. g = HeardAs(h.total + q * s, 0)
  <2> DEFINE e == HeardAs(h.total, q)
  <2>1. e \in Hearing /\ e.total = h.total /\ e.group = q
    BY <1>2, <1>4 DEF HeardAs, Hearing
  <2>2. g = N!Hear(e, <<"scale", s>>)
    <3>1. Heard(h, N!Words[q]) = e
      BY <1>2, <1>3, WordsToThousand
    <3> QED BY <3>1
  <2> HIDE DEF e, g
  <2>3. N!Hear(e, <<"scale", s>>) = HeardAs(e.total + e.group * s, 0)
    <3>1. CASE s = Thousand
      <4>1. N!Hear(e, <<"scale", Thousand>>) = HeardAs(e.total + e.group * Thousand, 0)
        BY <2>1, HearFacts
      <4> QED BY <3>1, <4>1
    <3>2. CASE s = Million
      <4>1. N!Hear(e, <<"scale", Million>>) = HeardAs(e.total + e.group * Million, 0)
        BY <2>1, HearFacts
      <4> QED BY <3>2, <4>1
    <3> QED BY <3>1, <3>2
  <2> QED BY <2>1, <2>2, <2>3
<1>6. g.total = h.total + q * s /\ g.group = 0
  BY <1>5 DEF HeardAs
<1> HIDE DEF g
<1>7. q * s \in Nat /\ q * s = s * q
  BY <1>2, <1>4
<1>8. CASE r = 0
  <2>1. q * s = n
    BY <1>2, <1>7, <1>8
  <2>2. Heard(h, N!Words[n]) = g
    BY <1>2, <1>8
  <2>3. g.total + g.group = h.total + n
    BY <1>4, <1>6, <2>1
  <2> QED BY <1>2, <2>2, <2>3 DEF Adds
<1>9. CASE r # 0
  <2>1. Adds(g, r)
    BY <1>2, <1>6
  <2>2. g.total + r = h.total + n
    <3>1. q * s + r = n
      BY <1>2, <1>7
    <3> QED BY <1>2, <1>4, <1>6, <1>7, <3>1
  <2>3. Heard(h, N!Words[n]) = Heard(g, N!Words[r])
    BY <1>2, <1>9
  <2> QED BY <2>1, <2>2, <2>3 DEF Adds
<1> QED BY <1>8, <1>9

(* And so is every number of less than a billion.                          *)
LEMMA WordsToBillion ==
  ASSUME NEW h \in Hearing, h.group = 0, NEW n \in Nat, n < Billion
  PROVE  Adds(h, n)
<1>1. ASSUME NEW g \in Hearing, g.group = 0, NEW m \in Nat, m < Thousand PROVE Adds(g, m)
  <2> DEFINE e == HeardAs(g.total, m)
  <2>1. Heard(g, N!Words[m]) = e
    BY <1>1, WordsToThousand
  <2>2. e \in Hearing /\ e.total = g.total /\ e.group = m
    BY DEF HeardAs, Hearing
  <2> HIDE DEF e
  <2> QED BY <2>1, <2>2 DEF Adds
<1>2. ASSUME NEW g \in Hearing, g.group = 0, NEW m \in Nat, m < Million PROVE Adds(g, m)
  <2>1. CASE m < Thousand
    BY <1>1, <1>2, <2>1
  <2>2. CASE ~(m < Thousand)
    <3>1. m >= 100 /\ m >= Thousand
      BY <2>2, SMT DEF Thousand
    <3>2. N!Scale(m) = Thousand
      BY <1>2, <3>1, ScaleFacts
    <3>3. m \div Thousand < Thousand
      BY <1>2, <3>1, SMT DEF Thousand, Million
    <3>4. \A i \in Hearing, k \in Nat : i.group = 0 /\ k < Thousand => Adds(i, k)
      BY <1>1
    <3>5. Thousand \in {Thousand, Million}
      OBVIOUS
    <3> QED BY <1>2, <3>1, <3>2, <3>3, <3>4, <3>5, WordsOfScale
  <2> QED BY <2>1, <2>2
<1>3. CASE n < Million
  BY <1>2, <1>3
<1>4. CASE ~(n < Million)
  <2>1. n >= 100 /\ n >= Million
    BY <1>4, SMT DEF Million
  <2>2. N!Scale(n) = Million
    BY <2>1, ScaleFacts
  <2>3. n \div Million < Thousand
    BY <2>1, SMT DEF Thousand, Million, Billion
  <2>4. \A i \in Hearing, k \in Nat : i.group = 0 /\ k < Million => Adds(i, k)
    BY <1>2
  <2>5. Million \in {Thousand, Million}
    OBVIOUS
  <2> QED BY <2>1, <2>2, <2>3, <2>4, <2>5, WordsOfScale
<1> QED BY <1>3, <1>4

(* Whoever hears the words of a number understands that number, however    *)
(* large it is: integer_to_words says no number as another.                *)
THEOREM WordsUnderstood ==
  \A n \in Nat : N!Understood(N!Words[n]) = n
<1> DEFINE h == N!Silence
           Q == {n \in Nat : Adds(h, n)}
<1>1. h \in Hearing /\ h.total = 0 /\ h.group = 0
  BY DEF N!Silence, Hearing
<1> HIDE DEF h
<1>2. ASSUME NEW n \in Nat, \A m \in Nat : m < n => m \in Q PROVE n \in Q
  <2>1. CASE n < Billion
    BY <1>1, <2>1, WordsToBillion
  <2>2. CASE ~(n < Billion)
    <3> DEFINE s == N!Scale(n)
               q == n \div s
               r == n % s
               e == Heard(h, N!Words[q])
               g == N!Hear(e, <<"scale", s>>)
    <3>1. n >= 100 /\ n >= Billion
      BY <2>2, SMT DEF Billion
    <3>2. s = Billion
      BY <3>1, ScaleFacts
    <3>3. /\ q \in Nat \ {0} /\ q < n /\ r \in Nat /\ r < s /\ r = n - s * q
          /\ e \in Hearing /\ g \in Hearing
          /\ Heard(h, N!Words[n]) = IF r = 0 THEN g ELSE Heard(g, N!Words[r])
      BY <1>1, <3>1, WordsScaled
    <3> HIDE DEF s, q, r
    <3>4. e.total + e.group = q
      BY <1>1, <1>2, <3>3 DEF Adds
    <3>5. g = HeardAs(q * Billion, 0)
      <4> HIDE DEF e
      <4>1. N!Hear(e, <<"scale", Billion>>) = HeardAs((e.total + e.group) * Billion, 0)
        BY <3>3, HearFacts
      <4> QED BY <3>2, <3>4, <4>1
    <3>6. g.total = q * Billion /\ g.group = 0
      BY <3>5 DEF HeardAs
    <3>7. q * Billion = n - r /\ r < Billion
      <4>1. Billion \in Nat
        BY SMT DEF Billion
      <4>2. q * Billion = Billion * q /\ Billion * q \in Nat
        BY <3>3, <4>1
      <4> QED BY <3>2, <3>3, <4>2
    <3> HIDE DEF e, g
    <3>8. CASE r = 0
      <4>1. Heard(h, N!Words[n]) = g /\ g.total + g.group = 0 + n
        BY <3>3, <3>6, <3>7, <3>8
      <4> QED BY <1>1, <3>3, <4>1 DEF Adds
    <3>9. CASE r # 0
      <4>1. Adds(g, r)
        BY <3>3, <3>6, <3>7, WordsToBillion
      <4>2. Heard(h, N!Words[n]) = Heard(g, N!Words[r]) /\ g.total + r = 0 + n
        BY <3>3, <3>6, <3>7, <3>9
      <4> QED BY <1>1, <4>1, <4>2 DEF Adds
    <3> QED BY <3>8, <3>9
  <2> QED BY <2>1, <2>2
<1> HIDE DEF Q
<1>3. \A n \in Nat : n \in Q
  BY <1>2, Descent
<1> USE DEF Q
<1>4. ASSUME NEW n \in Nat PROVE N!Understood(N!Words[n]) = n
  <2>1. Adds(h, n)
    BY <1>3
  <2>2. N!Understood(N!Words[n]) = Heard(h, N!Words[n]).total + Heard(h, N!Words[n]).group
    BY DEF N!Understood, Heard, h
  <2> QED BY <1>1, <2>1, <2>2 DEF Adds
<1> QED BY <1>4

-----------------------------------------------------------------------------
(* What a pass that writes words leaves of the characters                  *)

ItemsOf(t) == {t[k] : k \in DOMAIN t}
IsChar(item) == item[1] = "char"

\* pos tells where in t the characters of r come from: those that stand side
\* by side in r stood side by side in t.
Tracks(pos, r, t) ==
  /\ \A k \in 1..Len(r) : IsChar(r[k]) => pos[k] \in 1..Len(t) /\ r[k] = t[pos[k]]
  /\ \A k \in 1..Len(r) : k + 1 <= Len(r) /\ IsChar(r[k]) /\ IsChar(r[k + 1]) =>
       pos[k + 1] = pos[k] + 1

\* cuts are the parts of t that stay together: each character of r is one of
\* such a part, and the part is around it.
Laid(pos, r, t, cuts) ==
  \A k \in 1..Len(r) : IsChar(r[k]) => \E cut \in cuts :
    /\ cut[1] <= pos[k] /\ pos[k] <= cut[2]
    /\ \A e \in cut[1]..cut[2] : k - pos[k] + e \in 1..Len(r) /\ r[k - pos[k] + e] = t[e]

\* r is what becomes of t from i on, from its first item to its last.
TracksFrom(pos, r, t, i, cuts) ==
  /\ Tracks(pos, r, t) /\ Laid(pos, r, t, cuts)
  /\ Len(r) = 0 => i = Len(t) + 1
  /\ Len(r) > 0 /\ IsChar(r[1]) => pos[1] = i
  /\ Len(r) > 0 /\ IsChar(r[Len(r)]) => pos[Len(r)] = Len(t)

\* Each match stays as it is or becomes words.
IsWriting(t, ends, put) ==
  \A i \in 1..Len(t) :
    /\ ends[i] \subseteq i..Len(t)
    /\ \A j \in ends[i] :
         put[i][j] = SubSeq(t, i, j) \/ \E x : put[i][j] = <<x>> /\ ~IsChar(x)

(* A piece of the text, or words, in front of what becomes of the rest.    *)
LEMMA Prepended ==
  ASSUME NEW V, NEW t \in Seq(V), NEW head \in Seq(V), NEW tail \in Seq(V),
         NEW i \in 1..Len(t), NEW j \in i..Len(t),
         NEW cuts \in SUBSET ((1..Len(t)) \X (1..Len(t))),
         (head = SubSeq(t, i, j) /\ <<i, j>> \in cuts) \/ (Len(head) = 1 /\ ~IsChar(head[1])),
         NEW pos, TracksFrom(pos, tail, t, j + 1, cuts)
  PROVE  \E p : TracksFrom(p, head \o tail, t, i, cuts)
<1> DEFINE m == Len(head)
           n == Len(tail)
           r == head \o tail
           p == [k \in 1..(m + n) |-> IF k <= m THEN i + k - 1 ELSE pos[k - m]]
<1>1. /\ m \in Nat /\ n \in Nat /\ Len(r) = m + n /\ Len(t) \in Nat
      /\ \A k \in 1..m : r[k] = head[k]
      /\ \A k \in 1..(m + n) : k > m => k - m \in 1..n /\ r[k] = tail[k - m]
  OBVIOUS
<1>2. \/ /\ m = j - i + 1 /\ <<i, j>> \in cuts
         /\ \A k \in 1..m : i + k - 1 \in 1..Len(t) /\ head[k] = t[i + k - 1]
      \/ m = 1 /\ ~IsChar(head[1])
  <2>1. CASE head = SubSeq(t, i, j) /\ <<i, j>> \in cuts
    <3>1. m = j - i + 1 /\ \A k \in 1..m : head[k] = t[i + k - 1]
      BY <2>1
    <3>2. \A k \in 1..m : i + k - 1 \in 1..Len(t)
      BY <1>1, <3>1
    <3> QED BY <3>1, <3>2
  <2>2. CASE Len(head) = 1 /\ ~IsChar(head[1])
    BY <2>2
  <2> QED BY <2>1, <2>2
<1>3. m >= 1
  BY <1>1, <1>2
<1>4. /\ \A k \in 1..n : IsChar(tail[k]) => \E cut \in cuts :
           /\ cut[1] <= pos[k] /\ pos[k] <= cut[2]
           /\ \A e \in cut[1]..cut[2] : k - pos[k] + e \in 1..n /\ tail[k - pos[k] + e] = t[e]
      /\ \A k \in 1..n : IsChar(tail[k]) => pos[k] \in 1..Len(t) /\ tail[k] = t[pos[k]]
      /\ \A k \in 1..n : k + 1 <= n /\ IsChar(tail[k]) /\ IsChar(tail[k + 1]) =>
           pos[k + 1] = pos[k] + 1
      /\ n > 0 /\ IsChar(tail[1]) => pos[1] = j + 1
      /\ n > 0 /\ IsChar(tail[n]) => pos[n] = Len(t)
      /\ n = 0 => j + 1 = Len(t) + 1
  BY DEF TracksFrom, Tracks, Laid
<1>5. /\ \A k \in 1..(m + n) : k <= m => p[k] = i + k - 1
      /\ \A k \in 1..(m + n) : k > m => p[k] = pos[k - m]
  BY <1>1
<1> HIDE DEF m, n, r, p
<1>6. ASSUME NEW k \in 1..(m + n), IsChar(r[k]) PROVE p[k] \in 1..Len(t) /\ r[k] = t[p[k]]
  <2>1. CASE k <= m
    <3>1. k \in 1..m /\ r[k] = head[k]
      BY <1>1, <2>1
    <3>2. m = 1 => k = 1
      BY <3>1
    <3>3. i + k - 1 \in 1..Len(t) /\ head[k] = t[i + k - 1]
      BY <1>2, <1>6, <3>1, <3>2
    <3> QED BY <1>5, <2>1, <3>1, <3>3
  <2>2. CASE k > m
    <3>1. k - m \in 1..n /\ r[k] = tail[k - m] /\ p[k] = pos[k - m]
      BY <1>1, <1>5, <2>2
    <3> QED BY <1>4, <1>6, <3>1
  <2> QED BY <1>1, <2>1, <2>2
<1>7. ASSUME NEW k \in 1..(m + n), k + 1 <= m + n, IsChar(r[k]), IsChar(r[k + 1])
      PROVE  p[k + 1] = p[k] + 1
  <2>0. k + 1 \in 1..(m + n)
    BY <1>1, <1>7
  <2>1. CASE k + 1 <= m
    BY <1>1, <1>5, <2>0, <2>1
  <2>2. CASE k = m
    <3>1. r[k] = head[m] /\ r[k + 1] = tail[1] /\ 1 \in 1..n /\ n > 0
      <4>1. k \in 1..m /\ k + 1 > m /\ (k + 1) - m = 1
        BY <1>1, <2>2
      <4>2. 1 \in 1..n /\ r[k + 1] = tail[1]
        BY <1>1, <2>0, <4>1
      <4> QED BY <1>1, <2>2, <4>1, <4>2
    <3>2. m = j - i + 1
      BY <1>2, <1>7, <3>1
    <3>3. p[k] = i + m - 1 /\ p[k + 1] = pos[1]
      <4>1. k <= m /\ k + 1 > m /\ (k + 1) - m = 1
        BY <1>1, <2>2
      <4> QED BY <1>5, <2>0, <2>2, <4>1
    <3>4. pos[1] = j + 1
      BY <1>4, <1>7, <3>1
    <3> QED BY <1>1, <3>2, <3>3, <3>4
  <2>3. CASE k > m
    <3>1. /\ k - m \in 1..n /\ r[k] = tail[k - m] /\ p[k] = pos[k - m]
      BY <1>1, <1>5, <2>3
    <3>3. (k + 1) - m = (k - m) + 1 /\ (k - m) + 1 <= n
      <4>1. m \in Nat /\ n \in Nat /\ k \in Int /\ k + 1 <= m + n
        BY <1>1, <1>7
      <4> QED BY ONLY <4>1
    <3>2. r[k + 1] = tail[(k - m) + 1] /\ p[k + 1] = pos[(k - m) + 1]
      <4>1. k + 1 > m
        BY <1>1, <2>3
      <4> QED BY <1>1, <1>5, <2>0, <3>3, <4>1
    <3> QED BY <1>4, <1>7, <3>1, <3>2, <3>3
  <2> QED BY <1>1, <2>1, <2>2, <2>3
<1>8. IsChar(r[1]) => p[1] = i
  <2>1. 1 \in 1..(m + n) /\ 1 <= m
    BY <1>1, <1>3
  <2> QED BY <1>5, <2>1
<1>9. ASSUME IsChar(r[m + n]) PROVE p[m + n] = Len(t)
  <2>1. CASE n = 0
    <3>1. m + n = m /\ m \in 1..(m + n) /\ r[m] = head[m] /\ m \in 1..m
      BY <1>1, <1>3, <2>1
    <3>2. m = j - i + 1 /\ p[m] = i + m - 1
      <4>1. IsChar(head[m])
        BY <1>9, <3>1
      <4>2. ~(m = 1 /\ ~IsChar(head[1]))
        BY <4>1
      <4>3. m = j - i + 1
        BY <1>2, <4>2
      <4>4. p[m] = i + m - 1
        BY <1>1, <1>5, <3>1
      <4> QED BY <4>3, <4>4
    <3> QED BY <1>1, <1>4, <2>1, <3>1, <3>2
  <2>2. CASE n > 0
    <3>1. m + n \in 1..(m + n) /\ m + n > m /\ (m + n) - m = n
      BY <1>1, <2>2
    <3>2. r[m + n] = tail[n] /\ p[m + n] = pos[n]
      BY <1>1, <1>5, <3>1
    <3> QED BY <1>4, <1>9, <2>2, <3>2
  <2> QED BY <1>1, <2>1, <2>2
<1>10. ASSUME NEW k \in 1..(m + n), IsChar(r[k])
       PROVE  \E cut \in cuts :
                /\ cut[1] <= p[k] /\ p[k] <= cut[2]
                /\ \A e \in cut[1]..cut[2] :
                     k - p[k] + e \in 1..(m + n) /\ r[k - p[k] + e] = t[e]
  <2>1. CASE k <= m
    <3>1. k \in 1..m /\ r[k] = head[k] /\ p[k] = i + k - 1
      BY <1>1, <1>5, <2>1
    <3>2. /\ m = j - i + 1 /\ <<i, j>> \in cuts
          /\ \A x \in 1..m : i + x - 1 \in 1..Len(t) /\ head[x] = t[i + x - 1]
      <4>1. m = 1 => k = 1
        BY <3>1
      <4> QED BY <1>2, <1>10, <3>1, <4>1
    <3>3. i <= p[k] /\ p[k] <= j
      BY <1>1, <3>1, <3>2
    <3>4. ASSUME NEW e \in i..j
          PROVE  k - p[k] + e \in 1..(m + n) /\ r[k - p[k] + e] = t[e]
      <4> DEFINE x == e - i + 1
      <4>1. /\ x \in 1..m /\ x \in 1..(m + n) /\ k - p[k] + e = x /\ i + x - 1 = e
        BY <1>1, <3>1, <3>2
      <4> HIDE DEF x
      <4>2. r[x] = head[x] /\ head[x] = t[e]
        BY <1>1, <3>2, <4>1
      <4> QED BY <4>1, <4>2
    <3>5. <<i, j>>[1] = i /\ <<i, j>>[2] = j
      OBVIOUS
    <3> QED BY <3>2, <3>3, <3>4, <3>5
  <2>2. CASE k > m
    <3>1. k - m \in 1..n /\ r[k] = tail[k - m] /\ p[k] = pos[k - m]
      BY <1>1, <1>5, <2>2
    <3>2. PICK cut \in cuts :
            /\ cut[1] <= pos[k - m] /\ pos[k - m] <= cut[2]
            /\ \A e \in cut[1]..cut[2] : /\ (k - m) - pos[k - m] + e \in 1..n
                                         /\ tail[(k - m) - pos[k - m] + e] = t[e]
      BY <1>4, <1>10, <3>1
    <3>3. p[k] \in Int /\ cut[1] \in Int /\ cut[2] \in Int
      <4>1. p[k] \in 1..Len(t)
        BY <1>4, <1>10, <3>1
      <4> QED BY <4>1
    <3>4. ASSUME NEW e \in cut[1]..cut[2]
          PROVE  k - p[k] + e \in 1..(m + n) /\ r[k - p[k] + e] = t[e]
      <4> DEFINE y == (k - m) - p[k] + e
                 x == k - p[k] + e
      <4>1. y \in 1..n /\ tail[y] = t[e]
        BY <3>1, <3>2
      <4>2. e \in Int /\ k \in Int
        BY <3>3
      <4>3. x = m + y
        BY <1>1, <3>3, <4>2
      <4> HIDE DEF x, y
      <4>4. x \in 1..(m + n) /\ x > m /\ x - m = y
        <5>1. m \in Nat /\ n \in Nat /\ y \in 1..n
          BY <1>1, <4>1
        <5> QED BY ONLY <4>3, <5>1
      <4>5. r[x] = tail[y]
        BY <1>1, <4>4
      <4> QED BY <4>1, <4>4, <4>5 DEF x
    <3> QED BY <3>1, <3>2, <3>4
  <2> QED BY <1>1, <2>1, <2>2
<1>11. TracksFrom(p, r, t, i, cuts)
  <2>1. Tracks(p, r, t)
    BY <1>1, <1>6, <1>7 DEF Tracks
  <2>2. Laid(p, r, t, cuts)
    BY <1>1, <1>10 DEF Laid
  <2>3. Len(r) > 0
    BY <1>1, <1>3
  <2> QED BY <1>1, <1>8, <1>9, <2>1, <2>2, <2>3 DEF TracksFrom
<1> QED BY <1>11 DEF r

(* What the characters of a text come from, they come from where those did *)
(* that the text was made of.                                              *)
LEMMA TracksThrough ==
  ASSUME NEW r, NEW t, NEW s, NEW p, NEW q, Tracks(p, r, t), Tracks(q, t, s),
         Len(r) \in Nat, Len(t) \in Nat
  PROVE  \E o : Tracks(o, r, s)
<1> DEFINE o == [k \in 1..Len(r) |-> q[p[k]]]
<1>1. ASSUME NEW k \in 1..Len(r), IsChar(r[k])
      PROVE  o[k] \in 1..Len(s) /\ r[k] = s[o[k]]
  <2>1. p[k] \in 1..Len(t) /\ r[k] = t[p[k]]
    BY <1>1 DEF Tracks
  <2>2. q[p[k]] \in 1..Len(s) /\ t[p[k]] = s[q[p[k]]]
    BY <1>1, <2>1 DEF Tracks
  <2> QED BY <2>1, <2>2
<1>2. ASSUME NEW k \in 1..Len(r), k + 1 <= Len(r), IsChar(r[k]), IsChar(r[k + 1])
      PROVE  o[k + 1] = o[k] + 1
  <2>1. k + 1 \in 1..Len(r)
    BY <1>2
  <2>2. /\ p[k] \in 1..Len(t) /\ r[k] = t[p[k]]
        /\ p[k + 1] \in 1..Len(t) /\ r[k + 1] = t[p[k + 1]] /\ p[k + 1] = p[k] + 1
    BY <1>2, <2>1 DEF Tracks
  <2>3. p[k] + 1 <= Len(t)
    BY <2>2
  <2>4. q[p[k] + 1] = q[p[k]] + 1
    BY <1>2, <2>2, <2>3 DEF Tracks
  <2> QED BY <2>1, <2>2, <2>4
<1> HIDE DEF o
<1>3. Tracks(o, r, s)
  BY <1>1, <1>2 DEF Tracks
<1> QED BY <1>3

\* A text and what is left in it, or put into it, by a pass.
IsSequence(t) == t \in Seq(ItemsOf(t))
CutsOf(t, ends, put) ==
  {cut \in (1..Len(t)) \X (1..Len(t)) :
     IF ends[cut[1]] = {} THEN cut[2] = cut[1]
     ELSE /\ cut[2] = Max(ends[cut[1]])
          /\ put[cut[1]][cut[2]] = SubSeq(t, cut[1], cut[2])}
ComesFrom(item, t, ends, put) ==
  item \in ItemsOf(t) \/ \E i \in 1..Len(t) : \E j \in ends[i] : put[i][j] = <<item>>

(* A sequence is one of its own elements.                                  *)
LEMMA OwnItems ==
  ASSUME NEW V, NEW t \in Seq(V) PROVE IsSequence(t) /\ ItemsOf(t) \subseteq V
<1>1. Len(t) \in Nat /\ DOMAIN t = 1..Len(t) /\ t = [k \in 1..Len(t) |-> t[k]]
  OBVIOUS
<1>2. \A k \in 1..Len(t) : t[k] \in ItemsOf(t) /\ t[k] \in V
  BY <1>1 DEF ItemsOf
<1> DEFINE I == ItemsOf(t)
<1>3. ItemsOf(t) \subseteq V
  BY <1>1, <1>2 DEF ItemsOf
<1> HIDE DEF I
<1>4. [k \in 1..Len(t) |-> t[k]] \in Seq(I)
  BY <1>1, <1>2 DEF I
<1> QED BY <1>1, <1>3, <1>4 DEF IsSequence, I

(* What a pass that writes words makes of a text: the characters that are  *)
(* left come from the text, side by side where they were, and the rest is  *)
(* what was put in place of the matches.                                   *)
LEMMA Written ==
  ASSUME NEW t, IsSequence(t), NEW ends, NEW put, IsWriting(t, ends, put),
         NEW r, r = N!Rewrite(t, ends, put)
  PROVE  /\ IsSequence(r)
         /\ \E pos : TracksFrom(pos, r, t, 1, CutsOf(t, ends, put))
         /\ \A k \in 1..Len(r) : ComesFrom(r[k], t, ends, put)
<1> DEFINE n == Len(t)
           V == ItemsOf(t) \cup {put[i][j][1] : i \in 1..n, j \in 1..n}
           U == {v \in V : ComesFrom(v, t, ends, put)}
<1>1. n \in Nat /\ t \in Seq(ItemsOf(t))
  BY DEF IsSequence
<1>2. t \in Seq(U)
  <2>1. \A v \in ItemsOf(t) : v \in U
    BY DEF ComesFrom
  <2> HIDE DEF U
  <2>2. \A k \in 1..n : t[k] \in U
    BY <1>1, <2>1
  <2>3. t = [k \in 1..n |-> t[k]]
    BY <1>1
  <2>4. [k \in 1..n |-> t[k]] \in Seq(U)
    BY <1>1, <2>2
  <2> QED BY <2>3, <2>4
<1>3. ASSUME NEW i \in 1..n, NEW j \in ends[i]
      PROVE  /\ j \in i..n /\ put[i][j] \in Seq(U)
             /\ put[i][j] = SubSeq(t, i, j) \/ (Len(put[i][j]) = 1 /\ ~IsChar(put[i][j][1]))
  <2> HIDE DEF U
  <2>0. put[i][j] = SubSeq(t, i, j) \/ \E x : put[i][j] = <<x>> /\ ~IsChar(x)
    BY DEF IsWriting
  <2>1. j \in i..n /\ j \in 1..n
    BY <1>1 DEF IsWriting
  <2>2. CASE put[i][j] = SubSeq(t, i, j)
    <3>1. SubSeq(t, i, j) \in Seq(U)
      BY <1>1, <1>2, <2>1
    <3> QED BY <2>1, <2>2, <3>1
  <2>3. CASE \E x : put[i][j] = <<x>> /\ ~IsChar(x)
    <3>1. PICK x : put[i][j] = <<x>> /\ ~IsChar(x)
      BY <2>3
    <3>2. x = put[i][j][1] /\ Len(put[i][j]) = 1
      BY <3>1
    <3>3. x \in V
      BY <2>1, <3>2
    <3>4. ComesFrom(x, t, ends, put)
      BY <3>1 DEF ComesFrom
    <3>5. x \in U
      BY <3>3, <3>4 DEF U
    <3> QED BY <2>1, <3>1, <3>2, <3>5
  <2> QED BY <2>0, <2>2, <2>3
<1> HIDE DEF U
<1>4. ASSUME NEW i \in 1..n, ends[i] # {} PROVE Max(ends[i]) \in ends[i]
  <2>1. ends[i] \in SUBSET (0..n)
    BY <1>1, <1>3
  <2> QED BY <1>1, <1>4, <2>1, MaxFacts
<1>5. IsMatching(t, ends, put, U)
  <2>1. ASSUME NEW i \in 1..n PROVE ends[i] \subseteq i..n
    BY <1>3
  <2>2. ASSUME NEW i \in 1..n, ends[i] # {} PROVE put[i][Max(ends[i])] \in Seq(U)
    BY <1>3, <1>4, <2>2
  <2> QED BY <2>1, <2>2 DEF IsMatching
<1>6. PICK from : IsRewrite(from, t, ends, put, U)
  BY <1>2, <1>5, RewriteRows
<1>7. /\ \A i \in 1..(n + 1) : from[i] \in Seq(U)
      /\ from[n + 1] = <<>> /\ r = from[1]
      /\ \A i \in 1..n :
           IF ends[i] = {} THEN from[i] = <<t[i]>> \o from[i + 1]
           ELSE from[i] = put[i][Max(ends[i])] \o from[Max(ends[i]) + 1]
  BY <1>6 DEF IsRewrite
<1> DEFINE cuts == CutsOf(t, ends, put)
<1> HIDE DEF cuts
<1>7a. cuts \in SUBSET ((1..n) \X (1..n))
  BY DEF cuts, CutsOf
<1> DEFINE Q == {d \in Nat : \A i \in 1..(n + 1) : n + 1 - i = d =>
                                \E pos : TracksFrom(pos, from[i], t, i, cuts)}
<1>8. ASSUME NEW d \in Nat, \A e \in Nat : e < d => e \in Q PROVE d \in Q
  <2> SUFFICES ASSUME NEW i \in 1..(n + 1), n + 1 - i = d
               PROVE  \E pos : TracksFrom(pos, from[i], t, i, cuts)
    OBVIOUS
  <2>1. CASE i = n + 1
    <3>1. from[i] = <<>> /\ Len(from[i]) = 0
      BY <1>7, <2>1
    <3>2. TracksFrom(<<>>, from[i], t, i, cuts)
      BY <2>1, <3>1 DEF TracksFrom, Tracks, Laid
    <3> QED BY <3>2
  <2>2. CASE i \in 1..n
    <3> DEFINE j == IF ends[i] = {} THEN i ELSE Max(ends[i])
               head == IF ends[i] = {} THEN <<t[i]>> ELSE put[i][Max(ends[i])]
    <3>1. /\ j \in i..n /\ head \in Seq(U)
          /\ \/ head = SubSeq(t, i, j) /\ <<i, j>> \in cuts
             \/ Len(head) = 1 /\ ~IsChar(head[1])
      <4>1. CASE ends[i] = {}
        <5>1. SubSeq(t, i, i) = <<t[i]>> /\ t[i] \in U
          <6> DEFINE s == SubSeq(t, i, i)
          <6>1. s \in Seq(U) /\ Len(s) = 1 /\ s[1] = t[i]
            BY <1>1, <1>2, <2>2
          <6> HIDE DEF s
          <6>2. s = [k \in 1..1 |-> s[k]] /\ \A k \in 1..1 : s[k] = t[i]
            BY <6>1
          <6>3. <<t[i]>> = [k \in 1..1 |-> t[i]]
            OBVIOUS
          <6>4. s = <<t[i]>>
            BY <6>2, <6>3
          <6> QED BY <6>1, <6>4 DEF s
        <5>2. <<t[i]>> \in Seq(U) /\ i \in i..n
          BY <1>1, <2>2, <5>1
        <5>3. <<i, i>> \in cuts
          BY <2>2, <4>1 DEF cuts, CutsOf
        <5> QED BY <4>1, <5>1, <5>2, <5>3
      <4>2. CASE ends[i] # {}
        <5>1. Max(ends[i]) \in ends[i] /\ Max(ends[i]) \in 1..n
          BY <1>1, <1>3, <1>4, <2>2, <4>2
        <5>2. put[i][Max(ends[i])] = SubSeq(t, i, Max(ends[i])) => <<i, Max(ends[i])>> \in cuts
          BY <2>2, <4>2, <5>1 DEF cuts, CutsOf
        <5> QED BY <1>3, <2>2, <4>2, <5>1, <5>2
      <4> QED BY <4>1, <4>2
    <3>2. from[i] = head \o from[j + 1]
      BY <1>7, <2>2
    <3> HIDE DEF j, head
    <3>3. j + 1 \in 1..(n + 1) /\ n + 1 - (j + 1) \in Nat /\ n + 1 - (j + 1) < d
      BY <1>1, <2>2, <3>1
    <3>4. PICK pos : TracksFrom(pos, from[j + 1], t, j + 1, cuts)
      BY <1>8, <3>3
    <3> DEFINE tail == from[j + 1]
    <3>5. tail \in Seq(U)
      BY <1>7, <3>3
    <3> HIDE DEF tail
    <3>6. TracksFrom(pos, tail, t, j + 1, cuts)
      BY <3>4 DEF tail
    <3>7. \E p : TracksFrom(p, head \o tail, t, i, cuts)
      BY <1>2, <1>7a, <2>2, <3>1, <3>5, <3>6, Prepended
    <3> QED BY <3>2, <3>7 DEF tail
  <2>3. i = n + 1 \/ i \in 1..n
    BY <1>1
  <2> QED BY <2>1, <2>2, <2>3
<1> HIDE DEF Q
<1>9. \A d \in Nat : d \in Q
  BY <1>8, Descent
<1> USE DEF Q
<1>10. \E pos : TracksFrom(pos, r, t, 1, cuts)
  <2>1. 1 \in 1..(n + 1) /\ n + 1 - 1 \in Nat
    BY <1>1
  <2> QED BY <1>7, <1>9, <2>1
<1>11. r \in Seq(U)
  <2>1. 1 \in 1..(n + 1)
    BY <1>1
  <2> QED BY <1>7, <2>1
<1>12. IsSequence(r)
  BY <1>11, OwnItems
<1>13. ASSUME NEW k \in 1..Len(r) PROVE ComesFrom(r[k], t, ends, put)
  <2>1. r[k] \in U
    BY <1>11
  <2> QED BY <2>1 DEF U
<1> QED BY <1>10, <1>12, <1>13 DEF cuts

-----------------------------------------------------------------------------
(* Long numbers                                                            *)

\* Digits and the commas between them.
IsRun(t, a, b) == \A k \in a..b : N!Digit(t, k) \/ N!Is(t, k, ",")

LongNumber(t) ==
  \E a, b \in DOMAIN t : a <= b /\ IsRun(t, a, b) /\ N!NumberOf(t, a, b) > MaxValue

(* What is a certain character is a character.                             *)
LEMMA IsOfChar ==
  ASSUME NEW t, NEW k, NEW c, N!Is(t, k, c) PROVE IsChar(t[k])
<1>1. t[k] = <<"char", c>> /\ <<"char", c>>[1] = "char"
  BY DEF N!Is
<1> QED BY <1>1 DEF IsChar

(* A digit is a word character and neither an abbreviation nor a minus.    *)
LEMMA DigitFacts ==
  ASSUME NEW t, NEW k, N!Digit(t, k)
  PROVE  /\ k \in DOMAIN t /\ N!Word(t, k) /\ IsChar(t[k])
         /\ ~N!Is(t, k, "abbrev") /\ ~N!Is(t, k, "-") /\ ~N!Is(t, k, "$")
<1>1. k \in DOMAIN t /\ t[k][1] = "char" /\ t[k][2] \in N!DigitChars
  BY DEF N!Digit
<1>2. N!Word(t, k) /\ IsChar(t[k])
  BY <1>1 DEF N!Word, IsChar
<1>3. "abbrev" \notin N!DigitChars /\ "-" \notin N!DigitChars /\ "$" \notin N!DigitChars
  BY DEF N!DigitChars, N!DigitNames, N!ToSet
<1>4. ASSUME NEW c, c \notin N!DigitChars PROVE ~N!Is(t, k, c)
  <2>1. <<"char", c>>[2] = c
    OBVIOUS
  <2> QED BY <1>1, <1>4, <2>1 DEF N!Is
<1> QED BY <1>1, <1>2, <1>3, <1>4

(* A point is no digit and a minus is no point.                            *)
LEMMA PointFacts ==
  ASSUME NEW t, NEW k
  PROVE  /\ N!Is(t, k, ".") => ~N!Digit(t, k) /\ ~N!Is(t, k, ",")
         /\ N!Is(t, k, "-") \/ N!Is(t, k, "$") => ~N!Is(t, k, ".")
<1>1. "." \notin N!DigitChars
  BY DEF N!DigitChars, N!DigitNames, N!ToSet
<1>2. N!Is(t, k, ".") => ~N!Digit(t, k)
  BY <1>1 DEF N!Is, N!Digit
<1>3. ASSUME NEW c, NEW d, c # d, N!Is(t, k, c) PROVE ~N!Is(t, k, d)
  <2>1. <<"char", c>> # <<"char", d>>
    BY <1>3
  <2> QED BY <1>3, <2>1 DEF N!Is
<1> QED BY <1>2, <1>3

(* What a regular expression takes for a number with its commas is a run.  *)
LEMMA NumberRuns ==
  ASSUME NEW t, NEW a \in Int, NEW b \in Int, N!Grouped(t, a, b) \/ N!Digits(t, a, b)
  PROVE  a <= b /\ IsRun(t, a, b)
<1>1. CASE N!Digits(t, a, b)
  BY <1>1 DEF N!Digits, IsRun
<1>2. CASE N!Grouped(t, a, b)
  <2> DEFINE Groups(c) == \A k \in (c + 1)..b : IF (k - c) % 4 = 1 THEN N!Is(t, k, ",")
                                              ELSE N!Digit(t, k)
  <2>1. PICK c \in a..(a + 2) : c <= b /\ N!Digits(t, a, c) /\ Groups(c)
    BY <1>2 DEF N!Grouped
  <2>2. ASSUME NEW k \in (c + 1)..b PROVE N!Digit(t, k) \/ N!Is(t, k, ",")
    BY <2>1
  <2> HIDE DEF Groups
  <2>3. c \in Int /\ a <= c /\ c <= b
    BY <2>1
  <2>4. ASSUME NEW k \in a..b PROVE N!Digit(t, k) \/ N!Is(t, k, ",")
    <3>1. CASE k <= c
      <4>1. k \in a..c
        BY <2>3, <3>1
      <4> QED BY <2>1, <4>1 DEF N!Digits
    <3>2. CASE k > c
      <4>1. k \in (c + 1)..b
        BY <2>3, <3>2
      <4> QED BY <2>2, <4>1
    <3>3. k <= c \/ k > c
      BY <2>3
    <3> QED BY ONLY <3>1, <3>2, <3>3
  <2>5. a <= b
    BY <2>3
  <2> QED BY <2>4, <2>5 DEF IsRun
<1> QED BY <1>1, <1>2

(* The part of a match before its point is the run before its fraction.    *)
LEMMA WholeIsRun ==
  ASSUME NEW t, NEW i \in Int, NEW b \in Int, NEW m \in Int, NEW j \in Int, NEW most,
         b <= m, m <= j, IsRun(t, b, m), N!Fraction(t, m + 1, j, most),
         i <= b, \A k \in i..(b - 1) : ~N!Is(t, k, ".")
  PROVE  N!WholeEnd(t, i, j) = m
<1>1. \A k \in i..m : ~N!Is(t, k, ".")
  <2> SUFFICES ASSUME NEW k \in i..m PROVE ~N!Is(t, k, ".")
    OBVIOUS
  <2>1. k \in i..(b - 1) \/ k \in b..m
    OBVIOUS
  <2> QED BY <2>1, PointFacts DEF IsRun
<1>2. CASE m = j
  BY <1>1, <1>2 DEF N!WholeEnd
<1>3. CASE m < j
  <2>1. N!Is(t, m + 1, ".") /\ N!Digits(t, m + 2, j)
    <3>1. ~(m + 1 > j) /\ (m + 1) + 1 = m + 2
      BY <1>3
    <3> QED BY <3>1 DEF N!Fraction
  <2>2. \A k \in (m + 2)..j : ~N!Is(t, k, ".")
    BY <2>1, PointFacts DEF N!Digits
  <2>3. ASSUME NEW k \in i..j, N!Is(t, k, ".") PROVE k = m + 1
    <3>1. k \in i..m \/ k = m + 1 \/ k \in (m + 2)..j
      OBVIOUS
    <3> QED BY <1>1, <2>2, <2>3, <3>1
  <2>4. m + 1 \in i..j
    BY <1>3
  <2>5. (CHOOSE k \in i..j : N!Is(t, k, ".")) = m + 1
    BY <2>1, <2>3, <2>4
  <2>6. N!WholeEnd(t, i, j) = (m + 1) - 1
    BY <2>1, <2>4, <2>5 DEF N!WholeEnd
  <2> QED BY <2>6
<1> QED BY <1>2, <1>3

(* A part of a text that is found in another one is a number there too.    *)
LEMMA SamePart ==
  ASSUME NEW t, IsSequence(t), NEW s, IsSequence(s), NEW a \in 1..Len(t), NEW b \in a..Len(t),
         NEW c \in Int, \A k \in a..b : c + (k - a) \in 1..Len(s) /\ s[c + (k - a)] = t[k]
  PROVE  /\ c \in 1..Len(s) /\ c + (b - a) \in 1..Len(s)
         /\ IsRun(t, a, b) => IsRun(s, c, c + (b - a))
         /\ N!NumberOf(s, c, c + (b - a)) = N!NumberOf(t, a, b)
<1> DEFINE e == c + (b - a)
<1>1. /\ t \in Seq(ItemsOf(t)) /\ Len(t) \in Nat /\ DOMAIN t = 1..Len(t)
      /\ s \in Seq(ItemsOf(s)) /\ Len(s) \in Nat /\ DOMAIN s = 1..Len(s)
  BY DEF IsSequence
<1>2. a \in Int /\ b \in Int /\ a <= b /\ a \in a..b /\ b \in a..b
  BY <1>1
<1>3. c \in 1..Len(s) /\ e \in 1..Len(s) /\ c <= e
  <2>1. c + (a - a) = c
    BY <1>2
  <2>2. c \in 1..Len(s) /\ e \in 1..Len(s)
    BY <1>2, <2>1
  <2> QED BY <1>2, <2>2
<1>4. ASSUME NEW k \in c..e PROVE k - c + a \in a..b /\ s[k] = t[k - c + a]
  <2>1. k - c + a \in a..b /\ c + ((k - c + a) - a) = k
    BY <1>2, <1>3
  <2> QED BY <2>1
<1> HIDE DEF e
<1>5. ASSUME IsRun(t, a, b) PROVE IsRun(s, c, e)
  <2> SUFFICES ASSUME NEW k \in c..e PROVE N!Digit(s, k) \/ N!Is(s, k, ",")
    BY DEF IsRun
  <2>1. k - c + a \in a..b /\ s[k] = t[k - c + a]
    BY <1>4
  <2>2. N!Digit(t, k - c + a) \/ N!Is(t, k - c + a, ",")
    BY <1>5, <2>1 DEF IsRun
  <2>3. k \in DOMAIN s
    BY <1>1, <1>3
  <2> QED BY <2>1, <2>2, <2>3 DEF N!Digit, N!Is
<1>6. SubSeq(s, c, e) = SubSeq(t, a, b)
  <2>1. e - c = b - a
    BY <1>2, <1>3 DEF e
  <2>2. SubSeq(s, c, e) = [k \in 1..(e - c + 1) |-> s[c + k - 1]]
    BY <1>1, <1>3
  <2>3. SubSeq(t, a, b) = [k \in 1..(b - a + 1) |-> t[a + k - 1]]
    BY <1>1, <1>2
  <2>4. \A k \in 1..(b - a + 1) : s[c + k - 1] = t[a + k - 1]
    <3> SUFFICES ASSUME NEW k \in 1..(b - a + 1) PROVE s[c + k - 1] = t[a + k - 1]
      OBVIOUS
    <3>1. c + k - 1 \in c..e /\ (c + k - 1) - c + a = a + k - 1
      BY <1>2, <1>3, <2>1
    <3> QED BY <1>4, <3>1
  <2> QED BY <2>1, <2>2, <2>3, <2>4
<1>7. N!NumberOf(s, c, e) = N!NumberOf(t, a, b)
  BY <1>6 DEF N!NumberOf
<1> QED BY <1>3, <1>5, <1>7 DEF e

(* Of numbers that grow by one, each is as far from the first as its index. *)
LEMMA Steady ==
  ASSUME NEW a \in Int, NEW b \in Int, a <= b, NEW f, f[a] \in Int,
         \A k \in a..b : k + 1 <= b => f[k + 1] = f[k] + 1
  PROVE  \A k \in a..b : f[k] = f[a] + (k - a)
<1> DEFINE Q == {d \in Nat : a + d <= b => f[a + d] = f[a] + d}
<1>1. \A k \in a..b : k + 1 <= b => f[k + 1] = f[k] + 1
  OBVIOUS
<1>2. 0 \in Q
  <2>1. a + 0 = a /\ f[a] + 0 = f[a]
    OBVIOUS
  <2> QED BY <2>1
<1>3. ASSUME NEW d \in Nat, d \in Q PROVE d + 1 \in Q
  <2> SUFFICES ASSUME a + (d + 1) <= b PROVE f[a + (d + 1)] = f[a] + (d + 1)
    OBVIOUS
  <2>1. /\ a + d \in a..b /\ (a + d) + 1 = a + (d + 1) /\ a + d <= b
    OBVIOUS
  <2>2. f[(a + d) + 1] = f[a + d] + 1
    BY <1>1, <2>1
  <2>3. f[a + d] = f[a] + d /\ f[a] \in Int /\ d \in Int
    BY <1>3, <2>1
  <2>4. (f[a] + d) + 1 = f[a] + (d + 1)
    BY ONLY <2>3
  <2> HIDE DEF Q
  <2> QED BY ONLY <2>1, <2>2, <2>3, <2>4
<1> HIDE DEF Q
<1>4. \A d \in Nat : d \in Q
  BY <1>2, <1>3, Induction
<1> USE DEF Q
<1>5. ASSUME NEW k \in a..b PROVE f[k] = f[a] + (k - a)
  <2>1. k - a \in Nat /\ a + (k - a) = k /\ k <= b
    OBVIOUS
  <2> QED BY <1>4, <2>1
<1> QED BY <1>5

(* Characters side by side come from characters side by side.              *)
LEMMA TrackedRun ==
  ASSUME NEW t, IsSequence(t), NEW s, NEW pos, Tracks(pos, t, s),
         NEW a \in 1..Len(t), NEW b \in a..Len(t), \A k \in a..b : IsChar(t[k])
  PROVE  \A k \in a..b : /\ k \in 1..Len(t) /\ pos[k] \in 1..Len(s) /\ t[k] = s[pos[k]]
                         /\ pos[k] = pos[a] + (k - a)
<1>1. Len(t) \in Nat /\ a \in Int /\ b \in Int /\ a <= b
  BY DEF IsSequence
<1>2. ASSUME NEW k \in a..b
      PROVE  k \in 1..Len(t) /\ IsChar(t[k]) /\ pos[k] \in 1..Len(s) /\ t[k] = s[pos[k]]
  <2>1. k \in 1..Len(t)
    BY <1>1
  <2> QED BY <2>1 DEF Tracks
<1>3. ASSUME NEW k \in a..b, k + 1 <= b PROVE pos[k + 1] = pos[k] + 1
  <2>1. k + 1 \in a..b
    BY <1>1, <1>3
  <2>2. k \in 1..Len(t) /\ k + 1 <= Len(t) /\ IsChar(t[k]) /\ IsChar(t[k + 1])
    BY <1>1, <1>2, <2>1
  <2> QED BY <2>2 DEF Tracks
<1>4. \A k \in a..b : pos[k] = pos[a] + (k - a)
  <2>1. pos[a] \in Int
    BY <1>1, <1>2
  <2> QED BY ONLY <1>1, <1>3, <2>1, Steady
<1> QED BY <1>2, <1>4

(* A number of a text is a number of the text that it was made of.         *)
LEMMA LongStays ==
  ASSUME NEW t, IsSequence(t), NEW s, IsSequence(s), NEW pos, Tracks(pos, t, s), LongNumber(t)
  PROVE  LongNumber(s)
<1>1. /\ Len(t) \in Nat /\ DOMAIN t = 1..Len(t)
      /\ Len(s) \in Nat /\ DOMAIN s = 1..Len(s)
  BY DEF IsSequence
<1>2. PICK a \in 1..Len(t), b \in 1..Len(t) :
        a <= b /\ IsRun(t, a, b) /\ N!NumberOf(t, a, b) > MaxValue
  BY <1>1 DEF LongNumber
<1>3. b \in a..Len(t)
  BY <1>1, <1>2
<1>4. ASSUME NEW k \in a..b PROVE IsChar(t[k])
  <2>1. N!Digit(t, k) \/ N!Is(t, k, ",")
    BY <1>2 DEF IsRun
  <2>2. N!Digit(t, k) => t[k][1] = "char"
    BY DEF N!Digit
  <2>3. N!Is(t, k, ",") => t[k][1] = "char"
    <3>1. <<"char", ",">>[1] = "char"
      OBVIOUS
    <3> QED BY <3>1 DEF N!Is
  <2> QED BY <2>1, <2>2, <2>3 DEF IsChar
<1>5. \A k \in a..b : /\ k \in 1..Len(t) /\ pos[k] \in 1..Len(s) /\ t[k] = s[pos[k]]
                      /\ pos[k] = pos[a] + (k - a)
  <2>1. IsSequence(t) /\ Tracks(pos, t, s) /\ a \in 1..Len(t)
    OBVIOUS
  <2> QED BY ONLY <1>3, <1>4, <2>1, TrackedRun
<1> DEFINE c == pos[a]
           e == c + (b - a)
<1>6. c \in Int /\ \A k \in a..b : c + (k - a) \in 1..Len(s) /\ s[c + (k - a)] = t[k]
  <2>1. c \in Int
    <3>1. a \in a..b
      BY <1>1, <1>2
    <3>2. c \in 1..Len(s)
      BY <1>5, <3>1
    <3> QED BY <3>2
  <2>2. ASSUME NEW k \in a..b PROVE c + (k - a) \in 1..Len(s) /\ s[c + (k - a)] = t[k]
    BY <1>5
  <2> QED BY <2>1, <2>2
<1> HIDE DEF c
<1>7. /\ c \in 1..Len(s) /\ e \in 1..Len(s) /\ IsRun(s, c, e)
      /\ N!NumberOf(s, c, e) > MaxValue
  BY <1>2, <1>3, <1>6, SamePart
<1>8. c <= e
  BY <1>1, <1>2, <1>6
<1> QED BY <1>1, <1>7, <1>8 DEF LongNumber

-----------------------------------------------------------------------------
(* From pass to pass                                                       *)

Ended == {"failed", "crashed"}
Fine(t) == \A k \in 1..Len(t) : t[k][1] \in {"char", "said"}

(* A pass leads to the next, or to the end of the request where something  *)
(* of what it makes says so.                                               *)
LEMMA PassFacts ==
  ASSUME NEW this, NEW next, NEW r, IsSequence(r), N!Pass(this, r, next)
  PROVE  /\ pass = this /\ text' = r /\ source' = source
         /\ \/ pass' = next /\ \A k \in 1..Len(r) : r[k][1] \notin Ended
            \/ pass' \in Ended /\ \E k \in 1..Len(r) : r[k][1] \in Ended
<1> DEFINE I == {i \in 1..Len(r) : r[i][1] \in {"failed", "crashed"}}
           end == N!SelectInSeq(r, LAMBDA item : item[1] \in {"failed", "crashed"})
<1>1. Len(r) \in Nat
  BY DEF IsSequence
<1>2. end = IF I # {} THEN Min(I) ELSE 0
  BY DEF N!SelectInSeq, N!Min, Min
<1>3. pass = this /\ text' = r /\ source' = source /\ pass' = IF end = 0 THEN next ELSE r[end][1]
  BY DEF N!Pass
<1>4. I # {} => Min(I) \in I
  <2>1. I \in SUBSET Nat
    BY <1>1
  <2> QED BY <2>1, MinFacts
<1> HIDE DEF end
<1>5. CASE I = {}
  <2>1. pass' = next
    BY <1>2, <1>3, <1>5
  <2>2. \A k \in 1..Len(r) : r[k][1] \notin Ended
    BY <1>5 DEF Ended
  <2> QED BY <1>3, <2>1, <2>2
<1>6. CASE I # {}
  <2>1. end \in I
    BY <1>2, <1>4, <1>6
  <2>2. end # 0 /\ end \in 1..Len(r) /\ r[end][1] \in Ended
    BY <1>1, <2>1 DEF Ended
  <2>3. pass' = r[end][1]
    BY <1>3, <2>2
  <2> QED BY <1>3, <2>2, <2>3
<1> QED BY <1>5, <1>6

Characters(s) == [k \in 1..Len(s) |-> <<"char", s[k]>>]

\* What a text is when the spaces are all that is left to do.
IsSpaced(t) ==
  \A k \in 1..Len(t) :
    N!Is(t, k, " ") => k > 1 /\ k < Len(t) /\ ~N!Is(t, k + 1, " ")

Writing == {"abbreviations", "currency", "ordinals", "numbers"}

NormInv ==
  /\ source \in Texts
  /\ IsSequence(text)
  /\ pass \in Writing \cup {"whitespace", "done"} \cup Ended
  /\ pass \in Writing \cup {"whitespace"} =>
       Fine(text) /\ \E pos : Tracks(pos, text, Characters(source))
  /\ pass \in Ended => LongNumber(Characters(source))
  /\ pass = "done" => IsSpaced(text)

(* The characters of a text are a sequence.                                *)
LEMMA CharactersFacts ==
  ASSUME NEW s \in Texts
  PROVE  /\ IsSequence(Characters(s))
         /\ Len(s) \in Nat /\ Len(Characters(s)) = Len(s) /\ DOMAIN s = 1..Len(s)
<1>1. s \in Seq(N!Chars)
  BY TextsAssumption
<1> DEFINE V == {<<"char", c>> : c \in N!Chars}
<1>2. Len(s) \in Nat /\ DOMAIN s = 1..Len(s) /\ \A k \in 1..Len(s) : s[k] \in N!Chars
  BY <1>1
<1>3. Characters(s) \in Seq(V)
  <2>1. \A k \in 1..Len(s) : <<"char", s[k]>> \in V
    BY <1>2
  <2> HIDE DEF V
  <2> QED BY <1>2, <2>1 DEF Characters
<1> HIDE DEF V
<1>4. IsSequence(Characters(s))
  BY <1>3, OwnItems
<1>5. Len(Characters(s)) = Len(s)
  BY <1>2 DEF Characters
<1> QED BY <1>2, <1>4, <1>5

(* At the start all of it is the text.                                     *)
LEMMA NormStart == Init => NormInv
<1> SUFFICES ASSUME Init PROVE NormInv
  OBVIOUS
<1>1. source \in Texts /\ text = Characters(source) /\ pass = "abbreviations"
  BY DEF Init, N!Init, Characters
<1> DEFINE n == Len(source)
<1>2. IsSequence(text) /\ n \in Nat /\ Len(text) = n
  BY <1>1, CharactersFacts
<1>3. \A k \in 1..n : text[k] = <<"char", source[k]>>
  BY <1>1 DEF Characters
<1>4. Fine(text)
  <2>1. \A k \in 1..n : text[k][1] = "char"
    BY <1>3
  <2> QED BY <1>2, <2>1 DEF Fine
<1>5. Tracks([k \in 1..n |-> k], text, text)
  BY <1>2 DEF Tracks
<1>6. \E pos : Tracks(pos, text, Characters(source))
  BY <1>1, <1>5
<1> QED BY <1>1, <1>2, <1>4, <1>6 DEF NormInv, Writing, Ended

\* Only a long number makes a pass give up.
IsCareful(t, ends, put) ==
  \A i \in 1..Len(t) : \A j \in ends[i] : \A x :
    put[i][j] = <<x>> => x[1] \in {"char", "said"} \/ (x[1] \in Ended /\ LongNumber(t))

(* A pass that writes words and is careful keeps the invariant.            *)
LEMMA WritingPass ==
  ASSUME NormInv, NEW this \in Writing, NEW next \in Writing \cup {"whitespace"},
         NEW ends, NEW put, IsWriting(text, ends, put), IsCareful(text, ends, put),
         N!Pass(this, N!Rewrite(text, ends, put), next)
  PROVE  NormInv'
<1> DEFINE r == N!Rewrite(text, ends, put)
<1>1. source \in Texts /\ IsSequence(text)
  BY DEF NormInv
<1>2. /\ IsSequence(r)
      /\ \E pos : Tracks(pos, r, text)
      /\ \A k \in 1..Len(r) : ComesFrom(r[k], text, ends, put)
  BY <1>1, Written DEF TracksFrom
<1> HIDE DEF r
<1>3. N!Pass(this, r, next)
  BY DEF r
<1>4. /\ pass = this /\ text' = r /\ source' = source
      /\ \/ pass' = next /\ \A k \in 1..Len(r) : r[k][1] \notin Ended
         \/ pass' \in Ended /\ \E k \in 1..Len(r) : r[k][1] \in Ended
  BY <1>2, <1>3, PassFacts
<1>5. Fine(text) /\ \E pos : Tracks(pos, text, Characters(source))
  BY <1>4 DEF NormInv
<1>6. IsSequence(Characters(source))
  BY <1>1, CharactersFacts
<1>7. Len(r) \in Nat /\ Len(text) \in Nat /\ DOMAIN text = 1..Len(text)
  BY <1>1, <1>2 DEF IsSequence
<1>8. \E pos : Tracks(pos, r, Characters(source))
  <2>1. PICK p : Tracks(p, r, text)
    BY <1>2
  <2>2. PICK q : Tracks(q, text, Characters(source))
    BY <1>5
  <2> QED BY <1>7, <2>1, <2>2, TracksThrough
<1>9. ASSUME NEW k \in 1..Len(r)
      PROVE  r[k][1] \in {"char", "said"} \/ (r[k][1] \in Ended /\ LongNumber(text))
  <2>1. CASE r[k] \in ItemsOf(text)
    <3>1. PICK i \in 1..Len(text) : r[k] = text[i]
      BY <1>7, <2>1 DEF ItemsOf
    <3> QED BY <1>5, <3>1 DEF Fine
  <2>2. CASE r[k] \notin ItemsOf(text)
    <3>1. PICK i \in 1..Len(text) : \E j \in ends[i] : put[i][j] = <<r[k]>>
      BY <1>2, <2>2 DEF ComesFrom
    <3> QED BY <3>1 DEF IsCareful
  <2> QED BY <2>1, <2>2
<1>10. CASE pass' = next /\ \A k \in 1..Len(r) : r[k][1] \notin Ended
  <2>1. next \in Writing \cup {"whitespace"} /\ next \notin Ended /\ next # "done"
    BY DEF Writing, Ended
  <2>2. Fine(r)
    BY <1>9, <1>10 DEF Fine
  <2>3. /\ source' \in Texts /\ IsSequence(text') /\ Fine(text')
        /\ pass' \in Writing \cup {"whitespace"} /\ pass' \notin Ended /\ pass' # "done"
        /\ \E pos : Tracks(pos, text', Characters(source'))
    BY <1>1, <1>2, <1>4, <1>8, <1>10, <2>1, <2>2
  <2> QED BY <2>3 DEF NormInv
<1>11. CASE pass' \in Ended /\ \E k \in 1..Len(r) : r[k][1] \in Ended
  <2>1. PICK k \in 1..Len(r) : r[k][1] \in Ended
    BY <1>11
  <2>2. LongNumber(text)
    <3>1. r[k][1] \notin {"char", "said"}
      BY <2>1 DEF Ended
    <3> QED BY <1>9, <3>1
  <2>3. LongNumber(Characters(source))
    <3>1. PICK q : Tracks(q, text, Characters(source))
      BY <1>5
    <3> QED BY <1>1, <1>6, <2>2, <3>1, LongStays
  <2>4. pass' \notin Writing \cup {"whitespace"} /\ pass' # "done"
    BY <1>11 DEF Writing, Ended
  <2> QED BY <1>1, <1>2, <1>4, <1>11, <2>3, <2>4 DEF NormInv
<1> QED BY <1>4, <1>10, <1>11

\* Every match stays as it is or becomes words, or is a number too long.
IsSafe(t, ends, put) ==
  \A i \in 1..Len(t) :
    /\ ends[i] \subseteq i..Len(t)
    /\ \A j \in ends[i] :
         \/ put[i][j] = SubSeq(t, i, j)
         \/ \E words : put[i][j] = N!Said(words)
         \/ LongNumber(t) /\ put[i][j] \in {N!Thrown, N!Endless}

(* A pass that is safe keeps the invariant.                                *)
LEMMA SafePass ==
  ASSUME NormInv, NEW this \in Writing, NEW next \in Writing \cup {"whitespace"},
         NEW ends, NEW put, IsSafe(text, ends, put),
         N!Pass(this, N!Rewrite(text, ends, put), next)
  PROVE  NormInv'
<1>1. IsSequence(text) /\ Fine(text)
  <2>1. pass = this
    BY DEF N!Pass
  <2> QED BY <2>1 DEF NormInv
<1>2. Len(text) \in Nat /\ text \in Seq(ItemsOf(text))
  BY <1>1 DEF IsSequence
<1> DEFINE Sound(i, j) ==
      /\ put[i][j] = SubSeq(text, i, j) \/ \E x : put[i][j] = <<x>> /\ ~IsChar(x)
      /\ \A x : put[i][j] = <<x>> =>
           x[1] \in {"char", "said"} \/ (x[1] \in Ended /\ LongNumber(text))
<1>3. ASSUME NEW i \in 1..Len(text), NEW j \in ends[i] PROVE Sound(i, j)
  <2>1. j \in i..Len(text)
    BY DEF IsSafe
  <2>2. CASE put[i][j] = SubSeq(text, i, j)
    <3>1. ASSUME NEW x, put[i][j] = <<x>> PROVE x[1] \in {"char", "said"}
      <4>1. Len(SubSeq(text, i, j)) = j - i + 1 /\ SubSeq(text, i, j)[1] = text[i]
        BY <1>2, <2>1
      <4>2. x = text[i]
        BY <2>2, <3>1, <4>1
      <4> QED BY <1>1, <4>2 DEF Fine
    <3> QED BY <2>2, <3>1
  <2>3. CASE \E words : put[i][j] = N!Said(words)
    <3>1. PICK words : put[i][j] = N!Said(words)
      BY <2>3
    <3> DEFINE y == <<"said", words>>
    <3>2. ~IsChar(y) /\ y[1] \in {"char", "said"}
      BY DEF IsChar
    <3>3. put[i][j] = <<y>>
      BY <3>1 DEF N!Said
    <3> HIDE DEF y
    <3>4. \A x : put[i][j] = <<x>> => x = y
      BY <3>3
    <3> QED BY <3>2, <3>3, <3>4
  <2>4. CASE LongNumber(text) /\ put[i][j] \in {N!Thrown, N!Endless}
    <3>1. PICK y : y \in {<<"failed", 0>>, <<"crashed", 0>>} /\ put[i][j] = <<y>>
      BY <2>4 DEF N!Thrown, N!Endless
    <3>2. ~IsChar(y) /\ y[1] \in Ended
      BY <3>1 DEF IsChar, Ended
    <3>3. \A x : put[i][j] = <<x>> => x = y
      BY <3>1
    <3> QED BY <2>4, <3>1, <3>2, <3>3
  <2> QED BY <2>2, <2>3, <2>4 DEF IsSafe
<1>4. IsWriting(text, ends, put)
  <2>1. \A i \in 1..Len(text) : ends[i] \subseteq i..Len(text)
    BY DEF IsSafe
  <2> QED BY <1>3, <2>1 DEF IsWriting
<1>5. IsCareful(text, ends, put)
  BY <1>3 DEF IsCareful
<1> QED BY <1>4, <1>5, WritingPass

(* The abbreviations are words.                                            *)
LEMMA AbbreviationsSafe ==
  ASSUME NormInv, N!ExpandAbbreviations
  PROVE  \E ends, put :
           /\ N!Pass("abbreviations", N!Rewrite(text, ends, put), "currency")
           /\ IsSafe(text, ends, put)
           /\ \A i \in 1..Len(text) : \A j \in ends[i] : j = i /\ N!Is(text, i, "abbrev")
<1> DEFINE known == {i \in DOMAIN text : N!Is(text, i, "abbrev") /\ N!Boundary(text, i)}
           ends(left) == [i \in DOMAIN text |-> IF i \in known \ left THEN {i} ELSE {}]
           put == [i \in DOMAIN text |-> [j \in DOMAIN text |-> N!Said(<< <<"abbrev", 0>> >>)]]
<1>1. PICK left \in SUBSET known :
        N!Pass("abbreviations", N!Rewrite(text, ends(left), put), "currency")
  BY DEF N!ExpandAbbreviations
<1>2. Len(text) \in Nat /\ DOMAIN text = 1..Len(text)
  BY DEF NormInv, IsSequence
<1>3. IsSafe(text, ends(left), put)
  <2>1. ASSUME NEW i \in 1..Len(text), NEW j \in ends(left)[i]
        PROVE  j \in i..Len(text) /\ put[i][j] = N!Said(<< <<"abbrev", 0>> >>)
    BY <1>2, <2>1
  <2> HIDE DEF ends, put
  <2> QED BY <2>1 DEF IsSafe
<1>4. ASSUME NEW i \in 1..Len(text), NEW j \in ends(left)[i]
      PROVE  j = i /\ N!Is(text, i, "abbrev")
  BY <1>2, <1>4
<1> HIDE DEF ends, put
<1> QED BY <1>1, <1>3, <1>4

(* So that the pass keeps the invariant.                                   *)
LEMMA AbbreviationsPass ==
  ASSUME NormInv, N!ExpandAbbreviations PROVE NormInv'
<1>1. PICK ends, put : /\ N!Pass("abbreviations", N!Rewrite(text, ends, put), "currency")
                       /\ IsSafe(text, ends, put)
  BY AbbreviationsSafe
<1>2. "abbreviations" \in Writing /\ "currency" \in Writing \cup {"whitespace"}
  BY DEF Writing
<1> QED BY <1>1, <1>2, SafePass

(* A number of a text that is too long is long.                            *)
LEMMA TooLongIsLong ==
  ASSUME NEW t, IsSequence(t), NEW i \in 1..Len(t), NEW b \in i..Len(t),
         NEW m \in b..Len(t), NEW j \in m..Len(t), NEW most,
         N!Grouped(t, b, m) \/ N!Digits(t, b, m), N!Fraction(t, m + 1, j, most),
         \A k \in i..(b - 1) : N!Is(t, k, "$") \/ N!Is(t, k, "-"),
         N!NumberOf(t, b, N!WholeEnd(t, i, j)) > MaxValue
  PROVE  LongNumber(t)
<1>1. Len(t) \in Nat /\ DOMAIN t = 1..Len(t)
  BY DEF IsSequence
<1>2. i \in Int /\ b \in Int /\ m \in Int /\ j \in Int /\ i <= b /\ b <= m /\ m <= j
  BY <1>1
<1>3. IsRun(t, b, m)
  BY <1>2, NumberRuns
<1>4. \A k \in i..(b - 1) : ~N!Is(t, k, ".")
  BY PointFacts
<1>5. N!WholeEnd(t, i, j) = m
  BY <1>2, <1>3, <1>4, WholeIsRun
<1>6. b \in DOMAIN t /\ m \in DOMAIN t
  BY <1>1
<1> QED BY <1>2, <1>3, <1>5, <1>6 DEF LongNumber

(* An amount becomes words, or is too long.                                *)
LEMMA CurrencySafe ==
  ASSUME NormInv, N!ExpandCurrency
  PROVE  \E ends, put :
           /\ N!Pass("currency", N!Rewrite(text, ends, put), "ordinals")
           /\ IsSafe(text, ends, put)
           /\ \A i \in 1..Len(text) :
                /\ ends[i] = N!AmountEnds(text, i)
                /\ \A j \in 1..Len(text) : put[i][j] = N!AmountWords(text, i, j)
<1> DEFINE ends == [i \in DOMAIN text |-> N!AmountEnds(text, i)]
           put  == [i \in DOMAIN text |-> [j \in DOMAIN text |-> N!AmountWords(text, i, j)]]
<1>1. N!Pass("currency", N!Rewrite(text, ends, put), "ordinals")
  BY DEF N!ExpandCurrency
<1>2. IsSequence(text) /\ Len(text) \in Nat /\ DOMAIN text = 1..Len(text)
  BY DEF NormInv, IsSequence
<1>3. IsSafe(text, ends, put)
  <2>1. ASSUME NEW i \in 1..Len(text), NEW j \in ends[i]
        PROVE  /\ N!Is(text, i, "$") /\ j \in (i + 1)..Len(text)
               /\ \E m \in (i + 1)..j : N!Grouped(text, i + 1, m)
                                        /\ N!Fraction(text, m + 1, j, 2)
    <3>1. j \in N!AmountEnds(text, i)
      BY <1>2, <2>1
    <3> QED BY <3>1 DEF N!AmountEnds
  <2> HIDE DEF ends
  <2>2. ASSUME NEW i \in 1..Len(text), NEW j \in 1..Len(text)
        PROVE  \/ \E words : put[i][j] = N!Said(words)
               \/ /\ N!NumberOf(text, i + 1, N!WholeEnd(text, i, j)) > MaxValue
                  /\ put[i][j] = N!Thrown
    <3>1. put[i][j] = N!AmountWords(text, i, j)
      BY <1>2
    <3> HIDE DEF put
    <3> QED BY <3>1 DEF N!AmountWords, N!TooLong
  <2> HIDE DEF put
  <2>3. ASSUME NEW i \in 1..Len(text), NEW j \in ends[i]
        PROVE  /\ j \in i..Len(text)
               /\ \/ \E words : put[i][j] = N!Said(words)
                  \/ LongNumber(text) /\ put[i][j] = N!Thrown
    <3>1. N!Is(text, i, "$") /\ j \in (i + 1)..Len(text) /\ j \in 1..Len(text)
      BY <1>2, <2>1
    <3>2. PICK m \in (i + 1)..j : N!Grouped(text, i + 1, m) /\ N!Fraction(text, m + 1, j, 2)
      BY <2>1
    <3>3. i + 1 \in i..Len(text) /\ m \in (i + 1)..Len(text) /\ j \in m..Len(text)
      BY <1>2, <3>1, <3>2
    <3>4. \A k \in i..((i + 1) - 1) : N!Is(text, k, "$")
      BY <3>1
    <3>5. ASSUME N!NumberOf(text, i + 1, N!WholeEnd(text, i, j)) > MaxValue
          PROVE  LongNumber(text)
      BY <1>2, <3>2, <3>3, <3>4, <3>5, TooLongIsLong
    <3> QED BY <2>2, <3>1, <3>5
  <2> QED BY <2>3 DEF IsSafe
<1>4. ASSUME NEW i \in 1..Len(text)
      PROVE  /\ ends[i] = N!AmountEnds(text, i)
             /\ \A j \in 1..Len(text) : put[i][j] = N!AmountWords(text, i, j)
  BY <1>2
<1> HIDE DEF ends, put
<1> QED BY <1>1, <1>3, <1>4

(* So that the pass keeps the invariant.                                   *)
LEMMA CurrencyPass ==
  ASSUME NormInv, N!ExpandCurrency PROVE NormInv'
<1>1. PICK ends, put : /\ N!Pass("currency", N!Rewrite(text, ends, put), "ordinals")
                       /\ IsSafe(text, ends, put)
  BY CurrencySafe
<1>2. "currency" \in Writing /\ "ordinals" \in Writing \cup {"whitespace"}
  BY DEF Writing
<1> QED BY <1>1, <1>2, SafePass

(* An ordinal becomes words, or stays as it is.                            *)
LEMMA OrdinalsSafe ==
  ASSUME NormInv, N!ExpandOrdinals
  PROVE  \E ends, put :
           /\ N!Pass("ordinals", N!Rewrite(text, ends, put), "numbers")
           /\ IsSafe(text, ends, put)
           /\ \A i \in 1..Len(text) : ends[i] = N!OrdinalEnds(text, i)
<1> DEFINE ends == [i \in DOMAIN text |-> N!OrdinalEnds(text, i)]
           put  == [i \in DOMAIN text |-> [j \in DOMAIN text |-> N!OrdinalWords(text, i, j)]]
<1>1. N!Pass("ordinals", N!Rewrite(text, ends, put), "numbers")
  BY DEF N!ExpandOrdinals
<1>2. Len(text) \in Nat /\ DOMAIN text = 1..Len(text)
  BY DEF NormInv, IsSequence
<1>3. IsSafe(text, ends, put)
  <2>1. ASSUME NEW i \in 1..Len(text), NEW j \in ends[i] PROVE j \in (i + 1)..Len(text)
    <3>1. j \in N!OrdinalEnds(text, i)
      BY <1>2, <2>1
    <3> QED BY <3>1 DEF N!OrdinalEnds
  <2> HIDE DEF ends
  <2>2. ASSUME NEW i \in 1..Len(text), NEW j \in ends[i]
        PROVE  /\ j \in i..Len(text)
               /\ put[i][j] = SubSeq(text, i, j) \/ \E words : put[i][j] = N!Said(words)
    <3>1. j \in i..Len(text) /\ j \in 1..Len(text)
      BY <1>2, <2>1
    <3>2. put[i][j] = N!OrdinalWords(text, i, j)
      BY <1>2, <3>1
    <3> HIDE DEF put
    <3> QED BY <3>1, <3>2 DEF N!OrdinalWords
  <2> HIDE DEF put
  <2> QED BY <2>2 DEF IsSafe
<1>4. \A i \in 1..Len(text) : ends[i] = N!OrdinalEnds(text, i)
  BY <1>2
<1> HIDE DEF ends, put
<1> QED BY <1>1, <1>3, <1>4

(* So that the pass keeps the invariant.                                   *)
LEMMA OrdinalsPass ==
  ASSUME NormInv, N!ExpandOrdinals PROVE NormInv'
<1>1. PICK ends, put : /\ N!Pass("ordinals", N!Rewrite(text, ends, put), "numbers")
                       /\ IsSafe(text, ends, put)
  BY OrdinalsSafe
<1>2. "ordinals" \in Writing /\ "numbers" \in Writing \cup {"whitespace"}
  BY DEF Writing
<1> QED BY <1>1, <1>2, SafePass

\* A number that stays as it is has more digits than stoll takes.
LeavesLong(t, ends, put) ==
  \A c \in 1..Len(t) : \A d \in ends[c] : put[c][d] = SubSeq(t, c, d) =>
    \E b \in c..d : /\ \A k \in c..(b - 1) : N!Is(t, k, "-")
                    /\ IsRun(t, b, d) /\ N!NumberOf(t, b, d) > MaxValue

(* A number becomes words, or is too long and stays as it is or throws.    *)
LEMMA NumbersSafe ==
  ASSUME NormInv, N!ExpandNumbers
  PROVE  \E ends, put :
           /\ N!Pass("numbers", N!Rewrite(text, ends, put), "whitespace")
           /\ IsSafe(text, ends, put) /\ LeavesLong(text, ends, put)
           /\ \A i \in 1..Len(text) :
                /\ ends[i] = N!NumberEnds(text, i)
                /\ \A j \in 1..Len(text) : put[i][j] = N!CardinalWords(text, i, j)
<1> DEFINE ends == [i \in DOMAIN text |-> N!NumberEnds(text, i)]
           put  == [i \in DOMAIN text |-> [j \in DOMAIN text |-> N!CardinalWords(text, i, j)]]
           start(i) == IF N!Is(text, i, "-") THEN i + 1 ELSE i
<1>1. N!Pass("numbers", N!Rewrite(text, ends, put), "whitespace")
  BY DEF N!ExpandNumbers
<1>2. IsSequence(text) /\ Len(text) \in Nat /\ DOMAIN text = 1..Len(text)
  BY DEF NormInv, IsSequence
<1>3. ASSUME NEW i \in 1..Len(text)
      PROVE  /\ ends[i] = N!NumberEnds(text, i)
             /\ \A j \in 1..Len(text) : put[i][j] = N!CardinalWords(text, i, j)
  BY <1>2
<1>4. IsSafe(text, ends, put) /\ LeavesLong(text, ends, put)
  <2>1. ASSUME NEW i \in 1..Len(text), NEW j \in ends[i]
        PROVE  /\ j \in start(i)..Len(text)
               /\ \E m \in start(i)..j :
                    /\ N!Grouped(text, start(i), m) \/ N!Digits(text, start(i), m)
                    /\ N!Fraction(text, m + 1, j, Len(text))
    <3>1. j \in N!NumberEnds(text, i)
      BY <1>2, <2>1
    <3> HIDE DEF ends
    <3> QED BY <3>1 DEF N!NumberEnds, N!NumberEndsGrouped
  <2> HIDE DEF ends
  <2>2. ASSUME NEW i \in 1..Len(text), NEW j \in 1..Len(text)
        PROVE  \/ /\ put[i][j] = SubSeq(text, i, j) /\ N!WholeEnd(text, i, j) = j
                  /\ N!NumberOf(text, start(i), j) > MaxValue
               \/ \E words : put[i][j] = N!Said(words)
               \/ /\ N!NumberOf(text, start(i), N!WholeEnd(text, i, j)) > MaxValue
                  /\ put[i][j] \in {N!Thrown, N!Endless}
    <3> DEFINE whole == N!WholeEnd(text, i, j)
               minus == N!Is(text, i, "-")
               n     == N!NumberOf(text, IF minus THEN i + 1 ELSE i, whole)
               words == N!IntegerToWords(IF minus THEN -n ELSE n)
               more  == words \o << <<"point", 0>> >> \o
                          [k \in 1..(j - whole - 1) |->
                             <<"ones", N!DigitValue(text[whole + 1 + k][2])>>]
    <3>1. put[i][j] = IF minus /\ n = MaxValue + 1 THEN N!Endless
                      ELSE IF whole = j
                      THEN IF N!TooLong(n) THEN SubSeq(text, i, j) ELSE N!Said(words)
                      ELSE IF N!TooLong(n) THEN N!Thrown
                      ELSE N!Said(more)
      <4>1. put[i][j] = N!CardinalWords(text, i, j)
        BY <1>2
      <4> HIDE DEF put
      <4> QED BY <4>1 DEF N!CardinalWords
    <3>2. N!NumberOf(text, start(i), N!WholeEnd(text, i, j)) = n
      OBVIOUS
    <3> HIDE DEF put, words, more, n, minus
    <3>4. whole = j => N!NumberOf(text, start(i), j) = n
      BY <3>2
    <3> HIDE DEF whole
    <3>3. n = MaxValue + 1 => n > MaxValue
      BY TextsAssumption
    <3>5. whole = N!WholeEnd(text, i, j)
      BY DEF whole
    <3> QED BY <3>1, <3>2, <3>3, <3>4, <3>5 DEF N!TooLong
  <2> HIDE DEF put
  <2>3. ASSUME NEW i \in 1..Len(text), NEW j \in ends[i]
        PROVE  /\ j \in i..Len(text)
               /\ put[i][j] = SubSeq(text, i, j) =>
                    \E b \in i..j : /\ \A k \in i..(b - 1) : N!Is(text, k, "-")
                                   /\ IsRun(text, b, j) /\ N!NumberOf(text, b, j) > MaxValue
               /\ \/ put[i][j] = SubSeq(text, i, j)
                  \/ \E words : put[i][j] = N!Said(words)
                  \/ LongNumber(text) /\ put[i][j] \in {N!Thrown, N!Endless}
    <3>1. start(i) \in i..(i + 1)
      BY <1>2
    <3>2. \A k \in i..(start(i) - 1) : N!Is(text, k, "-")
      BY <1>2
    <3>3. j \in start(i)..Len(text)
      BY <2>1
    <3>4. PICK m \in start(i)..j :
            /\ N!Grouped(text, start(i), m) \/ N!Digits(text, start(i), m)
            /\ N!Fraction(text, m + 1, j, Len(text))
      BY <2>1
    <3> DEFINE b == start(i)
    <3> HIDE DEF b
    <3>5. b \in i..Len(text) /\ m \in b..Len(text) /\ j \in m..Len(text) /\ j \in 1..Len(text)
          /\ j \in i..Len(text)
      BY <1>2, <3>1, <3>3, <3>4 DEF b
    <3>6. ASSUME N!NumberOf(text, b, N!WholeEnd(text, i, j)) > MaxValue
          PROVE  LongNumber(text)
      <4>1. N!Grouped(text, b, m) \/ N!Digits(text, b, m)
        BY <3>4 DEF b
      <4>2. \A k \in i..(b - 1) : N!Is(text, k, "-")
        BY <3>2 DEF b
      <4> QED BY <1>2, <3>4, <3>5, <3>6, <4>1, <4>2, TooLongIsLong
    <3>7. \/ /\ put[i][j] = SubSeq(text, i, j) /\ N!WholeEnd(text, i, j) = j
             /\ N!NumberOf(text, b, j) > MaxValue
          \/ \E words : put[i][j] = N!Said(words)
          \/ /\ N!NumberOf(text, b, N!WholeEnd(text, i, j)) > MaxValue
             /\ put[i][j] \in {N!Thrown, N!Endless}
      BY <2>2, <3>5 DEF b
    <3>8. b \in i..j /\ \A k \in i..(b - 1) : N!Is(text, k, "-")
      BY <1>2, <3>2, <3>5 DEF b
    <3>9. IsRun(text, b, m)
      BY <1>2, <3>4, <3>5, NumberRuns DEF b
    <3>10. ASSUME put[i][j] = SubSeq(text, i, j)
           PROVE  IsRun(text, b, j) /\ N!NumberOf(text, b, j) > MaxValue
      <4>1. IsChar(text[i])
        <5>1. CASE b = i
          <6>1. i \in b..m
            BY <1>2, <3>5, <5>1
          <6>2. N!Digit(text, i) \/ N!Is(text, i, ",")
            BY <3>9, <6>1 DEF IsRun
          <6>3. N!Digit(text, i) => IsChar(text[i])
            BY DigitFacts
          <6>4. N!Is(text, i, ",") => IsChar(text[i])
            BY IsOfChar
          <6> QED BY ONLY <6>2, <6>3, <6>4
        <5>2. CASE b # i
          <6>1. N!Is(text, i, "-")
            BY <5>2 DEF b
          <6> QED BY <6>1 DEF IsChar, N!Is
        <5> QED BY <5>1, <5>2
      <4>2. put[i][j][1] = text[i]
        BY <1>2, <3>5, <3>10
      <4>3. ~\E words : put[i][j] = N!Said(words)
        BY <4>1, <4>2 DEF IsChar, N!Said
      <4>4. put[i][j] \notin {N!Thrown, N!Endless}
        BY <4>1, <4>2 DEF IsChar, N!Thrown, N!Endless
      <4>5. N!WholeEnd(text, i, j) = j /\ N!NumberOf(text, b, j) > MaxValue
        BY <3>7, <4>3, <4>4
      <4>6. \A k \in i..(b - 1) : ~N!Is(text, k, ".")
        BY <3>8, PointFacts
      <4>7. /\ i \in Int /\ b \in Int /\ m \in Int /\ j \in Int
            /\ i <= b /\ b <= m /\ m <= j
        BY <1>2, <3>5
      <4>8. N!WholeEnd(text, i, j) = m
        BY <3>4, <3>9, <4>6, <4>7, WholeIsRun
      <4> QED BY <3>9, <4>5, <4>8
    <3> QED BY <3>5, <3>6, <3>7, <3>8, <3>10
  <2>4. IsSafe(text, ends, put)
    BY <2>3 DEF IsSafe
  <2>5. LeavesLong(text, ends, put)
    BY <2>3 DEF LeavesLong
  <2> QED BY <2>4, <2>5
<1> HIDE DEF ends, put
<1> QED BY <1>1, <1>3, <1>4

(* The numbers are read or left, or one of them throws.                    *)
LEMMA NumbersPass ==
  ASSUME NormInv, N!ExpandNumbers PROVE NormInv'
<1>1. PICK ends, put : /\ N!Pass("numbers", N!Rewrite(text, ends, put), "whitespace")
                       /\ IsSafe(text, ends, put)
  BY NumbersSafe
<1>2. "numbers" \in Writing /\ "whitespace" \in Writing \cup {"whitespace"}
  BY DEF Writing
<1> QED BY <1>1, <1>2, SafePass

Blank == <<"char", " ">>

\* What becomes of a text from i on: its spaces are single, none is the last,
\* it starts with one only where the text before i ends in none, and there is
\* something of it where the text goes on with more than spaces.
IsTail(r, t, i) ==
  /\ \A k \in 1..Len(r) : r[k] = Blank => k < Len(r) /\ r[k + 1] # Blank
  /\ Len(r) > 0 /\ r[1] = Blank => i > 1 /\ t[i - 1] # Blank
  /\ (\E k \in i..Len(t) : t[k] # Blank) => Len(r) > 0

(* An item that stays in front of what becomes of the rest.                *)
LEMMA TailKept ==
  ASSUME NEW V, NEW t \in Seq(V), NEW tail \in Seq(V), NEW i \in 1..Len(t),
         IsTail(tail, t, i + 1),
         t[i] = Blank => i > 1 /\ t[i - 1] # Blank
                         /\ \E k \in (i + 1)..Len(t) : t[k] # Blank
  PROVE  IsTail(<<t[i]>> \o tail, t, i)
<1> DEFINE r == <<t[i]>> \o tail
           n == Len(tail)
<1>1. /\ n \in Nat /\ Len(r) = n + 1 /\ r[1] = t[i]
      /\ \A k \in 2..(n + 1) : k - 1 \in 1..n /\ r[k] = tail[k - 1]
  <2>1. t[i] \in V
    OBVIOUS
  <2> QED BY <2>1
<1>2. /\ \A k \in 1..n : tail[k] = Blank => k < n /\ tail[k + 1] # Blank
      /\ n > 0 /\ tail[1] = Blank => t[i] # Blank
      /\ (\E k \in (i + 1)..Len(t) : t[k] # Blank) => n > 0
  <2>1. (i + 1) - 1 = i
    OBVIOUS
  <2> QED BY <2>1 DEF IsTail
<1> HIDE DEF r, n
<1>3. ASSUME NEW k \in 1..Len(r), r[k] = Blank PROVE k < Len(r) /\ r[k + 1] # Blank
  <2>1. CASE k = 1
    <3>1. t[i] = Blank /\ n > 0
      BY <1>1, <1>2, <1>3, <2>1
    <3>2. r[2] = tail[1]
      <4>1. 2 \in 2..(n + 1) /\ 2 - 1 = 1
        BY <1>1, <3>1
      <4> QED BY <1>1, <4>1
    <3> QED BY <1>1, <1>2, <2>1, <3>1, <3>2
  <2>2. CASE k \in 2..(n + 1)
    <3>1. k - 1 \in 1..n /\ tail[k - 1] = Blank
      BY <1>1, <1>3, <2>2
    <3>2. k - 1 < n /\ tail[(k - 1) + 1] # Blank
      BY <1>2, <3>1
    <3>3. k + 1 \in 2..(n + 1) /\ (k + 1) - 1 = (k - 1) + 1
      BY <1>1, <2>2, <3>2
    <3>4. r[k + 1] = tail[(k - 1) + 1]
      BY <1>1, <3>3
    <3> QED BY <1>1, <2>2, <3>2, <3>4
  <2> QED BY <1>1, <2>1, <2>2
<1>4. r[1] = Blank => i > 1 /\ t[i - 1] # Blank
  BY <1>1
<1>5. Len(r) > 0
  BY <1>1
<1>6. IsTail(r, t, i)
  BY <1>3, <1>4, <1>5 DEF IsTail
<1> QED BY <1>6 DEF r

\* A space that goes: the first, one after another, or one of the last.
Drops(t, i) ==
  /\ t[i] = Blank
  /\ ~(i > 1 /\ t[i - 1] # Blank /\ \E k \in (i + 1)..Len(t) : t[k] # Blank)

\* What becomes of the rest of the text, from each of its items on.
IsDropping(from, t) ==
  /\ from \in [1..(Len(t) + 1) -> Seq(ItemsOf(t))]
  /\ from[Len(t) + 1] = <<>>
  /\ \A i \in 1..Len(t) :
       from[i] = IF Drops(t, i) THEN from[i + 1] ELSE <<t[i]>> \o from[i + 1]

(* The last pass drops spaces and nothing else, and is never in trouble.   *)
LEMMA BlanksDropped ==
  ASSUME NormInv, N!NormalizeWhitespace
  PROVE  /\ source' = source /\ pass' = "done"
         /\ \E from : IsDropping(from, text) /\ text' = from[1]
<1> DEFINE ends == [i \in DOMAIN text |->
             IF N!Is(text, i, " ") /\ ~N!SpaceStays(text, i) THEN {i} ELSE {}]
           put  == [i \in DOMAIN text |-> [j \in DOMAIN text |-> <<>>]]
           r == N!Rewrite(text, ends, put)
           n == Len(text)
           V == ItemsOf(text)
<1>1. N!Pass("whitespace", r, "done")
  BY DEF N!NormalizeWhitespace
<1>2. /\ source \in Texts /\ IsSequence(text)
      /\ n \in Nat /\ DOMAIN text = 1..n /\ text \in Seq(V)
  BY DEF NormInv, IsSequence
<1>3. Fine(text)
  <2>1. pass = "whitespace"
    BY <1>1 DEF N!Pass
  <2> QED BY <2>1 DEF NormInv
<1> DEFINE drops(i) == text[i] = Blank /\ ~N!SpaceStays(text, i)
<1>4. ASSUME NEW i \in 1..n
      PROVE  /\ drops(i) => ends[i] = {i} /\ put[i][i] = <<>>
             /\ ~drops(i) => ends[i] = {}
  BY <1>2 DEF N!Is, Blank
<1> HIDE DEF ends, put, r, drops
<1>5. IsMatching(text, ends, put, V)
  <2>1. ASSUME NEW i \in 1..n
        PROVE  ends[i] \subseteq i..n /\ (ends[i] # {} => put[i][Max(ends[i])] \in Seq(V))
    <3>1. CASE drops(i)
      <4>1. Max({i}) \in {i}
        <5>1. {i} \in SUBSET (0..n)
          OBVIOUS
        <5> QED BY <1>2, <5>1, MaxFacts
      <4>2. <<>> \in Seq(V)
        OBVIOUS
      <4>3. ends[i] = {i} /\ put[i][i] = <<>> /\ Max({i}) = i
        BY <1>4, <3>1, <4>1
      <4>4. {i} \subseteq i..n /\ put[i][Max({i})] \in Seq(V)
        <5>1. i \in i..n
          BY <1>2
        <5>2. put[i][Max({i})] \in Seq(V)
          BY <4>2, <4>3
        <5> QED BY ONLY <5>1, <5>2
      <4> QED BY <4>3, <4>4
    <3>2. CASE ~drops(i)
      BY <1>4, <3>2
    <3> QED BY <3>1, <3>2
  <2> QED BY <2>1 DEF IsMatching
<1>6. PICK from : IsRewrite(from, text, ends, put, V)
  BY <1>2, <1>5, RewriteRows
<1>7. /\ \A i \in 1..(n + 1) : from[i] \in Seq(V)
      /\ from[n + 1] = <<>> /\ r = from[1]
  BY <1>6 DEF IsRewrite, r
<1>8. ASSUME NEW i \in 1..n
      PROVE  from[i] = IF drops(i) THEN from[i + 1] ELSE <<text[i]>> \o from[i + 1]
  <2>1. CASE drops(i)
    <3>1. Max({i}) = i
      <4>1. {i} \in SUBSET (0..n)
        OBVIOUS
      <4> QED BY <1>2, <4>1, MaxFacts
    <3>2. from[i] = <<>> \o from[i + 1]
      <4>1. ends[i] = {i} /\ put[i][i] = <<>>
        BY <1>4, <2>1
      <4> QED BY <1>6, <3>1, <4>1 DEF IsRewrite
    <3>3. i + 1 \in 1..(n + 1)
      BY <1>2
    <3>4. <<>> \o from[i + 1] = from[i + 1]
      BY <1>7, <3>3
    <3> QED BY <2>1, <3>2, <3>4
  <2>2. CASE ~drops(i)
    <3>1. ends[i] = {}
      BY <1>4, <2>2
    <3> QED BY <1>6, <2>2, <3>1 DEF IsRewrite
  <2> QED BY <2>1, <2>2
<1>9. ASSUME NEW i \in 1..n, text[i] = Blank
      PROVE  N!SpaceStays(text, i) <=>
               /\ i > 1 /\ text[i - 1] # Blank
               /\ \E k \in (i + 1)..n : text[k] # Blank
  <2>1. \A k \in 1..n : N!Is(text, k, " ") <=> text[k] = Blank
    BY <1>2 DEF N!Is, Blank
  <2>2. i > 1 => i - 1 \in 1..n
    BY <1>2
  <2>3. \A k \in (i + 1)..n : k \in 1..n
    BY <1>2
  <2> QED BY <2>1, <2>2, <2>3 DEF N!SpaceStays
<1>10. \A i \in 1..n : drops(i) <=> Drops(text, i)
  BY <1>9 DEF drops, Drops
<1>11. IsDropping(from, text)
  BY <1>6, <1>8, <1>10 DEF IsRewrite, IsDropping
<1>12. r \in Seq(V)
  <2>1. 1 \in 1..(n + 1)
    BY <1>2
  <2> QED BY <1>7, <2>1
<1> HIDE DEF V, n
<1>13. IsSequence(r) /\ ItemsOf(r) \subseteq V /\ Len(r) \in Nat /\ DOMAIN r = 1..Len(r)
  BY <1>12, OwnItems
<1>14. \A k \in 1..Len(r) : r[k][1] \notin Ended
  <2> SUFFICES ASSUME NEW k \in 1..Len(r) PROVE r[k][1] \notin Ended
    OBVIOUS
  <2>1. r[k] \in V
    BY <1>13 DEF ItemsOf
  <2>2. PICK i \in 1..n : r[k] = text[i]
    BY <1>2, <2>1 DEF V, ItemsOf
  <2> QED BY <1>3, <2>2 DEF Fine, n, Ended
<1>15. text' = r /\ source' = source /\ pass' = "done"
  BY <1>1, <1>13, <1>14, PassFacts
<1> QED BY <1>7, <1>11, <1>15

(* After the last pass the spaces are as they should be.                   *)
LEMMA WhitespacePass ==
  ASSUME NormInv, N!NormalizeWhitespace PROVE NormInv'
<1> DEFINE n == Len(text)
           V == ItemsOf(text)
<1>1. PICK from : IsDropping(from, text) /\ text' = from[1]
  BY BlanksDropped
<1>2. /\ source \in Texts /\ IsSequence(text)
      /\ n \in Nat /\ DOMAIN text = 1..n /\ text \in Seq(V)
  BY DEF NormInv, IsSequence
<1>3. /\ \A i \in 1..(n + 1) : from[i] \in Seq(V)
      /\ from[n + 1] = <<>>
  BY <1>1 DEF IsDropping
<1>4. ASSUME NEW i \in 1..n
      PROVE  from[i] = IF Drops(text, i) THEN from[i + 1] ELSE <<text[i]>> \o from[i + 1]
  BY <1>1 DEF IsDropping
<1> DEFINE r == from[1]
<1> HIDE DEF r
<1> DEFINE Q == {d \in Nat : \A i \in 1..(n + 1) : n + 1 - i = d => IsTail(from[i], text, i)}
<1>5. ASSUME NEW d \in Nat, \A e \in Nat : e < d => e \in Q PROVE d \in Q
  <2> SUFFICES ASSUME NEW i \in 1..(n + 1), n + 1 - i = d PROVE IsTail(from[i], text, i)
    OBVIOUS
  <2>1. CASE i = n + 1
    <3>1. from[i] = <<>> /\ Len(from[i]) = 0
      BY <1>3, <2>1
    <3>2. i > Len(text)
      BY <1>2, <2>1
    <3> QED BY <1>2, <3>1, <3>2 DEF IsTail
  <2>2. CASE i \in 1..n
    <3> DEFINE tail == from[i + 1]
    <3>1. i + 1 \in 1..(n + 1) /\ n + 1 - (i + 1) \in Nat /\ n + 1 - (i + 1) < d
      BY <1>2, <2>2
    <3>2. IsTail(tail, text, i + 1) /\ tail \in Seq(V)
      BY <1>3, <1>5, <3>1
    <3>3. from[i] = IF Drops(text, i) THEN tail ELSE <<text[i]>> \o tail
      BY <1>4, <2>2
    <3> HIDE DEF tail
    <3>4. CASE Drops(text, i)
      <4>1. text[i] = Blank /\ (i + 1) - 1 = i
        BY <2>2, <3>4 DEF Drops
      <4>2. ~(Len(tail) > 0 /\ tail[1] = Blank)
        BY <3>2, <4>1 DEF IsTail
      <4>3. ASSUME NEW k \in i..n, text[k] # Blank PROVE k \in (i + 1)..n
        <5>1. k # i
          BY <4>1, <4>3
        <5> QED BY <2>2, <5>1
      <4>4. IsTail(tail, text, i)
        BY <3>2, <4>2, <4>3 DEF IsTail
      <4> QED BY <3>3, <3>4, <4>4
    <3>5. CASE ~Drops(text, i)
      <4>1. text[i] = Blank => /\ i > 1 /\ text[i - 1] # Blank
                               /\ \E k \in (i + 1)..n : text[k] # Blank
        BY <3>5 DEF Drops
      <4>2. IsTail(<<text[i]>> \o tail, text, i)
        BY <1>2, <2>2, <3>2, <4>1, TailKept
      <4> QED BY <3>3, <3>5, <4>2
    <3> QED BY <3>4, <3>5
  <2>3. i = n + 1 \/ i \in 1..n
    BY <1>2
  <2> QED BY <2>1, <2>2, <2>3
<1> HIDE DEF Q
<1>6. \A d \in Nat : d \in Q
  BY <1>5, Descent
<1> USE DEF Q
<1>7. IsTail(r, text, 1) /\ r \in Seq(V)
  <2>1. 1 \in 1..(n + 1) /\ n + 1 - 1 \in Nat
    BY <1>2
  <2> QED BY <1>3, <1>6, <2>1 DEF r
<1> HIDE DEF Q, V, n
<1>8. IsSequence(r) /\ ItemsOf(r) \subseteq V /\ Len(r) \in Nat /\ DOMAIN r = 1..Len(r)
  BY <1>7, OwnItems
<1>9. IsSpaced(r)
  <2> SUFFICES ASSUME NEW k \in 1..Len(r), N!Is(r, k, " ")
               PROVE  k > 1 /\ k < Len(r) /\ ~N!Is(r, k + 1, " ")
    BY DEF IsSpaced
  <2>0. k \in Nat /\ k >= 1 /\ Len(r) \in Nat /\ Len(r) > 0
    <3>1. Len(r) \in Nat /\ k \in 1..Len(r)
      BY <1>8
    <3> QED BY ONLY <3>1
  <2>1. r[k] = Blank
    BY DEF N!Is, Blank
  <2>2. k < Len(r) /\ r[k + 1] # Blank
    BY <1>7, <2>1 DEF IsTail
  <2>3. k # 1
    <3>1. Len(r) > 0 /\ r[1] = Blank => 1 > 1
      BY <1>7 DEF IsTail
    <3>2. k = 1 => r[1] = Blank
      BY ONLY <2>1
    <3>3. ~(1 > 1)
      BY ONLY <2>0
    <3>4. k = 1 => Len(r) > 0 /\ r[1] = Blank
      BY ONLY <2>0, <3>2
    <3> HIDE DEF Blank
    <3> QED BY ONLY <3>1, <3>3, <3>4
  <2>4. k > 1
    BY ONLY <2>0, <2>3
  <2> QED BY <2>2, <2>4 DEF N!Is, Blank
<1>10. text' = r /\ source' = source /\ pass' = "done"
  BY <1>1, BlanksDropped DEF r
<1> QED BY <1>2, <1>8, <1>9, <1>10 DEF NormInv, Writing, Ended

(* Every step keeps the invariant.                                         *)
LEMMA NormSteps == NormInv /\ [Next]_vars => NormInv'
<1> SUFFICES ASSUME NormInv, [Next]_vars PROVE NormInv'
  OBVIOUS
<1>1. CASE UNCHANGED textVars
  BY <1>1 DEF NormInv, textVars
<1>2. CASE Normalize
  <2>1. CASE N!ExpandAbbreviations
    BY <2>1, AbbreviationsPass
  <2>2. CASE N!ExpandCurrency
    BY <2>2, CurrencyPass
  <2>3. CASE N!ExpandOrdinals
    BY <2>3, OrdinalsPass
  <2>4. CASE N!ExpandNumbers
    BY <2>4, NumbersPass
  <2>5. CASE N!NormalizeWhitespace
    BY <2>5, WhitespacePass
  <2> QED BY <1>2, <2>1, <2>2, <2>3, <2>4, <2>5 DEF Normalize, N!Next
<1>3. UNCHANGED textVars \/ Normalize
  BY DEF Next, Fetch, Construct, Pronounce, vars
<1> QED BY <1>1, <1>2, <1>3

(* The invariant of the normalizer holds throughout.                       *)
LEMMA NormAlways == Spec => []NormInv
<1> QED BY NormStart, NormSteps, PTL DEF Spec

(* Only a number that is too long makes a request fail in the normalizer:  *)
(* what throws, or recurs without an end, was a run of digits and commas   *)
(* of the text as it came, since no pass brings two digits together.       *)
THEOREM FailureCorrect == Spec => []FailsOnlyOnLong
<1>1. NormInv => FailsOnlyOnLong
  <2> SUFFICES ASSUME NormInv, pass \in Ended
               PROVE  \E i, j \in DOMAIN source :
                        /\ \A k \in i..j : \/ N!Digit(Characters(source), k)
                                           \/ N!Is(Characters(source), k, ",")
                        /\ N!NumberOf(Characters(source), i, j) > MaxValue
    BY DEF FailsOnlyOnLong, N!FailsOnlyOnLong, Ended, Characters
  <2>1. LongNumber(Characters(source)) /\ source \in Texts
    BY DEF NormInv
  <2>2. DOMAIN source = DOMAIN Characters(source)
    BY <2>1, CharactersFacts DEF Characters
  <2> QED BY <2>1, <2>2 DEF LongNumber, IsRun
<1> QED BY <1>1, NormAlways, PTL

(* The normalized text has no space at its ends and no two in a row.       *)
THEOREM SpacedCorrect == Spec => []Spaced
<1>1. NormInv => Spaced
  <2> SUFFICES ASSUME NormInv, pass = "done", NEW k \in DOMAIN text, N!Is(text, k, " ")
               PROVE  k > 1 /\ k < Len(text) /\ ~N!Is(text, k + 1, " ")
    BY DEF Spaced, N!Spaced
  <2>1. IsSpaced(text) /\ IsSequence(text)
    BY DEF NormInv
  <2>2. k \in 1..Len(text)
    <3>1. text \in Seq(ItemsOf(text)) /\ k \in DOMAIN text
      BY <2>1 DEF IsSequence
    <3> QED BY ONLY <3>1
  <2> QED BY <2>1, <2>2 DEF IsSpaced
<1> QED BY <1>1, NormAlways, PTL

-----------------------------------------------------------------------------
(* The digits that are left                                                *)

(* Digits with no word before or behind are a number that is looked for.   *)
LEMMA NumberThere ==
  ASSUME NEW t, NEW a \in 1..Len(t), NEW b \in a..Len(t), Len(t) \in Nat,
         N!Digits(t, a, b), ~N!Word(t, a - 1), ~N!Word(t, b + 1)
  PROVE  N!NumberEnds(t, a) # {}
<1>1. N!Digit(t, a) /\ N!Digit(t, b) /\ (b + 1) - 1 = b
  <2>1. a \in a..b /\ b \in a..b /\ (b + 1) - 1 = b
    OBVIOUS
  <2> QED BY <2>1 DEF N!Digits
<1>2. /\ N!Word(t, a) /\ ~N!Is(t, a, "-")
      /\ N!Word(t, b) /\ ~N!Is(t, b, "abbrev")
  BY <1>1, DigitFacts
<1>3. N!Boundary(t, a)
  BY <1>2 DEF N!Boundary
<1>4. N!Boundary(t, b + 1)
  BY <1>1, <1>2 DEF N!Boundary
<1>5. N!Fraction(t, b + 1, b, Len(t))
  BY DEF N!Fraction
<1>6. b \in a..Len(t) /\ b \in a..b
  OBVIOUS
<1>7. b \in {j \in a..Len(t) :
               /\ N!Boundary(t, a) /\ N!Boundary(t, j + 1)
               /\ \E m \in a..j : N!Digits(t, a, m) /\ N!Fraction(t, m + 1, j, Len(t))}
  BY <1>3, <1>4, <1>5, <1>6
<1> QED BY <1>2, <1>7 DEF N!NumberEnds

(* What is taken for a number ends in a digit.                             *)
LEMMA MatchCloses ==
  ASSUME NEW t, NEW b \in Int, NEW m \in Int, NEW j \in Int, b <= m, m <= j, NEW most,
         N!Grouped(t, b, m) \/ N!Digits(t, b, m), N!Fraction(t, m + 1, j, most)
  PROVE  N!Digit(t, j)
<1>0. b \in Int /\ m \in Int /\ j \in Int /\ b <= m /\ m <= j
  OBVIOUS
<1>1. CASE m = j /\ N!Digits(t, b, m)
  <2>1. j \in b..m
    BY <1>0, <1>1
  <2> QED BY <1>1, <2>1 DEF N!Digits
<1>2. CASE m = j /\ N!Grouped(t, b, m)
  <2> DEFINE Groups(c) ==
        /\ (m - c) % 4 = 0
        /\ \A k \in (c + 1)..m : IF (k - c) % 4 = 1 THEN N!Is(t, k, ",") ELSE N!Digit(t, k)
  <2>1. PICK c \in b..(b + 2) : c <= m /\ N!Digits(t, b, c) /\ Groups(c)
    BY <1>2 DEF N!Grouped
  <2>2. ASSUME m \in (c + 1)..m PROVE N!Digit(t, m)
    <3>1. IF (m - c) % 4 = 1 THEN N!Is(t, m, ",") ELSE N!Digit(t, m)
      BY <2>1, <2>2
    <3>2. (m - c) % 4 = 0
      BY <2>1
    <3> HIDE DEF Groups
    <3>3. 0 # 1
      OBVIOUS
    <3> QED BY ONLY <3>1, <3>2, <3>3
  <2> HIDE DEF Groups
  <2>3. c \in Int /\ b <= c /\ c <= m
    BY <1>0, <2>1
  <2>4. CASE c = m
    <3>1. m \in b..c
      BY <1>0, <2>4
    <3> QED BY <1>2, <2>1, <3>1 DEF N!Digits
  <2>5. CASE c # m
    <3>1. m \in (c + 1)..m
      <4>1. c \in Int /\ m \in Int /\ c <= m /\ c # m
        BY <1>0, <2>3, <2>5
      <4> QED BY ONLY <4>1
    <3> QED BY <1>2, <2>2, <3>1
  <2> QED BY <2>4, <2>5
<1>3. CASE m # j
  <2>1. ~(m + 1 > j) /\ (m + 1) + 1 <= j => j \in ((m + 1) + 1)..j
    BY <1>0
  <2>2. ~(m + 1 > j)
    BY <1>0, <1>3
  <2>3. N!Digits(t, (m + 1) + 1, j)
    BY <2>2 DEF N!Fraction
  <2>4. (m + 1) + 1 <= j
    BY <2>3 DEF N!Digits
  <2> QED BY <2>1, <2>2, <2>3, <2>4 DEF N!Digits
<1> QED BY <1>1, <1>2, <1>3

(* A number ends in a digit, with no word behind it.                       *)
LEMMA NumberCloses ==
  ASSUME NEW t, NEW i \in 1..Len(t), Len(t) \in Nat, NEW j \in N!NumberEnds(t, i)
  PROVE  /\ j \in i..Len(t) /\ N!Digit(t, j) /\ ~N!Word(t, j + 1)
<1> DEFINE b == IF N!Is(t, i, "-") THEN i + 1 ELSE i
<1>1. /\ j \in b..Len(t) /\ N!Boundary(t, j + 1)
      /\ \E m \in b..j : /\ N!Grouped(t, b, m) \/ N!Digits(t, b, m)
                         /\ N!Fraction(t, m + 1, j, Len(t))
  BY DEF N!NumberEnds, N!NumberEndsGrouped
<1>2. b \in i..(i + 1)
  OBVIOUS
<1> HIDE DEF b
<1>3. PICK m \in b..j : /\ N!Grouped(t, b, m) \/ N!Digits(t, b, m)
                        /\ N!Fraction(t, m + 1, j, Len(t))
  BY <1>1
<1>4. b \in Int /\ m \in Int /\ j \in Int /\ b <= m /\ m <= j /\ j \in i..Len(t)
  BY <1>1, <1>2, <1>3
<1>5. N!Digit(t, j)
  BY <1>3, <1>4, MatchCloses
<1>6. ~N!Word(t, j + 1)
  <2>1. N!Word(t, j) /\ ~N!Is(t, j, "abbrev") /\ (j + 1) - 1 = j
    BY <1>4, <1>5, DigitFacts
  <2> QED BY <1>1, <2>1 DEF N!Boundary
<1> QED BY <1>4, <1>5, <1>6

\* What may be around digits that are left.
LeftBy(t, i, j) ==
  \/ N!Word(t, i - 1) \/ N!Word(t, j + 1)
  \/ \E m, n \in DOMAIN t : /\ m <= i /\ j <= n /\ IsRun(t, m, n)
                            /\ N!NumberOf(t, m, n) > MaxValue

IsRest(t) ==
  \A i, j \in DOMAIN t :
    N!Digits(t, i, j) /\ ~N!Digit(t, i - 1) /\ ~N!Digit(t, j + 1) => LeftBy(t, i, j)

(* What the pass over the numbers leaves of digits is glued to a word or   *)
(* too long.                                                               *)
LEMMA NumbersLeave ==
  ASSUME NEW t, IsSequence(t), NEW ends, NEW put, IsWriting(t, ends, put),
         \A i \in 1..Len(t) : ends[i] = N!NumberEnds(t, i), LeavesLong(t, ends, put),
         NEW r, r = N!Rewrite(t, ends, put), Fine(r)
  PROVE  IsRest(r)
<1>1. IsSequence(r) /\ \E pos : TracksFrom(pos, r, t, 1, CutsOf(t, ends, put))
  BY Written
<1>2. PICK pos : TracksFrom(pos, r, t, 1, CutsOf(t, ends, put))
  BY <1>1
<1>3. /\ Len(t) \in Nat /\ DOMAIN t = 1..Len(t)
      /\ Len(r) \in Nat /\ DOMAIN r = 1..Len(r)
  BY <1>1 DEF IsSequence
<1>4. /\ Tracks(pos, r, t) /\ Laid(pos, r, t, CutsOf(t, ends, put))
      /\ Len(r) > 0 /\ IsChar(r[1]) => pos[1] = 1
      /\ Len(r) > 0 /\ IsChar(r[Len(r)]) => pos[Len(r)] = Len(t)
  BY <1>2 DEF TracksFrom
<1> SUFFICES ASSUME NEW i \in 1..Len(r), NEW j \in 1..Len(r), N!Digits(r, i, j),
                    ~N!Word(r, i - 1), ~N!Word(r, j + 1)
             PROVE  LeftBy(r, i, j)
  BY <1>3 DEF IsRest, LeftBy
<1>5. i <= j /\ j \in i..Len(r) /\ \A k \in i..j : N!Digit(r, k)
  BY <1>3 DEF N!Digits
<1>6. \A k \in i..j : IsChar(r[k])
  BY <1>5, DigitFacts
<1> DEFINE a == pos[i]
           b == a + (j - i)
<1>7. \A k \in i..j : /\ k \in 1..Len(r) /\ pos[k] \in 1..Len(t) /\ r[k] = t[pos[k]]
                      /\ pos[k] = a + (k - i)
  <2>1. i \in 1..Len(r)
    OBVIOUS
  <2> QED BY ONLY <1>1, <1>4, <1>5, <1>6, <2>1, TrackedRun
<1>8. a \in 1..Len(t) /\ b \in a..Len(t) /\ pos[j] = b /\ i \in i..j /\ j \in i..j
  <2>1. i \in i..j /\ j \in i..j
    BY <1>5
  <2>2. a \in 1..Len(t) /\ pos[j] = b /\ b \in 1..Len(t)
    BY <1>7, <2>1
  <2> QED BY <1>3, <1>5, <2>1, <2>2
<1>9. N!Digits(t, a, b)
  <2> SUFFICES ASSUME NEW e \in a..b PROVE N!Digit(t, e)
    BY <1>8 DEF N!Digits
  <2> DEFINE k == i + (e - a)
  <2>1. k \in i..j /\ a + (k - i) = e
    BY <1>5, <1>8
  <2>2. r[k] = t[e] /\ e \in 1..Len(t)
    BY <1>7, <2>1
  <2> HIDE DEF k
  <2> QED BY <1>3, <1>5, <2>1, <2>2 DEF N!Digit
<1> HIDE DEF a, b
<1>10. ASSUME NEW k \in 1..Len(r), NEW e, ~N!Word(r, k), t[e] = r[k] PROVE ~N!Word(t, e)
  BY <1>3, <1>10 DEF N!Word
<1>11. ASSUME NEW k \in 1..Len(r), ~N!Word(r, k) PROVE IsChar(r[k])
  <2>1. r[k][1] \in {"char", "said"}
    BY <1>11 DEF Fine
  <2> QED BY <1>3, <1>11, <2>1 DEF N!Word, IsChar
<1>12. ~N!Word(t, a - 1)
  <2>1. CASE i = 1
    <3>1. a = 1
      BY <1>4, <1>6, <1>8, <2>1 DEF a
    <3>2. a - 1 \notin DOMAIN t
      BY <1>3, <3>1
    <3> QED BY <3>2 DEF N!Word
  <2>2. CASE i # 1
    <3>1. i - 1 \in 1..Len(r) /\ (i - 1) + 1 = i /\ i <= Len(r)
      BY <1>3, <2>2
    <3>2. IsChar(r[i - 1]) /\ IsChar(r[i])
      BY <1>6, <1>8, <1>11, <3>1
    <3>3. /\ pos[i - 1] \in 1..Len(t) /\ r[i - 1] = t[pos[i - 1]]
          /\ pos[(i - 1) + 1] = pos[i - 1] + 1
      BY <1>4, <3>1, <3>2 DEF Tracks
    <3>4. a - 1 = pos[i - 1]
      <4>1. a = pos[i - 1] + 1
        BY <3>1, <3>3 DEF a
      <4> QED BY <3>3, <4>1
    <3> QED BY <1>10, <3>1, <3>3, <3>4
  <2> QED BY <2>1, <2>2
<1>13. ~N!Word(t, b + 1)
  <2>1. CASE j = Len(r)
    <3>1. b = Len(t)
      BY <1>4, <1>6, <1>8, <2>1
    <3>2. b + 1 \notin DOMAIN t
      BY <1>3, <3>1
    <3> QED BY <3>2 DEF N!Word
  <2>2. CASE j # Len(r)
    <3>1. j + 1 \in 1..Len(r) /\ j + 1 <= Len(r)
      <4>1. j \in 1..Len(r) /\ Len(r) \in Nat /\ j # Len(r)
        BY <1>3, <2>2, Zenon
      <4> QED BY ONLY <4>1
    <3>2. IsChar(r[j]) /\ IsChar(r[j + 1])
      BY <1>6, <1>8, <1>11, <3>1
    <3>3. r[j + 1] = t[pos[j + 1]] /\ pos[j + 1] = pos[j] + 1
      BY <1>4, <3>1, <3>2 DEF Tracks
    <3> QED BY <1>8, <1>10, <3>1, <3>3
  <2> QED BY <2>1, <2>2
<1>14. ends[a] # {}
  BY <1>3, <1>8, <1>9, <1>12, <1>13, NumberThere
<1>15. PICK cut \in CutsOf(t, ends, put) :
         /\ cut[1] <= a /\ a <= cut[2]
         /\ \A e \in cut[1]..cut[2] : i - a + e \in 1..Len(r) /\ r[i - a + e] = t[e]
  BY <1>4, <1>6, <1>8 DEF Laid, a
<1> DEFINE c == cut[1]
           d == cut[2]
<1>16. /\ c \in 1..Len(t) /\ d \in 1..Len(t)
       /\ IF ends[c] = {} THEN d = c ELSE d = Max(ends[c]) /\ put[c][d] = SubSeq(t, c, d)
  BY DEF CutsOf
<1> HIDE DEF c, d
<1>17. /\ c <= a /\ a <= d
       /\ \A e \in c..d : i - a + e \in 1..Len(r) /\ r[i - a + e] = t[e]
  BY <1>15 DEF c, d
<1>18. ends[c] # {} /\ d = Max(ends[c]) /\ put[c][d] = SubSeq(t, c, d)
  <2>1. ends[c] = {} => c = a
    BY <1>3, <1>8, <1>16, <1>17
  <2> QED BY <1>14, <1>16, <2>1
<1>19. d \in ends[c] /\ ends[c] = N!NumberEnds(t, c)
  <2>1. ends[c] \in SUBSET (0..Len(t))
    <3>1. ends[c] \subseteq c..Len(t)
      BY <1>16 DEF IsWriting
    <3> QED BY <1>16, <3>1
  <2>2. Max(ends[c]) \in ends[c]
    BY <1>3, <1>18, <2>1, MaxFacts
  <2> QED BY <1>16, <1>18, <2>2
<1>20. d \in c..Len(t) /\ N!Digit(t, d) /\ ~N!Word(t, d + 1)
  BY <1>3, <1>16, <1>19, NumberCloses
<1>21. PICK s \in c..d : /\ \A k \in c..(s - 1) : N!Is(t, k, "-")
                         /\ IsRun(t, s, d) /\ N!NumberOf(t, s, d) > MaxValue
  BY <1>16, <1>18, <1>19 DEF LeavesLong
<1>22. s <= a
  <2> SUFFICES ASSUME ~(s <= a) PROVE FALSE
    OBVIOUS
  <2>1. a \in c..(s - 1) /\ a \in a..b
    BY <1>8, <1>16, <1>17
  <2>2. N!Is(t, a, "-") /\ N!Digit(t, a)
    BY <1>9, <1>21, <2>1 DEF N!Digits
  <2> QED BY <2>2, DigitFacts
<1>23. b <= d
  <2> SUFFICES ASSUME ~(b <= d) PROVE FALSE
    OBVIOUS
  <2>1. d + 1 \in a..b
    BY <1>8, <1>16, <1>17
  <2>2. N!Digit(t, d + 1)
    BY <1>9, <2>1 DEF N!Digits
  <2> QED BY <1>20, <2>2, DigitFacts
<1> DEFINE m == i - a + s
           n == m + (d - s)
<1>24. /\ m \in 1..Len(r) /\ n \in 1..Len(r)
       /\ IsRun(r, m, n) /\ N!NumberOf(r, m, n) > MaxValue
  <2>1. s \in 1..Len(t) /\ d \in s..Len(t) /\ m \in Int
    BY <1>3, <1>8, <1>16
  <2>2. ASSUME NEW k \in s..d PROVE m + (k - s) \in 1..Len(r) /\ r[m + (k - s)] = t[k]
    <3>1. k \in c..d /\ m + (k - s) = i - a + k
      BY <1>8, <1>16, <2>1
    <3> QED BY <1>17, <3>1
  <2> HIDE DEF m
  <2> QED BY <1>1, <1>21, <2>1, <2>2, SamePart
<1>25. m <= i /\ j <= n
  <2>1. i \in Int /\ a \in Int /\ s \in Int /\ d \in Int /\ j \in Int /\ b = a + (j - i)
    BY <1>8, <1>16 DEF b
  <2>2. n = i - a + d
    BY <2>1
  <2> QED BY <1>22, <1>23, <2>1, <2>2
<1> HIDE DEF m, n
<1> QED BY <1>3, <1>24, <1>25 DEF LeftBy

(* A pass that is safe writes words or leaves what there is.               *)
LEMMA SafeWrites ==
  ASSUME NEW t, NEW ends, NEW put, IsSafe(t, ends, put) PROVE IsWriting(t, ends, put)
<1> SUFFICES ASSUME NEW i \in 1..Len(t), NEW j \in ends[i]
             PROVE  put[i][j] = SubSeq(t, i, j) \/ \E x : put[i][j] = <<x>> /\ ~IsChar(x)
  BY DEF IsSafe, IsWriting
<1>1. CASE \E words : put[i][j] = N!Said(words)
  <2>1. PICK words : put[i][j] = N!Said(words)
    BY <1>1
  <2> DEFINE y == <<"said", words>>
  <2>2. put[i][j] = <<y>> /\ ~IsChar(y)
    BY <2>1 DEF N!Said, IsChar
  <2> QED BY <2>2
<1>2. CASE put[i][j] \in {N!Thrown, N!Endless}
  <2>1. ~IsChar(<<"failed", 0>>) /\ ~IsChar(<<"crashed", 0>>)
    BY DEF IsChar
  <2>2. CASE put[i][j] = N!Thrown
    BY <2>1, <2>2 DEF N!Thrown
  <2>3. CASE put[i][j] = N!Endless
    BY <2>1, <2>3 DEF N!Endless
  <2> QED BY <1>2, <2>2, <2>3
<1> QED BY <1>1, <1>2 DEF IsSafe

(* What is left of digits after the pass over the numbers.                 *)
LEMMA NumbersLeft ==
  ASSUME NormInv, N!ExpandNumbers, pass' \notin Ended PROVE IsRest(text')
<1>1. PICK ends, put :
        /\ N!Pass("numbers", N!Rewrite(text, ends, put), "whitespace")
        /\ IsSafe(text, ends, put) /\ LeavesLong(text, ends, put)
        /\ \A i \in 1..Len(text) : ends[i] = N!NumberEnds(text, i)
  BY NumbersSafe
<1>2. IsSequence(text) /\ IsWriting(text, ends, put)
  BY <1>1, SafeWrites DEF NormInv
<1> DEFINE r == N!Rewrite(text, ends, put)
<1>3. IsSequence(r)
  <2> HIDE DEF r
  <2> QED BY <1>2, Written DEF r
<1>4. text' = r /\ pass' = "whitespace"
  <2> HIDE DEF r
  <2>1. N!Pass("numbers", r, "whitespace")
    BY <1>1 DEF r
  <2> QED BY <1>3, <2>1, PassFacts
<1>5. Fine(r)
  <2>1. NormInv'
    BY NumbersPass
  <2>2. Fine(text')
    BY <1>4, <2>1 DEF NormInv, Writing, Ended
  <2> QED BY <1>4, <2>2
<1> QED BY <1>1, <1>2, <1>4, <1>5, NumbersLeave

\* s is what is left of t from i on: pos tells where its items come from, in
\* their order, and only spaces are missing, between which and at the end of
\* which there is nothing else.
Keeps(pos, s, t, i) ==
  /\ \A k \in 1..Len(s) : pos[k] \in i..Len(t) /\ s[k] = t[pos[k]]
  /\ \A k, l \in 1..Len(s) : k < l => pos[k] < pos[l]
  /\ \A e \in i..Len(t) : t[e] # Blank => \E k \in 1..Len(s) : pos[k] = e
  /\ \A k \in 1..Len(s) :
       k + 1 <= Len(s) /\ s[k] # Blank /\ s[k + 1] # Blank => pos[k + 1] = pos[k] + 1
  /\ Len(s) > 0 /\ s[1] # Blank /\ i > 1 /\ t[i - 1] # Blank => pos[1] = i

(* An item that stays, in front of what is left of the rest.               *)
LEMMA KeptMore ==
  ASSUME NEW V, NEW t \in Seq(V), NEW tail \in Seq(V), NEW i \in 1..Len(t),
         NEW p, Keeps(p, tail, t, i + 1)
  PROVE  \E pos : Keeps(pos, <<t[i]>> \o tail, t, i)
<1> DEFINE s == <<t[i]>> \o tail
           n == Len(tail)
           pos == [k \in 1..(n + 1) |-> IF k = 1 THEN i ELSE p[k - 1]]
<1>1. /\ n \in Nat /\ Len(s) = n + 1 /\ s[1] = t[i]
      /\ \A k \in 2..(n + 1) : k - 1 \in 1..n /\ s[k] = tail[k - 1]
  <2>1. t[i] \in V
    OBVIOUS
  <2> QED BY <2>1
<1>2. Len(t) \in Nat /\ i \in Int /\ i \in i..Len(t) /\ (i + 1) - 1 = i
  OBVIOUS
<1>3. /\ \A k \in 1..n : p[k] \in (i + 1)..Len(t) /\ tail[k] = t[p[k]]
      /\ \A k, l \in 1..n : k < l => p[k] < p[l]
      /\ \A e \in (i + 1)..Len(t) : t[e] # Blank => \E k \in 1..n : p[k] = e
      /\ \A k \in 1..n :
           k + 1 <= n /\ tail[k] # Blank /\ tail[k + 1] # Blank => p[k + 1] = p[k] + 1
      /\ n > 0 /\ tail[1] # Blank /\ i + 1 > 1 /\ t[(i + 1) - 1] # Blank => p[1] = i + 1
  BY DEF Keeps
<1>4. pos[1] = i /\ \A k \in 2..(n + 1) : pos[k] = p[k - 1]
  BY <1>1
<1>5. \A k \in 1..(n + 1) : k = 1 \/ k \in 2..(n + 1)
  BY <1>1
<1> HIDE DEF s, n, pos
<1>6. \A k \in 1..Len(s) : pos[k] \in i..Len(t) /\ s[k] = t[pos[k]]
  <2> SUFFICES ASSUME NEW k \in 2..(n + 1) PROVE pos[k] \in i..Len(t) /\ s[k] = t[pos[k]]
    BY <1>1, <1>2, <1>4, <1>5
  <2>1. pos[k] = p[k - 1] /\ s[k] = tail[k - 1] /\ p[k - 1] \in (i + 1)..Len(t)
        /\ tail[k - 1] = t[p[k - 1]]
    BY <1>1, <1>3, <1>4
  <2> QED BY <1>2, <2>1
<1>7. \A k, l \in 1..Len(s) : k < l => pos[k] < pos[l]
  <2> SUFFICES ASSUME NEW k \in 1..(n + 1), NEW l \in 1..(n + 1), k < l PROVE pos[k] < pos[l]
    BY <1>1
  <2>1. l \in 2..(n + 1) /\ l - 1 \in 1..n /\ pos[l] = p[l - 1] /\ p[l - 1] \in (i + 1)..Len(t)
    <3>1. l \in 2..(n + 1)
      BY <1>1
    <3> QED BY <1>1, <1>3, <1>4, <3>1
  <2>2. CASE k = 1
    BY <1>2, <1>4, <2>1, <2>2
  <2>3. CASE k \in 2..(n + 1)
    <3>1. k - 1 \in 1..n /\ pos[k] = p[k - 1]
      BY <1>1, <1>4, <2>3
    <3>2. k \in Int /\ l \in Int /\ k < l
      BY <1>1
    <3>3. k - 1 < l - 1
      BY ONLY <3>2
    <3> QED BY <1>3, <2>1, <3>1, <3>3
  <2> QED BY <1>5, <2>2, <2>3
<1>8. ASSUME NEW e \in i..Len(t), t[e] # Blank PROVE \E k \in 1..Len(s) : pos[k] = e
  <2>1. CASE e = i
    <3>1. 1 \in 1..Len(s)
      BY <1>1
    <3> QED BY <1>4, <2>1, <3>1
  <2>2. CASE e # i
    <3>1. e \in (i + 1)..Len(t)
      BY <1>2, <2>2
    <3>2. PICK k \in 1..n : p[k] = e
      BY <1>3, <1>8, <3>1
    <3>3. k + 1 \in 2..(n + 1) /\ (k + 1) - 1 = k /\ k + 1 \in 1..Len(s)
      BY <1>1
    <3>4. pos[k + 1] = e
      BY <1>4, <3>2, <3>3
    <3> QED BY <3>3, <3>4
  <2> QED BY <2>1, <2>2
<1>9. ASSUME NEW k \in 1..Len(s), k + 1 <= Len(s), s[k] # Blank, s[k + 1] # Blank
      PROVE  pos[k + 1] = pos[k] + 1
  <2>1. k + 1 \in 2..(n + 1) /\ (k + 1) - 1 = k /\ k \in 1..n
    BY <1>1, <1>9
  <2>2. pos[k + 1] = p[k] /\ s[k + 1] = tail[k]
    BY <1>1, <1>4, <2>1
  <2>3. CASE k = 1
    <3>1. n > 0 /\ tail[1] # Blank /\ i + 1 > 1 /\ t[(i + 1) - 1] # Blank
      BY <1>1, <1>2, <1>9, <2>1, <2>2, <2>3
    <3>2. p[1] = i + 1
      BY <1>3, <3>1
    <3> QED BY <1>4, <2>2, <2>3, <3>2
  <2>4. CASE k \in 2..(n + 1)
    <3>1. k - 1 \in 1..n /\ (k - 1) + 1 = k /\ s[k] = tail[k - 1] /\ pos[k] = p[k - 1]
      BY <1>1, <1>4, <2>4
    <3>2. (k - 1) + 1 <= n /\ tail[k - 1] # Blank /\ tail[(k - 1) + 1] # Blank
      BY <1>9, <2>1, <2>2, <3>1
    <3>3. p[(k - 1) + 1] = p[k - 1] + 1
      BY <1>3, <3>1, <3>2
    <3> QED BY <2>2, <3>1, <3>3
  <2>5. k \in 1..(n + 1)
    BY <1>1
  <2> QED BY <1>5, <2>3, <2>4, <2>5
<1>10. Keeps(pos, s, t, i)
  BY <1>4, <1>6, <1>7, <1>8, <1>9 DEF Keeps
<1> QED BY <1>10 DEF s

(* What the last pass keeps.                                               *)
LEMMA DroppingKeeps ==
  ASSUME NEW t, IsSequence(t), NEW from, IsDropping(from, t)
  PROVE  \E pos : Keeps(pos, from[1], t, 1)
<1> DEFINE n == Len(t)
           V == ItemsOf(t)
           Q == {d \in Nat : \A i \in 1..(n + 1) :
                               n + 1 - i = d => \E pos : Keeps(pos, from[i], t, i)}
<1>1. t \in Seq(V) /\ n \in Nat
  BY DEF IsSequence
<1>2. /\ \A i \in 1..(n + 1) : from[i] \in Seq(V)
      /\ from[n + 1] = <<>>
      /\ \A i \in 1..n : from[i] = IF Drops(t, i) THEN from[i + 1] ELSE <<t[i]>> \o from[i + 1]
  BY DEF IsDropping
<1> HIDE DEF V
<1>3. ASSUME NEW d \in Nat, \A e \in Nat : e < d => e \in Q PROVE d \in Q
  <2> SUFFICES ASSUME NEW i \in 1..(n + 1), n + 1 - i = d
               PROVE  \E pos : Keeps(pos, from[i], t, i)
    OBVIOUS
  <2>1. CASE i = n + 1
    <3>1. Len(from[i]) = 0 /\ \A e \in i..n : FALSE
      BY <1>1, <1>2, <2>1
    <3>2. Keeps(<<>>, from[i], t, i)
      BY <3>1 DEF Keeps
    <3> QED BY <3>2
  <2>2. CASE i \in 1..n
    <3> DEFINE tail == from[i + 1]
    <3>1. i + 1 \in 1..(n + 1) /\ n + 1 - (i + 1) \in Nat /\ n + 1 - (i + 1) < d
      BY <1>1, <2>2
    <3>2. tail \in Seq(V) /\ \E p : Keeps(p, tail, t, i + 1)
      BY <1>2, <1>3, <3>1
    <3>3. PICK p : Keeps(p, tail, t, i + 1)
      BY <3>2
    <3>4. from[i] = IF Drops(t, i) THEN tail ELSE <<t[i]>> \o tail
      BY <1>2, <2>2
    <3> HIDE DEF tail, Q
    <3>5. CASE ~Drops(t, i)
      BY <1>1, <2>2, <3>2, <3>3, <3>4, <3>5, KeptMore
    <3>6. CASE Drops(t, i)
      <4>1. /\ t[i] = Blank
            /\ i > 1 /\ t[i - 1] # Blank => \A k \in (i + 1)..n : t[k] = Blank
        BY <3>6 DEF Drops
      <4>2. /\ \A k \in 1..Len(tail) : p[k] \in (i + 1)..n /\ tail[k] = t[p[k]]
            /\ \A k, l \in 1..Len(tail) : k < l => p[k] < p[l]
            /\ \A e \in (i + 1)..n : t[e] # Blank => \E k \in 1..Len(tail) : p[k] = e
            /\ \A k \in 1..Len(tail) :
                 k + 1 <= Len(tail) /\ tail[k] # Blank /\ tail[k + 1] # Blank =>
                   p[k + 1] = p[k] + 1
        BY <3>3 DEF Keeps
      <4>3. \A e \in (i + 1)..n : e \in i..n
        BY <1>1, <2>2
      <4>4. \A e \in i..n : e = i \/ e \in (i + 1)..n
        BY <1>1, <2>2
      <4>5. ~(Len(tail) > 0 /\ tail[1] # Blank /\ i > 1 /\ t[i - 1] # Blank)
        <5> SUFFICES ASSUME Len(tail) > 0, tail[1] # Blank, i > 1, t[i - 1] # Blank PROVE FALSE
          OBVIOUS
        <5>1. 1 \in 1..Len(tail)
          BY <3>2
        <5> QED BY <4>1, <4>2, <5>1
      <4>6. Keeps(p, tail, t, i)
        BY <4>1, <4>2, <4>3, <4>4, <4>5 DEF Keeps
      <4> QED BY <3>4, <3>6, <4>6
    <3> QED BY <3>5, <3>6
  <2>3. i = n + 1 \/ i \in 1..n
    BY <1>1
  <2> QED BY <2>1, <2>2, <2>3
<1> HIDE DEF Q
<1>4. \A d \in Nat : d \in Q
  BY <1>3, Descent
<1> USE DEF Q
<1>5. 1 \in 1..(n + 1) /\ n + 1 - 1 \in Nat
  BY <1>1
<1> QED BY <1>4, <1>5

(* Items that are side by side, without spaces, in what is kept.           *)
LEMMA KeptNext ==
  ASSUME NEW t, NEW s, NEW pos, Keeps(pos, s, t, 1), Len(s) \in Nat,
         NEW k \in 1..Len(s), NEW l \in 1..Len(s), pos[l] = pos[k] + 1
  PROVE  l = k + 1
<1>1. \A e, f \in 1..Len(s) : e < f => pos[e] < pos[f]
  BY DEF Keeps
<1>2. \A e \in 1..Len(s) : pos[e] \in Int
  BY DEF Keeps
<1>3. k \in Int /\ l \in Int /\ pos[k] \in Int /\ pos[l] \in Int
  BY <1>2
<1>4. ~(l < k) /\ l # k
  BY <1>1, <1>3
<1>5. ~(k + 1 < l)
  <2> SUFFICES ASSUME k + 1 < l PROVE FALSE
    OBVIOUS
  <2>1. k + 1 \in 1..Len(s) /\ k < k + 1
    BY <1>3
  <2>2. pos[k] < pos[k + 1] /\ pos[k + 1] < pos[l] /\ pos[k + 1] \in Int
    BY <1>1, <1>2, <2>1
  <2> QED BY <1>3, <2>2
<1> QED BY ONLY <1>3, <1>4, <1>5

(* A digit is one of ten.                                                  *)
LEMMA NoDigit ==
  ASSUME NEW c, c \notin {"0", "1", "2", "3", "4", "5", "6", "7", "8", "9"}
  PROVE  c \notin N!DigitChars
BY DEF N!DigitChars, N!DigitNames, N!ToSet

(* A word character is not a space.                                        *)
LEMMA WordFacts ==
  ASSUME NEW t, NEW k, N!Word(t, k) \/ N!Is(t, k, ",")
  PROVE  k \in DOMAIN t /\ t[k] # Blank
<1>1. " " \notin N!DigitChars \cup N!LetterChars
  <2>1. " " \notin N!DigitChars
    <3>1. " " \notin {"0", "1", "2", "3", "4", "5", "6", "7", "8", "9"}
      BY Zenon
    <3> QED BY <3>1, NoDigit, Zenon
  <2>2. " " \notin N!LetterChars
    BY Zenon DEF N!LetterChars
  <2> QED BY <2>1, <2>2, Zenon
<1>2. Blank[1] = "char" /\ Blank[2] = " "
  BY DEF Blank
<1>3. CASE N!Word(t, k)
  BY <1>1, <1>2, <1>3 DEF N!Word
<1>4. CASE N!Is(t, k, ",")
  <2>1. t[k] = <<"char", ",">> /\ k \in DOMAIN t
    BY <1>4 DEF N!Is
  <2>2. <<"char", ",">> # Blank
    BY DEF Blank
  <2> QED BY <2>1, <2>2
<1> QED BY <1>3, <1>4

(* What is left of digits is still between words, or too long, when spaces *)
(* have gone.                                                              *)
LEMMA RestKept ==
  ASSUME NEW t, IsSequence(t), IsRest(t), NEW r, IsSequence(r), NEW pos, Keeps(pos, r, t, 1)
  PROVE  IsRest(r)
<1>1. /\ Len(t) \in Nat /\ DOMAIN t = 1..Len(t)
      /\ Len(r) \in Nat /\ DOMAIN r = 1..Len(r)
  BY DEF IsSequence
<1>2. /\ \A k \in 1..Len(r) : pos[k] \in 1..Len(t) /\ r[k] = t[pos[k]]
      /\ \A k, l \in 1..Len(r) : k < l => pos[k] < pos[l]
      /\ \A e \in 1..Len(t) : t[e] # Blank => \E k \in 1..Len(r) : pos[k] = e
      /\ \A k \in 1..Len(r) :
           k + 1 <= Len(r) /\ r[k] # Blank /\ r[k + 1] # Blank => pos[k + 1] = pos[k] + 1
  BY DEF Keeps
<1> SUFFICES ASSUME NEW i \in 1..Len(r), NEW j \in 1..Len(r), N!Digits(r, i, j),
                    ~N!Word(r, i - 1), ~N!Word(r, j + 1)
             PROVE  LeftBy(r, i, j)
  BY <1>1 DEF IsRest, LeftBy
<1>3. i <= j /\ \A k \in i..j : N!Digit(r, k)
  BY DEF N!Digits
<1>4. \A k \in i..j : k \in 1..Len(r)
  BY <1>1
<1>5. \A k \in i..j : r[k] # Blank
  BY <1>3, DigitFacts, WordFacts
<1> DEFINE a == pos[i]
           b == a + (j - i)
<1>6. a \in 1..Len(t) /\ i \in Int /\ j \in Int /\ i \in i..j /\ j \in i..j
  BY <1>1, <1>2, <1>3
<1>7. \A k \in i..j : pos[k] = a + (k - i)
  <2>1. ASSUME NEW k \in i..j, k + 1 <= j PROVE pos[k + 1] = pos[k] + 1
    <3>1. k + 1 \in i..j
      BY <1>6, <2>1
    <3>2. k + 1 \in 1..Len(r) /\ k + 1 <= Len(r) /\ k \in 1..Len(r)
      BY <1>1, <1>4, <3>1
    <3> QED BY <1>2, <1>5, <3>1, <3>2
  <2>2. pos[i] \in Int /\ i <= j /\ \A k \in i..j : k + 1 <= j => pos[k + 1] = pos[k] + 1
    BY <1>3, <1>6, <2>1
  <2> QED BY <1>6, <2>2, Steady, Zenon
<1>8. b = pos[j] /\ b \in 1..Len(t) /\ a <= b
  <2>1. pos[j] = b
    BY <1>6, <1>7
  <2> QED BY <1>1, <1>2, <1>3, <1>6, <2>1
<1>9. N!Digits(t, a, b)
  <2> SUFFICES ASSUME NEW e \in a..b PROVE N!Digit(t, e)
    BY <1>8 DEF N!Digits
  <2> DEFINE k == i + (e - a)
  <2>1. k \in i..j /\ a + (k - i) = e
    BY <1>6, <1>8
  <2>2. pos[k] = e /\ k \in 1..Len(r) /\ N!Digit(r, k)
    BY <1>3, <1>4, <1>7, <2>1
  <2> HIDE DEF k
  <2> QED BY <1>1, <1>2, <2>2 DEF N!Digit
<1> HIDE DEF a, b
<1>10. ASSUME NEW k \in 1..Len(r), N!Word(t, pos[k]) PROVE N!Word(r, k)
  BY <1>1, <1>2, <1>10 DEF N!Word
<1>11. ~N!Word(t, a - 1)
  <2> SUFFICES ASSUME N!Word(t, a - 1) PROVE FALSE
    OBVIOUS
  <2>1. a - 1 \in 1..Len(t) /\ t[a - 1] # Blank
    BY <1>1, WordFacts
  <2>2. PICK k \in 1..Len(r) : pos[k] = a - 1
    BY <1>2, <2>1
  <2>3. pos[i] = pos[k] + 1
    BY <1>6, <2>2 DEF a
  <2>4. i = k + 1
    BY <1>1, <2>3, KeptNext
  <2>5. k = i - 1
    BY <2>4
  <2> QED BY <1>10, <2>2, <2>5
<1>12. ~N!Word(t, b + 1)
  <2> SUFFICES ASSUME N!Word(t, b + 1) PROVE FALSE
    OBVIOUS
  <2>1. b + 1 \in 1..Len(t) /\ t[b + 1] # Blank
    BY <1>1, WordFacts
  <2>2. PICK k \in 1..Len(r) : pos[k] = b + 1
    BY <1>2, <2>1
  <2>3. pos[k] = pos[j] + 1
    BY <1>8, <2>2
  <2>4. k = j + 1
    BY <1>1, <2>3, KeptNext
  <2> QED BY <1>10, <2>2, <2>4
<1>13. ~N!Digit(t, a - 1) /\ ~N!Digit(t, b + 1)
  BY <1>11, <1>12, DigitFacts
<1>14. LeftBy(t, a, b)
  BY <1>1, <1>6, <1>8, <1>9, <1>13 DEF IsRest
<1>15. \E m, n \in DOMAIN t : /\ m <= a /\ b <= n /\ IsRun(t, m, n)
                              /\ N!NumberOf(t, m, n) > MaxValue
  BY <1>11, <1>12, <1>14 DEF LeftBy
<1>16. PICK m, n \in 1..Len(t) : /\ m <= a /\ b <= n /\ IsRun(t, m, n)
                                 /\ N!NumberOf(t, m, n) > MaxValue
  BY <1>1, <1>15
<1> DEFINE at == [e \in m..n |-> CHOOSE k \in 1..Len(r) : pos[k] = e]
           c == at[m]
<1>17. m \in Int /\ n \in Int /\ m <= n /\ a \in m..n /\ b \in m..n /\ m \in m..n
  BY <1>6, <1>8, <1>16
<1>18. ASSUME NEW e \in m..n PROVE at[e] \in 1..Len(r) /\ pos[at[e]] = e
  <2>1. e \in 1..Len(t)
    BY <1>1, <1>16
  <2>2. N!Word(t, e) \/ N!Is(t, e, ",")
    <3>1. N!Digit(t, e) \/ N!Is(t, e, ",")
      BY <1>16 DEF IsRun
    <3> QED BY <3>1, DigitFacts
  <2>3. t[e] # Blank
    BY <2>2, WordFacts
  <2>4. \E k \in 1..Len(r) : pos[k] = e
    BY <1>2, <2>1, <2>3
  <2> QED BY <2>4
<1> HIDE DEF at
<1>19. ASSUME NEW e \in m..n, e + 1 <= n PROVE at[e + 1] = at[e] + 1
  <2>1. e + 1 \in m..n
    BY <1>17, <1>19
  <2>2. /\ at[e] \in 1..Len(r) /\ at[e + 1] \in 1..Len(r)
        /\ pos[at[e + 1]] = pos[at[e]] + 1
    BY <1>18, <2>1
  <2> QED BY <1>1, <2>2, KeptNext
<1>20. \A e \in m..n : at[e] = c + (e - m)
  <2>1. at[m] \in Int
    BY <1>17, <1>18
  <2>2. \A e \in m..n : e + 1 <= n => at[e + 1] = at[e] + 1
    BY <1>19
  <2> QED BY ONLY <1>17, <2>1, <2>2, Steady
<1>21. ASSUME NEW k \in 1..Len(r), NEW e \in m..n, pos[k] = e PROVE k = c + (e - m)
  <2>1. at[e] \in 1..Len(r) /\ pos[at[e]] = pos[k]
    BY <1>18, <1>21
  <2>2. pos[k] \in Int
    BY <1>2
  <2>3. ~(at[e] < k) /\ ~(k < at[e])
    BY <1>2, <2>1, <2>2
  <2>4. at[e] \in Int /\ k \in Int
    BY <2>1
  <2>5. at[e] = k
    BY ONLY <2>3, <2>4
  <2> QED BY <1>20, <2>5
<1>22. c \in 1..Len(r) /\ i = c + (a - m) /\ j = c + (b - m)
  BY <1>8, <1>17, <1>18, <1>21 DEF a
<1>23. /\ c + (n - m) \in 1..Len(r)
       /\ IsRun(r, c, c + (n - m)) /\ N!NumberOf(r, c, c + (n - m)) > MaxValue
  <2>1. ASSUME NEW e \in m..n PROVE c + (e - m) \in 1..Len(r) /\ r[c + (e - m)] = t[e]
    <3>1. at[e] = c + (e - m) /\ at[e] \in 1..Len(r) /\ pos[at[e]] = e
      BY <1>18, <1>20
    <3> QED BY <1>2, <3>1
  <2>2. m \in 1..Len(t) /\ n \in m..Len(t) /\ c \in Int
    BY <1>1, <1>16, <1>17, <1>22
  <2> HIDE DEF c
  <2> QED BY <1>16, <2>1, <2>2, SamePart
<1> HIDE DEF c
<1>24. c <= i /\ j <= c + (n - m)
  <2>1. c \in Int /\ a \in Int /\ b \in Int /\ m <= a /\ b <= n
    BY <1>6, <1>8, <1>16, <1>22
  <2> QED BY ONLY <1>17, <1>22, <2>1
<1> QED BY <1>1, <1>22, <1>23, <1>24 DEF LeftBy

(* When the spaces go, nothing else changes about the digits that are left. *)
LEMMA WhitespaceLeft ==
  ASSUME NormInv, N!NormalizeWhitespace, IsRest(text) PROVE IsRest(text')
<1>1. PICK from : IsDropping(from, text) /\ text' = from[1]
  BY BlanksDropped
<1>2. IsSequence(text) /\ IsSequence(from[1])
  <2>1. NormInv'
    BY WhitespacePass
  <2> QED BY <1>1, <2>1 DEF NormInv
<1>3. PICK pos : Keeps(pos, from[1], text, 1)
  BY <1>1, <1>2, DroppingKeeps
<1> QED BY <1>1, <1>2, <1>3, RestKept

\* Once the numbers are read, the digits that are left belong to words or to
\* numbers that are too long.
DigitsInv == NormInv /\ (pass \in {"whitespace", "done"} => IsRest(text))

(* Every step keeps that: only the last two passes come this far.          *)
LEMMA DigitsSteps == DigitsInv /\ [Next]_vars => DigitsInv'
<1> SUFFICES ASSUME DigitsInv, [Next]_vars PROVE DigitsInv'
  OBVIOUS
<1>1. NormInv /\ NormInv' /\ IsSequence(text')
  <2>1. NormInv
    BY DEF DigitsInv
  <2>2. NormInv'
    BY <2>1, NormSteps
  <2> QED BY <2>1, <2>2 DEF NormInv
<1> SUFFICES ASSUME pass' \in {"whitespace", "done"} PROVE IsRest(text')
  BY <1>1 DEF DigitsInv
<1>2. CASE UNCHANGED textVars
  BY <1>2 DEF DigitsInv, IsRest, LeftBy, textVars
<1>3. ASSUME NEW this, NEW next, next \notin {"whitespace", "done"}, NEW r,
             N!Pass(this, r, next)
      PROVE  FALSE
  <2>1. text' = r
    BY <1>3 DEF N!Pass
  <2>2. pass' = next \/ pass' \in Ended
    BY <1>1, <1>3, <2>1, PassFacts
  <2> QED BY <1>3, <2>2 DEF Ended
<1>4. CASE N!ExpandAbbreviations
  BY <1>3, <1>4 DEF N!ExpandAbbreviations
<1>5. CASE N!ExpandCurrency
  BY <1>3, <1>5 DEF N!ExpandCurrency
<1>6. CASE N!ExpandOrdinals
  BY <1>3, <1>6 DEF N!ExpandOrdinals
<1>7. CASE N!ExpandNumbers
  <2>1. pass' \notin Ended
    BY DEF Ended
  <2> QED BY <1>1, <1>7, <2>1, NumbersLeft
<1>8. CASE N!NormalizeWhitespace
  <2>1. pass = "whitespace"
    BY <1>8 DEF N!NormalizeWhitespace, N!Pass
  <2>2. IsRest(text)
    BY <2>1 DEF DigitsInv
  <2> QED BY <1>1, <1>8, <2>2, WhitespaceLeft
<1>9. UNCHANGED textVars \/ Normalize
  BY DEF Next, Fetch, Construct, Pronounce, vars
<1> QED BY <1>2, <1>4, <1>5, <1>6, <1>7, <1>8, <1>9 DEF Normalize, N!Next

(* The digits that are left for the pronunciation are part of a word,      *)
(* follow the words of an amount, or belong to a number of digits and      *)
(* commas that stoll cannot hold: the regular expression of the numbers    *)
(* misses no others.                                                       *)
THEOREM DigitsCorrect == Spec => []DigitsLeftInWords
<1>1. Init => DigitsInv
  <2>1. Init => pass = "abbreviations"
    BY DEF Init, N!Init
  <2> QED BY <2>1, NormStart DEF DigitsInv
<1>2. DigitsInv => DigitsLeftInWords
  <2> SUFFICES ASSUME IsRest(text), NEW i \in DOMAIN text, NEW j \in DOMAIN text,
                      N!Digits(text, i, j), ~N!Digit(text, i - 1), ~N!Digit(text, j + 1)
               PROVE  \/ N!Word(text, i - 1) \/ N!Word(text, j + 1)
                      \/ \E m, n \in DOMAIN text :
                           /\ m <= i /\ j <= n /\ N!TooLong(N!NumberOf(text, m, n))
                           /\ \A k \in m..n : N!Digit(text, k) \/ N!Is(text, k, ",")
    BY DEF DigitsInv, DigitsLeftInWords, N!DigitsLeftInWords
  <2>1. LeftBy(text, i, j)
    BY DEF IsRest
  <2> QED BY <2>1 DEF LeftBy, IsRun, N!TooLong
<1> QED BY <1>1, <1>2, DigitsSteps, PTL DEF Spec

-----------------------------------------------------------------------------
(* The parts of a text between its spaces                                  *)

\* From i on there is no space up to q, and there is one behind it or nothing.
Runs(t, i, q) ==
  /\ i \in 1..Len(t) /\ q \in i..Len(t) /\ \A k \in i..q : t[k] # Blank
  /\ q = Len(t) \/ t[q + 1] = Blank

IsChunk(t, p, q) == Runs(t, p, q) /\ (p = 1 \/ t[p - 1] = Blank)

\* What the chunks of a text are, from each of its items on.
IsChunks(rows, t, W) ==
  /\ rows \in [1..(Len(t) + 1) -> Seq(W)]
  /\ rows[Len(t) + 1] = <<>>
  /\ \A i \in 1..Len(t) : t[i] = Blank => rows[i] = rows[i + 1]
  /\ \A i, q \in 1..Len(t) : Runs(t, i, q) => rows[i] = <<SubSeq(t, i, q)>> \o rows[q + 1]
  /\ N!Chunks(t) = rows[1]

(* There is an end to what has no space.                                   *)
LEMMA RunEnds ==
  ASSUME NEW V, NEW t \in Seq(V), NEW i \in 1..Len(t), t[i] # Blank,
         NEW E, E = {j \in i..Len(t) : \A k \in i..j : t[k] # Blank}
  PROVE  /\ E # {} /\ Max(E) \in E /\ Runs(t, i, Max(E))
         /\ \A q : Runs(t, i, q) => q = Max(E)
<1>1. Len(t) \in Nat /\ i \in Int /\ i \in i..Len(t)
  OBVIOUS
<1>2. i \in E
  BY <1>1
<1>3. E \in SUBSET (0..Len(t))
  BY <1>1
<1>4. Max(E) \in E /\ \A y \in E : y <= Max(E)
  BY <1>1, <1>2, <1>3, MaxFacts
<1> DEFINE m == Max(E)
<1>5. m \in i..Len(t) /\ \A k \in i..m : t[k] # Blank
  BY <1>4
<1>6. \A y \in E : y <= m
  BY <1>4
<1> HIDE DEF m
<1>7. m = Len(t) \/ t[m + 1] = Blank
  <2> SUFFICES ASSUME m # Len(t), t[m + 1] # Blank PROVE FALSE
    OBVIOUS
  <2>1. m + 1 \in i..Len(t) /\ \A k \in i..(m + 1) : k \in i..m \/ k = m + 1
    BY <1>1, <1>5
  <2>2. m + 1 \in E
    BY <1>5, <2>1
  <2> QED BY <1>5, <1>6, <2>2
<1>8. ASSUME NEW q, Runs(t, i, q) PROVE q = m
  <2>1. q \in i..Len(t) /\ (\A k \in i..q : t[k] # Blank) /\ (q = Len(t) \/ t[q + 1] = Blank)
    BY <1>8 DEF Runs
  <2>2. q <= m
    BY <1>6, <2>1
  <2>3. ~(q < m)
    <3> SUFFICES ASSUME q < m PROVE FALSE
      OBVIOUS
    <3>1. q + 1 \in i..m /\ q # Len(t)
      BY <1>1, <1>5, <2>1
    <3> QED BY <1>5, <2>1, <3>1
  <2> QED BY <1>5, <2>1, <2>2, <2>3
<1> QED BY <1>2, <1>5, <1>7, <1>8, <1>4 DEF Runs, m

(* The chunks of a text, from its end to its start.                        *)
LEMMA ChunkRows ==
  ASSUME NEW V, NEW t \in Seq(V)
  PROVE  \E rows : IsChunks(rows, t, V \cup Seq(V))
<1> DEFINE n == Len(t)
           W == V \cup Seq(V)
           ends == [i \in DOMAIN t |->
                      IF N!Is(t, i, " ") THEN {i}
                      ELSE {j \in i..Len(t) : \A k \in i..j : ~N!Is(t, k, " ")}]
           put  == [i \in DOMAIN t |-> [j \in DOMAIN t |->
                      IF N!Is(t, i, " ") THEN <<>> ELSE <<SubSeq(t, i, j)>>]]
           E(i) == {j \in i..n : \A k \in i..j : t[k] # Blank}
<1>1. n \in Nat /\ DOMAIN t = 1..n /\ t \in Seq(W)
  OBVIOUS
<1>2. \A k \in 1..n : N!Is(t, k, " ") <=> t[k] = Blank
  BY <1>1 DEF N!Is, Blank
<1>3. ASSUME NEW i \in 1..n, t[i] = Blank PROVE ends[i] = {i} /\ put[i][i] = <<>>
  BY <1>1, <1>2, <1>3
<1>4. ASSUME NEW i \in 1..n, t[i] # Blank
      PROVE  ends[i] = E(i) /\ \A j \in 1..n : put[i][j] = <<SubSeq(t, i, j)>>
  <2>1. ~N!Is(t, i, " ")
    BY <1>2, <1>4
  <2>2. ends[i] = {j \in i..n : \A k \in i..j : ~N!Is(t, k, " ")}
    BY <1>1, <2>1
  <2>3. \A j \in i..n : \A k \in i..j : k \in 1..n
    BY <1>1
  <2>4. ends[i] = E(i)
    <3> HIDE DEF ends
    <3> QED BY <1>2, <2>2, <2>3
  <2>5. \A j \in 1..n : put[i][j] = <<SubSeq(t, i, j)>>
    BY <1>1, <2>1
  <2> QED BY <2>4, <2>5
<1>5. N!Chunks(t) = N!Rewrite(t, ends, put)
  BY DEF N!Chunks
<1> HIDE DEF ends, put
<1>6. ASSUME NEW i \in 1..n
      PROVE  Max({i}) = i /\ (t[i] # Blank => E(i) # {} /\ Max(E(i)) \in E(i))
  <2>1. {i} \in SUBSET (0..n)
    OBVIOUS
  <2>2. Max({i}) = i
    BY <1>1, <2>1, MaxFacts
  <2> QED BY <2>2, RunEnds
<1>7. IsMatching(t, ends, put, W)
  <2>1. ASSUME NEW i \in 1..n
        PROVE  ends[i] \subseteq i..n /\ (ends[i] # {} => put[i][Max(ends[i])] \in Seq(W))
    <3>1. CASE t[i] = Blank
      <4>1. <<>> \in Seq(W) /\ i \in i..n
        BY <1>1
      <4>2. ends[i] = {i} /\ put[i][Max(ends[i])] = <<>>
        BY <1>3, <1>6, <3>1
      <4> QED BY <4>1, <4>2
    <3>2. CASE t[i] # Blank
      <4> DEFINE j == Max(E(i))
      <4>1. j \in E(i)
        BY <1>6, <3>2
      <4>2. j \in i..n
        BY <4>1
      <4>3. ends[i] = E(i)
        BY <1>4, <3>2
      <4> HIDE DEF j
      <4>4. SubSeq(t, i, j) \in Seq(V) /\ j \in 1..n
        BY <1>1, <4>2
      <4>5. <<SubSeq(t, i, j)>> \in Seq(W)
        BY <4>4
      <4>6. put[i][j] = <<SubSeq(t, i, j)>>
        BY <1>4, <3>2, <4>4
      <4>7. Max(ends[i]) = j
        BY <4>3 DEF j
      <4> QED BY <4>3, <4>5, <4>6, <4>7
    <3> QED BY <3>1, <3>2
  <2> QED BY <2>1 DEF IsMatching
<1>8. PICK rows : IsRewrite(rows, t, ends, put, W)
  BY <1>1, <1>7, RewriteRows
<1>9. /\ rows \in [1..(n + 1) -> Seq(W)] /\ rows[n + 1] = <<>>
      /\ N!Chunks(t) = rows[1]
      /\ \A i \in 1..n : ends[i] # {} => rows[i] = put[i][Max(ends[i])] \o rows[Max(ends[i]) + 1]
  BY <1>5, <1>8 DEF IsRewrite
<1>10. ASSUME NEW i \in 1..n, t[i] = Blank PROVE rows[i] = rows[i + 1]
  <2>1. rows[i] = <<>> \o rows[i + 1]
    BY <1>3, <1>6, <1>9, <1>10
  <2>2. rows[i + 1] \in Seq(W)
    <3>1. i + 1 \in 1..(n + 1)
      BY <1>1
    <3> QED BY <1>9, <3>1
  <2> QED BY <2>1, <2>2
<1>11. ASSUME NEW i \in 1..n, NEW q \in 1..n, Runs(t, i, q)
       PROVE  rows[i] = <<SubSeq(t, i, q)>> \o rows[q + 1]
  <2>1. t[i] # Blank
    <3>1. q \in i..n /\ \A k \in i..q : t[k] # Blank
      BY <1>11 DEF Runs
    <3>2. i \in i..q
      BY <3>1
    <3> QED BY <3>1, <3>2
  <2>2. q = Max(E(i)) /\ E(i) # {}
    BY <1>11, <2>1, RunEnds
  <2>3. ends[i] = E(i) /\ put[i][q] = <<SubSeq(t, i, q)>>
    BY <1>4, <2>1
  <2>4. ends[i] # {} /\ Max(ends[i]) = q
    BY <2>2, <2>3
  <2> QED BY <1>9, <2>3, <2>4
<1> HIDE DEF W
<1>12. IsChunks(rows, t, W)
  BY <1>9, <1>10, <1>11 DEF IsChunks
<1> QED BY <1>12 DEF W

\* s is what r ends with, from behind its item m on.
IsEnd(s, r, m) ==
  m \in Nat /\ Len(r) = m + Len(s) /\ \A k \in 1..Len(s) : r[m + k] = s[k]

(* What has no space starts and ends in the same place behind other text.  *)
LEMMA RunShifted ==
  ASSUME NEW V, NEW s \in Seq(V), NEW r \in Seq(V), NEW m \in Nat, IsEnd(s, r, m),
         NEW i \in Int, NEW q \in Int, Runs(s, i, q)
  PROVE  /\ Runs(r, m + i, m + q)
         /\ SubSeq(r, m + i, m + q) = SubSeq(s, i, q)
<1> DEFINE n == Len(s)
<1>1. /\ m \in Nat /\ n \in Nat /\ Len(r) = m + n /\ r \in Seq(V)
      /\ \A k \in 1..n : r[m + k] = s[k]
  BY DEF IsEnd
<1> HIDE DEF n
<1>2. /\ i \in 1..n /\ q \in i..n /\ \A k \in i..q : s[k] # Blank
      /\ q = n \/ s[q + 1] = Blank
  BY DEF Runs, n
<1>3. m + i \in 1..Len(r) /\ m + q \in (m + i)..Len(r)
  BY <1>1, <1>2
<1>4. ASSUME NEW k \in (m + i)..(m + q) PROVE r[k] # Blank
  <2>1. k - m \in i..q /\ k - m \in 1..n /\ m + (k - m) = k
    BY <1>1, <1>2
  <2> QED BY <1>1, <1>2, <2>1
<1>5. m + q = Len(r) \/ r[(m + q) + 1] = Blank
  <2> SUFFICES ASSUME q # n PROVE r[(m + q) + 1] = Blank
    BY <1>1
  <2>1. q + 1 \in 1..n /\ (m + q) + 1 = m + (q + 1)
    BY <1>1, <1>2
  <2> QED BY <1>1, <1>2, <2>1
<1>6. SubSeq(r, m + i, m + q) = SubSeq(s, i, q)
  <2> DEFINE x == m + i
             y == m + q
  <2>1. /\ x \in 1..Len(r) /\ y \in x..Len(r) /\ y - x = q - i
        /\ \A k \in 1..(q - i + 1) : x + k - 1 = m + (i + k - 1) /\ i + k - 1 \in 1..n
    BY <1>1, <1>2, <1>3
  <2> HIDE DEF x, y
  <2>2. SubSeq(r, x, y) = [k \in 1..(y - x + 1) |-> r[x + k - 1]]
    <3>1. x \in 1..Len(r) /\ y \in x..Len(r)
      BY <2>1
    <3> QED BY <3>1
  <2>3. SubSeq(s, i, q) = [k \in 1..(q - i + 1) |-> s[i + k - 1]]
    <3>1. i \in 1..Len(s) /\ q \in i..Len(s)
      BY <1>2 DEF n
    <3> QED BY <3>1
  <2>4. ASSUME NEW k \in 1..(q - i + 1) PROVE r[x + k - 1] = s[i + k - 1]
    <3> DEFINE j == i + k - 1
    <3>1. x + k - 1 = m + j /\ j \in 1..n
      BY <2>1
    <3> HIDE DEF j
    <3>2. r[m + j] = s[j]
      BY <1>1, <3>1
    <3> QED BY <3>1, <3>2 DEF j
  <2>5. SubSeq(r, x, y) = SubSeq(s, i, q)
    BY <2>1, <2>2, <2>3, <2>4
  <2> QED BY <2>5 DEF x, y
<1> QED BY <1>3, <1>4, <1>5, <1>6 DEF Runs

(* Chunks are what they are, whatever is in front of them.                 *)
LEMMA ChunksShifted ==
  ASSUME NEW V, NEW s \in Seq(V), NEW r \in Seq(V), NEW m \in Nat, IsEnd(s, r, m),
         NEW a, NEW b, NEW W, IsChunks(a, r, W), IsChunks(b, s, W)
  PROVE  a[m + 1] = b[1]
<1> DEFINE n == Len(s)
<1>1. /\ m \in Nat /\ n \in Nat /\ Len(r) = m + n
      /\ \A k \in 1..n : r[m + k] = s[k]
  BY DEF IsEnd
<1>2. /\ a[m + n + 1] = <<>>
      /\ \A i \in 1..(m + n) : r[i] = Blank => a[i] = a[i + 1]
      /\ \A i, q \in 1..(m + n) : Runs(r, i, q) => a[i] = <<SubSeq(r, i, q)>> \o a[q + 1]
  <2> DEFINE e == Len(r)
  <2>1. /\ a[e + 1] = <<>>
        /\ \A i \in 1..e : r[i] = Blank => a[i] = a[i + 1]
        /\ \A i, q \in 1..e : Runs(r, i, q) => a[i] = <<SubSeq(r, i, q)>> \o a[q + 1]
    BY DEF IsChunks
  <2>2. e = m + n
    BY <1>1
  <2> HIDE DEF e, n
  <2> QED BY ONLY <2>1, <2>2
<1>3. /\ b[n + 1] = <<>>
      /\ \A i \in 1..n : s[i] = Blank => b[i] = b[i + 1]
      /\ \A i, q \in 1..n : Runs(s, i, q) => b[i] = <<SubSeq(s, i, q)>> \o b[q + 1]
  BY DEF IsChunks
<1> DEFINE Q == {d \in Nat : \A i \in 1..(n + 1) : n + 1 - i = d => a[m + i] = b[i]}
<1>4. ASSUME NEW d \in Nat, \A e \in Nat : e < d => e \in Q PROVE d \in Q
  <2> SUFFICES ASSUME NEW i \in 1..(n + 1), n + 1 - i = d PROVE a[m + i] = b[i]
    OBVIOUS
  <2>0. ASSUME NEW j \in (i + 1)..(n + 1) PROVE a[m + j] = b[j]
    <3>1. j \in 1..(n + 1) /\ n + 1 - j \in Nat /\ n + 1 - j < d
      BY <1>1
    <3> QED BY <1>4, <3>1
  <2> HIDE DEF Q
  <2>1. CASE i = n + 1
    <3>1. m + i = m + n + 1
      BY <1>1, <2>1
    <3> QED BY <1>2, <1>3, <2>1, <3>1
  <2>2. CASE i # n + 1 /\ s[i] = Blank
    <3>1. i \in 1..n /\ i + 1 \in (i + 1)..(n + 1) /\ m + i \in 1..(m + n)
          /\ (m + i) + 1 = m + (i + 1)
      BY <1>1, <2>2
    <3>2. r[m + i] = Blank
      BY <1>1, <2>2, <3>1
    <3>3. a[m + i] = a[m + (i + 1)] /\ b[i] = b[i + 1]
      BY <1>2, <1>3, <2>2, <3>1, <3>2
    <3> QED BY <2>0, <3>1, <3>3
  <2>3. CASE i # n + 1 /\ s[i] # Blank
    <3>1. i \in 1..n
      BY <1>1, <2>3
    <3>2. PICK q : Runs(s, i, q)
      BY <2>3, <3>1, RunEnds
    <3>3. q \in i..n
      BY <3>2 DEF Runs
    <3>4. /\ q \in 1..n /\ q + 1 \in (i + 1)..(n + 1)
          /\ m + i \in 1..(m + n) /\ m + q \in 1..(m + n) /\ (m + q) + 1 = m + (q + 1)
      BY <1>1, <3>1, <3>3
    <3>5. Runs(r, m + i, m + q) /\ SubSeq(r, m + i, m + q) = SubSeq(s, i, q)
      <4>1. i \in Int /\ q \in Int
        BY <3>1, <3>4
      <4> QED BY <3>2, <4>1, RunShifted
    <3>6. a[m + i] = <<SubSeq(s, i, q)>> \o a[m + (q + 1)]
      BY <1>2, <3>4, <3>5
    <3>7. b[i] = <<SubSeq(s, i, q)>> \o b[q + 1]
      BY <1>3, <3>1, <3>2, <3>4
    <3> QED BY <2>0, <3>4, <3>6, <3>7
  <2> QED BY <2>1, <2>2, <2>3
<1> HIDE DEF Q
<1>5. \A d \in Nat : d \in Q
  BY <1>4, Descent
<1> USE DEF Q
<1>6. 1 \in 1..(n + 1) /\ n + 1 - 1 \in Nat
  BY <1>1
<1> QED BY <1>5, <1>6

(* The chunks of nothing, after a space, and of what has no space and then *)
(* the rest.                                                               *)
LEMMA ChunkFacts ==
  ASSUME NEW V, Blank \in V, NEW s \in Seq(V)
  PROVE  /\ N!Chunks(s) \in Seq(V \cup Seq(V))
         /\ Len(s) = 0 => N!Chunks(s) = <<>>
         /\ N!Chunks(<<Blank>> \o s) = N!Chunks(s)
         /\ \A u \in Seq(V) :
              /\ Len(u) > 0 /\ \A k \in 1..Len(u) : u[k] # Blank
              /\ Len(s) > 0 => s[1] = Blank
              => N!Chunks(u \o s) = <<u>> \o N!Chunks(s)
<1> DEFINE W == V \cup Seq(V)
           n == Len(s)
<1>1. PICK b : IsChunks(b, s, W)
  BY ChunkRows
<1>2. n \in Nat /\ N!Chunks(s) = b[1]
  BY <1>1 DEF IsChunks
<1>3. b[1] \in Seq(W) /\ (n = 0 => b[1] = <<>>)
  <2>1. b \in [1..(n + 1) -> Seq(W)] /\ b[n + 1] = <<>> /\ 1 \in 1..(n + 1)
    BY <1>1, <1>2 DEF IsChunks
  <2> QED BY <2>1
<1>4. N!Chunks(<<Blank>> \o s) = b[1]
  <2> DEFINE r == <<Blank>> \o s
  <2>1. <<Blank>> \in Seq(V) /\ Len(<<Blank>>) = 1 /\ r \in Seq(V)
        /\ Len(r) = n + 1 /\ r[1] = Blank
    BY <1>2
  <2> HIDE DEF r
  <2>2. PICK a : IsChunks(a, r, W)
    BY <2>1, ChunkRows
  <2>3. a[Len(<<Blank>>) + 1] = b[1]
    <3>1. IsEnd(s, r, 1)
      BY <1>2, <2>1 DEF IsEnd, r
    <3>2. a[1 + 1] = b[1]
      BY <1>1, <2>1, <2>2, <3>1, ChunksShifted
    <3> QED BY <2>1, <3>2
  <2>4. 1 \in 1..Len(r)
    BY <1>2, <2>1
  <2>5. a[1] = a[1 + 1] /\ N!Chunks(r) = a[1]
    BY <2>1, <2>2, <2>4 DEF IsChunks
  <2>6. N!Chunks(r) = b[1]
    BY <2>1, <2>3, <2>5
  <2> QED BY <2>6 DEF r
<1>5. ASSUME NEW u \in Seq(V), Len(u) > 0, \A k \in 1..Len(u) : u[k] # Blank,
             n > 0 => s[1] = Blank
      PROVE  N!Chunks(u \o s) = <<u>> \o b[1]
  <2> DEFINE r == u \o s
             m == Len(u)
  <2>1. /\ m \in Nat /\ m > 0 /\ r \in Seq(V) /\ Len(r) = m + n
        /\ \A k \in 1..m : r[k] = u[k]
        /\ n > 0 => r[m + 1] = s[1]
    BY <1>2, <1>5
  <2>2. SubSeq(r, 1, m) = u
    BY <1>2, <2>1
  <2> HIDE DEF r, m
  <2>3. PICK a : IsChunks(a, r, W)
    BY <2>1, ChunkRows
  <2>4. a[m + 1] = b[1]
    <3>1. IsEnd(s, r, m)
      BY <1>2, <2>1 DEF IsEnd, r, m
    <3> QED BY <1>1, <2>1, <2>3, <3>1, ChunksShifted
  <2>5. 1 \in 1..Len(r) /\ m \in 1..Len(r) /\ m \in 1..m
    BY <1>2, <2>1
  <2>6. Runs(r, 1, m)
    <3>1. \A k \in 1..m : r[k] # Blank
      BY <1>5, <2>1 DEF m
    <3>2. m = Len(r) \/ r[m + 1] = Blank
      <4>1. n = 0 => m = Len(r)
        BY <1>2, <2>1
      <4>2. n # 0 => n > 0
        BY <1>2
      <4> QED BY <1>5, <2>1, <4>1, <4>2
    <3>3. m \in 1..Len(r)
      BY <2>5
    <3> QED BY <2>5, <3>1, <3>2, <3>3 DEF Runs
  <2>7. a[1] = <<SubSeq(r, 1, m)>> \o a[m + 1] /\ N!Chunks(r) = a[1]
    BY <2>3, <2>5, <2>6 DEF IsChunks
  <2>8. N!Chunks(r) = <<u>> \o b[1]
    BY <2>2, <2>4, <2>7
  <2> QED BY <2>8 DEF r
<1> QED BY <1>2, <1>3, <1>4, <1>5

\* What becomes of a text from each of its items on, and of each of its
\* chunks: they stay apart, and so do their pieces.
IsTurn(from, piece, t, V) ==
  /\ from \in [1..(Len(t) + 1) -> Seq(V)]
  /\ from[Len(t) + 1] = <<>>
  /\ \A i \in 1..Len(t) :
       t[i] = Blank => from[i] = from[i + 1] \/ from[i] = <<Blank>> \o from[i + 1]
  /\ \A p, q \in 1..Len(t) : IsChunk(t, p, q) =>
       /\ from[p] = piece[p] \o from[q + 1]
       /\ piece[p] \in Seq(V) /\ Len(piece[p]) > 0
       /\ \A k \in 1..Len(piece[p]) : piece[p][k] # Blank
       /\ Len(from[q + 1]) > 0 => from[q + 1][1] = Blank

\* made are the pieces of the chunks that there were.
IsTurned(made, chunks, piece, t) ==
  /\ Len(made) = Len(chunks)
  /\ \A k \in 1..Len(chunks) : \E p, q \in 1..Len(t) :
       IsChunk(t, p, q) /\ chunks[k] = SubSeq(t, p, q) /\ made[k] = piece[p]

(* Each chunk of a text becomes its piece, and there are no others.        *)
LEMMA ChunksTurn ==
  ASSUME NEW V, Blank \in V, NEW t \in Seq(V), NEW from, NEW piece, IsTurn(from, piece, t, V)
  PROVE  IsTurned(N!Chunks(from[1]), N!Chunks(t), piece, t)
<1> DEFINE n == Len(t)
           W == V \cup Seq(V)
           C(i) == N!Chunks(from[i])
           Border(i) == i = 1 \/ i = n + 1 \/ t[i - 1] = Blank \/ t[i] = Blank
<1>1. /\ n \in Nat
      /\ \A i \in 1..(n + 1) : from[i] \in Seq(V)
      /\ from[n + 1] = <<>>
      /\ \A i \in 1..n : t[i] = Blank => from[i] = from[i + 1] \/ from[i] = <<Blank>> \o from[i + 1]
  BY DEF IsTurn
<1>2. ASSUME NEW p \in 1..n, NEW q \in 1..n, IsChunk(t, p, q)
      PROVE  /\ from[p] = piece[p] \o from[q + 1]
             /\ piece[p] \in Seq(V) /\ Len(piece[p]) > 0
             /\ \A k \in 1..Len(piece[p]) : piece[p][k] # Blank
             /\ Len(from[q + 1]) > 0 => from[q + 1][1] = Blank
  BY <1>2 DEF IsTurn
<1>3. PICK b : IsChunks(b, t, W)
  BY ChunkRows
<1>4. /\ b \in [1..(n + 1) -> Seq(W)] /\ b[n + 1] = <<>> /\ N!Chunks(t) = b[1]
      /\ \A i \in 1..n : t[i] = Blank => b[i] = b[i + 1]
      /\ \A i, q \in 1..n : Runs(t, i, q) => b[i] = <<SubSeq(t, i, q)>> \o b[q + 1]
  BY <1>3 DEF IsChunks
<1>5. ASSUME NEW i \in 1..(n + 1) PROVE C(i) \in Seq(W) /\ b[i] \in Seq(W)
  BY <1>1, <1>4, ChunkFacts
<1> DEFINE Q == {d \in Nat : \A i \in 1..(n + 1) :
                   n + 1 - i = d /\ Border(i) => IsTurned(C(i), b[i], piece, t)}
<1>6. ASSUME NEW d \in Nat, \A e \in Nat : e < d => e \in Q PROVE d \in Q
  <2> SUFFICES ASSUME NEW i \in 1..(n + 1), n + 1 - i = d, Border(i)
               PROVE  IsTurned(C(i), b[i], piece, t)
    OBVIOUS
  <2>0. ASSUME NEW j \in (i + 1)..(n + 1), Border(j) PROVE IsTurned(C(j), b[j], piece, t)
    <3>1. j \in 1..(n + 1) /\ n + 1 - j \in Nat /\ n + 1 - j < d
      BY <1>1
    <3> QED BY <1>6, <2>0, <3>1
  <2> HIDE DEF Q, C
  <2>1. CASE i = n + 1
    <3>1. C(i) = <<>>
      <4>1. from[i] \in Seq(V) /\ Len(from[i]) = 0
        BY <1>1, <2>1
      <4> QED BY <4>1, ChunkFacts DEF C
    <3>2. b[i] = <<>>
      BY <1>4, <2>1
    <3> QED BY <3>1, <3>2 DEF IsTurned
  <2>2. CASE i # n + 1 /\ t[i] = Blank
    <3>1. i \in 1..n /\ i + 1 \in (i + 1)..(n + 1) /\ i + 1 \in 1..(n + 1) /\ (i + 1) - 1 = i
      BY <1>1, <2>2
    <3>2. Border(i + 1)
      BY <2>2, <3>1
    <3>3. b[i] = b[i + 1]
      BY <1>4, <2>2, <3>1
    <3>4. C(i) = C(i + 1)
      <4>1. from[i] = from[i + 1] \/ from[i] = <<Blank>> \o from[i + 1]
        BY <1>1, <2>2, <3>1
      <4>2. from[i + 1] \in Seq(V)
        BY <1>1, <3>1
      <4>3. N!Chunks(<<Blank>> \o from[i + 1]) = N!Chunks(from[i + 1])
        BY <4>2, ChunkFacts
      <4> QED BY <4>1, <4>3 DEF C
    <3>5. IsTurned(C(i + 1), b[i + 1], piece, t)
      BY <2>0, <3>1, <3>2
    <3> QED BY <3>3, <3>4, <3>5
  <2>3. CASE i # n + 1 /\ t[i] # Blank
    <3>1. i \in 1..n /\ (i = 1 \/ t[i - 1] = Blank)
      BY <1>1, <2>3
    <3>2. PICK q \in 1..n : Runs(t, i, q) /\ q >= i
      <4>1. PICK q : Runs(t, i, q)
        BY <2>3, <3>1, RunEnds
      <4>2. q \in i..n
        BY <4>1 DEF Runs
      <4>3. q \in 1..n /\ q >= i
        BY <3>1, <4>2
      <4> QED BY <4>1, <4>3
    <3>3. IsChunk(t, i, q)
      BY <3>1, <3>2 DEF IsChunk
    <3>4. q + 1 \in (i + 1)..(n + 1) /\ q + 1 \in 1..(n + 1)
      BY <1>1, <3>2
    <3>5. Border(q + 1)
      <4>1. q = n \/ t[q + 1] = Blank
        BY <3>2 DEF Runs
      <4> QED BY <4>1
    <3>6. IsTurned(C(q + 1), b[q + 1], piece, t)
      BY <2>0, <3>4, <3>5
    <3>7. b[i] = <<SubSeq(t, i, q)>> \o b[q + 1]
      BY <1>4, <3>1, <3>2
    <3>8. C(i) = <<piece[i]>> \o C(q + 1)
      <4>1. /\ from[i] = piece[i] \o from[q + 1]
            /\ piece[i] \in Seq(V) /\ Len(piece[i]) > 0
            /\ \A k \in 1..Len(piece[i]) : piece[i][k] # Blank
            /\ Len(from[q + 1]) > 0 => from[q + 1][1] = Blank
        BY <1>2, <3>1, <3>3
      <4>2. from[q + 1] \in Seq(V)
        BY <1>1, <3>4
      <4>3. N!Chunks(piece[i] \o from[q + 1]) = <<piece[i]>> \o N!Chunks(from[q + 1])
        BY <4>1, <4>2, ChunkFacts
      <4> QED BY <4>1, <4>3 DEF C
    <3> DEFINE c == C(q + 1)
               d1 == b[q + 1]
               x == SubSeq(t, i, q)
               y == piece[i]
    <3>9. c \in Seq(W) /\ d1 \in Seq(W) /\ x \in W /\ y \in W
      <4>1. x \in Seq(V)
        BY <3>1, <3>2
      <4>2. y \in Seq(V)
        BY <1>2, <3>1, <3>3
      <4> QED BY <1>5, <3>4, <4>1, <4>2 DEF C
    <3>10. b[i] = <<x>> \o d1 /\ C(i) = <<y>> \o c /\ IsTurned(c, d1, piece, t)
      BY <3>6, <3>7, <3>8
    <3>11. IsChunk(t, i, q) /\ i \in 1..n /\ q \in 1..n /\ x = SubSeq(t, i, q) /\ y = piece[i]
      BY <3>1, <3>3
    <3> DEFINE bi == b[i]
               ci == C(i)
    <3>12. /\ Len(bi) = Len(d1) + 1 /\ Len(ci) = Len(c) + 1
           /\ bi[1] = x /\ ci[1] = y /\ Len(c) \in Nat /\ Len(d1) \in Nat
           /\ \A k \in 1..Len(d1) : bi[k + 1] = d1[k]
           /\ \A k \in 1..Len(c) : ci[k + 1] = c[k]
      <4>1. bi = <<x>> \o d1 /\ ci = <<y>> \o c
        BY <3>10
      <4> HIDE DEF x, y, c, d1, bi, ci, W
      <4> QED BY ONLY <3>9, <4>1
    <3> HIDE DEF x, y, c, d1, bi, ci, W
    <3>13. ASSUME NEW k \in 1..Len(bi)
           PROVE  \E p, o \in 1..Len(t) :
                    IsChunk(t, p, o) /\ bi[k] = SubSeq(t, p, o) /\ ci[k] = piece[p]
      <4>1. CASE k = 1
        BY <3>11, <3>12, <4>1
      <4>2. CASE k # 1
        <5>1. k - 1 \in 1..Len(d1) /\ k - 1 \in 1..Len(c) /\ (k - 1) + 1 = k
          BY <3>10, <3>12, <4>2 DEF IsTurned
        <5>2. bi[k] = d1[k - 1] /\ ci[k] = c[k - 1]
          BY <3>12, <5>1
        <5> QED BY <3>10, <5>1, <5>2 DEF IsTurned
      <4> QED BY <4>1, <4>2
    <3>14. Len(ci) = Len(bi)
      BY <3>10, <3>12 DEF IsTurned
    <3>15. IsTurned(ci, bi, piece, t)
      BY <3>13, <3>14 DEF IsTurned
    <3> QED BY <3>15 DEF bi, ci
  <2> QED BY <2>1, <2>2, <2>3
<1> HIDE DEF Q
<1>7. \A d \in Nat : d \in Q
  BY <1>6, Descent
<1> USE DEF Q
<1>8. 1 \in 1..(n + 1) /\ n + 1 - 1 \in Nat /\ Border(1)
  BY <1>1
<1>9. IsTurned(C(1), b[1], piece, t)
  <2> HIDE DEF C, Border
  <2> QED BY <1>7, <1>8
<1> QED BY <1>4, <1>9

\* c is found in t, from behind its item o on.
IsPart(c, t, o) ==
  /\ o \in Nat /\ o + Len(c) <= Len(t)
  /\ \A k \in 1..Len(c) : c[k] = t[o + k]

(* A chunk is a part of its text.                                          *)
LEMMA ChunkIsPart ==
  ASSUME NEW V, NEW t \in Seq(V), NEW p \in 1..Len(t), NEW q \in p..Len(t),
         NEW c, c = SubSeq(t, p, q)
  PROVE  /\ c \in Seq(V) /\ Len(c) = q - p + 1 /\ Len(c) > 0
         /\ IsPart(c, t, p - 1)
<1>1. c \in Seq(V) /\ Len(c) = q - p + 1
  OBVIOUS
<1>2. ASSUME NEW k \in 1..Len(c) PROVE c[k] = t[(p - 1) + k]
  <2>1. c[k] = t[p + k - 1]
    BY <1>1
  <2>2. p + k - 1 = (p - 1) + k
    BY <1>1
  <2> QED BY <2>1, <2>2
<1>3. p - 1 \in Nat /\ (p - 1) + Len(c) <= Len(t) /\ Len(c) > 0
  BY <1>1
<1> QED BY <1>1, <1>2, <1>3 DEF IsPart

(* What the items of a part are, they are in the text.                     *)
LEMMA PartItems ==
  ASSUME NEW V, NEW t \in Seq(V), NEW c \in Seq(V), NEW o \in Nat, IsPart(c, t, o),
         NEW k \in 1..Len(c)
  PROVE  /\ o + k \in 1..Len(t) /\ c[k] = t[o + k]
         /\ \A x : N!Is(c, k, x) <=> N!Is(t, o + k, x)
         /\ N!Digit(c, k) <=> N!Digit(t, o + k)
<1>1. o + k \in 1..Len(t) /\ c[k] = t[o + k]
  <2>1. o + Len(c) <= Len(t) /\ Len(c) \in Nat /\ Len(t) \in Nat
    BY DEF IsPart
  <2> QED BY <2>1 DEF IsPart
<1>2. k \in DOMAIN c /\ o + k \in DOMAIN t
  BY <1>1
<1> QED BY <1>1, <1>2 DEF N!Is, N!Digit

(* A number of a part is one of the text.                                  *)
LEMMA PartMatches ==
  ASSUME NEW V, NEW t \in Seq(V), NEW c \in Seq(V), NEW o \in Nat, IsPart(c, t, o),
         NEW a \in 1..Len(c), NEW b \in a..Len(c)
  PROVE  /\ N!Digits(c, a, b) => N!Digits(t, o + a, o + b)
         /\ N!Grouped(c, a, b) => N!Grouped(t, o + a, o + b)
         /\ \A most : N!Fraction(c, a, b, most) => N!Fraction(t, o + a, o + b, most)
         /\ N!NumberOf(c, a, b) = N!NumberOf(t, o + a, o + b)
<1>1. /\ a \in Int /\ b \in Int /\ a <= b /\ Len(c) \in Nat
      /\ b \in 1..Len(c)
  OBVIOUS
<1>2. ASSUME NEW k \in (o + a)..(o + b)
      PROVE  /\ k - o \in a..b /\ o + (k - o) = k
             /\ \A x : N!Is(c, k - o, x) <=> N!Is(t, k, x)
             /\ N!Digit(c, k - o) <=> N!Digit(t, k)
  <2>1. k - o \in a..b /\ k - o \in 1..Len(c) /\ o + (k - o) = k
    BY <1>1
  <2> DEFINE e == k - o
  <2> HIDE DEF e
  <2>2. e \in 1..Len(c) /\ o + e = k
    BY <2>1 DEF e
  <2>3. (\A x : N!Is(c, e, x) <=> N!Is(t, o + e, x)) /\ (N!Digit(c, e) <=> N!Digit(t, o + e))
    BY <2>2, PartItems
  <2> QED BY <2>1, <2>2, <2>3 DEF e
<1>3. ASSUME NEW x \in a..b, NEW y \in a..b, N!Digits(c, x, y) PROVE N!Digits(t, o + x, o + y)
  <2>1. x <= y /\ o + x <= o + y /\ x \in Int /\ y \in Int
    BY <1>1, <1>3 DEF N!Digits
  <2>2. ASSUME NEW k \in (o + x)..(o + y) PROVE N!Digit(t, k)
    <3>1. k \in (o + a)..(o + b) /\ k - o \in x..y
      BY <1>1, <2>1
    <3>2. N!Digit(c, k - o)
      BY <1>3, <3>1 DEF N!Digits
    <3> QED BY <1>2, <3>1, <3>2
  <2> QED BY <2>1, <2>2 DEF N!Digits
<1>4. ASSUME N!Digits(c, a, b) PROVE N!Digits(t, o + a, o + b)
  <2>1. a \in a..b /\ b \in a..b
    BY <1>1
  <2> QED BY <1>3, <1>4, <2>1
<1>5. ASSUME N!Grouped(c, a, b) PROVE N!Grouped(t, o + a, o + b)
  <2> DEFINE Fits(e) ==
        /\ N!Digits(c, a, e) /\ (b - e) % 4 = 0
        /\ \A k \in (e + 1)..b : IF (k - e) % 4 = 1 THEN N!Is(c, k, ",") ELSE N!Digit(c, k)
  <2>1. PICK e \in a..(a + 2) : e <= b /\ Fits(e)
    BY <1>5 DEF N!Grouped
  <2> HIDE DEF Fits
  <2>2. o + e \in (o + a)..((o + a) + 2) /\ o + e <= o + b /\ (o + b) - (o + e) = b - e
        /\ a \in a..b /\ e \in a..b
    BY <1>1, <2>1
  <2>3. N!Digits(t, o + a, o + e)
    BY <1>3, <2>1, <2>2 DEF Fits
  <2>4. ASSUME NEW k \in ((o + e) + 1)..(o + b)
        PROVE  IF (k - (o + e)) % 4 = 1 THEN N!Is(t, k, ",") ELSE N!Digit(t, k)
    <3>1. k \in (o + a)..(o + b) /\ k - o \in (e + 1)..b /\ k - (o + e) = (k - o) - e
      BY <1>1, <2>2
    <3> DEFINE j == k - o
    <3>2. IF (j - e) % 4 = 1 THEN N!Is(c, j, ",") ELSE N!Digit(c, j)
      BY <2>1, <3>1 DEF Fits
    <3>3. (N!Is(c, j, ",") <=> N!Is(t, k, ",")) /\ (N!Digit(c, j) <=> N!Digit(t, k))
      BY <1>2, <3>1
    <3>4. k - (o + e) = j - e
      BY <3>1
    <3> HIDE DEF j
    <3> QED BY <3>2, <3>3, <3>4
  <2>5. ((o + b) - (o + e)) % 4 = 0
    BY <2>1, <2>2 DEF Fits
  <2> DEFINE A == o + a
             E == o + e
             B == o + b
             Groups(z) == \A k \in (z + 1)..B : IF (k - z) % 4 = 1 THEN N!Is(t, k, ",")
                                                ELSE N!Digit(t, k)
             Threes(z) == (B - z) % 4 = 0
  <2>6. E \in A..(A + 2) /\ E <= B /\ N!Digits(t, A, E) /\ Threes(E) /\ Groups(E)
    BY <2>2, <2>3, <2>4, <2>5
  <2> HIDE DEF A, E, B, Groups, Threes
  <2>7. \E z \in A..(A + 2) : z <= B /\ N!Digits(t, A, z) /\ Threes(z) /\ Groups(z)
    BY <2>6
  <2>8. N!Grouped(t, A, B)
    BY <2>7 DEF N!Grouped, Groups, Threes
  <2> QED BY <2>8 DEF A, B
<1>6. ASSUME NEW most, N!Fraction(c, a, b, most) PROVE N!Fraction(t, o + a, o + b, most)
  <2>1. N!Is(c, a, ".") /\ N!Digits(c, a + 1, b) /\ b - a <= most
    BY <1>1, <1>6 DEF N!Fraction
  <2>2. a + 1 \in a..b /\ b \in a..b
    BY <1>1, <2>1 DEF N!Digits
  <2>3. N!Digits(t, o + (a + 1), o + b)
    BY <1>3, <2>1, <2>2
  <2>4. o + (a + 1) = (o + a) + 1 /\ (o + b) - (o + a) = b - a
    BY <1>1
  <2>5. N!Is(t, o + a, ".")
    BY <2>1, PartItems
  <2>6. N!Digits(t, (o + a) + 1, o + b) /\ (o + b) - (o + a) <= most
    BY <2>1, <2>3, <2>4
  <2> QED BY <2>5, <2>6 DEF N!Fraction
<1>7. N!NumberOf(c, a, b) = N!NumberOf(t, o + a, o + b)
  <2> DEFINE x == o + a
             y == o + b
  <2>1. /\ x \in 1..Len(t) /\ y \in x..Len(t) /\ y - x = b - a
        /\ \A k \in 1..(b - a + 1) : a + k - 1 \in 1..Len(c) /\ x + k - 1 = o + (a + k - 1)
    <3>1. o + Len(c) <= Len(t) /\ Len(t) \in Nat
      BY DEF IsPart
    <3> QED BY <1>1, <3>1
  <2>2. ASSUME NEW k \in 1..(b - a + 1) PROVE c[a + k - 1] = t[x + k - 1]
    <3> DEFINE j == a + k - 1
    <3>1. j \in 1..Len(c) /\ x + k - 1 = o + j
      BY <2>1
    <3> HIDE DEF j
    <3>2. c[j] = t[o + j]
      BY <3>1 DEF IsPart
    <3> QED BY <3>1, <3>2 DEF j
  <2>3. SubSeq(c, a, b) = [k \in 1..(b - a + 1) |-> c[a + k - 1]]
    BY <1>1
  <2> HIDE DEF x, y
  <2>4. SubSeq(t, x, y) = [k \in 1..(y - x + 1) |-> t[x + k - 1]]
    <3>1. x \in 1..Len(t) /\ y \in x..Len(t)
      BY <2>1
    <3> QED BY <3>1
  <2>5. SubSeq(c, a, b) = SubSeq(t, x, y)
    BY <2>1, <2>2, <2>3, <2>4
  <2> QED BY <2>5 DEF N!NumberOf, x, y
<1> QED BY <1>4, <1>5, <1>6, <1>7

\* No match goes over a space.
IsSolid(t, ends) == \A i \in 1..Len(t) : \A j \in ends[i] : \A k \in i..j : t[k] # Blank

\* What a pass makes of a chunk: the chunk where nothing matches, and what
\* is put in place of a match that is all of it.
IsPiece(s, t, p, q, ends, put) ==
  /\ (\A i \in p..q : ends[i] = {}) => s = SubSeq(t, p, q)
  /\ ends[p] # {} /\ Max(ends[p]) = q => s = put[p][q]

(* The first item and what follows it.                                     *)
LEMMA FirstAndRest ==
  ASSUME NEW V, NEW t \in Seq(V), NEW i \in 1..Len(t), NEW q \in i..Len(t), NEW s,
         IF i = q THEN s = <<>> ELSE s = SubSeq(t, i + 1, q)
  PROVE  <<t[i]>> \o s = SubSeq(t, i, q)
<1>1. Len(t) \in Nat /\ i \in Int /\ q \in Int /\ i <= q /\ q <= Len(t) /\ t[i] \in V
  OBVIOUS
<1>2. s \in Seq(V) /\ Len(s) = q - i /\ \A k \in 1..Len(s) : s[k] = t[i + k]
  <2>1. CASE i = q
    BY <2>1
  <2>2. CASE i # q
    <3>1. i + 1 \in 1..Len(t) /\ q \in (i + 1)..Len(t) /\ s = SubSeq(t, i + 1, q)
      BY <1>1, <2>2
    <3>2. s \in Seq(V) /\ Len(s) = q - (i + 1) + 1
      BY <3>1
    <3>3. ASSUME NEW k \in 1..Len(s) PROVE s[k] = t[i + k]
      <4>1. s[k] = t[(i + 1) + k - 1]
        BY <3>1, <3>2
      <4>2. (i + 1) + k - 1 = i + k
        BY <1>1, <3>2
      <4> QED BY <4>1, <4>2
    <3> QED BY <1>1, <3>2, <3>3
  <2> QED BY <2>1, <2>2
<1> DEFINE r == <<t[i]>> \o s
           e == SubSeq(t, i, q)
<1>3. /\ Len(r) = q - i + 1 /\ r[1] = t[i] /\ r \in Seq(V)
      /\ \A k \in 2..(q - i + 1) : k - 1 \in 1..Len(s) /\ r[k] = s[k - 1]
  <2>1. /\ Len(r) = Len(s) + 1 /\ r[1] = t[i] /\ r \in Seq(V)
        /\ \A k \in 2..(Len(s) + 1) : r[k] = s[k - 1]
    <3>1. t[i] \in V /\ s \in Seq(V)
      BY <1>1, <1>2
    <3> QED BY ONLY <3>1
  <2>2. Len(s) = q - i
    BY <1>2
  <2> HIDE DEF r
  <2>3. \A k \in 2..(q - i + 1) : k - 1 \in 1..Len(s) /\ k \in 2..(Len(s) + 1)
    BY <1>1, <2>2
  <2> QED BY <2>1, <2>2, <2>3
<1>4. e \in Seq(V) /\ Len(e) = q - i + 1 /\ \A k \in 1..Len(e) : e[k] = t[i + k - 1]
  BY <1>1
<1> HIDE DEF r, e
<1>5. ASSUME NEW k \in 1..(q - i + 1) PROVE r[k] = e[k]
  <2>1. e[k] = t[i + k - 1]
    BY <1>4
  <2>2. CASE k = 1
    <3>1. i + k - 1 = i
      BY <1>1, <2>2
    <3> QED BY <1>3, <2>1, <2>2, <3>1
  <2>3. CASE k # 1
    <3>1. k \in 2..(q - i + 1) /\ i + (k - 1) = i + k - 1
      BY <1>1, <2>3
    <3>2. r[k] = t[i + (k - 1)]
      BY <1>2, <1>3, <3>1
    <3> QED BY <2>1, <3>1, <3>2
  <2> QED BY <2>2, <2>3
<1>6. r = [k \in 1..(q - i + 1) |-> r[k]] /\ e = [k \in 1..(q - i + 1) |-> e[k]]
  BY <1>3, <1>4
<1> QED BY <1>5, <1>6 DEF r, e

(* Of an item that is no space, a sequence without one.                    *)
LEMMA Alone ==
  ASSUME NEW V, NEW x \in V, x # Blank
  PROVE  \E u : u = <<x>> /\ u \in Seq(V) /\ Len(u) = 1 /\ \A k \in 1..Len(u) : u[k] # Blank
<1>1. PICK u : u = <<x>>
  OBVIOUS
<1>2. u \in Seq(V) /\ Len(u) = 1 /\ u[1] = x
  BY <1>1
<1>3. \A k \in 1..Len(u) : u[k] # Blank
  BY <1>2
<1> QED BY <1>1, <1>2, <1>3

(* A pass that writes words and minds the spaces makes of each chunk what  *)
(* it makes of it alone.                                                   *)
LEMMA PassTurns ==
  ASSUME NEW t, IsSequence(t), NEW ends, NEW put, IsWriting(t, ends, put), IsSolid(t, ends)
  PROVE  \E piece :
           /\ IsTurned(N!Chunks(N!Rewrite(t, ends, put)), N!Chunks(t), piece, t)
           /\ \A p, q \in 1..Len(t) :
                IsChunk(t, p, q) => IsPiece(piece[p], t, p, q, ends, put)
<1> DEFINE n == Len(t)
           V == ItemsOf(t) \cup {put[i][j][1] : i \in 1..n, j \in 1..n} \cup {Blank}
<1>1. n \in Nat /\ t \in Seq(V) /\ Blank \in V
  <2>1. n \in Nat /\ t \in Seq(ItemsOf(t))
    BY DEF IsSequence
  <2> QED BY <2>1
<1>2. ASSUME NEW i \in 1..n, NEW j \in ends[i]
      PROVE  /\ j \in i..n /\ put[i][j] \in Seq(V) /\ Len(put[i][j]) > 0
             /\ \A k \in i..j : t[k] # Blank
             /\ \A k \in 1..Len(put[i][j]) : put[i][j][k] # Blank
  <2>0. put[i][j] = SubSeq(t, i, j) \/ \E x : put[i][j] = <<x>> /\ ~IsChar(x)
    BY DEF IsWriting
  <2>1. j \in i..n /\ j \in 1..n
    BY <1>1 DEF IsWriting
  <2>2. \A k \in i..j : t[k] # Blank
    BY DEF IsSolid
  <2>3. CASE put[i][j] = SubSeq(t, i, j)
    <3> HIDE DEF V
    <3> DEFINE s == SubSeq(t, i, j)
    <3>1. s \in Seq(V) /\ Len(s) = j - i + 1 /\ \A k \in 1..Len(s) : s[k] = t[i + k - 1]
      BY <1>1, <2>1
    <3>2. \A k \in 1..Len(s) : i + k - 1 \in i..j
      BY <1>1, <2>1, <3>1
    <3>3. Len(s) > 0
      BY <1>1, <2>1, <3>1
    <3> HIDE DEF s
    <3>4. put[i][j] = s
      BY <2>3 DEF s
    <3>5. \A k \in 1..Len(s) : s[k] # Blank
      BY <2>2, <3>1, <3>2
    <3> QED BY <2>1, <2>2, <3>1, <3>3, <3>4, <3>5
  <2>4. CASE \E x : put[i][j] = <<x>> /\ ~IsChar(x)
    <3>1. PICK x : put[i][j] = <<x>> /\ ~IsChar(x)
      BY <2>4
    <3>2. x = put[i][j][1] /\ Len(put[i][j]) = 1
      BY <3>1
    <3>3. x \in V
      BY <2>1, <3>2
    <3>4. x # Blank
      <4>1. Blank[1] = "char"
        BY DEF Blank
      <4> QED BY <3>1, <4>1 DEF IsChar
    <3> HIDE DEF V
    <3>5. PICK u : u = <<x>> /\ u \in Seq(V) /\ Len(u) = 1 /\ \A k \in 1..Len(u) : u[k] # Blank
      BY <3>3, <3>4, Alone
    <3>6. put[i][j] = u
      BY <3>1, <3>5
    <3> QED BY <2>1, <2>2, <3>5, <3>6
  <2> HIDE DEF V
  <2> QED BY <2>0, <2>3, <2>4
<1> HIDE DEF V
<1>3. ASSUME NEW i \in 1..n, ends[i] # {} PROVE Max(ends[i]) \in ends[i]
  <2>1. ends[i] \in SUBSET (0..n)
    BY <1>1, <1>2
  <2> QED BY <1>1, <1>3, <2>1, MaxFacts
<1>4. IsMatching(t, ends, put, V)
  <2>1. ASSUME NEW i \in 1..n PROVE ends[i] \subseteq i..n
    BY <1>2
  <2>2. ASSUME NEW i \in 1..n, ends[i] # {} PROVE put[i][Max(ends[i])] \in Seq(V)
    BY <1>2, <1>3, <2>2
  <2> QED BY <2>1, <2>2 DEF IsMatching
<1>5. PICK from : IsRewrite(from, t, ends, put, V)
  BY <1>1, <1>4, RewriteRows
<1>6. /\ from \in [1..(n + 1) -> Seq(V)]
      /\ \A i \in 1..(n + 1) : from[i] \in Seq(V)
      /\ from[n + 1] = <<>> /\ N!Rewrite(t, ends, put) = from[1]
      /\ \A i \in 1..n :
           IF ends[i] = {} THEN from[i] = <<t[i]>> \o from[i + 1]
           ELSE from[i] = put[i][Max(ends[i])] \o from[Max(ends[i]) + 1]
  BY <1>5 DEF IsRewrite
<1>7. ASSUME NEW i \in 1..n, t[i] = Blank PROVE from[i] = <<Blank>> \o from[i + 1]
  <2>1. ends[i] = {}
    <3> SUFFICES ASSUME NEW j \in ends[i] PROVE FALSE
      OBVIOUS
    <3>1. i \in i..j
      BY <1>1, <1>2
    <3> QED BY <1>2, <1>7, <3>1
  <2> QED BY <1>6, <1>7, <2>1
<1> DEFINE Clear(s) == s \in Seq(V) /\ \A k \in 1..Len(s) : s[k] # Blank
           Until(i, q, s) == Clear(s) /\ from[i] = s \o from[q + 1]
           Whole(i, q, s) == (\A k \in i..q : ends[k] = {}) => s = SubSeq(t, i, q)
<1>8. ASSUME NEW q \in 1..n, NEW p \in 1..q, Runs(t, p, q)
      PROVE  \A i \in p..q : \E s : Until(i, q, s) /\ Len(s) > 0 /\ Whole(i, q, s)
  <2> DEFINE Q == {d \in Nat : \A i \in p..q : q - i = d =>
                     \E s : Until(i, q, s) /\ Len(s) > 0 /\ Whole(i, q, s)}
  <2>0. /\ \A k \in p..q : t[k] # Blank
        /\ q = n \/ t[q + 1] = Blank
    BY <1>8 DEF Runs
  <2>1. ASSUME NEW d \in Nat, \A e \in Nat : e < d => e \in Q PROVE d \in Q
    <3> SUFFICES ASSUME NEW i \in p..q, q - i = d
                 PROVE  \E s : Until(i, q, s) /\ Len(s) > 0 /\ Whole(i, q, s)
      OBVIOUS
    <3>1. ASSUME NEW j \in (i + 1)..q
          PROVE  \E s : Until(j, q, s) /\ Len(s) > 0 /\ Whole(j, q, s)
      <4>1. j \in p..q /\ q - j \in Nat /\ q - j < d
        OBVIOUS
      <4> QED BY <2>1, <4>1
    <3> HIDE DEF Q
    <3> DEFINE j == IF ends[i] = {} THEN i ELSE Max(ends[i])
               head == IF ends[i] = {} THEN <<t[i]>> ELSE put[i][Max(ends[i])]
    <3>2. i \in 1..n /\ q \in 1..n /\ p \in Int /\ i \in Int /\ q \in Int /\ i <= q
      BY <1>1
    <3>3. j \in i..q /\ Clear(head) /\ Len(head) > 0 /\ from[i] = head \o from[j + 1]
      <4>1. CASE ends[i] = {}
        <5>1. t[i] \in V /\ t[i] # Blank
          BY <1>1, <2>0, <3>2
        <5>2. PICK u : u = <<t[i]>> /\ u \in Seq(V) /\ Len(u) = 1 /\ \A k \in 1..Len(u) : u[k] # Blank
          BY <5>1, Alone
        <5>3. head = u /\ j = i /\ from[i] = u \o from[i + 1]
          BY <1>6, <3>2, <4>1, <5>2
        <5> HIDE DEF head, j
        <5>4. Clear(head) /\ Len(head) > 0
          BY <5>2, <5>3
        <5> QED BY <3>2, <5>3, <5>4
      <4>2. CASE ends[i] # {}
        <5> DEFINE m == Max(ends[i])
        <5>1. m \in ends[i]
          BY <1>3, <3>2, <4>2
        <5>2. from[i] = put[i][m] \o from[m + 1]
          BY <1>6, <3>2, <4>2
        <5>3. j = m /\ head = put[i][m]
          BY <4>2
        <5> HIDE DEF m, j, head
        <5>4. /\ m \in i..n /\ put[i][m] \in Seq(V) /\ Len(put[i][m]) > 0
              /\ \A k \in i..m : t[k] # Blank
              /\ \A k \in 1..Len(put[i][m]) : put[i][m][k] # Blank
          BY <1>2, <3>2, <5>1
        <5>5. m <= q
          <6> SUFFICES ASSUME m > q PROVE FALSE
            BY <3>2, <5>4
          <6>1. q # n /\ q + 1 \in i..m
            BY <1>1, <3>2, <5>4
          <6> QED BY <2>0, <5>4, <6>1
        <5>6. m \in i..q
          BY <3>2, <5>4, <5>5
        <5> QED BY <5>2, <5>3, <5>4, <5>6
      <4> QED BY <4>1, <4>2
    <3>4. ends[i] = {} => head = <<t[i]>> /\ j = i
      OBVIOUS
    <3> HIDE DEF j, head
    <3>5. CASE j = q
      <4>1. Until(i, q, head)
        BY <3>3, <3>5
      <4>2. Whole(i, q, head)
        <5> SUFFICES ASSUME \A k \in i..q : ends[k] = {} PROVE head = SubSeq(t, i, q)
          OBVIOUS
        <5>1. ends[i] = {}
          BY <3>2
        <5>2. i = q /\ head = <<t[i]>>
          BY <3>4, <3>5, <5>1
        <5>3. <<t[i]>> \o <<>> = SubSeq(t, i, q)
          <6>1. q \in i..Len(t)
            BY <3>2
          <6>2. <<>> = <<>>
            OBVIOUS
          <6> QED BY <1>1, <3>2, <5>2, <6>1, <6>2, FirstAndRest
        <5>4. <<t[i]>> \o <<>> = <<t[i]>>
          <6>1. t[i] \in V
            BY <1>1, <3>2
          <6> QED BY <6>1
        <5> QED BY <5>2, <5>3, <5>4
      <4> HIDE DEF Until, Whole
      <4> QED BY <3>3, <4>1, <4>2
    <3>6. CASE j # q
      <4>1. j + 1 \in (i + 1)..q /\ j + 1 \in 1..n /\ q + 1 \in 1..(n + 1)
        BY <1>1, <3>2, <3>3, <3>6
      <4>2. PICK s : Until(j + 1, q, s) /\ Len(s) > 0 /\ Whole(j + 1, q, s)
        BY <3>1, <4>1
      <4> DEFINE r == head \o s
                 rest == from[q + 1]
      <4>3. s \in Seq(V) /\ head \in Seq(V) /\ rest \in Seq(V) /\ from[j + 1] = s \o rest
        BY <1>6, <3>3, <4>1, <4>2
      <4>4. (head \o s) \o rest = head \o (s \o rest)
        <5> HIDE DEF rest
        <5> QED BY ONLY <4>3
      <4>5. /\ r \in Seq(V) /\ Len(r) = Len(head) + Len(s)
            /\ \A k \in 1..Len(r) : IF k <= Len(head) THEN k \in 1..Len(head) /\ r[k] = head[k]
                                    ELSE k - Len(head) \in 1..Len(s) /\ r[k] = s[k - Len(head)]
        <5> HIDE DEF rest
        <5> QED BY ONLY <4>3
      <4>6. Clear(r)
        <5>1. (\A k \in 1..Len(head) : head[k] # Blank) /\ \A k \in 1..Len(s) : s[k] # Blank
          BY <3>3, <4>2
        <5>2. ASSUME NEW k \in 1..Len(r) PROVE r[k] # Blank
          BY <4>5, <5>1
        <5> HIDE DEF r
        <5> QED BY <4>5, <5>2
      <4>7. Until(i, q, r)
        BY <3>3, <4>3, <4>4, <4>6
      <4>8. Whole(i, q, r)
        <5> SUFFICES ASSUME \A k \in i..q : ends[k] = {} PROVE r = SubSeq(t, i, q)
          OBVIOUS
        <5>1. ends[i] = {} /\ \A k \in (i + 1)..q : ends[k] = {}
          BY <3>2
        <5>2. j = i /\ head = <<t[i]>>
          BY <3>4, <5>1
        <5>3. s = SubSeq(t, i + 1, q)
          BY <4>2, <5>1, <5>2
        <5>4. i # q /\ q \in i..Len(t)
          BY <3>2, <3>6, <5>2
        <5>5. <<t[i]>> \o s = SubSeq(t, i, q)
          BY <1>1, <3>2, <5>3, <5>4, FirstAndRest
        <5> QED BY <5>2, <5>5
      <4>9. Len(r) > 0
        BY <3>3, <4>2, <4>3, <4>5
      <4> HIDE DEF Until, Whole, r
      <4> QED BY <4>7, <4>8, <4>9
    <3> QED BY <3>5, <3>6
  <2> HIDE DEF Q
  <2>2. \A d \in Nat : d \in Q
    BY <2>1, Descent
  <2> USE DEF Q
  <2>3. ASSUME NEW i \in p..q PROVE q - i \in Nat
    OBVIOUS
  <2> HIDE DEF Until, Whole
  <2> QED BY <2>2, <2>3
<1> DEFINE Good(p, q, s) == /\ Until(p, q, s) /\ Len(s) > 0
                            /\ IsPiece(s, t, p, q, ends, put)
<1>9. ASSUME NEW p \in 1..n, NEW q \in 1..n, IsChunk(t, p, q)
      PROVE  \E s : Good(p, q, s)
  <2>1. p \in 1..q /\ Runs(t, p, q) /\ p \in p..q
    <3>1. q \in p..n /\ Runs(t, p, q)
      BY <1>9 DEF IsChunk, Runs
    <3> QED BY <3>1
  <2>2. PICK s : Until(p, q, s) /\ Len(s) > 0 /\ Whole(p, q, s)
    <3> HIDE DEF Until, Whole
    <3> QED BY <1>8, <2>1
  <2>3. CASE ends[p] # {} /\ Max(ends[p]) = q
    <3>1. q \in ends[p]
      BY <1>3, <2>3
    <3>2. /\ put[p][q] \in Seq(V) /\ Len(put[p][q]) > 0
          /\ \A k \in 1..Len(put[p][q]) : put[p][q][k] # Blank
      BY <1>2, <3>1
    <3>3. from[p] = put[p][q] \o from[q + 1]
      BY <1>6, <2>3
    <3>4. IsPiece(put[p][q], t, p, q, ends, put)
      <4>1. ~(\A i \in p..q : ends[i] = {})
        BY <2>1, <2>3
      <4> QED BY <4>1 DEF IsPiece
    <3> QED BY <3>2, <3>3, <3>4
  <2>4. CASE ~(ends[p] # {} /\ Max(ends[p]) = q)
    <3>1. IsPiece(s, t, p, q, ends, put)
      BY <2>2, <2>4 DEF IsPiece
    <3> QED BY <2>2, <3>1
  <2> QED BY <2>3, <2>4
<1> DEFINE piece == [p \in 1..n |-> CHOOSE s : \A q \in 1..n : IsChunk(t, p, q) => Good(p, q, s)]
<1>10. ASSUME NEW p \in 1..n, NEW q \in 1..n, IsChunk(t, p, q)
       PROVE  Good(p, q, piece[p])
  <2> HIDE DEF Good
  <2>1. PICK s : Good(p, q, s)
    BY <1>9, <1>10
  <2>2. ASSUME NEW e \in 1..n, IsChunk(t, p, e) PROVE e = q
    <3>1. Runs(t, p, e) /\ Runs(t, p, q)
      BY <1>10, <2>2 DEF IsChunk
    <3>2. t[p] # Blank
      <4>1. q \in p..n /\ \A k \in p..q : t[k] # Blank
        BY <3>1 DEF Runs
      <4>2. p \in p..q
        BY <4>1
      <4> QED BY <4>1, <4>2
    <3> DEFINE E == {j \in p..Len(t) : \A k \in p..j : t[k] # Blank}
    <3>3. \A y : Runs(t, p, y) => y = Max(E)
      BY <1>1, <3>2, RunEnds
    <3> HIDE DEF E
    <3> QED BY <3>1, <3>3
  <2>3. \A e \in 1..n : IsChunk(t, p, e) => Good(p, e, s)
    BY <2>1, <2>2
  <2>4. \A e \in 1..n : IsChunk(t, p, e) => Good(p, e, piece[p])
    BY <2>3
  <2> QED BY <1>10, <2>4
<1> HIDE DEF piece
<1>11. ASSUME NEW q \in 1..n, NEW p \in 1..n, IsChunk(t, p, q), Len(from[q + 1]) > 0
       PROVE  from[q + 1][1] = Blank
  <2>1. q = n \/ t[q + 1] = Blank
    BY <1>11 DEF IsChunk, Runs
  <2>2. q # n
    BY <1>6, <1>11
  <2>3. q + 1 \in 1..n /\ (q + 1) + 1 \in 1..(n + 1)
    BY <1>1, <2>2
  <2>4. from[q + 1] = <<Blank>> \o from[(q + 1) + 1] /\ from[(q + 1) + 1] \in Seq(V)
    BY <1>6, <1>7, <2>1, <2>2, <2>3
  <2> QED BY <1>1, <2>4
<1>12. IsTurn(from, piece, t, V)
  BY <1>6, <1>7, <1>10, <1>11 DEF IsTurn
<1>13. IsTurned(N!Chunks(from[1]), N!Chunks(t), piece, t)
  BY <1>1, <1>12, ChunksTurn
<1>14. \A p, q \in 1..n : IsChunk(t, p, q) => IsPiece(piece[p], t, p, q, ends, put)
  BY <1>10
<1> QED BY <1>6, <1>13, <1>14

\* What a number is written with.
NumberItem(t, k) == N!Digit(t, k) \/ N!Is(t, k, ",") \/ N!Is(t, k, ".")

(* It is no other character.                                               *)
LEMMA NumberItemFacts ==
  ASSUME NEW t, NEW k, NumberItem(t, k)
  PROVE  /\ t[k] # Blank /\ IsChar(t[k])
         /\ ~N!Is(t, k, "abbrev") /\ ~N!Is(t, k, "th") /\ ~N!Is(t, k, "$") /\ ~N!Is(t, k, "-")
<1>1. CASE N!Digit(t, k)
  <2>1. t[k] # Blank
    BY <1>1, DigitFacts, WordFacts
  <2>2. ~N!Is(t, k, "th")
    <3>1. "th" \notin N!DigitChars
      BY NoDigit
    <3>2. t[k][2] \in N!DigitChars /\ <<"char", "th">>[2] = "th"
      BY <1>1 DEF N!Digit
    <3> QED BY <3>1, <3>2 DEF N!Is
  <2> QED BY <1>1, <2>1, <2>2, DigitFacts
<1>2. ASSUME NEW c, NEW d, c # d, N!Is(t, k, c) PROVE ~N!Is(t, k, d)
  <2>1. <<"char", c>> # <<"char", d>>
    BY <1>2
  <2> QED BY <1>2, <2>1 DEF N!Is
<1>3. ASSUME NEW c, N!Is(t, k, c), c # " " PROVE t[k] # Blank
  <2>1. <<"char", c>>[2] = c /\ <<"char", " ">>[2] = " "
    OBVIOUS
  <2> QED BY <1>3, <2>1, Zenon DEF N!Is, Blank
<1>4. "," # " " /\ "." # " "
  BY Zenon
<1>5. CASE N!Is(t, k, ",")
  <2>1. "," # "abbrev" /\ "," # "th" /\ "," # "$" /\ "," # "-"
    OBVIOUS
  <2> QED BY <1>2, <1>3, <1>4, <1>5, <2>1, IsOfChar
<1>6. CASE N!Is(t, k, ".")
  <2>1. "." # "abbrev" /\ "." # "th" /\ "." # "$" /\ "." # "-"
    OBVIOUS
  <2> QED BY <1>2, <1>3, <1>4, <1>6, <2>1, IsOfChar
<1> QED BY <1>1, <1>5, <1>6 DEF NumberItem

(* Nor are the others a space.                                             *)
LEMMA NotBlank ==
  ASSUME NEW t, NEW k, NEW c \in {"abbrev", "th", "$", "-"}, N!Is(t, k, c)
  PROVE  t[k] # Blank
<1>1. c # " "
  BY Zenon
<1>2. <<"char", c>>[2] = c /\ <<"char", " ">>[2] = " "
  OBVIOUS
<1> QED BY <1>1, <1>2, Zenon DEF N!Is, Blank

(* What is taken for a number is written like one.                         *)
LEMMA MatchItems ==
  ASSUME NEW t, NEW b \in Int, NEW m \in Int, NEW j \in Int, b <= m, m <= j, NEW most,
         N!Grouped(t, b, m) \/ N!Digits(t, b, m), N!Fraction(t, m + 1, j, most)
  PROVE  \A k \in b..j : NumberItem(t, k)
<1>1. IsRun(t, b, m)
  BY NumberRuns
<1>2. ASSUME NEW k \in (m + 1)..j PROVE NumberItem(t, k)
  <2>1. ~(m + 1 > j) /\ (k = m + 1 \/ k \in ((m + 1) + 1)..j)
    OBVIOUS
  <2>2. N!Is(t, m + 1, ".") /\ N!Digits(t, (m + 1) + 1, j)
    BY <2>1 DEF N!Fraction
  <2> QED BY <2>1, <2>2 DEF N!Digits, NumberItem
<1>3. ASSUME NEW k \in b..m PROVE NumberItem(t, k)
  BY <1>1 DEF IsRun, NumberItem
<1>4. \A k \in b..j : k \in b..m \/ k \in (m + 1)..j
  OBVIOUS
<1> QED BY <1>2, <1>3, <1>4

(* An amount has no space in it, and starts with its sign.                 *)
LEMMA AmountMatches ==
  ASSUME NEW t, Len(t) \in Nat, NEW i \in 1..Len(t), NEW j \in N!AmountEnds(t, i)
  PROVE  /\ j \in i..Len(t) /\ N!Is(t, i, "$")
         /\ \A k \in i..j : t[k] # Blank
<1>1. j \in (i + 1)..Len(t) /\ N!Is(t, i, "$")
      /\ \E m \in (i + 1)..j : N!Grouped(t, i + 1, m) /\ N!Fraction(t, m + 1, j, 2)
  BY DEF N!AmountEnds
<1>2. PICK m \in (i + 1)..j : N!Grouped(t, i + 1, m) /\ N!Fraction(t, m + 1, j, 2)
  BY <1>1
<1>3. \A k \in (i + 1)..j : NumberItem(t, k)
  <2>1. i + 1 \in Int /\ m \in Int /\ j \in Int /\ i + 1 <= m /\ m <= j
    BY <1>1, <1>2
  <2> DEFINE b == i + 1
  <2> HIDE DEF b
  <2>2. \A k \in b..j : NumberItem(t, k)
    BY <1>2, <2>1, MatchItems DEF b
  <2> QED BY <2>2 DEF b
<1>4. \A k \in i..j : k = i \/ k \in (i + 1)..j
  BY <1>1
<1>5. t[i] # Blank
  BY <1>1, NotBlank
<1>6. \A k \in i..j : t[k] # Blank
  BY <1>3, <1>4, <1>5, NumberItemFacts
<1> QED BY <1>1, <1>6

(* Nor has an ordinal, which ends with its suffix.                         *)
LEMMA OrdinalMatches ==
  ASSUME NEW t, Len(t) \in Nat, NEW i \in 1..Len(t), NEW j \in N!OrdinalEnds(t, i)
  PROVE  /\ j \in (i + 1)..Len(t) /\ N!Digits(t, i, j - 1) /\ N!Is(t, j, "th")
         /\ \A k \in i..j : t[k] # Blank
<1>1. j \in (i + 1)..Len(t) /\ N!Digits(t, i, j - 1) /\ N!Is(t, j, "th")
  BY DEF N!OrdinalEnds
<1>2. \A k \in i..j : k = j \/ k \in i..(j - 1)
  BY <1>1
<1>3. \A k \in i..(j - 1) : t[k] # Blank
  <2> SUFFICES ASSUME NEW k \in i..(j - 1) PROVE t[k] # Blank
    OBVIOUS
  <2>1. N!Digit(t, k)
    BY <1>1 DEF N!Digits
  <2> QED BY <2>1, NumberItemFacts DEF NumberItem
<1>4. t[j] # Blank
  BY <1>1, NotBlank
<1> QED BY <1>1, <1>2, <1>3, <1>4

(* Nor has any number.                                                     *)
LEMMA NumberMatches ==
  ASSUME NEW t, Len(t) \in Nat, NEW i \in 1..Len(t), NEW j \in N!NumberEnds(t, i)
  PROVE  /\ j \in i..Len(t) /\ IsChar(t[i])
         /\ \A k \in i..j : t[k] # Blank
<1> DEFINE b == IF N!Is(t, i, "-") THEN i + 1 ELSE i
<1>1. /\ j \in b..Len(t)
      /\ \E m \in b..j : /\ N!Grouped(t, b, m) \/ N!Digits(t, b, m)
                         /\ N!Fraction(t, m + 1, j, Len(t))
  BY DEF N!NumberEnds, N!NumberEndsGrouped
<1>2. (b = i + 1 /\ N!Is(t, i, "-")) \/ b = i
  OBVIOUS
<1> HIDE DEF b
<1>3. PICK m \in b..j : /\ N!Grouped(t, b, m) \/ N!Digits(t, b, m)
                        /\ N!Fraction(t, m + 1, j, Len(t))
  BY <1>1
<1>4. b \in Int /\ m \in Int /\ j \in Int /\ b <= m /\ m <= j /\ j \in i..Len(t) /\ i \in Int
  BY <1>1, <1>2, <1>3
<1>5. \A k \in b..j : NumberItem(t, k)
  BY <1>3, <1>4, MatchItems
<1>6. CASE b = i
  <2>1. i \in b..j
    BY <1>4, <1>6
  <2>2. \A k \in i..j : NumberItem(t, k)
    BY <1>5, <1>6
  <2> QED BY <1>4, <1>6, <2>1, <2>2, NumberItemFacts
<1>7. CASE b = i + 1 /\ N!Is(t, i, "-")
  <2>1. \A k \in i..j : k = i \/ k \in b..j
    BY <1>4, <1>7
  <2>2. t[i] # Blank
    BY <1>7, NotBlank
  <2>3. \A k \in b..j : t[k] # Blank
    BY <1>5, NumberItemFacts
  <2>4. IsChar(t[i])
    BY <1>7, IsOfChar
  <2> QED BY <1>4, <2>1, <2>2, <2>3, <2>4
<1> QED BY <1>2, <1>6, <1>7

(* The chunks of a text are parts of it.                                   *)
LEMMA ChunksAre ==
  ASSUME NEW t, IsSequence(t)
  PROVE  /\ N!Chunks(t) = [k \in 1..Len(N!Chunks(t)) |-> N!Chunks(t)[k]]
         /\ Len(N!Chunks(t)) \in Nat /\ DOMAIN N!Chunks(t) = 1..Len(N!Chunks(t))
         /\ \A k \in 1..Len(N!Chunks(t)) : \E p, q \in 1..Len(t) :
              IsChunk(t, p, q) /\ N!Chunks(t)[k] = SubSeq(t, p, q)
<1> DEFINE none == [i \in 1..Len(t) |-> {}]
           chunks == N!Chunks(t)
<1>1. IsWriting(t, none, none) /\ IsSolid(t, none)
  BY DEF IsWriting, IsSolid
<1> HIDE DEF none
<1>2. PICK piece : IsTurned(N!Chunks(N!Rewrite(t, none, none)), chunks, piece, t)
  BY <1>1, PassTurns
<1>3. \E V : chunks \in Seq(V)
  <2> DEFINE V == ItemsOf(t) \cup {Blank}
  <2>1. t \in Seq(V) /\ Blank \in V
    <3>1. t \in Seq(ItemsOf(t))
      BY DEF IsSequence
    <3> QED BY <3>1
  <2> HIDE DEF V
  <2> QED BY <2>1, ChunkFacts
<1>4. /\ chunks = [k \in 1..Len(chunks) |-> chunks[k]]
      /\ Len(chunks) \in Nat /\ DOMAIN chunks = 1..Len(chunks)
  <2> HIDE DEF chunks
  <2>1. PICK V : chunks \in Seq(V)
    BY <1>3
  <2> QED BY ONLY <2>1
<1> QED BY <1>2, <1>4 DEF IsTurned

(* What is read at once ends with the part that has no space.              *)
LEMMA StaysWithin ==
  ASSUME NEW t, Len(t) \in Nat, NEW p \in 1..Len(t), NEW q \in 1..Len(t), IsChunk(t, p, q),
         NEW i \in p..q, NEW j \in i..Len(t), \A k \in i..j : t[k] # Blank
  PROVE  j <= q
<1>1. q \in p..Len(t) /\ (q = Len(t) \/ t[q + 1] = Blank)
  BY DEF IsChunk, Runs
<1>2. ~(j > q)
  <2> SUFFICES ASSUME j > q PROVE FALSE
    OBVIOUS
  <2>1. q # Len(t) /\ q + 1 \in i..j
    BY <1>1
  <2> QED BY <1>1, <2>1
<1> QED BY <1>1, <1>2

\* What a number set off by spaces is written with.
IsNumber(c, b, m) ==
  /\ b \in 1..Len(c) /\ m \in b..Len(c)
  /\ N!Grouped(c, b, m) \/ N!Digits(c, b, m)
  /\ N!Fraction(c, m + 1, Len(c), Len(c))

(* It ends with its last item in any text, and starts with a digit.        *)
LEMMA NumberFacts ==
  ASSUME NEW V, NEW c \in Seq(V), NEW b, NEW m, IsNumber(c, b, m)
  PROVE  /\ \A k \in b..Len(c) : NumberItem(c, k)
         /\ N!Digit(c, b) /\ N!Digit(c, Len(c)) /\ IsRun(c, b, m)
<1>1. b \in Int /\ m \in Int /\ Len(c) \in Int /\ b <= m /\ m <= Len(c) /\ b \in b..b
  BY DEF IsNumber
<1>2. N!Grouped(c, b, m) \/ N!Digits(c, b, m)
  BY DEF IsNumber
<1>3. N!Fraction(c, m + 1, Len(c), Len(c))
  BY DEF IsNumber
<1>4. (\A k \in b..Len(c) : NumberItem(c, k)) /\ N!Digit(c, Len(c)) /\ IsRun(c, b, m)
  <2> DEFINE n == Len(c)
  <2>1. n \in Int /\ m <= n /\ N!Fraction(c, m + 1, n, n)
    BY <1>1, <1>3
  <2> HIDE DEF n
  <2>2. (\A k \in b..n : NumberItem(c, k)) /\ N!Digit(c, n) /\ IsRun(c, b, m)
    BY <1>1, <1>2, <2>1, MatchItems, MatchCloses, NumberRuns
  <2> QED BY <2>2 DEF n
<1>5. N!Digit(c, b)
  <2>1. CASE N!Digits(c, b, m)
    <3>1. b \in b..m
      BY <1>1
    <3> QED BY <2>1, <3>1 DEF N!Digits
  <2>2. CASE N!Grouped(c, b, m)
    <3>1. PICK a \in b..(b + 2) : N!Digits(c, b, a)
      BY <2>2 DEF N!Grouped
    <3>2. b \in b..a
      BY <1>1
    <3> QED BY <3>1, <3>2 DEF N!Digits
  <2> QED BY <1>2, <2>1, <2>2
<1> QED BY <1>4, <1>5

\* The part c of t, which is a number from its item b on, in t.
StandsIn(c, b, m, t, p, q) ==
  /\ Len(c) = q - p + 1
  /\ (p - 1) + b \in p..q /\ (p - 1) + m \in ((p - 1) + b)..q
  /\ \A k \in ((p - 1) + b)..q : NumberItem(t, k)
  /\ N!Digits(c, b, m) => N!Digits(t, (p - 1) + b, (p - 1) + m)
  /\ N!Grouped(c, b, m) => N!Grouped(t, (p - 1) + b, (p - 1) + m)
  /\ \A most : N!Fraction(c, m + 1, Len(c), most) =>
               N!Fraction(t, (p - 1) + m + 1, q, most)
  /\ N!Digit(t, (p - 1) + b) /\ N!Digit(t, q)
  /\ N!NumberOf(c, b, m) = N!NumberOf(t, (p - 1) + b, (p - 1) + m)
  /\ N!Is(c, 1, "$") <=> N!Is(t, p, "$")
  /\ N!WholeEnd(c, 1, Len(c)) = m /\ N!WholeEnd(t, p, q) = (p - 1) + m

(* What is a number for itself is one in the text it is a part of.         *)
LEMMA NumberInText ==
  ASSUME NEW V, NEW t \in Seq(V), NEW p \in 1..Len(t), NEW q \in p..Len(t),
         NEW c, c = SubSeq(t, p, q), NEW b, NEW m, IsNumber(c, b, m),
         b = 1 \/ (b = 2 /\ N!Is(c, 1, "$"))
  PROVE  c \in Seq(V) /\ StandsIn(c, b, m, t, p, q)
<1>0. c \in Seq(V) /\ Len(c) = q - p + 1 /\ Len(c) > 0 /\ IsPart(c, t, p - 1)
  <2>1. c \in Seq(V) /\ Len(c) = q - p + 1
    BY ChunkIsPart
  <2>2. Len(c) > 0
    BY ChunkIsPart
  <2>3. IsPart(c, t, p - 1)
    BY ChunkIsPart
  <2> QED BY <2>1, <2>2, <2>3
<1> DEFINE n == Len(c)
           o == p - 1
<1>1. c \in Seq(V) /\ n = q - p + 1 /\ n > 0 /\ IsPart(c, t, o)
  BY <1>0
<1>2. /\ o \in Nat /\ o + 1 = p /\ o + n = q /\ n \in Nat
      /\ b \in 1..n /\ m \in b..n /\ b \in Int /\ m \in Int /\ p \in Int /\ q \in Int
      /\ Len(t) \in Nat /\ p <= q /\ q <= Len(t)
  <2>1. p \in Int /\ q \in Int /\ Len(t) \in Nat /\ 1 <= p /\ p <= q /\ q <= Len(t)
    OBVIOUS
  <2>2. b \in 1..n /\ m \in b..n
    BY DEF IsNumber
  <2>3. n = q - p + 1
    BY <1>1
  <2> HIDE DEF n
  <2> QED BY <2>1, <2>2, <2>3
<1>3. /\ N!Grouped(c, b, m) \/ N!Digits(c, b, m)
      /\ N!Fraction(c, m + 1, n, n)
  BY DEF IsNumber
<1>4. /\ \A k \in b..n : NumberItem(c, k)
      /\ N!Digit(c, b) /\ N!Digit(c, n) /\ IsRun(c, b, m)
  BY <1>1, NumberFacts
<1> HIDE DEF n, o
<1>5. ASSUME NEW k \in 1..n
      PROVE  /\ (\A x : N!Is(c, k, x) <=> N!Is(t, o + k, x))
             /\ N!Digit(c, k) <=> N!Digit(t, o + k)
  BY <1>1, <1>2, <1>5, PartItems DEF n
<1>6. ASSUME NEW k \in (o + b)..q PROVE NumberItem(t, k)
  <2>1. k - o \in b..n /\ k - o \in 1..n /\ o + (k - o) = k
    BY <1>2
  <2> DEFINE e == k - o
  <2> HIDE DEF e
  <2>2. e \in b..n /\ e \in 1..n /\ o + e = k
    BY <2>1 DEF e
  <2>3. NumberItem(c, e)
    BY <1>4, <2>2
  <2> QED BY <1>5, <2>2, <2>3 DEF NumberItem
<1>7. /\ N!Digits(c, b, m) => N!Digits(t, o + b, o + m)
      /\ N!Grouped(c, b, m) => N!Grouped(t, o + b, o + m)
      /\ N!NumberOf(c, b, m) = N!NumberOf(t, o + b, o + m)
  <2>1. b \in 1..Len(c) /\ m \in b..Len(c)
    BY <1>2 DEF n
  <2>2. t \in Seq(V) /\ c \in Seq(V) /\ o \in Nat /\ IsPart(c, t, o)
    BY <1>1, <1>2
  <2> QED BY ONLY <2>1, <2>2, PartMatches
<1>8. ASSUME NEW most, N!Fraction(c, m + 1, n, most) PROVE N!Fraction(t, o + m + 1, q, most)
  <2>1. CASE m = n
    BY <1>2, <2>1 DEF N!Fraction
  <2>2. CASE m # n
    <3>1. m + 1 \in 1..n /\ n \in (m + 1)..n
      BY <1>2, <2>2
    <3> DEFINE a == m + 1
    <3> HIDE DEF a
    <3>2. a \in 1..Len(c) /\ n \in a..Len(c)
      BY <3>1 DEF a, n
    <3>3. N!Fraction(c, a, n, most) => N!Fraction(t, o + a, o + n, most)
      BY <1>1, <1>2, <3>2, PartMatches
    <3>4. o + a = o + m + 1 /\ o + n = q
      BY <1>2 DEF a
    <3> QED BY <1>8, <3>3, <3>4 DEF a
  <2> QED BY <2>1, <2>2
<1>9. N!Digit(t, o + b) /\ N!Digit(t, q)
  <2>1. n \in 1..n /\ o + n = q
    BY <1>2
  <2> QED BY <1>2, <1>4, <1>5, <2>1
<1>10. N!Is(c, 1, "$") <=> N!Is(t, p, "$")
  <2>1. 1 \in 1..n
    BY <1>2
  <2> QED BY <1>2, <1>5, <2>1
<1>11. N!WholeEnd(c, 1, n) = m
  <2>1. \A k \in 1..(b - 1) : ~N!Is(c, k, ".")
    <3>1. \A k \in 1..(b - 1) : b = 2 /\ k = 1
      BY <1>2
    <3>2. \A k \in 1..(b - 1) : N!Is(c, k, "$")
      BY <3>1
    <3> QED BY <3>2, PointFacts
  <2> QED BY <1>2, <1>3, <1>4, <2>1, WholeIsRun
<1>12. N!WholeEnd(t, p, q) = o + m
  <2> DEFINE b2 == o + b
             m2 == o + m
  <2>1. b2 \in Int /\ m2 \in Int /\ b2 <= m2 /\ m2 <= q /\ p <= b2
    BY <1>2
  <2>2. \A k \in p..(b2 - 1) : ~N!Is(t, k, ".")
    <3>1. \A k \in p..(b2 - 1) : b = 2 /\ k = p
      BY <1>2
    <3>2. \A k \in p..(b2 - 1) : N!Is(t, k, "$")
      BY <1>10, <3>1
    <3> QED BY <3>2, PointFacts
  <2>3. N!Fraction(t, m2 + 1, q, n)
    BY <1>3, <1>8
  <2>4. IsRun(t, b2, m2)
    <3>1. N!Grouped(t, b2, m2) \/ N!Digits(t, b2, m2)
      BY <1>3, <1>7
    <3> HIDE DEF b2, m2
    <3> QED BY <2>1, <3>1, NumberRuns
  <2> HIDE DEF b2, m2
  <2>5. N!WholeEnd(t, p, q) = m2
    BY <1>2, <2>1, <2>2, <2>3, <2>4, WholeIsRun
  <2> QED BY <2>5 DEF m2
<1>13. o + b \in p..q /\ o + m \in (o + b)..q
  BY <1>2
<1> QED BY <1>1, <1>6, <1>7, <1>8, <1>9, <1>10, <1>11, <1>12, <1>13 DEF n, o, StandsIn

-----------------------------------------------------------------------------
(* The value of a number                                                   *)

(* A digit counts for less than ten.                                       *)
LEMMA DigitRange ==
  ASSUME NEW c \in N!DigitChars PROVE N!DigitValue(c) \in 0..9
<1>1. \E k \in 1..10 : N!DigitNames[k] = c
  BY DEF N!DigitChars, N!ToSet, N!DigitNames
<1>2. (CHOOSE k \in 1..10 : N!DigitNames[k] = c) \in 1..10
  <2> DEFINE P(k) == N!DigitNames[k] = c
  <2>1. \E k \in 1..10 : P(k)
    BY <1>1
  <2> HIDE DEF P
  <2>2. (CHOOSE k \in 1..10 : P(k)) \in 1..10
    BY <2>1
  <2> QED BY <2>2 DEF P
<1> DEFINE k == CHOOSE k \in 1..10 : N!DigitNames[k] = c
<1>3. N!DigitValue(c) = k - 1 /\ k \in 1..10
  BY <1>2 DEF N!DigitValue
<1> HIDE DEF k
<1> QED BY <1>3

(* Another item makes a number of a number, or leaves it.                  *)
LEMMA ReadFacts ==
  ASSUME NEW n \in Nat, NEW item
  PROVE  /\ N!Read(n, item) \in Nat
         /\ ~(item[1] = "char" /\ item[2] \in N!DigitChars) => N!Read(n, item) = n
         /\ item[1] = "char" /\ item[2] \in N!DigitChars
            /\ 10 * n + N!DigitValue(item[2]) <= MaxValue + 1 =>
              N!Read(n, item) = 10 * n + N!DigitValue(item[2])
<1> DEFINE Counts == item[1] = "char" /\ item[2] \in N!DigitChars
           d == N!DigitValue(item[2])
<1>1. MaxValue \in Nat
  BY TextsAssumption
<1>2. N!Read(n, item) = IF ~Counts THEN n
                        ELSE IF n > (MaxValue + 1 - d) \div 10 THEN MaxValue + 2
                        ELSE 10 * n + d
  BY DEF N!Read
<1>3. Counts => d \in 0..9
  BY DigitRange
<1> HIDE DEF Counts, d
<1>4. CASE ~Counts
  BY <1>2, <1>4 DEF Counts, d
<1>5. CASE Counts
  <2>1. d \in 0..9 /\ MaxValue + 2 \in Nat /\ 10 * n + d \in Nat
    BY <1>1, <1>3, <1>5
  <2>2. ASSUME 10 * n + d <= MaxValue + 1 PROVE ~(n > (MaxValue + 1 - d) \div 10)
    BY <1>1, <2>1, <2>2
  <2>3. N!Read(n, item) \in Nat
    BY <1>2, <1>5, <2>1
  <2>4. 10 * n + d <= MaxValue + 1 => N!Read(n, item) = 10 * n + d
    BY <1>2, <1>5, <2>2
  <2> QED BY <1>5, <2>3, <2>4 DEF Counts, d
<1> QED BY <1>4, <1>5

\* What was read after each item.
IsReading(rows, s) ==
  /\ rows \in [0..Len(s) -> Nat]
  /\ rows[0] = 0
  /\ \A k \in 1..Len(s) : rows[k] = N!Read(rows[k - 1], s[k])
  /\ N!FoldLeft(N!Read, 0, s) = rows[Len(s)]

(* A number is read digit by digit.                                        *)
LEMMA ReadingRows ==
  ASSUME NEW V, NEW s \in Seq(V)
  PROVE  \E rows : IsReading(rows, s)
<1> DEFINE n == Len(s)
           D == SUBSET (1..n)
           step(g, e) == IF e = {} THEN 0 ELSE N!Read(g[e \ {Max(e)}], s[Max(e)])
           rule == [e \in D |-> [g \in [D -> Nat] |-> step(g, e)]]
<1>1. n \in Nat
  OBVIOUS
<1>2. /\ Top(n) \in [D -> Nat]
      /\ \A e \in D : e # {} => /\ Max(e) \in e /\ e \ {Max(e)} \in D
                                /\ Top(n)[e \ {Max(e)}] < Top(n)[e]
  BY <1>1, TopFalls
<1> HIDE DEF n
<1>3. ASSUME NEW e \in D, NEW g, \A r \in D : g[r] \in Nat
      PROVE  step(g, e) \in Nat
  <2>1. CASE e = {}
    BY <2>1
  <2>2. CASE e # {}
    <3>1. e \ {Max(e)} \in D
      BY <1>2, <2>2
    <3>2. g[e \ {Max(e)}] \in Nat
      BY <1>3, <3>1
    <3> QED BY <2>2, <3>2, ReadFacts
  <2> QED BY <2>1, <2>2
<1>4. IsRule(rule, Top(n), D, Nat)
  <2>1. ASSUME NEW e \in D, NEW g \in [D -> Nat] PROVE rule[e][g] \in Nat
    BY <1>3
  <2>2. ASSUME NEW e \in D, NEW g \in [D -> Nat], NEW i \in [D -> Nat],
               \A y \in D : Top(n)[y] < Top(n)[e] => g[y] = i[y]
        PROVE  rule[e][g] = rule[e][i]
    <3>1. e # {} => g[e \ {Max(e)}] = i[e \ {Max(e)}]
      BY <1>2, <2>2
    <3> QED BY <3>1
  <2> HIDE DEF rule, D
  <2> QED BY <2>1, <2>2 DEF IsRule
<1>5. PICK f : Follows(f, rule, D, Nat)
  <2>1. Nat # {}
    OBVIOUS
  <2> HIDE DEF rule, D
  <2> QED BY <1>2, <1>4, <2>1, RecursiveFunction
<1>6. f = [e \in D |-> step(f, e)]
  BY <1>5 DEF Follows
<1> DEFINE iter == CHOOSE it : it = [e \in D |-> step(it, e)]
<1>7. iter = [e \in D |-> step(iter, e)]
  <2> HIDE DEF D, step
  <2> QED BY <1>6
<1>8. N!FoldLeft(N!Read, 0, s) = iter[1..n]
  <2>1. DOMAIN s = 1..n
    BY DEF n
  <2> QED BY <2>1 DEF N!FoldLeft, N!MapThenFoldSet, N!Max, Max
<1> HIDE DEF iter
<1> DEFINE rows == [k \in 0..n |-> iter[1..k]]
<1>9. rows[0] = 0
  <2>1. 1..0 = {} /\ 1..0 \in D /\ 0 \in 0..n
    BY <1>1
  <2> QED BY <1>7, <2>1
<1>10. ASSUME NEW k \in 1..n PROVE rows[k] = N!Read(rows[k - 1], s[k])
  <2>1. k \in Nat \ {0} /\ 1..k \in D /\ k \in 0..n /\ k - 1 \in 0..n
    BY <1>1
  <2>2. Max(1..k) = k /\ (1..k) \ {k} = 1..(k - 1) /\ 1..k # {}
    BY <2>1, TopOfFirst
  <2>3. iter[1..k] = N!Read(iter[1..(k - 1)], s[k])
    BY <1>7, <2>1, <2>2
  <2> QED BY <2>1, <2>3
<1>11. rows \in [0..n -> Nat]
  <2> DEFINE Q == {k \in Nat : k <= n => rows[k] \in Nat}
  <2>1. 0 \in Q
    BY <1>1, <1>9
  <2>2. ASSUME NEW k \in Nat, k \in Q PROVE k + 1 \in Q
    <3> SUFFICES ASSUME k + 1 <= n PROVE rows[k + 1] \in Nat
      OBVIOUS
    <3>1. k + 1 \in 1..n /\ k <= n /\ (k + 1) - 1 = k
      BY <1>1
    <3> HIDE DEF rows
    <3>2. rows[k + 1] = N!Read(rows[k], s[k + 1])
      BY <1>10, <3>1
    <3> QED BY <1>1, <2>2, <3>1, <3>2, ReadFacts
  <2> HIDE DEF Q
  <2>3. \A k \in Nat : k \in Q
    BY <2>1, <2>2, Induction
  <2> USE DEF Q
  <2>4. \A k \in 0..n : rows[k] \in Nat
    <3> HIDE DEF rows
    <3> QED BY <1>1, <2>3
  <2> HIDE DEF Q
  <2> QED BY <2>4
<1>12. N!FoldLeft(N!Read, 0, s) = rows[n]
  BY <1>1, <1>8
<1> HIDE DEF rows
<1> USE DEF n
<1>13. IsReading(rows, s)
  BY <1>9, <1>10, <1>11, <1>12 DEF IsReading
<1> QED BY <1>13

\* The same for the part of t from i to j, which has n items.
IsCount(rows, t, i, j, n) ==
  /\ N!NumberOf(t, i, j) = rows[n] /\ rows[0] = 0
  /\ \A k \in 1..n : rows[k] \in Nat /\ rows[k] = N!Read(rows[k - 1], t[i + k - 1])

(* So is the part of a text.                                               *)
LEMMA PartRows ==
  ASSUME NEW V, NEW t \in Seq(V), NEW i \in 1..Len(t), NEW j \in i..Len(t),
         NEW n \in Nat, n = j - i + 1
  PROVE  \E rows : IsCount(rows, t, i, j, n)
<1> DEFINE s == SubSeq(t, i, j)
<1>1. s \in Seq(V) /\ Len(s) = n /\ n \in Nat /\ \A k \in 1..n : s[k] = t[i + k - 1]
  OBVIOUS
<1>2. N!NumberOf(t, i, j) = N!FoldLeft(N!Read, 0, s)
  BY DEF N!NumberOf
<1> HIDE DEF s
<1>3. PICK rows : IsReading(rows, s)
  BY <1>1, ReadingRows
<1>4. /\ rows \in [0..n -> Nat] /\ rows[0] = 0
      /\ \A k \in 1..n : rows[k] = N!Read(rows[k - 1], s[k])
      /\ N!NumberOf(t, i, j) = rows[n]
  BY <1>1, <1>2, <1>3 DEF IsReading
<1>5. \A k \in 1..n : rows[k] \in Nat
  BY <1>1, <1>4
<1>6. \A k \in 1..n : rows[k] = N!Read(rows[k - 1], t[i + k - 1])
  BY <1>1, <1>4
<1> QED BY <1>4, <1>5, <1>6 DEF IsCount

(* What is read of a part of a text is a number.                           *)
LEMMA NumberType ==
  ASSUME NEW V, NEW t \in Seq(V), NEW i \in 1..Len(t), NEW j \in i..Len(t)
  PROVE  N!NumberOf(t, i, j) \in Nat
<1> DEFINE n == j - i + 1
<1>1. n \in Nat /\ n = j - i + 1 /\ n \in 1..n
  OBVIOUS
<1> HIDE DEF n
<1>2. PICK rows : IsCount(rows, t, i, j, n)
  BY <1>1, PartRows
<1> QED BY <1>1, <1>2 DEF IsCount

(* What is no digit counts for nothing in front of a number.               *)
LEMMA FirstSkipped ==
  ASSUME NEW V, NEW t \in Seq(V), NEW i \in 1..Len(t), NEW j \in (i + 1)..Len(t),
         ~N!Digit(t, i)
  PROVE  N!NumberOf(t, i, j) = N!NumberOf(t, i + 1, j)
<1> DEFINE n == j - i
           m == j - i + 1
           i2 == i + 1
<1>1. /\ i \in Int /\ j \in i..Len(t) /\ n \in Nat /\ m = n + 1 /\ m \in Nat /\ m = j - i + 1
      /\ i2 \in 1..Len(t) /\ j \in i2..Len(t) /\ n = j - i2 + 1
      /\ DOMAIN t = 1..Len(t)
  OBVIOUS
<1> HIDE DEF n, m, i2
<1>12. PICK a : IsCount(a, t, i, j, m)
  BY <1>1, PartRows
<1>2. /\ N!NumberOf(t, i, j) = a[m] /\ a[0] = 0
       /\ \A k \in 1..m : a[k] \in Nat /\ a[k] = N!Read(a[k - 1], t[i + k - 1])
  BY <1>12 DEF IsCount
<1>13. PICK b : IsCount(b, t, i2, j, n)
  BY <1>1, PartRows
<1>3. /\ N!NumberOf(t, i2, j) = b[n] /\ b[0] = 0
       /\ \A k \in 1..n : b[k] \in Nat /\ b[k] = N!Read(b[k - 1], t[i2 + k - 1])
  BY <1>13 DEF IsCount
<1>4. a[1] = 0
  <2>1. 1 \in 1..m /\ 1 - 1 = 0 /\ i + 1 - 1 = i
    BY <1>1
  <2>2. a[1] = N!Read(0, t[i])
    BY <1>2, <2>1
  <2>3. ~(t[i][1] = "char" /\ t[i][2] \in N!DigitChars)
    BY <1>1 DEF N!Digit
  <2> QED BY <2>2, <2>3, ReadFacts
<1> DEFINE Q == {k \in Nat : k <= n => a[k + 1] = b[k]}
<1>5. 0 \in Q
  BY <1>3, <1>4
<1>6. ASSUME NEW k \in Nat, k \in Q PROVE k + 1 \in Q
  <2> SUFFICES ASSUME k + 1 <= n PROVE a[(k + 1) + 1] = b[k + 1]
    OBVIOUS
  <2>1. /\ k + 1 \in 1..n /\ (k + 1) + 1 \in 1..m /\ k <= n
        /\ (k + 1) - 1 = k /\ ((k + 1) + 1) - 1 = k + 1
        /\ i + ((k + 1) + 1) - 1 = i2 + (k + 1) - 1
    BY <1>1 DEF i2
  <2>2. a[(k + 1) + 1] = N!Read(a[k + 1], t[i2 + (k + 1) - 1])
    BY <1>2, <2>1
  <2>3. b[k + 1] = N!Read(b[k], t[i2 + (k + 1) - 1])
    BY <1>3, <2>1
  <2> QED BY <1>6, <2>1, <2>2, <2>3
<1> HIDE DEF Q
<1>7. n \in Q
  BY <1>1, <1>5, <1>6, Induction
<1> USE DEF Q
<1>8. a[n + 1] = b[n]
  BY <1>1, <1>7
<1> QED BY <1>1, <1>2, <1>3, <1>8 DEF i2

(* One digit and two are read as what they are.                            *)
LEMMA FewDigits ==
  ASSUME NEW V, NEW t \in Seq(V), NEW i \in 1..Len(t), N!Digit(t, i)
  PROVE  /\ N!DigitValue(t[i][2]) \in 0..9
         /\ N!NumberOf(t, i, i) = N!DigitValue(t[i][2])
         /\ i + 1 <= Len(t) /\ N!Digit(t, i + 1) =>
              N!NumberOf(t, i, i + 1) =
                10 * N!DigitValue(t[i][2]) + N!DigitValue(t[i + 1][2])
<1>1. MaxValue \in Nat /\ MaxValue >= 99
  BY TextsAssumption
<1>2. ASSUME NEW k, N!Digit(t, k)
      PROVE  /\ t[k][1] = "char" /\ t[k][2] \in N!DigitChars
             /\ N!DigitValue(t[k][2]) \in 0..9
  BY <1>2, DigitRange DEF N!Digit
<1> DEFINE d == N!DigitValue(t[i][2])
           e == N!DigitValue(t[i + 1][2])
<1>3. N!Read(0, t[i]) = d /\ d \in 0..9
  <2>1. d \in 0..9 /\ t[i][1] = "char" /\ t[i][2] \in N!DigitChars
    BY <1>2
  <2> HIDE DEF d
  <2>2. 10 * 0 + d <= MaxValue + 1 /\ 0 \in Nat /\ 10 * 0 + d = d
    BY <1>1, <2>1
  <2>3. N!Read(0, t[i]) = 10 * 0 + d
    BY <2>1, <2>2, ReadFacts DEF d
  <2> QED BY <2>1, <2>2, <2>3
<1>4. N!NumberOf(t, i, i) = d
  <2>1. i \in i..Len(t) /\ i - i + 1 = 1 /\ i + 1 - 1 = i /\ 1 - 1 = 0 /\ 1 \in 1..1
    OBVIOUS
  <2>12. PICK a : IsCount(a, t, i, i, 1)
    BY <2>1, PartRows
  <2>2. /\ N!NumberOf(t, i, i) = a[1] /\ a[0] = 0
         /\ \A k \in 1..1 : a[k] = N!Read(a[k - 1], t[i + k - 1])
    BY <2>12 DEF IsCount
  <2>3. a[1] = N!Read(0, t[i])
    BY <2>1, <2>2
  <2> QED BY <1>3, <2>1, <2>2, <2>3
<1>5. ASSUME i + 1 <= Len(t), N!Digit(t, i + 1) PROVE N!NumberOf(t, i, i + 1) = 10 * d + e
  <2> DEFINE j == i + 1
  <2>1. j \in i..Len(t) /\ j - i + 1 = 2 /\ i + 1 - 1 = i /\ i + 2 - 1 = j /\ 1 - 1 = 0
        /\ 2 - 1 = 1 /\ 1 \in 1..2 /\ 2 \in 1..2
    BY <1>5
  <2>2. e \in 0..9 /\ t[j][1] = "char" /\ t[j][2] \in N!DigitChars /\ e = N!DigitValue(t[j][2])
    BY <1>2, <1>5
  <2> HIDE DEF j, e, d
  <2>13. PICK a : IsCount(a, t, i, j, 2)
    BY <2>1, PartRows
  <2>3. /\ N!NumberOf(t, i, j) = a[2] /\ a[0] = 0
         /\ \A k \in 1..2 : a[k] = N!Read(a[k - 1], t[i + k - 1])
    BY <2>13 DEF IsCount
  <2>4. a[1] = N!Read(a[0], t[i])
    BY <2>1, <2>3
  <2>5. a[2] = N!Read(a[1], t[j])
    BY <2>1, <2>3
  <2>6. a[1] = d
    BY <1>3, <2>3, <2>4
  <2>7. 10 * d + e <= MaxValue + 1 /\ d \in Nat
    BY <1>1, <1>3, <2>2
  <2>8. N!Read(d, t[j]) = 10 * d + e
    BY <2>2, <2>7, ReadFacts
  <2>9. N!NumberOf(t, i, j) = 10 * d + e
    BY <2>1, <2>3, <2>5, <2>6, <2>8
  <2> QED BY <2>9 DEF j
<1> QED BY <1>3, <1>4, <1>5

-----------------------------------------------------------------------------
(* Numbers and amounts that are set off by spaces                          *)

(* A number between spaces is what the regular expression looks for.       *)
LEMMA NumberFound ==
  ASSUME NEW V, NEW t \in Seq(V), NEW p \in 1..Len(t), NEW q \in p..Len(t),
         IsChunk(t, p, q), NEW c, c = SubSeq(t, p, q), NEW m, IsNumber(c, 1, m)
  PROVE  q \in N!NumberEnds(t, p) /\ Max(N!NumberEnds(t, p)) = q
<1> DEFINE M == (p - 1) + m
<1>1. /\ M \in p..q
      /\ N!Digits(c, 1, m) => N!Digits(t, p, M)
      /\ N!Grouped(c, 1, m) => N!Grouped(t, p, M)
      /\ N!Fraction(t, M + 1, q, Len(c))
      /\ N!Digit(t, p) /\ N!Digit(t, q) /\ Len(c) = q - p + 1
  <2>1. (p - 1) + 1 = p
    OBVIOUS
  <2>2. StandsIn(c, 1, m, t, p, q)
    BY NumberInText
  <2>3. N!Fraction(c, m + 1, Len(c), Len(c))
    BY DEF IsNumber
  <2>4. N!Fraction(t, M + 1, q, Len(c))
    BY <2>2, <2>3 DEF StandsIn
  <2>5. M \in p..q /\ N!Digit(t, p) /\ N!Digit(t, q) /\ Len(c) = q - p + 1
    BY <2>1, <2>2 DEF StandsIn
  <2>6. /\ N!Digits(c, 1, m) => N!Digits(t, p, M)
        /\ N!Grouped(c, 1, m) => N!Grouped(t, p, M)
    BY <2>1, <2>2 DEF StandsIn
  <2> QED BY <2>4, <2>5, <2>6
<1>2. /\ Len(t) \in Nat /\ DOMAIN t = 1..Len(t) /\ p \in Int /\ q \in Int /\ M \in Int
      /\ p <= M /\ M <= q /\ q <= Len(t) /\ 1 <= p /\ q \in 1..Len(t)
  BY <1>1
<1>3. N!Grouped(c, 1, m) \/ N!Digits(c, 1, m)
  BY DEF IsNumber
<1>4. /\ N!Grouped(t, p, M) \/ N!Digits(t, p, M)
      /\ N!Fraction(t, M + 1, q, Len(t))
  <2>1. Len(c) <= Len(t)
    BY <1>1, <1>2
  <2>2. N!Fraction(t, M + 1, q, Len(t))
    <3> DEFINE n == Len(c)
    <3>1. n <= Len(t) /\ n \in Int /\ N!Fraction(t, M + 1, q, n)
      BY <1>1, <1>2, <2>1
    <3> HIDE DEF n
    <3> QED BY <1>2, <3>1 DEF N!Fraction
  <2> QED BY <1>1, <1>3, <2>2
<1> HIDE DEF M
<1>5. N!Word(t, p) /\ ~N!Is(t, p, "-") /\ N!Word(t, q) /\ ~N!Is(t, q, "abbrev")
  BY <1>1, DigitFacts
<1>6. N!Boundary(t, p) /\ N!Boundary(t, q + 1)
  <2>1. ~N!Word(t, p - 1)
    <3>1. CASE p = 1
      <4>1. p - 1 \notin DOMAIN t
        BY <1>2, <3>1
      <4> QED BY <4>1 DEF N!Word
    <3>2. CASE t[p - 1] = Blank
      BY <3>2, WordFacts
    <3> QED BY <3>1, <3>2 DEF IsChunk
  <2>2. ~N!Word(t, q + 1)
    <3>1. CASE q = Len(t)
      <4>1. q + 1 \notin DOMAIN t
        BY <1>2, <3>1
      <4> QED BY <4>1 DEF N!Word
    <3>2. CASE t[q + 1] = Blank
      BY <3>2, WordFacts
    <3> QED BY <3>1, <3>2 DEF IsChunk, Runs
  <2>3. (q + 1) - 1 = q
    BY <1>2
  <2> QED BY <1>5, <2>1, <2>2, <2>3 DEF N!Boundary
<1> DEFINE plain == {j \in p..Len(t) :
                       /\ N!Boundary(t, p) /\ N!Boundary(t, j + 1)
                       /\ \E e \in p..j : N!Digits(t, p, e) /\ N!Fraction(t, e + 1, j, Len(t))}
           grouped == {j \in p..Len(t) :
                       /\ N!Boundary(t, p) /\ N!Boundary(t, j + 1)
                       /\ \E e \in p..j : N!Grouped(t, p, e) /\ N!Fraction(t, e + 1, j, Len(t))}
<1>7. N!NumberEnds(t, p) = IF grouped = {} THEN plain ELSE grouped
  BY <1>5 DEF N!NumberEnds, N!NumberEndsGrouped
<1>8. \A j \in N!NumberEnds(t, p) :
        j \in p..Len(t) /\ N!Digit(t, j) /\ ~N!Word(t, j + 1) /\ j <= q
  <2> SUFFICES ASSUME NEW j \in N!NumberEnds(t, p)
               PROVE  j \in p..Len(t) /\ N!Digit(t, j) /\ ~N!Word(t, j + 1) /\ j <= q
    OBVIOUS
  <2> HIDE DEF plain, grouped
  <2>1. j \in p..Len(t) /\ N!Digit(t, j) /\ ~N!Word(t, j + 1)
    BY <1>2, NumberCloses
  <2>2. \A k \in p..j : t[k] # Blank
    BY <1>2, NumberMatches
  <2>3. p \in p..q /\ j \in p..Len(t)
    BY <1>2, <2>1
  <2>4. j <= q
    BY <1>2, <2>2, <2>3, StaysWithin
  <2> QED BY <2>1, <2>4
<1>9. N!Grouped(t, p, M) => q \in grouped
  BY <1>2, <1>4, <1>6
<1>10. N!Digits(t, p, M) => q \in plain
  BY <1>2, <1>4, <1>6
<1>11. ASSUME NEW j \in grouped, N!Digits(t, p, M) PROVE N!Grouped(t, p, M)
  <2>1. PICK e \in p..j : N!Grouped(t, p, e) /\ N!Fraction(t, e + 1, j, Len(t))
    BY <1>11
  <2> HIDE DEF plain, grouped
  <2>8. j \in N!NumberEnds(t, p)
    BY <1>7, <1>11
  <2>9. j \in p..Len(t) /\ N!Digit(t, j) /\ ~N!Word(t, j + 1) /\ j <= q
    BY <1>8, <2>8
  <2>2. N!Digit(t, j) /\ ~N!Word(t, j + 1) /\ j <= q /\ j \in Int
    BY <1>2, <2>9
  <2>3. e \in Int /\ p <= e /\ e <= j /\ e <= q
    BY <1>2, <2>1, <2>2
  <2>4. IsRun(t, p, e)
    BY <1>2, <2>1, <2>3, NumberRuns
  <2>5. ~(e > M)
    <3> SUFFICES ASSUME e > M PROVE FALSE
      OBVIOUS
    <3>1. M + 1 \in p..e /\ ~(M + 1 > q)
      BY <1>2, <2>3
    <3>2. N!Is(t, M + 1, ".")
      BY <1>4, <3>1 DEF N!Fraction
    <3> QED BY <2>4, <3>1, <3>2, PointFacts DEF IsRun
  <2>6. ~(e < M)
    <3> SUFFICES ASSUME e < M PROVE FALSE
      OBVIOUS
    <3>1. e + 1 \in p..M
      BY <1>2, <2>3
    <3>2. N!Digit(t, e + 1)
      BY <1>11, <3>1 DEF N!Digits
    <3>3. CASE e = j
      BY <2>2, <3>2, <3>3, DigitFacts
    <3>4. CASE e # j
      <4>1. ~(e + 1 > j)
        BY <2>2, <2>3, <3>4
      <4>2. N!Is(t, e + 1, ".")
        BY <2>1, <4>1 DEF N!Fraction
      <4> QED BY <3>2, <4>2, PointFacts
    <3> QED BY <3>3, <3>4
  <2>7. e = M
    BY <1>2, <2>3, <2>5, <2>6
  <2> QED BY <2>1, <2>7
<1>12. q \in N!NumberEnds(t, p)
  <2>1. CASE grouped = {}
    <3>1. ~N!Grouped(t, p, M)
      BY <1>9, <2>1
    <3>2. q \in plain
      BY <1>4, <1>10, <3>1
    <3> QED BY <1>7, <2>1, <3>2
  <2>2. CASE grouped # {}
    <3>1. PICK j : j \in grouped
      BY <2>2
    <3>2. N!Grouped(t, p, M)
      BY <1>4, <1>11, <3>1
    <3> QED BY <1>7, <1>9, <2>2, <3>2
  <2> QED BY <2>1, <2>2
<1>13. Max(N!NumberEnds(t, p)) = q
  <2> DEFINE E == N!NumberEnds(t, p)
  <2> HIDE DEF plain, grouped
  <2>1. q \in E /\ \A j \in E : j \in p..Len(t) /\ j <= q
    BY <1>8, <1>12
  <2> HIDE DEF E
  <2>2. E \in SUBSET (0..Len(t))
    BY <1>2, <2>1
  <2>3. Max(E) \in E /\ \A y \in E : y <= Max(E)
    BY <1>2, <2>1, <2>2, MaxFacts
  <2>4. Max(E) <= q /\ q <= Max(E) /\ Max(E) \in Int /\ q \in Int
    <3>1. Max(E) \in E /\ Max(E) \in p..Len(t) /\ q \in E /\ Max(E) <= q /\ q <= Max(E)
      BY <2>1, <2>3
    <3> QED BY <1>2, <3>1
  <2>5. Max(E) = q
    BY <2>4
  <2> QED BY <2>5 DEF E
<1> QED BY <1>12, <1>13

\* What is said of a number, and of an amount.
Point == << <<"point", 0>> >>
DigitWords(t, i, j) == [k \in 1..(j - i + 1) |-> <<"ones", N!DigitValue(t[i + k - 1][2])>>]
NumberSaid(c) ==
  LET m == N!WholeEnd(c, 1, Len(c))
      words == N!Words[N!NumberOf(c, 1, m)]
  IN IF m = Len(c) THEN words ELSE words \o Point \o DigitWords(c, m + 2, Len(c))

Dollars == << <<"dollars", 0>> >>
CentsSaid(c) ==
  IF N!WholeEnd(c, 1, Len(c)) = Len(c) THEN <<>>
  ELSE N!Words[N!Cents(c, 1, Len(c))] \o << <<"cents", 0>> >>
AmountSaid(c) ==
  N!Words[N!NumberOf(c, 2, N!WholeEnd(c, 1, Len(c)))] \o Dollars \o CentsSaid(c)

(* It is said of the number wherever that stands.                          *)
LEMMA NumberWritten ==
  ASSUME NEW V, NEW t \in Seq(V), NEW p \in 1..Len(t), NEW q \in p..Len(t),
         NEW c, c = SubSeq(t, p, q), NEW m, IsNumber(c, 1, m),
         ~N!TooLong(N!NumberOf(c, 1, m))
  PROVE  N!CardinalWords(t, p, q) = N!Said(NumberSaid(c))
<1> DEFINE M == (p - 1) + m
           n == Len(c)
<1>1. /\ c \in Seq(V) /\ n = q - p + 1 /\ M \in p..q /\ N!Digit(t, p)
      /\ N!NumberOf(c, 1, m) = N!NumberOf(t, p, M)
      /\ N!WholeEnd(c, 1, n) = m /\ N!WholeEnd(t, p, q) = M
      /\ \A k \in p..q : NumberItem(t, k)
  <2>1. (p - 1) + 1 = p
    OBVIOUS
  <2>2. c \in Seq(V) /\ StandsIn(c, 1, m, t, p, q)
    BY NumberInText
  <2>3. /\ Len(c) = q - p + 1 /\ M \in p..q /\ N!Digit(t, p)
        /\ N!NumberOf(c, 1, m) = N!NumberOf(t, p, M)
    BY <2>1, <2>2 DEF StandsIn
  <2>4. N!WholeEnd(c, 1, Len(c)) = m /\ N!WholeEnd(t, p, q) = M
    BY <2>2 DEF StandsIn
  <2>5. \A k \in p..q : NumberItem(t, k)
    BY <2>1, <2>2 DEF StandsIn
  <2> QED BY <2>2, <2>3, <2>4, <2>5
<1>2. /\ n \in Nat /\ m \in 1..n /\ m \in Int /\ p \in Int /\ q \in Int
      /\ (M = q <=> m = n) /\ q - M - 1 = n - (m + 2) + 1 /\ 1 \in 1..n
      /\ \A k \in 1..(q - M - 1) : /\ (m + 2) + k - 1 \in 1..n
                                   /\ p + ((m + 2) + k - 1) - 1 = M + 1 + k
  <2>1. m \in 1..n /\ n \in Nat
    BY <1>1 DEF IsNumber
  <2>2. n = q - p + 1 /\ p \in Int /\ q \in Int
    BY <1>1
  <2> HIDE DEF n
  <2> QED BY <2>1, <2>2
<1>3. ~N!Is(t, p, "-")
  BY <1>1, DigitFacts
<1>4. N!NumberOf(c, 1, m) \in Nat
  BY <1>1, <1>2, NumberType
<1> DEFINE x == N!NumberOf(t, p, M)
           e == [k \in 1..(q - M - 1) |-> <<"ones", N!DigitValue(t[M + 1 + k][2])>>]
<1>5. e = DigitWords(c, m + 2, n)
  <2>1. ASSUME NEW k \in 1..(q - M - 1) PROVE t[M + 1 + k] = c[(m + 2) + k - 1]
    <3> DEFINE j == (m + 2) + k - 1
    <3>1. j \in 1..n /\ p + j - 1 = M + 1 + k
      BY <1>2
    <3> HIDE DEF j, M
    <3>2. c[j] = t[p + j - 1]
      BY <1>1, <3>1
    <3> QED BY <3>1, <3>2 DEF j
  <2>2. e = [k \in 1..(q - M - 1) |-> <<"ones", N!DigitValue(c[(m + 2) + k - 1][2])>>]
    BY <2>1
  <2> HIDE DEF e
  <2> QED BY <1>2, <2>2 DEF DigitWords
<1> HIDE DEF e
<1>6. N!IntegerToWords(x) = N!Words[x] /\ x = N!NumberOf(c, 1, m) /\ ~N!TooLong(x)
  <2>1. x = N!NumberOf(c, 1, m)
    BY <1>1
  <2> HIDE DEF x
  <2>2. x \in Nat /\ ~(x < 0)
    BY <1>4, <2>1
  <2> QED BY <2>1, <2>2 DEF N!IntegerToWords
<1>7. N!CardinalWords(t, p, q) = IF M = q THEN N!Said(N!IntegerToWords(x))
                                 ELSE N!Said(N!IntegerToWords(x) \o << <<"point", 0>> >> \o e)
  <2>1. ~N!TooLong(x)
    BY <1>6
  <2>2. N!WholeEnd(t, p, q) = M
    BY <1>1
  <2> HIDE DEF M
  <2> QED BY <1>3, <2>1, <2>2 DEF N!CardinalWords, e
<1>8. NumberSaid(c) = IF m = n THEN N!Words[x] ELSE N!Words[x] \o Point \o e
  BY <1>1, <1>5, <1>6 DEF NumberSaid
<1> HIDE DEF M, x, n
<1> QED BY <1>2, <1>6, <1>7, <1>8 DEF Point

\* An amount that is set off by spaces.
IsAmount(c, m) ==
  /\ N!Is(c, 1, "$") /\ m \in 2..Len(c)
  /\ N!Grouped(c, 2, m) /\ N!Fraction(c, m + 1, Len(c), 2)

(* It is a number with its sign.                                           *)
LEMMA AmountNumber ==
  ASSUME NEW V, NEW c \in Seq(V), NEW m, IsAmount(c, m)
  PROVE  IsNumber(c, 2, m)
<1> DEFINE n == Len(c)
<1>1. n \in Nat /\ m \in 2..n /\ N!Grouped(c, 2, m) /\ N!Fraction(c, m + 1, n, 2)
  BY DEF IsAmount
<1> HIDE DEF n
<1>2. 2 \in 1..n /\ m \in Int /\ 2 <= m /\ m <= n
  BY <1>1
<1>3. N!Fraction(c, m + 1, n, n)
  <2>1. m + 1 > n \/ (N!Is(c, m + 1, ".") /\ N!Digits(c, (m + 1) + 1, n) /\ n - (m + 1) <= 2)
    BY <1>1 DEF N!Fraction
  <2>2. n - (m + 1) <= n
    BY <1>1, <1>2
  <2> QED BY <2>1, <2>2 DEF N!Fraction
<1> QED BY <1>1, <1>2, <1>3 DEF IsNumber, n

(* An amount between spaces is found, as long as it is.                    *)
LEMMA AmountFound ==
  ASSUME NEW V, NEW t \in Seq(V), NEW p \in 1..Len(t), NEW q \in p..Len(t),
         IsChunk(t, p, q), NEW c, c = SubSeq(t, p, q), NEW m, IsAmount(c, m)
  PROVE  q \in N!AmountEnds(t, p) /\ Max(N!AmountEnds(t, p)) = q
<1> DEFINE M == (p - 1) + m
<1>1. /\ M \in (p + 1)..q /\ N!Is(t, p, "$")
      /\ N!Grouped(t, p + 1, M) /\ N!Fraction(t, M + 1, q, 2)
  <2>1. (p - 1) + 2 = p + 1
    OBVIOUS
  <2>2. c \in Seq(V)
    OBVIOUS
  <2>3. IsNumber(c, 2, m)
    BY <2>2, AmountNumber
  <2>4. N!Is(c, 1, "$") /\ N!Grouped(c, 2, m) /\ N!Fraction(c, m + 1, Len(c), 2)
    BY DEF IsAmount
  <2>5. StandsIn(c, 2, m, t, p, q)
    BY <2>3, <2>4, NumberInText
  <2>6. N!Fraction(t, M + 1, q, 2)
    BY <2>4, <2>5 DEF StandsIn
  <2>7. M \in (p + 1)..q /\ N!Is(t, p, "$") /\ N!Grouped(t, p + 1, M)
    BY <2>1, <2>4, <2>5 DEF StandsIn
  <2> QED BY <2>6, <2>7
<1>2. Len(t) \in Nat /\ p \in Int /\ q \in (p + 1)..Len(t) /\ q \in 1..Len(t) /\ p \in p..q
  BY <1>1
<1> HIDE DEF M
<1> DEFINE E == N!AmountEnds(t, p)
<1>3. q \in E
  BY <1>1, <1>2 DEF N!AmountEnds
<1>4. ASSUME NEW j \in E PROVE j \in p..q
  <2>1. j \in p..Len(t) /\ \A k \in p..j : t[k] # Blank
    BY <1>2, AmountMatches
  <2> HIDE DEF E
  <2>2. j <= q
    BY <1>2, <2>1, StaysWithin
  <2> QED BY <1>2, <2>1, <2>2
<1> HIDE DEF E
<1>5. E \in SUBSET (0..Len(t))
  BY <1>2, <1>4
<1>6. Max(E) \in E /\ \A y \in E : y <= Max(E)
  BY <1>2, <1>3, <1>5, MaxFacts
<1>7. Max(E) \in p..q /\ q <= Max(E)
  BY <1>3, <1>4, <1>6
<1>8. Max(E) = q
  BY <1>2, <1>7
<1> QED BY <1>3, <1>8 DEF E

(* What is said of it is said wherever it stands, if it can be read.       *)
LEMMA AmountWritten ==
  ASSUME NEW V, NEW t \in Seq(V), NEW p \in 1..Len(t), NEW q \in p..Len(t),
         NEW c, c = SubSeq(t, p, q), NEW m, IsAmount(c, m)
  PROVE  N!AmountWords(t, p, q) \in {N!Thrown, N!Said(AmountSaid(c))}
<1> DEFINE M == (p - 1) + m
           n == Len(c)
<1>0. c \in Seq(V) /\ IsNumber(c, 2, m) /\ N!Is(c, 1, "$") /\ N!Fraction(c, m + 1, n, 2)
  <2>1. c \in Seq(V)
    OBVIOUS
  <2> QED BY <2>1, AmountNumber DEF IsAmount
<1>1. /\ n = q - p + 1 /\ M \in (p + 1)..q
      /\ N!NumberOf(c, 2, m) = N!NumberOf(t, p + 1, M)
      /\ N!WholeEnd(c, 1, n) = m /\ N!WholeEnd(t, p, q) = M
  <2>1. (p - 1) + 2 = p + 1
    OBVIOUS
  <2>2. StandsIn(c, 2, m, t, p, q)
    BY <1>0, NumberInText
  <2>3. n = q - p + 1 /\ M \in (p + 1)..q /\ N!NumberOf(c, 2, m) = N!NumberOf(t, p + 1, M)
    BY <2>1, <2>2 DEF StandsIn
  <2>4. N!WholeEnd(c, 1, n) = m /\ N!WholeEnd(t, p, q) = M
    BY <2>2 DEF StandsIn
  <2> QED BY <2>3, <2>4
<1>2. /\ n \in Nat /\ m \in 2..n /\ m \in Int /\ p \in Int /\ q \in Int
      /\ (M = q <=> m = n) /\ q - M = n - m /\ 2 \in 1..n /\ (p - 1) + n = q
      /\ (p - 1) + (m + 1) = M + 1
  <2>1. m \in 2..n /\ n \in Nat
    BY <1>1 DEF IsAmount
  <2>2. n = q - p + 1 /\ p \in Int /\ q \in Int
    BY <1>1
  <2> HIDE DEF n
  <2> QED BY <2>1, <2>2
<1>3. N!NumberOf(c, 2, m) \in Nat
  BY <1>0, <1>2, NumberType
<1> DEFINE x == N!NumberOf(t, p + 1, M)
<1>4. N!IntegerToWords(x) = N!Words[x] /\ x = N!NumberOf(c, 2, m)
  <2>1. x = N!NumberOf(c, 2, m)
    BY <1>1
  <2> HIDE DEF x
  <2>2. x \in Nat /\ ~(x < 0)
    BY <1>3, <2>1
  <2> QED BY <2>1, <2>2 DEF N!IntegerToWords
<1>5. ASSUME M # q
      PROVE  /\ N!Cents(t, p, q) = N!Cents(c, 1, n)
             /\ N!IntegerToWords(N!Cents(t, p, q)) = N!Words[N!Cents(c, 1, n)]
  <2> DEFINE y == N!NumberOf(t, M + 1, q)
             z == N!NumberOf(c, m + 1, n)
             f == IF q - M = 2 THEN 10 ELSE 1
  <2>1. m + 1 \in 1..n /\ n \in (m + 1)..n
    BY <1>2, <1>5
  <2>2. y = z /\ z \in Nat
    <3> DEFINE a == m + 1
    <3> HIDE DEF a
    <3>1. IsPart(c, t, p - 1)
      BY ChunkIsPart
    <3> DEFINE o == p - 1
    <3>2. IsPart(c, t, o) /\ o \in Nat /\ t \in Seq(V) /\ c \in Seq(V)
      BY <1>0, <3>1
    <3>3. o + a = M + 1 /\ o + n = q /\ a \in 1..Len(c) /\ n \in a..Len(c)
      BY <1>2, <2>1 DEF a
    <3> HIDE DEF o, n
    <3>4. N!NumberOf(c, a, n) = N!NumberOf(t, o + a, o + n)
      BY ONLY <3>2, <3>3, PartMatches
    <3>5. N!NumberOf(c, a, n) \in Nat
      BY <1>0, <3>3, NumberType
    <3> QED BY <3>3, <3>4, <3>5 DEF a
  <2>3. N!Cents(t, p, q) = y * f
    BY <1>1 DEF N!Cents
  <2>4. N!Cents(c, 1, n) = z * f
    BY <1>1, <1>2 DEF N!Cents
  <2>5. f \in {1, 10}
    OBVIOUS
  <2> HIDE DEF y, z, f
  <2> DEFINE g == N!Cents(c, 1, n)
  <2>6. N!Cents(t, p, q) = g
    BY <2>2, <2>3, <2>4
  <2>7. g \in Nat
    BY <2>2, <2>4, <2>5
  <2> HIDE DEF g
  <2>8. N!IntegerToWords(g) = N!Words[g]
    <3>1. ~(g < 0)
      BY <2>7
    <3> QED BY <3>1 DEF N!IntegerToWords
  <2> QED BY <2>6, <2>8 DEF g
<1> DEFINE rest == IF M = q THEN <<>>
                   ELSE N!IntegerToWords(N!Cents(t, p, q)) \o << <<"cents", 0>> >>
<1>6. N!AmountWords(t, p, q) = IF N!TooLong(x) THEN N!Thrown
                               ELSE N!Said(N!IntegerToWords(x) \o << <<"dollars", 0>> >> \o rest)
  <2>1. N!WholeEnd(t, p, q) = M
    BY <1>1
  <2> HIDE DEF M
  <2> QED BY <2>1 DEF N!AmountWords
<1>7. rest = CentsSaid(c)
  <2>1. N!WholeEnd(c, 1, n) = m /\ (M = q <=> m = n)
    BY <1>1, <1>2
  <2> HIDE DEF M
  <2>2. CASE M = q
    BY <2>1, <2>2 DEF CentsSaid
  <2>3. CASE M # q
    BY <1>5, <2>1, <2>3 DEF CentsSaid
  <2> QED BY <2>2, <2>3
<1> HIDE DEF rest
<1>8. AmountSaid(c) = N!Words[x] \o Dollars \o rest
  BY <1>1, <1>4, <1>7 DEF AmountSaid
<1> HIDE DEF M, x, n
<1> QED BY <1>4, <1>6, <1>8 DEF Dollars

\* What becomes of a chunk c of the text as it came, when that pass is next.
Amount(c) == \E m : IsAmount(c, m)
Becomes(c, s, stage) ==
  /\ N!Plain(c, 1) => s = IF stage \in Writing THEN c ELSE N!Said(NumberSaid(c))
  /\ Amount(c) => IF stage \in {"abbreviations", "currency"} THEN s = c
                  ELSE s = N!Said(AmountSaid(c)) \/ (s = N!Thrown /\ stage # "done")

(* A plain number is one that is not too long.                             *)
LEMMA PlainNumber ==
  ASSUME NEW V, NEW c \in Seq(V), N!Plain(c, 1)
  PROVE  \E m : IsNumber(c, 1, m) /\ ~N!TooLong(N!NumberOf(c, 1, m))
<1>1. PICK m \in 1..Len(c) : /\ N!Grouped(c, 1, m) \/ N!Digits(c, 1, m)
                             /\ N!Fraction(c, m + 1, Len(c), Len(c))
                             /\ ~N!TooLong(N!NumberOf(c, 1, m))
  BY DEF N!Plain
<1>2. 1 \in 1..Len(c)
  BY <1>1
<1> QED BY <1>1, <1>2 DEF IsNumber

(* What the characters of such a chunk are, in the text.                   *)
LEMMA ChunkItems ==
  ASSUME NEW V, NEW t \in Seq(V), NEW p \in 1..Len(t), NEW q \in p..Len(t),
         NEW c, c = SubSeq(t, p, q), NEW k \in p..q
  PROVE  /\ N!Plain(c, 1) => NumberItem(t, k)
         /\ Amount(c) => NumberItem(t, k) \/ N!Is(t, k, "$")
<1>1. c \in Seq(V)
  OBVIOUS
<1>2. ASSUME N!Plain(c, 1) PROVE NumberItem(t, k)
  <2>1. PICK m : IsNumber(c, 1, m)
    BY <1>1, <1>2, PlainNumber
  <2>2. StandsIn(c, 1, m, t, p, q)
    BY <2>1, NumberInText
  <2>3. (p - 1) + 1 = p
    OBVIOUS
  <2> QED BY <2>2, <2>3 DEF StandsIn
<1>3. ASSUME Amount(c) PROVE NumberItem(t, k) \/ N!Is(t, k, "$")
  <2>1. PICK m : IsAmount(c, m)
    BY <1>3 DEF Amount
  <2>2. IsNumber(c, 2, m) /\ N!Is(c, 1, "$")
    BY <1>1, <2>1, AmountNumber DEF IsAmount
  <2>3. StandsIn(c, 2, m, t, p, q)
    BY <2>2, NumberInText
  <2>4. (p - 1) + 2 = p + 1 /\ (k = p \/ k \in (p + 1)..q)
    OBVIOUS
  <2>5. N!Is(t, p, "$")
    BY <2>2, <2>3 DEF StandsIn
  <2>6. \A e \in (p + 1)..q : NumberItem(t, e)
    BY <2>3, <2>4 DEF StandsIn
  <2> QED BY <2>4, <2>5, <2>6
<1> QED BY <1>2, <1>3

(* Words that stand alone are one item.                                    *)
LEMMA SaidAlone ==
  ASSUME NEW V, NEW t \in Seq(V), NEW p \in 1..Len(t), NEW q \in p..Len(t),
         NEW s, s = SubSeq(t, p, q), Len(s) = 1
  PROVE  q = p /\ t[p] = s[1]
<1>1. p \in Int /\ q \in Int /\ p <= q
  OBVIOUS
<1>2. Len(s) = q - p + 1
  BY ChunkIsPart
<1>3. IsPart(s, t, p - 1)
  BY ChunkIsPart
<1>4. 1 \in 1..Len(s) /\ (p - 1) + 1 = p
  BY <1>1
<1>5. s[1] = t[p]
  BY <1>3, <1>4 DEF IsPart
<1>6. q = p
  BY <1>1, <1>2
<1> QED BY <1>5, <1>6

(* What has been said is neither a number nor an ordinal.                  *)
LEMMA SaidStays ==
  ASSUME NEW t, Len(t) \in Nat, NEW p \in 1..Len(t), ~IsChar(t[p])
  PROVE  N!OrdinalEnds(t, p) = {} /\ N!NumberEnds(t, p) = {}
<1>1. ASSUME NEW j \in N!OrdinalEnds(t, p) PROVE FALSE
  <2>1. j \in (p + 1)..Len(t) /\ N!Digits(t, p, j - 1)
    BY OrdinalMatches
  <2>2. p \in p..(j - 1)
    BY <2>1
  <2>3. N!Digit(t, p)
    BY <2>1, <2>2 DEF N!Digits
  <2> QED BY <2>3, DigitFacts
<1>2. ASSUME NEW j \in N!NumberEnds(t, p) PROVE FALSE
  BY NumberMatches
<1> QED BY <1>1, <1>2

(* A number has no ordinal in it.                                          *)
LEMMA NoOrdinal ==
  ASSUME NEW t, Len(t) \in Nat, NEW p \in 1..Len(t), NEW q \in 1..Len(t), IsChunk(t, p, q),
         NEW i \in p..q, \A k \in p..q : NumberItem(t, k)
  PROVE  N!OrdinalEnds(t, i) = {}
<1> SUFFICES ASSUME NEW j \in N!OrdinalEnds(t, i) PROVE FALSE
  OBVIOUS
<1>0. i \in 1..Len(t)
  BY DEF IsChunk, Runs
<1>1. j \in (i + 1)..Len(t) /\ N!Is(t, j, "th") /\ \A k \in i..j : t[k] # Blank
  BY <1>0, OrdinalMatches
<1>2. j \in i..Len(t)
  BY <1>1
<1>3. j <= q
  BY <1>1, <1>2, StaysWithin
<1>4. j \in p..q
  BY <1>2, <1>3
<1> QED BY <1>1, <1>4, NumberItemFacts

(* The abbreviations leave numbers and amounts alone.                      *)
LEMMA AbbreviationsPiece ==
  ASSUME NEW V, NEW t \in Seq(V), NEW p \in 1..Len(t), NEW q \in p..Len(t),
         NEW c, Becomes(c, SubSeq(t, p, q), "abbreviations"),
         NEW ends, NEW put, NEW s, IsPiece(s, t, p, q, ends, put),
         \A i \in 1..Len(t) : \A j \in ends[i] : j = i /\ N!Is(t, i, "abbrev")
  PROVE  Becomes(c, s, "currency")
<1>1. "abbreviations" \in Writing /\ "currency" \in Writing
  BY DEF Writing
<1>2. N!Plain(c, 1) \/ Amount(c) => c = SubSeq(t, p, q)
  BY <1>1 DEF Becomes
<1>3. ASSUME N!Plain(c, 1) \/ Amount(c) PROVE s = c
  <2>1. c = SubSeq(t, p, q)
    BY <1>2, <1>3
  <2>2. ASSUME NEW i \in p..q PROVE ends[i] = {}
    <3>1. NumberItem(t, i) \/ N!Is(t, i, "$")
      BY <1>3, <2>1, ChunkItems
    <3>2. ~N!Is(t, i, "abbrev")
      <4>1. "$" # "abbrev"
        OBVIOUS
      <4>2. <<"char", "$">> # <<"char", "abbrev">>
        BY <4>1
      <4> QED BY <3>1, <4>2, NumberItemFacts DEF N!Is
    <3>3. i \in 1..Len(t)
      OBVIOUS
    <3> QED BY <3>2, <3>3
  <2>3. s = SubSeq(t, p, q)
    BY <2>2 DEF IsPiece
  <2> QED BY <2>1, <2>3
<1> QED BY <1>1, <1>3 DEF Becomes

(* The next pass says the amounts and leaves the numbers.                  *)
LEMMA CurrencyPiece ==
  ASSUME NEW V, NEW t \in Seq(V), NEW p \in 1..Len(t), NEW q \in p..Len(t), IsChunk(t, p, q),
         NEW c, Becomes(c, SubSeq(t, p, q), "currency"),
         NEW ends, NEW put, NEW s, IsPiece(s, t, p, q, ends, put),
         \A i \in 1..Len(t) :
           /\ ends[i] = N!AmountEnds(t, i)
           /\ \A j \in 1..Len(t) : put[i][j] = N!AmountWords(t, i, j)
  PROVE  Becomes(c, s, "ordinals")
<1>1. "currency" \in Writing /\ "ordinals" \in Writing
  BY DEF Writing
<1>2. N!Plain(c, 1) \/ Amount(c) => c = SubSeq(t, p, q)
  BY <1>1 DEF Becomes
<1>3. ASSUME N!Plain(c, 1) PROVE s = c
  <2>1. c = SubSeq(t, p, q)
    BY <1>2, <1>3
  <2>2. ASSUME NEW i \in p..q PROVE ends[i] = {}
    <3>1. NumberItem(t, i)
      BY <1>3, <2>1, ChunkItems
    <3>2. ~N!Is(t, i, "$")
      BY <3>1, NumberItemFacts
    <3>3. i \in 1..Len(t)
      OBVIOUS
    <3>4. N!AmountEnds(t, i) = {}
      BY <3>2 DEF N!AmountEnds
    <3> QED BY <3>3, <3>4
  <2>3. s = SubSeq(t, p, q)
    BY <2>2 DEF IsPiece
  <2> QED BY <2>1, <2>3
<1>4. ASSUME Amount(c) PROVE s \in {N!Thrown, N!Said(AmountSaid(c))}
  <2>1. c = SubSeq(t, p, q)
    BY <1>2, <1>4
  <2>2. PICK m : IsAmount(c, m)
    BY <1>4 DEF Amount
  <2>3. q \in N!AmountEnds(t, p) /\ Max(N!AmountEnds(t, p)) = q
    BY <2>1, <2>2, AmountFound
  <2>4. p \in 1..Len(t) /\ q \in 1..Len(t)
    OBVIOUS
  <2>5. ends[p] = N!AmountEnds(t, p) /\ put[p][q] = N!AmountWords(t, p, q)
    BY <2>4
  <2>6. ends[p] # {} /\ Max(ends[p]) = q
    BY <2>3, <2>5
  <2>7. s = N!AmountWords(t, p, q)
    BY <2>5, <2>6 DEF IsPiece
  <2>8. N!AmountWords(t, p, q) \in {N!Thrown, N!Said(AmountSaid(c))}
    BY <2>1, <2>2, AmountWritten
  <2> QED BY <2>7, <2>8
<1>5. "ordinals" \notin {"abbreviations", "currency"} /\ "ordinals" # "done"
  OBVIOUS
<1> QED BY <1>1, <1>3, <1>4, <1>5 DEF Becomes

(* What has been said of an amount stands alone and is no character.       *)
LEMMA AmountAlone ==
  ASSUME NEW V, NEW t \in Seq(V), NEW p \in 1..Len(t), NEW q \in p..Len(t),
         NEW c, Amount(c), NEW stage, stage \notin {"abbreviations", "currency"},
         Becomes(c, SubSeq(t, p, q), stage)
  PROVE  /\ q = p /\ ~IsChar(t[p])
         /\ t[p][1] \notin Ended => SubSeq(t, p, q) = N!Said(AmountSaid(c))
<1> DEFINE s == SubSeq(t, p, q)
<1>1. s = N!Said(AmountSaid(c)) \/ s = N!Thrown
  BY DEF Becomes
<1> DEFINE x == <<"said", AmountSaid(c)>>
           y == <<"failed", 0>>
<1>2. x[1] = "said" /\ y[1] = "failed"
  OBVIOUS
<1>3. s = <<x>> \/ s = <<y>>
  BY <1>1 DEF N!Said, N!Thrown
<1>4. N!Said(AmountSaid(c)) = <<x>>
  BY DEF N!Said
<1> HIDE DEF x, y, s
<1>5. Len(s) = 1 /\ (s[1] = x \/ s[1] = y)
  BY ONLY <1>3
<1> USE DEF s
<1>6. q = p /\ t[p] = s[1]
  BY <1>5, SaidAlone
<1> HIDE DEF s
<1>7. ~IsChar(t[p])
  BY <1>2, <1>5, <1>6 DEF IsChar
<1>8. ASSUME t[p][1] \notin Ended PROVE s = N!Said(AmountSaid(c))
  <2>1. s[1] # y
    BY <1>2, <1>6, <1>8 DEF Ended
  <2>2. s # <<y>>
    BY <2>1
  <2> QED BY <1>3, <1>4, <2>2
<1> QED BY <1>6, <1>7, <1>8 DEF s

(* The ordinals touch neither.                                             *)
LEMMA OrdinalsPiece ==
  ASSUME NEW V, NEW t \in Seq(V), NEW p \in 1..Len(t), NEW q \in p..Len(t), IsChunk(t, p, q),
         NEW c, Becomes(c, SubSeq(t, p, q), "ordinals"),
         NEW ends, NEW put, NEW s, IsPiece(s, t, p, q, ends, put),
         \A i \in 1..Len(t) : ends[i] = N!OrdinalEnds(t, i)
  PROVE  Becomes(c, s, "numbers")
<1>1. "ordinals" \in Writing /\ "numbers" \in Writing
  BY DEF Writing
<1>2. Len(t) \in Nat /\ q \in 1..Len(t) /\ \A i \in p..q : i \in 1..Len(t)
  OBVIOUS
<1>3. ASSUME N!Plain(c, 1), NEW i \in p..q PROVE ends[i] = {}
  <2>1. c = SubSeq(t, p, q)
    BY <1>1, <1>3 DEF Becomes
  <2>2. \A k \in p..q : NumberItem(t, k)
    BY <1>3, <2>1, ChunkItems
  <2>3. N!OrdinalEnds(t, i) = {}
    BY <1>2, <2>2, NoOrdinal
  <2> QED BY <1>2, <2>3
<1>4. ASSUME Amount(c), NEW i \in p..q PROVE ends[i] = {}
  <2>1. "ordinals" \notin {"abbreviations", "currency"}
    OBVIOUS
  <2>2. q = p /\ ~IsChar(t[p])
    BY <1>4, <2>1, AmountAlone
  <2>3. i = p
    BY <2>2
  <2> QED BY <1>2, <2>2, <2>3, SaidStays
<1>5. N!Plain(c, 1) \/ Amount(c) => s = SubSeq(t, p, q)
  BY <1>3, <1>4 DEF IsPiece
<1>6. "ordinals" \notin {"abbreviations", "currency"} /\ "ordinals" # "done"
      /\ "numbers" \notin {"abbreviations", "currency"} /\ "numbers" # "done"
  OBVIOUS
<1> QED BY <1>1, <1>5, <1>6 DEF Becomes

(* The last of them says the numbers.                                      *)
LEMMA NumbersPiece ==
  ASSUME NEW V, NEW t \in Seq(V), NEW p \in 1..Len(t), NEW q \in p..Len(t), IsChunk(t, p, q),
         NEW c, Becomes(c, SubSeq(t, p, q), "numbers"),
         NEW ends, NEW put, NEW s, IsPiece(s, t, p, q, ends, put),
         \A i \in 1..Len(t) :
           /\ ends[i] = N!NumberEnds(t, i)
           /\ \A j \in 1..Len(t) : put[i][j] = N!CardinalWords(t, i, j)
  PROVE  Becomes(c, s, "whitespace")
<1>1. "numbers" \in Writing /\ "whitespace" \notin Writing
  BY DEF Writing
<1>2. Len(t) \in Nat /\ q \in 1..Len(t) /\ \A i \in p..q : i \in 1..Len(t)
  OBVIOUS
<1>3. ASSUME N!Plain(c, 1) PROVE s = N!Said(NumberSaid(c))
  <2>1. c = SubSeq(t, p, q)
    BY <1>1, <1>3 DEF Becomes
  <2>2. c \in Seq(V)
    BY <2>1
  <2>3. PICK m : IsNumber(c, 1, m) /\ ~N!TooLong(N!NumberOf(c, 1, m))
    BY <1>3, <2>2, PlainNumber
  <2>4. q \in N!NumberEnds(t, p) /\ Max(N!NumberEnds(t, p)) = q
    BY <2>1, <2>3, NumberFound
  <2>5. ends[p] = N!NumberEnds(t, p) /\ put[p][q] = N!CardinalWords(t, p, q)
    BY <1>2
  <2>6. ends[p] # {} /\ Max(ends[p]) = q
    BY <2>4, <2>5
  <2>7. s = N!CardinalWords(t, p, q)
    BY <2>5, <2>6 DEF IsPiece
  <2>8. N!CardinalWords(t, p, q) = N!Said(NumberSaid(c))
    BY <2>1, <2>3, NumberWritten
  <2> QED BY <2>7, <2>8
<1>4. ASSUME Amount(c) PROVE s = SubSeq(t, p, q)
  <2>1. "numbers" \notin {"abbreviations", "currency"}
    OBVIOUS
  <2>2. q = p /\ ~IsChar(t[p])
    BY <1>4, <2>1, AmountAlone
  <2>3. \A i \in p..q : ends[i] = {}
    BY <1>2, <2>2, SaidStays
  <2> QED BY <2>3 DEF IsPiece
<1>5. "numbers" \notin {"abbreviations", "currency"} /\ "numbers" # "done"
      /\ "whitespace" \notin {"abbreviations", "currency"} /\ "whitespace" # "done"
  OBVIOUS
<1> QED BY <1>1, <1>3, <1>4, <1>5 DEF Becomes

(* The spaces that go leave the chunks what they are.                      *)
LEMMA DroppingTurns ==
  ASSUME NEW t, IsSequence(t), NEW from, IsDropping(from, t)
  PROVE  \E piece :
           /\ IsTurned(N!Chunks(from[1]), N!Chunks(t), piece, t)
           /\ \A p, q \in 1..Len(t) : IsChunk(t, p, q) => piece[p] = SubSeq(t, p, q)
<1> DEFINE n == Len(t)
           V == ItemsOf(t) \cup {Blank}
<1>1. n \in Nat /\ t \in Seq(V) /\ Blank \in V
  <2>1. n \in Nat /\ t \in Seq(ItemsOf(t))
    BY DEF IsSequence
  <2> QED BY <2>1
<1>2. /\ from \in [1..(n + 1) -> Seq(V)]
      /\ \A i \in 1..(n + 1) : from[i] \in Seq(V)
      /\ from[n + 1] = <<>>
      /\ \A i \in 1..n :
           from[i] = IF Drops(t, i) THEN from[i + 1] ELSE <<t[i]>> \o from[i + 1]
  <2> DEFINE I == ItemsOf(t)
  <2>1. /\ from \in [1..(n + 1) -> Seq(I)]
        /\ from[n + 1] = <<>>
        /\ \A i \in 1..n :
             from[i] = IF Drops(t, i) THEN from[i + 1] ELSE <<t[i]>> \o from[i + 1]
    BY DEF IsDropping
  <2>2. I \subseteq V
    OBVIOUS
  <2> HIDE DEF I, V
  <2>3. \A s \in Seq(I) : s \in Seq(V)
    <3> SUFFICES ASSUME NEW s \in Seq(I) PROVE s \in Seq(V)
      OBVIOUS
    <3>1. s = [k \in 1..Len(s) |-> s[k]] /\ Len(s) \in Nat /\ \A k \in 1..Len(s) : s[k] \in V
      BY <2>2
    <3> QED BY <3>1
  <2>4. \A i \in 1..(n + 1) : from[i] \in Seq(V)
    BY <2>1, <2>3
  <2> QED BY <2>1, <2>4
<1> HIDE DEF V
<1>3. ASSUME NEW i \in 1..n, t[i] = Blank
      PROVE  from[i] = from[i + 1] \/ from[i] = <<Blank>> \o from[i + 1]
  BY <1>2, <1>3
<1>4. ASSUME NEW p \in 1..n, NEW q \in 1..n, Runs(t, p, q)
      PROVE  \A i \in p..q : from[i] = SubSeq(t, i, q) \o from[q + 1]
  <2> DEFINE Q == {d \in Nat : \A i \in p..q : q - i = d =>
                     from[i] = SubSeq(t, i, q) \o from[q + 1]}
  <2>0. \A k \in p..q : t[k] # Blank
    BY <1>4 DEF Runs
  <2>1. ASSUME NEW d \in Nat, \A e \in Nat : e < d => e \in Q PROVE d \in Q
    <3> SUFFICES ASSUME NEW i \in p..q, q - i = d
                 PROVE  from[i] = SubSeq(t, i, q) \o from[q + 1]
      OBVIOUS
    <3>1. i \in 1..n /\ i + 1 \in 1..(n + 1) /\ q + 1 \in 1..(n + 1) /\ q \in i..Len(t)
          /\ i \in 1..Len(t)
      BY <1>1
    <3>2. from[i] = <<t[i]>> \o from[i + 1]
      <4>1. ~Drops(t, i)
        BY <2>0 DEF Drops
      <4> QED BY <1>2, <3>1, <4>1
    <3> DEFINE rest == from[q + 1]
    <3>3. rest \in Seq(V) /\ t[i] \in V
      BY <1>1, <1>2, <3>1
    <3>4. CASE i = q
      <4>1. <<t[i]>> \o <<>> = SubSeq(t, i, q)
        <5>1. <<>> = <<>>
          OBVIOUS
        <5> QED BY <1>1, <3>1, <3>4, <5>1, FirstAndRest
      <4>2. <<t[i]>> \o <<>> = <<t[i]>>
        BY <3>3
      <4>3. from[i] = <<t[i]>> \o rest
        BY <3>2, <3>4
      <4> HIDE DEF rest
      <4>4. from[i] = SubSeq(t, i, q) \o rest
        BY <4>1, <4>2, <4>3
      <4> QED BY <4>4 DEF rest
    <3>5. CASE i # q
      <4> DEFINE s == SubSeq(t, i + 1, q)
      <4>1. from[i + 1] = s \o rest
        <5>1. i + 1 \in p..q /\ q - (i + 1) \in Nat /\ q - (i + 1) < d
          BY <3>5
        <5> QED BY <2>1, <5>1
      <4>2. <<t[i]>> \o s = SubSeq(t, i, q)
        BY <1>1, <3>1, <3>5, FirstAndRest
      <4>3. s \in Seq(V)
        <5>1. i + 1 \in 1..Len(t) /\ q \in (i + 1)..Len(t)
          BY <3>1, <3>5
        <5> QED BY <1>1, <5>1
      <4> DEFINE x == t[i]
      <4>4. (<<x>> \o s) \o rest = <<x>> \o (s \o rest)
        <5>1. x \in V /\ s \in Seq(V) /\ rest \in Seq(V)
          BY <3>3, <4>3
        <5> HIDE DEF x, s, rest
        <5> QED BY ONLY <5>1
      <4> HIDE DEF rest, s, x
      <4>5. from[i] = SubSeq(t, i, q) \o rest
        BY <3>2, <4>1, <4>2, <4>4 DEF x
      <4> QED BY <4>5 DEF rest
    <3> QED BY <3>4, <3>5
  <2> HIDE DEF Q
  <2>2. \A d \in Nat : d \in Q
    BY <2>1, Descent
  <2> USE DEF Q
  <2>3. ASSUME NEW i \in p..q PROVE q - i \in Nat
    OBVIOUS
  <2> QED BY <2>2, <2>3
<1>5. ASSUME NEW b \in 1..(n + 1), \A k \in b..n : t[k] = Blank PROVE from[b] = <<>>
  <2> DEFINE Q == {d \in Nat : \A i \in b..(n + 1) : n + 1 - i = d => from[i] = <<>>}
  <2>1. ASSUME NEW d \in Nat, \A e \in Nat : e < d => e \in Q PROVE d \in Q
    <3> SUFFICES ASSUME NEW i \in b..(n + 1), n + 1 - i = d PROVE from[i] = <<>>
      OBVIOUS
    <3>1. CASE i = n + 1
      BY <1>2, <3>1
    <3>2. CASE i # n + 1
      <4>1. /\ i \in 1..n /\ i \in b..n /\ i + 1 \in b..(n + 1)
            /\ n + 1 - (i + 1) \in Nat /\ n + 1 - (i + 1) < d
            /\ \A k \in (i + 1)..n : k \in b..n
        BY <1>1, <3>2
      <4>2. from[i + 1] = <<>>
        BY <2>1, <4>1
      <4>3. Drops(t, i)
        BY <1>5, <4>1 DEF Drops
      <4> QED BY <1>2, <4>1, <4>2, <4>3
    <3> QED BY <3>1, <3>2
  <2> HIDE DEF Q
  <2>2. \A d \in Nat : d \in Q
    BY <2>1, Descent
  <2> USE DEF Q
  <2>3. b \in b..(n + 1) /\ n + 1 - b \in Nat
    BY <1>1
  <2> QED BY <2>2, <2>3
<1>6. ASSUME NEW q \in 1..n, NEW p \in 1..n, IsChunk(t, p, q), Len(from[q + 1]) > 0
      PROVE  from[q + 1][1] = Blank
  <2>1. (q = n \/ t[q + 1] = Blank) /\ q \in p..n /\ \A k \in p..q : t[k] # Blank
    BY <1>6 DEF IsChunk, Runs
  <2>2. q # n
    BY <1>2, <1>6
  <2>3. q + 1 \in 1..n /\ (q + 1) + 1 \in 1..(n + 1) /\ q + 1 > 1 /\ (q + 1) - 1 = q
        /\ q \in p..q /\ q + 1 \in 1..(n + 1)
    BY <1>1, <2>1, <2>2
  <2>4. t[q + 1] = Blank /\ t[q] # Blank
    BY <2>1, <2>2, <2>3
  <2>5. CASE \E k \in ((q + 1) + 1)..n : t[k] # Blank
    <3>1. ~Drops(t, q + 1)
      BY <2>3, <2>4, <2>5 DEF Drops
    <3>2. from[q + 1] = <<Blank>> \o from[(q + 1) + 1] /\ from[(q + 1) + 1] \in Seq(V)
      BY <1>2, <2>3, <2>4, <3>1
    <3> QED BY <1>1, <3>2
  <2>6. CASE ~ \E k \in ((q + 1) + 1)..n : t[k] # Blank
    <3>1. \A k \in (q + 1)..n : k = q + 1 \/ k \in ((q + 1) + 1)..n
      BY <1>1, <2>3
    <3>2. \A k \in (q + 1)..n : t[k] = Blank
      BY <2>4, <2>6, <3>1
    <3>3. from[q + 1] = <<>>
      BY <1>5, <2>3, <3>2
    <3> QED BY <1>6, <3>3
  <2> QED BY <2>5, <2>6
<1> DEFINE piece == [p \in 1..n |-> CHOOSE s : \A q \in 1..n : IsChunk(t, p, q) =>
                                                s = SubSeq(t, p, q)]
<1>7. ASSUME NEW p \in 1..n, NEW q \in 1..n, IsChunk(t, p, q)
      PROVE  piece[p] = SubSeq(t, p, q)
  <2>1. ASSUME NEW e \in 1..n, IsChunk(t, p, e) PROVE e = q
    <3>1. Runs(t, p, e) /\ Runs(t, p, q)
      BY <1>7, <2>1 DEF IsChunk
    <3>2. t[p] # Blank
      <4>1. q \in p..n /\ \A k \in p..q : t[k] # Blank
        BY <3>1 DEF Runs
      <4>2. p \in p..q
        BY <4>1
      <4> QED BY <4>1, <4>2
    <3> DEFINE E == {j \in p..Len(t) : \A k \in p..j : t[k] # Blank}
    <3>3. \A y : Runs(t, p, y) => y = Max(E)
      BY <1>1, <3>2, RunEnds
    <3> HIDE DEF E
    <3> QED BY <3>1, <3>3
  <2>2. \A e \in 1..n : IsChunk(t, p, e) => SubSeq(t, p, q) = SubSeq(t, p, e)
    BY <2>1
  <2>3. \A e \in 1..n : IsChunk(t, p, e) => piece[p] = SubSeq(t, p, e)
    BY <2>2
  <2> QED BY <1>7, <2>3
<1> HIDE DEF piece
<1>8. ASSUME NEW p \in 1..n, NEW q \in 1..n, IsChunk(t, p, q)
      PROVE  /\ from[p] = piece[p] \o from[q + 1]
             /\ piece[p] \in Seq(V) /\ Len(piece[p]) > 0
             /\ \A k \in 1..Len(piece[p]) : piece[p][k] # Blank
  <2>1. Runs(t, p, q) /\ q \in p..n /\ p \in p..q /\ \A k \in p..q : t[k] # Blank
    <3>1. Runs(t, p, q) /\ q \in p..n /\ \A k \in p..q : t[k] # Blank
      BY <1>8 DEF IsChunk, Runs
    <3> QED BY <3>1
  <2>2. from[p] = SubSeq(t, p, q) \o from[q + 1]
    BY <1>4, <2>1
  <2>3. piece[p] = SubSeq(t, p, q)
    BY <1>7, <1>8
  <2> DEFINE s == SubSeq(t, p, q)
  <2>4. s \in Seq(V) /\ Len(s) = q - p + 1
    BY <1>1, <2>1
  <2>5. Len(s) > 0 /\ \A k \in 1..Len(s) : s[k] = t[p + k - 1] /\ p + k - 1 \in p..q
    BY <1>1, <2>1, <2>4
  <2> HIDE DEF s
  <2>6. \A k \in 1..Len(s) : s[k] # Blank
    BY <2>1, <2>5
  <2> QED BY <2>2, <2>3, <2>4, <2>5, <2>6 DEF s
<1>9. IsTurn(from, piece, t, V)
  BY <1>2, <1>3, <1>6, <1>8 DEF IsTurn
<1>10. IsTurned(N!Chunks(from[1]), N!Chunks(t), piece, t)
  BY <1>1, <1>9, ChunksTurn
<1> QED BY <1>7, <1>10

\* What has become of the chunks of u, the text as it came, in t.
Chunked(u, t, stage) ==
  /\ Len(N!Chunks(t)) = Len(N!Chunks(u))
  /\ \A k \in 1..Len(N!Chunks(u)) : Becomes(N!Chunks(u)[k], N!Chunks(t)[k], stage)

(* It goes on being that where each of the chunks does.                    *)
LEMMA ChunkedOn ==
  ASSUME NEW u, NEW t, NEW r, NEW piece, IsTurned(N!Chunks(r), N!Chunks(t), piece, t),
         NEW stage, NEW next, Chunked(u, t, stage),
         \A p, q \in 1..Len(t) : \A c :
           IsChunk(t, p, q) /\ Becomes(c, SubSeq(t, p, q), stage) => Becomes(c, piece[p], next)
  PROVE  Chunked(u, r, next)
<1> DEFINE a == N!Chunks(u)
           b == N!Chunks(t)
           d == N!Chunks(r)
<1>1. Len(b) = Len(a) /\ \A k \in 1..Len(a) : Becomes(a[k], b[k], stage)
  BY DEF Chunked
<1>2. /\ Len(d) = Len(b)
      /\ \A k \in 1..Len(b) : \E p, q \in 1..Len(t) :
           IsChunk(t, p, q) /\ b[k] = SubSeq(t, p, q) /\ d[k] = piece[p]
  BY DEF IsTurned
<1> HIDE DEF a, b, d
<1>3. ASSUME NEW k \in 1..Len(a) PROVE Becomes(a[k], d[k], next)
  <2>1. k \in 1..Len(b)
    BY <1>1
  <2>2. PICK p, q \in 1..Len(t) : IsChunk(t, p, q) /\ b[k] = SubSeq(t, p, q) /\ d[k] = piece[p]
    BY <1>2, <2>1
  <2>3. Becomes(a[k], SubSeq(t, p, q), stage)
    BY <1>1, <2>2
  <2>4. Becomes(a[k], piece[p], next)
    BY <2>2, <2>3
  <2> QED BY <2>2, <2>4
<1> QED BY <1>1, <1>2, <1>3 DEF Chunked, a, b, d

(* A pass that writes does so where it makes of each chunk what it should. *)
LEMMA PassChunks ==
  ASSUME NormInv, NEW this, NEW next, NEW ends, NEW put,
         N!Pass(this, N!Rewrite(text, ends, put), next), pass' \notin Ended,
         IsSafe(text, ends, put), IsSolid(text, ends),
         Chunked(Characters(source), text, pass),
         \A p \in 1..Len(text) : \A q \in p..Len(text) : \A c, s :
           IsChunk(text, p, q) /\ Becomes(c, SubSeq(text, p, q), this)
             /\ IsPiece(s, text, p, q, ends, put) => Becomes(c, s, next)
  PROVE  Chunked(Characters(source'), text', pass')
<1> DEFINE r == N!Rewrite(text, ends, put)
<1>1. IsSequence(text) /\ IsWriting(text, ends, put)
  BY SafeWrites DEF NormInv
<1> HIDE DEF r
<1>2. IsSequence(r)
  BY <1>1, Written DEF r
<1>3. N!Pass(this, r, next)
  BY DEF r
<1>4. pass = this /\ text' = r /\ source' = source /\ pass' = next
  BY <1>2, <1>3, PassFacts
<1>5. PICK piece :
        /\ IsTurned(N!Chunks(r), N!Chunks(text), piece, text)
        /\ \A p, q \in 1..Len(text) :
             IsChunk(text, p, q) => IsPiece(piece[p], text, p, q, ends, put)
  BY <1>1, PassTurns DEF r
<1>6. ASSUME NEW p \in 1..Len(text), NEW q \in 1..Len(text), NEW c,
             IsChunk(text, p, q), Becomes(c, SubSeq(text, p, q), this)
      PROVE  Becomes(c, piece[p], next)
  <2>1. q \in p..Len(text)
    BY <1>6 DEF IsChunk, Runs
  <2>2. IsPiece(piece[p], text, p, q, ends, put)
    BY <1>5, <1>6
  <2> QED BY <1>6, <2>1, <2>2
<1>7. Chunked(Characters(source), text, this)
  BY <1>4
<1>8. Chunked(Characters(source), r, next)
  BY <1>5, <1>6, <1>7, ChunkedOn
<1> QED BY <1>4, <1>8

\* Each chunk of the text as it came is on its way to what is said of it.
ChunksInv == NormInv /\ (pass \notin Ended => Chunked(Characters(source), text, pass))

(* Each pass sees to it that they are.                                     *)
LEMMA AbbreviationsChunks ==
  ASSUME ChunksInv, N!ExpandAbbreviations, pass' \notin Ended
  PROVE  Chunked(Characters(source'), text', pass')
<1>1. NormInv /\ text \in Seq(ItemsOf(text)) /\ Len(text) \in Nat
  BY DEF ChunksInv, NormInv, IsSequence
<1>2. PICK ends, put :
        /\ N!Pass("abbreviations", N!Rewrite(text, ends, put), "currency")
        /\ IsSafe(text, ends, put)
        /\ \A i \in 1..Len(text) : \A j \in ends[i] : j = i /\ N!Is(text, i, "abbrev")
  BY <1>1, AbbreviationsSafe
<1>3. Chunked(Characters(source), text, pass)
  <2>1. pass = "abbreviations"
    BY <1>2 DEF N!Pass
  <2> QED BY <2>1 DEF ChunksInv, Ended
<1>4. IsSolid(text, ends)
  <2> SUFFICES ASSUME NEW i \in 1..Len(text), NEW j \in ends[i], NEW k \in i..j
               PROVE  text[k] # Blank
    BY DEF IsSolid
  <2>1. k = i /\ N!Is(text, k, "abbrev")
    BY <1>1, <1>2
  <2> QED BY <2>1, NotBlank
<1>5. ASSUME NEW p \in 1..Len(text), NEW q \in p..Len(text), NEW c, NEW s,
             Becomes(c, SubSeq(text, p, q), "abbreviations"),
             IsPiece(s, text, p, q, ends, put)
      PROVE  Becomes(c, s, "currency")
  BY <1>1, <1>2, <1>5, AbbreviationsPiece
<1> QED BY <1>1, <1>2, <1>3, <1>4, <1>5, PassChunks

(* So does the pass over the amounts.                                      *)
LEMMA CurrencyChunks ==
  ASSUME ChunksInv, N!ExpandCurrency, pass' \notin Ended
  PROVE  Chunked(Characters(source'), text', pass')
<1>1. NormInv /\ text \in Seq(ItemsOf(text)) /\ Len(text) \in Nat
  BY DEF ChunksInv, NormInv, IsSequence
<1>2. PICK ends, put :
        /\ N!Pass("currency", N!Rewrite(text, ends, put), "ordinals")
        /\ IsSafe(text, ends, put)
        /\ \A i \in 1..Len(text) :
             /\ ends[i] = N!AmountEnds(text, i)
             /\ \A j \in 1..Len(text) : put[i][j] = N!AmountWords(text, i, j)
  BY <1>1, CurrencySafe
<1>3. Chunked(Characters(source), text, pass)
  <2>1. pass = "currency"
    BY <1>2 DEF N!Pass
  <2> QED BY <2>1 DEF ChunksInv, Ended
<1>4. IsSolid(text, ends)
  BY <1>1, <1>2, AmountMatches DEF IsSolid
<1>5. ASSUME NEW p \in 1..Len(text), NEW q \in p..Len(text), NEW c, NEW s,
             IsChunk(text, p, q), Becomes(c, SubSeq(text, p, q), "currency"),
             IsPiece(s, text, p, q, ends, put)
      PROVE  Becomes(c, s, "ordinals")
  BY <1>1, <1>2, <1>5, CurrencyPiece
<1> QED BY <1>1, <1>2, <1>3, <1>4, <1>5, PassChunks

(* And the one over the ordinals.                                          *)
LEMMA OrdinalsChunks ==
  ASSUME ChunksInv, N!ExpandOrdinals, pass' \notin Ended
  PROVE  Chunked(Characters(source'), text', pass')
<1>1. NormInv /\ text \in Seq(ItemsOf(text)) /\ Len(text) \in Nat
  BY DEF ChunksInv, NormInv, IsSequence
<1>2. PICK ends, put :
        /\ N!Pass("ordinals", N!Rewrite(text, ends, put), "numbers")
        /\ IsSafe(text, ends, put)
        /\ \A i \in 1..Len(text) : ends[i] = N!OrdinalEnds(text, i)
  BY <1>1, OrdinalsSafe
<1>3. Chunked(Characters(source), text, pass)
  <2>1. pass = "ordinals"
    BY <1>2 DEF N!Pass
  <2> QED BY <2>1 DEF ChunksInv, Ended
<1>4. IsSolid(text, ends)
  BY <1>1, <1>2, OrdinalMatches DEF IsSolid
<1>5. ASSUME NEW p \in 1..Len(text), NEW q \in p..Len(text), NEW c, NEW s,
             IsChunk(text, p, q), Becomes(c, SubSeq(text, p, q), "ordinals"),
             IsPiece(s, text, p, q, ends, put)
      PROVE  Becomes(c, s, "numbers")
  BY <1>1, <1>2, <1>5, OrdinalsPiece
<1> QED BY <1>1, <1>2, <1>3, <1>4, <1>5, PassChunks

(* And the one over the numbers.                                           *)
LEMMA NumbersChunks ==
  ASSUME ChunksInv, N!ExpandNumbers, pass' \notin Ended
  PROVE  Chunked(Characters(source'), text', pass')
<1>1. NormInv /\ text \in Seq(ItemsOf(text)) /\ Len(text) \in Nat
  BY DEF ChunksInv, NormInv, IsSequence
<1>2. PICK ends, put :
        /\ N!Pass("numbers", N!Rewrite(text, ends, put), "whitespace")
        /\ IsSafe(text, ends, put)
        /\ \A i \in 1..Len(text) :
             /\ ends[i] = N!NumberEnds(text, i)
             /\ \A j \in 1..Len(text) : put[i][j] = N!CardinalWords(text, i, j)
  BY <1>1, NumbersSafe
<1>3. Chunked(Characters(source), text, pass)
  <2>1. pass = "numbers"
    BY <1>2 DEF N!Pass
  <2> QED BY <2>1 DEF ChunksInv, Ended
<1>4. IsSolid(text, ends)
  BY <1>1, <1>2, NumberMatches DEF IsSolid
<1>5. ASSUME NEW p \in 1..Len(text), NEW q \in p..Len(text), NEW c, NEW s,
             IsChunk(text, p, q), Becomes(c, SubSeq(text, p, q), "numbers"),
             IsPiece(s, text, p, q, ends, put)
      PROVE  Becomes(c, s, "whitespace")
  BY <1>1, <1>2, <1>5, NumbersPiece
<1> QED BY <1>1, <1>2, <1>3, <1>4, <1>5, PassChunks

(* And the last, which has nothing to do with what a chunk is.             *)
LEMMA WhitespaceChunks ==
  ASSUME ChunksInv, N!NormalizeWhitespace
  PROVE  Chunked(Characters(source'), text', pass')
<1>1. NormInv /\ IsSequence(text) /\ text \in Seq(ItemsOf(text)) /\ Len(text) \in Nat
  BY DEF ChunksInv, NormInv, IsSequence
<1>2. pass = "whitespace"
  BY DEF N!NormalizeWhitespace, N!Pass
<1>3. Fine(text) /\ Chunked(Characters(source), text, "whitespace")
  BY <1>1, <1>2 DEF ChunksInv, NormInv, Ended
<1>4. source' = source /\ pass' = "done"
  BY <1>1, BlanksDropped
<1>5. PICK from : IsDropping(from, text) /\ text' = from[1]
  BY <1>1, BlanksDropped
<1>6. PICK piece :
        /\ IsTurned(N!Chunks(from[1]), N!Chunks(text), piece, text)
        /\ \A p, q \in 1..Len(text) : IsChunk(text, p, q) => piece[p] = SubSeq(text, p, q)
  BY <1>1, <1>5, DroppingTurns
<1>7. ASSUME NEW p \in 1..Len(text), NEW q \in 1..Len(text), NEW c,
             IsChunk(text, p, q), Becomes(c, SubSeq(text, p, q), "whitespace")
      PROVE  Becomes(c, piece[p], "done")
  <2>1. piece[p] = SubSeq(text, p, q) /\ q \in p..Len(text)
    BY <1>6, <1>7 DEF IsChunk, Runs
  <2>2. "whitespace" \notin Writing /\ "done" \notin Writing
        /\ "whitespace" \notin {"abbreviations", "currency"}
        /\ "done" \notin {"abbreviations", "currency"}
    BY DEF Writing
  <2>3. ASSUME Amount(c) PROVE SubSeq(text, p, q) = N!Said(AmountSaid(c))
    <3>1. text[p][1] \notin Ended
      BY <1>3 DEF Fine, Ended
    <3> QED BY <1>1, <1>7, <2>1, <2>2, <2>3, <3>1, AmountAlone
  <2> QED BY <1>7, <2>1, <2>2, <2>3 DEF Becomes
<1>8. Chunked(Characters(source), from[1], "done")
  BY <1>3, <1>6, <1>7, ChunkedOn
<1> QED BY <1>4, <1>5, <1>8

(* Every step keeps the invariant.                                         *)
LEMMA ChunksSteps == ChunksInv /\ [Next]_vars => ChunksInv'
<1> SUFFICES ASSUME ChunksInv, [Next]_vars PROVE ChunksInv'
  OBVIOUS
<1>1. NormInv'
  <2>1. NormInv
    BY DEF ChunksInv
  <2> QED BY <2>1, NormSteps
<1> SUFFICES ASSUME pass' \notin Ended PROVE Chunked(Characters(source'), text', pass')
  BY <1>1 DEF ChunksInv
<1>2. CASE UNCHANGED textVars
  BY <1>2 DEF ChunksInv, textVars
<1>3. CASE Normalize
  BY <1>3, AbbreviationsChunks, CurrencyChunks, OrdinalsChunks, NumbersChunks,
     WhitespaceChunks DEF Normalize, N!Next
<1>4. UNCHANGED textVars \/ Normalize
  BY DEF Next, Fetch, Construct, Pronounce, vars
<1> QED BY <1>2, <1>3, <1>4

(* At the start the chunks are what they are.                              *)
LEMMA ChunksStart == Init => ChunksInv
<1> SUFFICES ASSUME Init PROVE ChunksInv
  OBVIOUS
<1>1. NormInv
  BY NormStart
<1>2. text = Characters(source) /\ pass = "abbreviations"
  BY DEF Init, N!Init, Characters
<1>3. \A c : Becomes(c, c, "abbreviations")
  BY DEF Becomes, Writing
<1>4. Chunked(text, text, pass)
  BY <1>2, <1>3 DEF Chunked
<1> QED BY <1>1, <1>2, <1>4 DEF ChunksInv

(* The invariant of the chunks holds throughout.                           *)
LEMMA ChunksAlways == Spec => []ChunksInv
<1> QED BY ChunksStart, ChunksSteps, PTL DEF Spec

-----------------------------------------------------------------------------
(* What is understood of a number and of an amount                         *)

\* The words of a number without its decimals.
WholeWords == NumberWords \ {<<"point", 0>>}

(* They are ones, tens and scales.                                         *)
LEMMA WholeWordFacts ==
  /\ \A n \in 0..19 : <<"ones", n>> \in WholeWords
  /\ \A n \in 2..9 : <<"tens", n>> \in WholeWords
  /\ \A s \in Scales : <<"scale", s>> \in WholeWords
  /\ \A w \in WholeWords : w[1] \in {"ones", "tens", "scale"}
<1>1. ASSUME NEW n PROVE <<"ones", n>> # <<"point", 0>> /\ <<"tens", n>> # <<"point", 0>>
                         /\ <<"scale", n>> # <<"point", 0>>
  OBVIOUS
<1>2. \A n \in 0..19 : <<"ones", n>> \in WholeWords
  BY <1>1 DEF WholeWords, NumberWords
<1>3. \A n \in 2..9 : <<"tens", n>> \in WholeWords
  BY <1>1 DEF WholeWords, NumberWords
<1>4. \A s \in Scales : <<"scale", s>> \in WholeWords
  BY <1>1 DEF WholeWords, NumberWords, Scales, Hundred, Thousand, Million, Billion
<1>5. ASSUME NEW w \in WholeWords PROVE w[1] \in {"ones", "tens", "scale"}
  <2>1. \/ \E n \in 0..19 : w = <<"ones", n>>
        \/ \E n \in 2..9 : w = <<"tens", n>>
        \/ \E s \in Scales : w = <<"scale", s>>
    BY DEF WholeWords, NumberWords, Scales, Hundred, Thousand, Million, Billion
  <2> QED BY <2>1
<1> QED BY <1>2, <1>3, <1>4, <1>5

(* The words of a whole number have no point among them.                   *)
LEMMA WordsWhole ==
  ASSUME NEW x \in Nat PROVE N!Words[x] \in Seq(WholeWords)
<1> DEFINE V == Seq(WholeWords)
           Q == {n \in Nat : N!Words[n] \in V}
<1>1. /\ \A n \in 0..19 : << <<"ones", n>> >> \in V
      /\ \A n \in 2..9 : << <<"tens", n>> >> \in V
      /\ \A s \in Scales : << <<"scale", s>> >> \in V
      /\ <<>> \in V
  BY WholeWordFacts
<1>4. \A a, b \in V : a \o b \in V
  OBVIOUS
<1> HIDE DEF V
<1>2. ASSUME NEW n \in Nat, \A m \in Nat : m < n => m \in Q PROVE n \in Q
  <2>1. \A r \in Nat : r < n => N!Words[r] \in V /\ Rest(N!Words, r) \in V
    BY <1>1, <1>2 DEF Rest
  <2>2. CASE n < 20
    <3>1. n \in 0..19
      BY <2>2
    <3>2. N!Words[n] = << <<"ones", n>> >>
      BY <3>1, WordsFacts, Zenon
    <3> QED BY <1>1, <3>1, <3>2, Zenon
  <2>3. CASE n >= 20 /\ n < 100
    <3> DEFINE a == << <<"tens", n \div 10>> >>
               b == Rest(N!Words, n % 10)
    <3>0. n \in 20..99
      BY <2>3
    <3>1. n \div 10 \in 2..9 /\ n % 10 \in Nat /\ n % 10 < n
      BY <3>0, SMT
    <3>2. a \in V /\ b \in V
      BY <1>1, <2>1, <3>1, Zenon
    <3>3. N!Words[n] = a \o b
      BY <3>0, WordsFacts, Zenon
    <3> HIDE DEF a, b
    <3> QED BY <1>4, <3>2, <3>3
  <2>4. CASE n >= 100
    <3> DEFINE s == N!Scale(n)
               a == N!Words[n \div s]
               b == << <<"scale", s>> >>
               c == Rest(N!Words, n % s)
    <3>1. s \in Scales /\ s <= n
      BY <2>4, ScaleFacts
    <3>2. N!Words[n] = a \o b \o c
      BY <2>4, WordsFacts, Zenon
    <3> HIDE DEF s
    <3>3. n \div s \in Nat /\ n \div s < n /\ n % s \in Nat /\ n % s < n
      BY <3>1, Divided
    <3>4. a \in V /\ c \in V
      BY <2>1, <3>3
    <3>5. b \in V
      BY <1>1, <3>1
    <3> HIDE DEF a, b, c
    <3>6. (a \o b) \o c \in V
      BY <1>4, <3>4, <3>5
    <3> QED BY <3>2, <3>6
  <2> QED BY <2>2, <2>3, <2>4
<1> HIDE DEF Q
<1>3. \A n \in Nat : n \in Q
  BY <1>2, Descent
<1> USE DEF Q, V
<1> QED BY <1>3

\* a are the words before the first of its kind, b those after.
SplitsIn(words, kind, a, b) == N!UpTo(words, kind) = a /\ N!From(words, kind) = b

\* Two sequences in a row, index by index.
InARow(r, a, b, V) ==
  /\ r \in Seq(V) /\ Len(r) = Len(a) + Len(b)
  /\ \A k \in 1..Len(a) : r[k] = a[k]
  /\ \A k \in 1..Len(b) : r[Len(a) + k] = b[k]

(* One sequence behind another.                                            *)
LEMMA TwoInARow ==
  ASSUME NEW V, NEW a \in Seq(V), NEW b \in Seq(V), NEW r, r = a \o b
  PROVE  InARow(r, a, b, V)
BY DEF InARow

(* The words before and after the only one of a kind.                      *)
LEMMA SplitAt ==
  ASSUME NEW V, NEW a \in Seq(V), NEW b \in Seq(V), NEW x \in Seq(V), NEW kind,
         Len(x) = 1, x[1][1] = kind, \A k \in 1..Len(a) : a[k][1] # kind,
         NEW words, words = a \o x \o b
  PROVE  SplitsIn(words, kind, a, b)
<1> DEFINE m == Len(a)
           n == Len(b)
           I == {i \in 1..Len(words) : words[i][1] = kind}
<1>1. /\ m \in Nat /\ n \in Nat /\ words \in Seq(V) /\ Len(words) = m + 1 + n
      /\ \A k \in 1..m : words[k] = a[k]
      /\ words[m + 1] = x[1]
      /\ \A k \in 1..n : words[m + 1 + k] = b[k]
  <2> DEFINE u == a \o x
  <2>1. words = u \o b /\ u = a \o x
    OBVIOUS
  <2> HIDE DEF u
  <2>a. InARow(u, a, x, V)
    BY <2>1, TwoInARow
  <2>2. /\ u \in Seq(V) /\ Len(u) = Len(a) + Len(x)
        /\ \A k \in 1..Len(a) : u[k] = a[k]
        /\ \A k \in 1..Len(x) : u[Len(a) + k] = x[k]
    BY <2>a DEF InARow
  <2>b. InARow(words, u, b, V)
    BY <2>1, <2>2, TwoInARow
  <2>3. /\ words \in Seq(V) /\ Len(words) = Len(u) + Len(b)
        /\ \A k \in 1..Len(u) : words[k] = u[k]
        /\ \A k \in 1..Len(b) : words[Len(u) + k] = b[k]
    BY <2>b DEF InARow
  <2>4. m \in Nat /\ n \in Nat /\ Len(x) = 1 /\ Len(u) = m + 1 /\ Len(words) = m + 1 + n
    BY <2>2, <2>3
  <2>5. 1 \in 1..1 /\ m + 1 \in 1..(m + 1) /\ \A k \in 1..m : k \in 1..(m + 1)
    BY <2>4
  <2>6. words[m + 1] = x[1] /\ \A k \in 1..m : words[k] = a[k]
    BY <2>2, <2>3, <2>4, <2>5, Zenon
  <2>7. \A k \in 1..n : words[m + 1 + k] = b[k]
    BY <2>3, <2>4, Zenon
  <2> QED BY <2>3, <2>4, <2>6, <2>7, Zenon
<1>2. m + 1 \in I /\ \A y \in I : m + 1 <= y /\ I \in SUBSET Nat
  <2>1. m + 1 \in I
    BY <1>1
  <2>2. ASSUME NEW y \in I PROVE m + 1 <= y
    <3>1. y \in Nat /\ y >= 1 /\ words[y][1] = kind
      BY <1>1
    <3>2. y \notin 1..m
      BY <1>1, <3>1
    <3> QED BY <1>1, <3>1, <3>2
  <2> QED BY <1>1, <2>1, <2>2
<1>3. N!SelectInSeq(words, LAMBDA w : w[1] = kind) = IF I # {} THEN Min(I) ELSE 0
  BY DEF N!SelectInSeq, N!Min, Min
<1>4. Min(I) \in I /\ \A y \in I : Min(I) <= y
  BY <1>2, MinFacts
<1> HIDE DEF I
<1>5. Min(I) = m + 1
  <2>1. Min(I) <= m + 1 /\ m + 1 <= Min(I) /\ Min(I) \in Nat
    BY <1>2, <1>4
  <2> QED BY <1>1, <2>1
<1>6. N!Before(words, kind) = m
  <2>1. N!SelectInSeq(words, LAMBDA w : w[1] = kind) = m + 1
    BY <1>2, <1>3, <1>5
  <2>2. (m + 1) - 1 = m
    BY <1>1
  <2> QED BY <2>1, <2>2 DEF N!Before
<1>7. N!UpTo(words, kind) = a
  <2> DEFINE s == SubSeq(words, 1, m)
  <2>1. s = [k \in 1..m |-> words[k]]
    BY <1>1
  <2>2. a = [k \in 1..m |-> a[k]]
    OBVIOUS
  <2>3. s = a
    BY <1>1, <2>1, <2>2
  <2> QED BY <1>6, <2>3 DEF N!UpTo
<1>8. N!From(words, kind) = b
  <2> DEFINE s == SubSeq(words, m + 2, Len(words))
             z == Len(words)
  <2>0. z = m + 1 + n /\ words \in Seq(V) /\ z = Len(words)
    BY <1>1
  <2>1. s = [k \in 1..n |-> words[m + 1 + k]]
    <3>1. s = [k \in 1..(1 + z - (m + 2)) |-> words[k + (m + 2) - 1]]
      BY <1>1
    <3>2. 1 + z - (m + 2) = n
      BY <1>1, <2>0
    <3>3. \A k \in 1..n : k + (m + 2) - 1 = m + 1 + k
      BY <1>1
    <3> HIDE DEF s, z
    <3> QED BY <3>1, <3>2, <3>3
  <2>2. b = [k \in 1..n |-> b[k]]
    OBVIOUS
  <2>3. s = b
    BY <1>1, <2>1, <2>2
  <2> QED BY <1>6, <2>3 DEF N!From
<1> QED BY <1>7, <1>8 DEF SplitsIn

(* How a number that is set off by spaces is made up.                      *)
LEMMA NumberShape ==
  ASSUME NEW V, NEW c \in Seq(V), NEW b \in {1, 2}, NEW m, IsNumber(c, b, m),
         b = 2 => N!Is(c, 1, "$")
  PROVE  /\ N!WholeEnd(c, 1, Len(c)) = m /\ N!NumberOf(c, b, m) \in Nat
         /\ Len(c) \in Nat /\ m \in b..Len(c)
         /\ m # Len(c) => /\ m + 2 <= Len(c) /\ N!Is(c, m + 1, ".")
                          /\ \A k \in (m + 2)..Len(c) : N!Digit(c, k)
<1> DEFINE n == Len(c)
<1>1. /\ n \in Nat /\ b \in 1..n /\ m \in b..n /\ N!Fraction(c, m + 1, n, n)
      /\ N!Grouped(c, b, m) \/ N!Digits(c, b, m)
  BY DEF IsNumber
<1>2. IsRun(c, b, m)
  BY NumberFacts
<1>3. N!NumberOf(c, b, m) \in Nat
  BY <1>1, NumberType
<1> HIDE DEF n
<1>4. N!WholeEnd(c, 1, n) = m
  <2>1. \A k \in 1..(b - 1) : ~N!Is(c, k, ".")
    <3> SUFFICES ASSUME NEW k \in 1..(b - 1) PROVE ~N!Is(c, k, ".")
      OBVIOUS
    <3>1. b = 2 /\ k = 1
      BY <1>1
    <3> QED BY <3>1, PointFacts
  <2>2. 1 \in Int /\ b \in Int /\ m \in Int /\ n \in Int /\ b <= m /\ m <= n /\ 1 <= b
    BY <1>1
  <2> QED BY <1>1, <1>2, <2>1, <2>2, WholeIsRun
<1>5. ASSUME m # n
      PROVE  /\ m + 2 <= n /\ N!Is(c, m + 1, ".")
             /\ \A k \in (m + 2)..n : N!Digit(c, k)
  <2>1. m \in Int /\ n \in Int /\ ~(m + 1 > n) /\ (m + 1) + 1 = m + 2
    BY <1>1, <1>5
  <2>2. N!Is(c, m + 1, ".") /\ N!Digits(c, m + 2, n)
    BY <1>1, <2>1 DEF N!Fraction
  <2> QED BY <2>2 DEF N!Digits
<1> QED BY <1>1, <1>3, <1>4, <1>5 DEF n

(* The decimals are the items behind the point.                            *)
LEMMA DecimalsFacts ==
  ASSUME NEW V, NEW c \in Seq(V), NEW m \in 1..Len(c), N!WholeEnd(c, 1, Len(c)) = m
  PROVE  /\ m = Len(c) => N!Decimals(c) = <<>>
         /\ m # Len(c) => /\ DOMAIN N!Decimals(c) = 1..(Len(c) - (m + 2) + 1)
                          /\ \A k \in 1..(Len(c) - (m + 2) + 1) :
                               N!Decimals(c)[k] = c[(m + 2) + k - 1]
<1> DEFINE n == Len(c)
           d == SubSeq(c, m + 2, n)
           z == n - (m + 2) + 1
<1>1. N!Decimals(c) = d
  BY DEF N!Decimals
<1>2. d = [k \in 1..(n - (m + 2) + 1) |-> c[(m + 2) + k - 1]]
  <2>1. d = [k \in 1..((1 + n) - (m + 2)) |-> c[(k + (m + 2)) - 1]]
    OBVIOUS
  <2>2. (1 + n) - (m + 2) = n - (m + 2) + 1 /\ n \in Nat
        /\ \A k \in 1..((1 + n) - (m + 2)) : (k + (m + 2)) - 1 = (m + 2) + k - 1
    OBVIOUS
  <2> HIDE DEF d, n
  <2> QED BY <2>1, <2>2
<1>3. ASSUME m = n PROVE d = <<>>
  <2>1. n - (m + 2) + 1 = -1 /\ 1..(-1) = {}
    BY <1>3
  <2> HIDE DEF d
  <2>2. d = [k \in {} |-> c[(m + 2) + k - 1]]
    BY <1>2, <2>1
  <2> QED BY <2>2
<1> HIDE DEF d
<1> QED BY <1>1, <1>2, <1>3

(* A word said of a digit.                                                 *)
LEMMA DigitWordsAre ==
  ASSUME NEW V, NEW c \in Seq(V), NEW m \in 1..Len(c), N!WholeEnd(c, 1, Len(c)) = m,
         m # Len(c), \A k \in (m + 2)..Len(c) : N!Digit(c, k)
  PROVE  /\ DigitWords(c, m + 2, Len(c)) =
              [k \in DOMAIN N!Decimals(c) |-> <<"ones", N!DigitValue(N!Decimals(c)[k][2])>>]
         /\ DigitWords(c, m + 2, Len(c)) \in Seq(WholeWords)
<1> DEFINE n == Len(c)
           z == n - (m + 2) + 1
           d == N!Decimals(c)
           w == DigitWords(c, m + 2, n)
<1>1. DOMAIN d = 1..z /\ \A k \in 1..z : d[k] = c[(m + 2) + k - 1]
  BY DecimalsFacts
<1>2. z \in Nat /\ n \in Nat /\ \A k \in 1..z : (m + 2) + k - 1 \in (m + 2)..n
  <2>1. n \in Nat /\ m \in 1..n /\ m # n
    OBVIOUS
  <2> QED BY <2>1
<1>3. w = [k \in 1..z |-> <<"ones", N!DigitValue(c[(m + 2) + k - 1][2])>>]
  BY DEF DigitWords
<1> HIDE DEF d, w, z
<1>4. w = [k \in DOMAIN d |-> <<"ones", N!DigitValue(d[k][2])>>]
  BY <1>1, <1>3
<1>5. ASSUME NEW k \in 1..z
      PROVE  <<"ones", N!DigitValue(c[(m + 2) + k - 1][2])>> \in WholeWords
  <2>1. N!Digit(c, (m + 2) + k - 1)
    BY <1>2
  <2> DEFINE x == c[(m + 2) + k - 1][2]
  <2>2. x \in N!DigitChars
    BY <2>1 DEF N!Digit
  <2> HIDE DEF x
  <2>3. N!DigitValue(x) \in 0..19
    <3>1. N!DigitValue(x) \in 0..9
      BY <2>2, DigitRange
    <3> QED BY <3>1
  <2>4. <<"ones", N!DigitValue(x)>> \in WholeWords
    BY <2>3, WholeWordFacts
  <2> QED BY <2>4 DEF x
<1>6. w \in Seq(WholeWords)
  <2> DEFINE e(k) == <<"ones", N!DigitValue(c[(m + 2) + k - 1][2])>>
  <2>1. w = [k \in 1..z |-> e(k)] /\ \A k \in 1..z : e(k) \in WholeWords
    BY <1>3, <1>5
  <2> HIDE DEF e
  <2> QED BY <1>2, <2>1
<1> QED BY <1>4, <1>6 DEF d, w

\* The words of a number say its value, and then its decimals one by one.
SaysNumber(words, c) ==
  IF N!Decimals(c) = <<>> /\ N!WholeEnd(c, 1, Len(c)) = Len(c)
  THEN N!Understood(words) = N!Whole(c)
  ELSE /\ N!Understood(N!UpTo(words, "point")) = N!Whole(c)
       /\ N!From(words, "point") =
            [k \in DOMAIN N!Decimals(c) |-> <<"ones", N!DigitValue(N!Decimals(c)[k][2])>>]

(* What is said of a number does.                                          *)
LEMMA NumberUnderstood ==
  ASSUME NEW V, NEW c \in Seq(V), N!Plain(c, 1)
  PROVE  SaysNumber(NumberSaid(c), c) /\ NumberSaid(c) \in Seq(NumberWords)
<1> DEFINE n == Len(c)
           x == N!Whole(c)
<1>1. PICK m : IsNumber(c, 1, m)
  BY PlainNumber
<1>2. /\ N!WholeEnd(c, 1, n) = m /\ N!NumberOf(c, 1, m) \in Nat /\ n \in Nat /\ m \in 1..n
      /\ m # n => /\ m + 2 <= n /\ \A k \in (m + 2)..n : N!Digit(c, k)
  BY <1>1, NumberShape
<1>3. x = N!NumberOf(c, 1, m) /\ x \in Nat
  BY <1>2 DEF N!Whole
<1> DEFINE d == DigitWords(c, m + 2, n)
           words == N!Words[x]
<1>4. NumberSaid(c) = IF m = n THEN words ELSE words \o Point \o d
  BY <1>2, <1>3 DEF NumberSaid
<1>5. N!Understood(words) = x
  BY <1>3, WordsUnderstood
<1>6. words \in Seq(WholeWords)
  BY <1>3, WordsWhole
<1>7. \A s \in Seq(WholeWords) : s \in Seq(NumberWords)
  <2>1. WholeWords \subseteq NumberWords
    BY DEF WholeWords
  <2> QED BY <2>1
<1> HIDE DEF x, words
<1>8. CASE m = n
  <2>1. N!Decimals(c) = <<>>
    BY <1>2, <1>8, DecimalsFacts
  <2>2. SaysNumber(words, c)
    BY <1>2, <1>5, <1>8, <2>1 DEF SaysNumber, x
  <2> QED BY <1>4, <1>6, <1>7, <1>8, <2>2
<1>9. CASE m # n
  <2>1. /\ d = [k \in DOMAIN N!Decimals(c) |-> <<"ones", N!DigitValue(N!Decimals(c)[k][2])>>]
        /\ d \in Seq(WholeWords)
    BY <1>2, <1>9, DigitWordsAre
  <2> DEFINE all == words \o Point \o d
  <2>2. Point \in Seq(NumberWords) /\ Len(Point) = 1 /\ Point[1][1] = "point"
    <3>1. <<"point", 0>> \in NumberWords
      BY DEF NumberWords
    <3> QED BY <3>1 DEF Point
  <2>3. \A k \in 1..Len(words) : words[k][1] # "point"
    <3>1. \A k \in 1..Len(words) : words[k] \in WholeWords
      BY <1>6
    <3> QED BY <3>1, WholeWordFacts
  <2>4. words \in Seq(NumberWords) /\ d \in Seq(NumberWords)
    BY <1>6, <1>7, <2>1
  <2>5. NumberSaid(c) = all
    BY <1>4, <1>9
  <2> HIDE DEF d
  <2>6. N!UpTo(all, "point") = words /\ N!From(all, "point") = d
    <3>1. SplitsIn(all, "point", words, d)
      BY <2>2, <2>3, <2>4, SplitAt
    <3> QED BY <3>1 DEF SplitsIn
  <2>7. all \in Seq(NumberWords)
    BY <2>2, <2>4
  <2> HIDE DEF all
  <2>8. SaysNumber(all, c)
    <3>1. ~(N!Decimals(c) = <<>> /\ N!WholeEnd(c, 1, Len(c)) = Len(c))
      BY <1>2, <1>9
    <3> QED BY <1>5, <2>1, <2>6, <3>1 DEF SaysNumber, x
  <2> QED BY <2>5, <2>7, <2>8
<1> QED BY <1>8, <1>9

(* Each chunk of a text is a part of it, and so are their characters.      *)
LEMMA OriginalFacts ==
  ASSUME NormInv, NEW k \in DOMAIN N!Original
  PROVE  /\ N!Original[k] \in Seq(ItemsOf(Characters(source)))
         /\ k \in 1..Len(N!Original) /\ N!Original = N!Chunks(Characters(source))
<1> DEFINE u == Characters(source)
<1>1. IsSequence(u)
  BY CharactersFacts DEF NormInv
<1>2. N!Original = N!Chunks(u)
  BY DEF N!Original, Characters
<1> HIDE DEF u
<1>3. k \in 1..Len(N!Chunks(u))
  BY <1>1, <1>2, ChunksAre
<1>4. PICK p, q \in 1..Len(u) : IsChunk(u, p, q) /\ N!Chunks(u)[k] = SubSeq(u, p, q)
  BY <1>1, <1>3, ChunksAre
<1>5. SubSeq(u, p, q) \in Seq(ItemsOf(u))
  <2>1. q \in p..Len(u) /\ u \in Seq(ItemsOf(u))
    BY <1>1, <1>4 DEF IsChunk, Runs, IsSequence
  <2> QED BY <2>1
<1> QED BY <1>2, <1>3, <1>4, <1>5 DEF u

(* A number set off by spaces is read as words that say its value, however *)
(* it is written and whatever stands beside it: the passes before the one  *)
(* that reads it leave it alone, the regular expression finds all of it,   *)
(* and the words are understood as the number.                             *)
THEOREM NumbersReadCorrect == Spec => []NumbersAreRead
<1>1. ChunksInv => NumbersAreRead
  <2> SUFFICES ASSUME ChunksInv, pass = "done", NEW n \in DOMAIN N!Original,
                      N!Plain(N!Original[n], 1)
               PROVE  Len(N!Result[n]) = 1 /\ SaysNumber(N!Result[n][1][2], N!Original[n])
    BY DEF NumbersAreRead, N!NumbersAreRead, SaysNumber
  <2> DEFINE c == N!Original[n]
  <2>1. c \in Seq(ItemsOf(Characters(source))) /\ n \in 1..Len(N!Original)
        /\ N!Original = N!Chunks(Characters(source))
    BY OriginalFacts DEF ChunksInv
  <2>2. Becomes(c, N!Result[n], "done")
    <3>1. Chunked(Characters(source), text, "done")
      BY DEF ChunksInv, Ended
    <3> QED BY <2>1, <3>1 DEF Chunked, N!Result
  <2> HIDE DEF c
  <2>3. N!Result[n] = N!Said(NumberSaid(c))
    BY <2>2 DEF Becomes, Writing, c
  <2>4. SaysNumber(NumberSaid(c), c)
    BY <2>1, NumberUnderstood DEF c
  <2> DEFINE w == NumberSaid(c)
  <2> HIDE DEF w
  <2>5. Len(N!Said(w)) = 1 /\ N!Said(w)[1][2] = w
    BY DEF N!Said
  <2> QED BY <2>3, <2>4, <2>5 DEF w, c
<1> QED BY <1>1, ChunksAlways, PTL

(* The cents are understood with the word for them behind their number.    *)
LEMMA CentsHeard ==
  ASSUME NEW y \in Nat
  PROVE  N!Understood(N!Words[y] \o << <<"cents", 0>> >>) = y /\ N!Understood(<<>>) = 0
<1> DEFINE h == N!Silence
           c == <<"cents", 0>>
           w == N!Words[y]
           e == Heard(h, w)
<1>1. h \in Hearing /\ h.total = 0 /\ h.group = 0
  BY DEF N!Silence, Hearing
<1>2. \A s : N!Understood(s) = Heard(h, s).total + Heard(h, s).group
  BY DEF N!Understood, Heard
<1>3. N!Understood(w) = y
  BY WordsUnderstood
<1> HIDE DEF h
<1>4. c \in SaidWords
  BY DEF SaidWords
<1>5. w \in Seq(SaidWords) /\ <<c>> \in Seq(SaidWords)
  <2>1. <<c>> \in Seq(SaidWords)
    BY <1>4
  <2> QED BY <2>1, WordsType
<1> HIDE DEF w
<1>6. e \in Hearing /\ Heard(h, w \o <<c>>) = Heard(e, <<c>>)
  <2> DEFINE s == <<c>>
  <2>1. s \in Seq(SaidWords)
    BY <1>5
  <2> HIDE DEF s, c
  <2>2. e \in Hearing /\ Heard(h, w \o s) = Heard(e, s)
    BY <1>1, <1>5, <2>1, HeardBoth
  <2> QED BY <2>2 DEF s
<1>7. Heard(e, <<c>>) = e
  <2> HIDE DEF e
  <2>1. N!Hear(e, c) = e
    BY <1>6, HearFacts
  <2> HIDE DEF c
  <2> QED BY <1>4, <1>6, <2>1, HeardFew
<1>8. N!Understood(w \o <<c>>) = y
  <2>1. e.total + e.group = y
    BY <1>2, <1>3
  <2> HIDE DEF e
  <2> QED BY <1>2, <1>6, <1>7, <2>1
<1>9. N!Understood(<<>>) = 0
  <2>1. Heard(h, <<>>) = h
    BY <1>1, HeardFew
  <2> QED BY <1>1, <1>2, <2>1
<1> QED BY <1>8, <1>9 DEF w

\* The digits of the cents, of which none stands for zero.
CentDigits(c) ==
  [k \in 1..2 |-> IF k \in DOMAIN N!Decimals(c) THEN N!DigitValue(N!Decimals(c)[k][2]) ELSE 0]

(* The part of an amount behind the point is read as so many cents.        *)
LEMMA CentsRead ==
  ASSUME NEW V, NEW c \in Seq(V), NEW m, IsAmount(c, m)
  PROVE  N!Understood(CentsSaid(c)) = 10 * CentDigits(c)[1] + CentDigits(c)[2]
<1> DEFINE n == Len(c)
<1>1. IsNumber(c, 2, m) /\ N!Is(c, 1, "$") /\ N!Fraction(c, m + 1, n, 2)
  BY AmountNumber DEF IsAmount
<1>2. /\ N!WholeEnd(c, 1, n) = m /\ n \in Nat /\ m \in 2..n
      /\ m # n => /\ m + 2 <= n /\ N!Is(c, m + 1, ".")
                  /\ \A k \in (m + 2)..n : N!Digit(c, k)
  <2>1. 2 \in {1, 2}
    OBVIOUS
  <2> QED BY <1>1, <2>1, NumberShape
<1>3. /\ m = n => N!Decimals(c) = <<>>
      /\ m # n => /\ DOMAIN N!Decimals(c) = 1..(n - (m + 2) + 1)
                  /\ \A k \in 1..(n - (m + 2) + 1) : N!Decimals(c)[k] = c[(m + 2) + k - 1]
  <2>1. m \in 1..n
    BY <1>2
  <2> QED BY <1>2, <2>1, DecimalsFacts
<1> HIDE DEF n
<1>4. CASE m = n
  <2>1. CentDigits(c)[1] = 0 /\ CentDigits(c)[2] = 0
    <3>1. DOMAIN N!Decimals(c) = {}
      BY <1>3, <1>4
    <3> QED BY <3>1 DEF CentDigits
  <2>2. CentsSaid(c) = <<>>
    BY <1>2, <1>4 DEF CentsSaid, n
  <2>3. N!Understood(<<>>) = 0
    <3>1. 0 \in Nat
      OBVIOUS
    <3> QED BY <3>1, CentsHeard
  <2> QED BY <2>1, <2>2, <2>3
<1>5. CASE m # n
  <2>1. n - (m + 1) <= 2
    <3>1. ~(m + 1 > n)
      BY <1>2, <1>5
    <3> QED BY <1>1, <3>1 DEF N!Fraction
  <2>2. n = m + 2 \/ n = m + 3
    BY <1>2, <1>5, <2>1
  <2> DEFINE i == m + 2
             d == N!DigitValue(c[i][2])
             e == N!DigitValue(c[i + 1][2])
             y == N!Cents(c, 1, n)
  <2>3. N!NumberOf(c, m + 1, n) = N!NumberOf(c, i, n)
    <3>1. m + 1 \in 1..Len(c) /\ n \in ((m + 1) + 1)..Len(c) /\ (m + 1) + 1 = i
      BY <1>2, <1>5 DEF n
    <3>2. ~N!Digit(c, m + 1)
      BY <1>2, <1>5, PointFacts
    <3> DEFINE a == m + 1
    <3> HIDE DEF a, i
    <3>3. N!NumberOf(c, a, n) = N!NumberOf(c, a + 1, n)
      BY <3>1, <3>2, FirstSkipped DEF a
    <3> QED BY <3>1, <3>3 DEF a
  <2>4. y = N!NumberOf(c, i, n) * (IF n - m = 2 THEN 10 ELSE 1)
    BY <1>2, <2>3 DEF N!Cents
  <2>5. i \in 1..Len(c) /\ N!Digit(c, i)
    BY <1>2, <1>5 DEF n
  <2>6. d \in 0..9 /\ N!NumberOf(c, i, i) = d
    BY <2>5, FewDigits
  <2>7. DOMAIN N!Decimals(c) = 1..(n - i + 1)
        /\ \A k \in 1..(n - i + 1) : N!Decimals(c)[k] = c[i + k - 1]
    BY <1>3, <1>5
  <2>8. y \in Nat /\ y = 10 * CentDigits(c)[1] + CentDigits(c)[2]
    <3>1. CASE n = m + 2
      <4>1. n = i /\ n - m = 2 /\ n - i + 1 = 1 /\ i + 1 - 1 = i
        BY <1>2, <3>1
      <4> HIDE DEF i, d, y
      <4>2. y = d * 10
        BY <2>4, <2>6, <4>1
      <4>3. DOMAIN N!Decimals(c) = {1} /\ N!Decimals(c)[1] = c[i]
        BY <2>7, <4>1
      <4>4. CentDigits(c)[1] = d /\ CentDigits(c)[2] = 0
        BY <4>3 DEF CentDigits, d
      <4> QED BY <2>6, <4>2, <4>4
    <3>2. CASE n = m + 3
      <4>1. n = i + 1 /\ n - m # 2 /\ n - i + 1 = 2 /\ i + 1 - 1 = i /\ i + 2 - 1 = i + 1
            /\ i + 1 <= Len(c) /\ i + 1 \in (m + 2)..n /\ i + 1 \in 1..Len(c)
        BY <1>2, <3>2 DEF n
      <4>2. N!Digit(c, i + 1)
        BY <1>2, <1>5, <4>1
      <4>3. N!NumberOf(c, i, i + 1) = 10 * d + e
        BY <2>5, <4>1, <4>2, FewDigits
      <4>4. e \in 0..9
        <5> DEFINE j == i + 1
        <5>1. j \in 1..Len(c) /\ N!Digit(c, j)
          BY <4>1, <4>2
        <5> HIDE DEF j
        <5>2. N!DigitValue(c[j][2]) \in 0..9
          BY <5>1, FewDigits
        <5> QED BY <5>2 DEF j
      <4>5. DOMAIN N!Decimals(c) = 1..2 /\ N!Decimals(c)[1] = c[i] /\ N!Decimals(c)[2] = c[i + 1]
        BY <2>7, <4>1
      <4>6. CentDigits(c)[1] = d /\ CentDigits(c)[2] = e
        BY <4>5 DEF CentDigits
      <4> HIDE DEF i, d, e, y
      <4>7. y = (10 * d + e) * 1
        BY <2>4, <4>1, <4>3
      <4> QED BY <2>6, <4>4, <4>6, <4>7
    <3> QED BY <2>2, <3>1, <3>2
  <2>9. CentsSaid(c) = N!Words[y] \o << <<"cents", 0>> >>
    BY <1>2, <1>5 DEF CentsSaid, n
  <2> HIDE DEF y
  <2>10. N!Understood(CentsSaid(c)) = y
    BY <2>8, <2>9, CentsHeard
  <2> QED BY <2>8, <2>10
<1> QED BY <1>4, <1>5

\* The words of an amount say its dollars, and then its cents.
SaysAmount(words, c) ==
  /\ N!Understood(N!UpTo(words, "dollars")) = N!Whole(c)
  /\ N!Understood(N!From(words, "dollars")) = 10 * CentDigits(c)[1] + CentDigits(c)[2]

(* What is said of an amount does.                                         *)
LEMMA AmountUnderstood ==
  ASSUME NEW V, NEW c \in Seq(V), Amount(c)
  PROVE  SaysAmount(AmountSaid(c), c)
<1> DEFINE n == Len(c)
           W == SaidWords \cup {<<"dollars", 0>>}
<1>1. PICK m : IsAmount(c, m)
  BY DEF Amount
<1>2. IsNumber(c, 2, m) /\ N!Is(c, 1, "$")
  BY <1>1, AmountNumber DEF IsAmount
<1>3. /\ N!WholeEnd(c, 1, n) = m /\ N!NumberOf(c, 2, m) \in Nat /\ n \in Nat /\ m \in 2..n
      /\ m # n => m + 2 <= n
  <2>1. 2 \in {1, 2}
    OBVIOUS
  <2> QED BY <1>2, <2>1, NumberShape
<1> DEFINE x == N!NumberOf(c, 2, m)
           words == N!Words[x]
           cents == CentsSaid(c)
           all == words \o Dollars \o cents
<1>4. AmountSaid(c) = all
  BY <1>3 DEF AmountSaid
<1>5. N!Whole(c) = x
  <2>1. 1 \in 1..Len(c) /\ m \in (1 + 1)..Len(c) /\ 1 + 1 = 2
    BY <1>3
  <2>2. ~N!Digit(c, 1)
    BY <1>2, DigitFacts
  <2>3. N!NumberOf(c, 1, m) = N!NumberOf(c, 1 + 1, m)
    BY <2>1, <2>2, FirstSkipped
  <2> QED BY <1>3, <2>1, <2>3 DEF N!Whole
<1>6. N!Understood(words) = x /\ words \in Seq(WholeWords)
  BY <1>3, WordsUnderstood, WordsWhole
<1>7. WholeWords \subseteq W /\ <<"cents", 0>> \in W /\ <<"dollars", 0>> \in W
  BY DEF WholeWords, SaidWords
<1>8. cents \in Seq(W)
  <2> DEFINE y == N!Cents(c, 1, n)
             w == N!Words[y]
             s == << <<"cents", 0>> >>
  <2>1. CASE m = n
    <3>1. cents = <<>>
      BY <1>3, <2>1 DEF CentsSaid
    <3> QED BY <3>1
  <2>2. CASE m # n
    <3>1. cents = w \o s
      BY <1>3, <2>2 DEF CentsSaid
    <3>2. y \in Nat
      <4>1. m + 1 \in 1..Len(c) /\ n \in (m + 1)..Len(c)
        BY <1>3, <2>2
      <4>2. N!NumberOf(c, m + 1, n) \in Nat
        BY <4>1, NumberType
      <4> DEFINE z == N!NumberOf(c, m + 1, n)
      <4>3. y = z * (IF n - m = 2 THEN 10 ELSE 1)
        BY <1>3 DEF N!Cents
      <4> HIDE DEF z, y
      <4> QED BY <4>2, <4>3 DEF z
    <3> HIDE DEF y
    <3>3. w \in Seq(WholeWords)
      BY <3>2, WordsWhole
    <3>4. s \in Seq(W)
      BY <1>7
    <3>5. w \in Seq(W)
      <4> HIDE DEF w, W
      <4> QED BY <1>7, <3>3
    <3> HIDE DEF w, s, W, cents
    <3> QED BY <3>1, <3>4, <3>5
  <2> QED BY <2>1, <2>2
<1>9. Dollars \in Seq(W) /\ Len(Dollars) = 1 /\ Dollars[1][1] = "dollars"
  <2> HIDE DEF W
  <2> QED BY <1>7 DEF Dollars
<1> HIDE DEF words, x, cents, W
<1>10. words \in Seq(W) /\ \A k \in 1..Len(words) : words[k] \in WholeWords
  BY <1>6, <1>7
<1>11. \A k \in 1..Len(words) : words[k][1] # "dollars"
  BY <1>10, WholeWordFacts
<1>12. SplitsIn(all, "dollars", words, cents)
  BY <1>8, <1>9, <1>10, <1>11, SplitAt
<1>13. N!Understood(cents) = 10 * CentDigits(c)[1] + CentDigits(c)[2]
  BY <1>1, CentsRead DEF cents
<1> HIDE DEF all
<1> QED BY <1>4, <1>5, <1>6, <1>12, <1>13 DEF SaysAmount, SplitsIn

(* An amount in dollars set off by spaces is read as its dollars and its   *)
(* cents: "$2.5" is two dollars and fifty cents.                           *)
THEOREM AmountsReadCorrect == Spec => []AmountsAreRead
<1>1. ChunksInv => AmountsAreRead
  <2> SUFFICES ASSUME ChunksInv, pass = "done", NEW n \in DOMAIN N!Original,
                      N!Is(N!Original[n], 1, "$"),
                      NEW m \in 2..Len(N!Original[n]), N!Grouped(N!Original[n], 2, m),
                      N!Fraction(N!Original[n], m + 1, Len(N!Original[n]), 2)
               PROVE  Len(N!Result[n]) = 1 /\ SaysAmount(N!Result[n][1][2], N!Original[n])
    BY DEF AmountsAreRead, N!AmountsAreRead, SaysAmount, CentDigits
  <2> DEFINE c == N!Original[n]
  <2>0. Amount(c)
    BY DEF Amount, IsAmount
  <2>1. c \in Seq(ItemsOf(Characters(source))) /\ n \in 1..Len(N!Original)
        /\ N!Original = N!Chunks(Characters(source))
    BY OriginalFacts DEF ChunksInv
  <2>2. Becomes(c, N!Result[n], "done")
    <3>1. Chunked(Characters(source), text, "done")
      BY DEF ChunksInv, Ended
    <3> QED BY <2>1, <3>1 DEF Chunked, N!Result
  <2> HIDE DEF c
  <2>3. N!Result[n] = N!Said(AmountSaid(c))
    <3>1. "done" \notin {"abbreviations", "currency"}
      OBVIOUS
    <3> QED BY <2>0, <2>2, <3>1 DEF Becomes
  <2>4. SaysAmount(AmountSaid(c), c)
    BY <2>0, <2>1, AmountUnderstood
  <2> DEFINE w == AmountSaid(c)
  <2> HIDE DEF w
  <2>5. Len(N!Said(w)) = 1 /\ N!Said(w)[1][2] = w
    BY DEF N!Said
  <2> QED BY <2>3, <2>4, <2>5 DEF w, c
<1> QED BY <1>1, ChunksAlways, PTL

-----------------------------------------------------------------------------
(* The numbers in the dictionary                                           *)

(* Of a dictionary that was loaded whole, every word with phones is found, *)
(* with those of its first entry.                                          *)
LEMMA WholeDictionary ==
  ASSUME LexInv, ready, read = L!AllOf(published), NEW w, w # L!NoWord, L!Listed(w) # <<>>
  PROVE  L!Lookup(w) = L!Listed(w)
<1> DEFINE W == WordsIn(published)
           n == Len(published)
           k == L!SelectInSeq(published, LAMBDA line : line.word = w /\ line.phones # <<>>)
           lines == SubSeq(published, 1, read.whole) \o read.cut
           I == {i \in 1..n : Has(published[i], w)}
<1>1. /\ published \in Dictionaries /\ Partial(read)
      /\ dict = L!FoldLeft(L!AddLine, [x \in {} |-> <<>>], lines)
  BY DEF LexInv, Loaded
<1>2. read.whole = n /\ read.cut = <<>>
  BY DEF L!AllOf
<1>3. /\ lines \in Seq(Line(W)) /\ Len(lines) \in {read.whole, read.whole + 1}
      /\ n \in Nat
      /\ \A i \in 1..read.whole : lines[i] = published[i]
      /\ read.whole < Len(lines) => 1 \in DOMAIN read.cut
  <2> HIDE DEF lines
  <2>1. lines = SubSeq(published, 1, read.whole) \o read.cut
    BY DEF lines
  <2>2. n \in Nat
    BY <1>1, DictionariesAssumption
  <2> QED BY <1>1, <2>1, <2>2, FileLines
<1>4. Len(lines) = n /\ \A i \in 1..n : lines[i] = published[i]
  <2> HIDE DEF lines
  <2>1. ~(n < Len(lines))
    BY <1>2, <1>3
  <2> QED BY <1>2, <1>3, <2>1
<1>5. k = IF I # {} THEN Min(I) ELSE 0
  BY DEF L!SelectInSeq, L!Min, Min, Has
<1>6. I # {}
  <2> HIDE DEF I
  <2> QED BY <1>5 DEF L!Listed
<1>7. PICK m \in 1..n : Has(published[m], w)
  BY <1>6
<1>8. w \in W
  BY <1>3, <1>7 DEF WordsIn, Has
<1> HIDE DEF W, lines, k
<1>9. w \in DOMAIN dict
  <2>1. Has(lines[m], w) /\ m \in 1..Len(lines)
    BY <1>4, <1>7
  <2> QED BY <1>1, <1>3, <1>8, <2>1, LoadedWords
<1>10. dict[w] = L!Listed(w)
  <2>1. DOMAIN read.cut = {}
    BY <1>2
  <2>2. OnlyCutEntryDiffers
    BY FirstEntryListed
  <2> QED BY <1>9, <2>1, <2>2 DEF OnlyCutEntryDiffers, L!OnlyCutEntryDiffers
<1> QED BY <1>9, <1>10 DEF L!Lookup

\* A word is asked about when the text is ready and the dictionary loaded, and
\* what the dictionary has of it is the answer.
AskedInv ==
  asked # L!NoWord =>
    /\ pass = "done" /\ ready
    /\ L!Lookup(asked) # <<>> => answer = L!Lookup(asked)

(* Each step keeps that.                                                   *)
LEMMA AskedSteps ==
  AskedInv /\ [Next]_vars => AskedInv'
<1> SUFFICES ASSUME AskedInv, [Next]_vars PROVE AskedInv'
  OBVIOUS
<1> USE DEF AskedInv
<1>1. CASE UNCHANGED vars
  BY <1>1 DEF vars, textVars, wordVars, L!Lookup
<1>2. CASE Fetch
  BY <1>2 DEF Fetch, textVars, L!StartFetch, L!Receive, L!EndFetch, L!Lookup
<1>3. CASE Construct
  <2>1. asked' = L!NoWord
    BY <1>3 DEF Construct, L!Load
  <2> QED BY <2>1
<1>4. CASE Normalize
  <2>1. pass # "done"
    BY <1>4 DEF Normalize, N!Next, N!ExpandAbbreviations, N!ExpandCurrency,
                N!ExpandOrdinals, N!ExpandNumbers, N!NormalizeWhitespace, N!Pass
  <2>2. asked' = L!NoWord
    BY <1>4, <2>1 DEF Normalize, wordVars
  <2> QED BY <2>2
<1>5. CASE Pronounce
  <2>1. PICK word : L!WordToTokens(word)
    BY <1>5 DEF Pronounce
  <2>2. pass' = "done" /\ ready' /\ asked' = word /\ dict' = dict
    BY <1>5, <2>1 DEF Pronounce, textVars, L!WordToTokens
  <2>3. L!Lookup(word) # <<>> => answer' = L!Lookup(word)
    BY <2>1 DEF L!WordToTokens
  <2>4. L!Lookup(asked)' = L!Lookup(word)
    BY <2>2 DEF L!Lookup
  <2> QED BY <2>2, <2>3, <2>4
<1> QED BY <1>1, <1>2, <1>3, <1>4, <1>5 DEF Next

(* At first nothing was asked.                                             *)
LEMMA AskedAlways == Spec => []AskedInv
<1>1. Init => AskedInv
  BY DEF Init, L!Init, AskedInv
<1> QED BY <1>1, AskedSteps, PTL DEF Spec

\* Between any two words there is a space.
Apart(s) ==
  /\ s \in Seq(NumberWords \cup {Blank})
  /\ \A k \in 2..Len(s) : s[k] = Blank \/ s[k - 1] = Blank

(* One more word, or the first.                                            *)
LEMMA ApartMore ==
  ASSUME NEW s, Apart(s), NEW w \in NumberWords
  PROVE  Apart(s \o <<Blank, w>>) /\ Apart(<<w>>)
<1> DEFINE V == NumberWords \cup {Blank}
           u == s \o <<Blank, w>>
           n == Len(s)
<1>1. s \in Seq(V) /\ n \in Nat /\ <<Blank, w>> \in Seq(V) /\ <<w>> \in Seq(V)
  <2>1. Blank \in V /\ w \in V /\ s \in Seq(V)
    BY DEF Apart
  <2> HIDE DEF V
  <2> QED BY <2>1
<1>2. \A k \in 2..n : s[k] = Blank \/ s[k - 1] = Blank
  BY DEF Apart
<1> HIDE DEF V
<1>3. /\ u \in Seq(V) /\ Len(u) = n + 2 /\ u[n + 1] = Blank
      /\ \A k \in 1..n : u[k] = s[k]
  BY <1>1
<1>4. ASSUME NEW k \in 2..Len(u) PROVE u[k] = Blank \/ u[k - 1] = Blank
  <2> HIDE DEF u, n
  <2>1. k \in 2..n \/ k = n + 1 \/ k - 1 = n + 1
    BY <1>1, <1>3
  <2>2. CASE k \in 2..n
    <3>1. k \in 1..n /\ k - 1 \in 1..n
      BY <1>1, <2>2
    <3> QED BY <1>2, <1>3, <2>2, <3>1
  <2> QED BY <1>3, <2>1, <2>2
<1>5. Len(<<w>>) = 1 /\ 2..1 = {}
  OBVIOUS
<1> QED BY <1>1, <1>3, <1>4, <1>5 DEF Apart, V

(* The words of a number are written apart from one another.               *)
LEMMA NumberApart ==
  ASSUME NEW words \in Seq(NumberWords)
  PROVE  Apart(Letters(<<"said", words>>))
<1> DEFINE n == Len(words)
           V == NumberWords \cup {Blank}
           seqs == [k \in 1..n |-> IF k = 1 THEN <<words[k]>> ELSE <<Blank, words[k]>>]
<1>1. n \in Nat /\ \A k \in 1..n : words[k] \in NumberWords /\ words[k][1] # "suffix"
  <2>1. n \in Nat /\ \A k \in 1..n : words[k] \in NumberWords
    OBVIOUS
  <2>2. \A w \in NumberWords : w[1] # "suffix"
    BY DEF NumberWords
  <2> QED BY <2>1, <2>2
<1>2. Letters(<<"said", words>>) = FlattenSeq(seqs)
  <2>1. DOMAIN words = 1..n
    OBVIOUS
  <2> DEFINE put(k) == IF k = 1 \/ words[k][1] = "suffix" THEN <<words[k]>>
                       ELSE <<Separator, words[k]>>
  <2>2. [k \in DOMAIN words |-> put(k)] = seqs
    BY <1>1, <2>1 DEF Separator, Blank
  <2>3. Letters(<<"said", words>>) = FlattenSeq([k \in DOMAIN words |-> put(k)])
    BY DEF Letters
  <2> QED BY <2>2, <2>3
<1>3. seqs \in Seq(Seq(V)) /\ Len(seqs) = n
  <2>1. ASSUME NEW k \in 1..n PROVE seqs[k] \in Seq(V)
    <3>1. words[k] \in V /\ Blank \in V
      BY <1>1
    <3> HIDE DEF V
    <3> QED BY <3>1
  <2> HIDE DEF V
  <2> QED BY <1>1, <2>1
<1>a. Apart(<<>>)
  BY DEF Apart
<1>4. CASE n = 0
  <2>1. FlattenSeq(seqs) = <<>>
    <3> HIDE DEF seqs
    <3> QED BY <1>3, <1>4 DEF FlattenSeq
  <2> HIDE DEF seqs
  <2> QED BY <1>2, <1>a, <2>1
<1>5. CASE n # 0
  <2>0. n \in 1..n /\ 1 \in 1..n
    BY <1>1, <1>5
  <2>1. PICK rows \in [1..n -> Seq(V)] :
          /\ FlattenSeq(seqs) = rows[n] /\ rows[1] = seqs[1]
          /\ \A k \in 2..n : rows[k] = rows[k - 1] \o seqs[k]
    <3> HIDE DEF seqs, V
    <3>1. Len(seqs) > 0
      BY <1>1, <1>3, <1>5
    <3>2. \E rows \in [1..Len(seqs) -> Seq(V)] :
            /\ FlattenSeq(seqs) = rows[Len(seqs)] /\ rows[1] = seqs[1]
            /\ \A k \in 2..Len(seqs) : rows[k] = rows[k - 1] \o seqs[k]
      BY <1>3, <3>1, FlattenRows
    <3> HIDE DEF n
    <3> QED BY <1>3, <3>2
  <2>2. Apart(rows[1])
    <3>2. rows[1] = <<words[1]>> /\ words[1] \in NumberWords
      BY <1>1, <2>0, <2>1
    <3> QED BY <1>a, <3>2, ApartMore
  <2>3. ASSUME NEW k \in 2..n, Apart(rows[k - 1]) PROVE Apart(rows[k])
    <3>1. k \in 1..n /\ k # 1
      BY <1>1
    <3>2. seqs[k] = <<Blank, words[k]>> /\ words[k] \in NumberWords
      BY <1>1, <3>1
    <3>3. rows[k] = rows[k - 1] \o <<Blank, words[k]>>
      <4> HIDE DEF seqs
      <4> QED BY <2>1, <3>2
    <3>4. Apart(rows[k - 1] \o <<Blank, words[k]>>)
      <4> DEFINE s == rows[k - 1]
                 w == words[k]
      <4>1. Apart(s) /\ w \in NumberWords
        BY <2>3, <3>2
      <4> HIDE DEF s, w
      <4>2. Apart(s \o <<Blank, w>>)
        BY <4>1, ApartMore
      <4> QED BY <4>2 DEF s, w
    <3> QED BY <3>3, <3>4
  <2> DEFINE Q == {k \in Nat : k + 1 <= n => Apart(rows[k + 1])}
  <2>4. 0 \in Q
    BY <2>2
  <2>5. ASSUME NEW k \in Nat, k \in Q PROVE k + 1 \in Q
    <3> SUFFICES ASSUME (k + 1) + 1 <= n PROVE Apart(rows[(k + 1) + 1])
      OBVIOUS
    <3>1. (k + 1) + 1 \in 2..n /\ ((k + 1) + 1) - 1 = k + 1 /\ k + 1 <= n
      BY <1>1
    <3>2. Apart(rows[k + 1])
      BY <2>5, <3>1
    <3> QED BY <2>3, <3>1, <3>2
  <2> HIDE DEF Q
  <2>6. n - 1 \in Nat /\ (n - 1) + 1 = n
    BY <1>1, <1>5
  <2>7. n - 1 \in Q
    BY <2>4, <2>5, <2>6, Induction
  <2>8. Apart(rows[n])
    BY <2>6, <2>7 DEF Q
  <2> QED BY <1>2, <2>1, <2>8
<1> QED BY <1>4, <1>5

(* What is asked of a number are its words, one by one.                    *)
LEMMA NumberAsked ==
  ASSUME NEW words \in Seq(NumberWords), NEW word \in ToSet(WordsOf(N!Said(words)))
  PROVE  \E w \in NumberWords : word = <<w>>
<1> DEFINE t == N!Said(words)
           s == Letters(<<"said", words>>)
           V == NumberWords \cup {Blank}
<1>1. Apart(s)
  BY NumberApart
<1>2. WordsOf(t) = N!Chunks(s)
  <2> DEFINE seqs == [k \in DOMAIN t |-> Letters(t[k])]
  <2>1. DOMAIN t = {1} /\ t[1] = <<"said", words>>
    BY DEF N!Said
  <2>2. DOMAIN seqs = 1..1 /\ seqs[1] = s
    BY <2>1
  <2>3. s \in Seq(V)
    BY <1>1 DEF Apart
  <2> HIDE DEF s, V, t
  <2>4. seqs \in Seq(Seq(V)) /\ Len(seqs) = 1
    <3>1. seqs = [k \in 1..1 |-> seqs[k]]
      BY <2>1
    <3>2. \A k \in 1..1 : seqs[k] \in Seq(V)
      <4> HIDE DEF seqs
      <4> QED BY <2>2, <2>3
    <3> HIDE DEF seqs
    <3>3. [k \in 1..1 |-> seqs[k]] \in Seq(Seq(V)) /\ Len([k \in 1..1 |-> seqs[k]]) = 1
      BY <3>2
    <3> QED BY <3>1, <3>3
  <2> HIDE DEF seqs
  <2>5. FlattenSeq(seqs) = s
    <3>1. PICK rows \in [1..Len(seqs) -> Seq(V)] :
            FlattenSeq(seqs) = rows[Len(seqs)] /\ rows[1] = seqs[1]
      <4>1. \E rows \in [1..Len(seqs) -> Seq(V)] :
              /\ FlattenSeq(seqs) = rows[Len(seqs)] /\ rows[1] = seqs[1]
              /\ \A k \in 2..Len(seqs) : rows[k] = rows[k - 1] \o seqs[k]
        <5>1. Len(seqs) > 0
          BY <2>4
        <5> QED BY <2>4, <5>1, FlattenRows
      <4> QED BY <4>1
    <3> QED BY <2>2, <2>4, <3>1
  <2> QED BY <2>5 DEF WordsOf, seqs
<1> HIDE DEF t, s
<1>3. s \in Seq(V) /\ IsSequence(s)
  BY <1>1, OwnItems DEF Apart
<1>4. PICK k \in 1..Len(N!Chunks(s)) : word = N!Chunks(s)[k]
  <2>1. word \in ToSet(N!Chunks(s))
    BY <1>2 DEF t
  <2>2. DOMAIN N!Chunks(s) = 1..Len(N!Chunks(s))
    BY <1>3, ChunksAre
  <2> QED BY <2>1, <2>2 DEF ToSet
<1>5. \E p, q \in 1..Len(s) : IsChunk(s, p, q) /\ word = SubSeq(s, p, q)
  BY <1>3, <1>4, ChunksAre
<1>6. PICK p \in 1..Len(s), q \in 1..Len(s) : IsChunk(s, p, q) /\ word = SubSeq(s, p, q)
  BY <1>5
<1>7. p <= q /\ \A i \in p..q : s[i] # Blank
  BY <1>6 DEF IsChunk, Runs
<1>8. p = q
  <2> SUFFICES ASSUME p < q PROVE FALSE
    BY <1>7
  <2>1. p \in p..q /\ p + 1 \in p..q /\ p + 1 \in 2..Len(s) /\ (p + 1) - 1 = p
    BY <1>3
  <2> QED BY <1>1, <1>7, <2>1 DEF Apart
<1>9. s[p] \in NumberWords
  <2>1. s[p] \in V /\ s[p] # Blank
    BY <1>3, <1>7, <1>8
  <2> QED BY <2>1
<1>10. word = <<s[p]>>
  <2>1. p \in Nat /\ word = SubSeq(s, p, p) /\ s \in Seq(V) /\ p \in 1..Len(s)
    BY <1>3, <1>6, <1>8
  <2> DEFINE x == s[p]
  <2> HIDE DEF V
  <2>2. Len(word) = 1 /\ word \in Seq(V) /\ word[1] = x
    <3>1. Len(word) = 1
      BY <2>1
    <3>2. word[1] = x
      BY <2>1
    <3>3. word \in Seq(V)
      BY <2>1
    <3> QED BY <3>1, <3>2, <3>3
  <2> HIDE DEF x
  <2>3. word = <<x>>
    BY ONLY <2>2
  <2> QED BY <2>3 DEF x
<1> QED BY <1>9, <1>10

(* With a whole dictionary that has the few words numbers are said with,   *)
(* every word of a number between spaces is heard: what is asked about it  *)
(* are words of those, the dictionary has them, and what it has is the     *)
(* answer, be there espeak or not.                                         *)
THEOREM NumbersSpokenCorrect == Spec => []NumbersAreSpoken
<1>1. ChunksInv /\ LexInv /\ AskedInv => NumbersAreSpoken
  <2> SUFFICES ASSUME ChunksInv, LexInv, AskedInv,
                      asked # L!NoWord, answer = <<>>, read = L!AllOf(published),
                      \A w \in NumberWords : L!Listed(<<w>>) # <<>>,
                      NEW n \in DOMAIN N!Original, N!Plain(N!Original[n], 1),
                      asked \in ToSet(WordsOf(N!Result[n]))
               PROVE  FALSE
    BY DEF NumbersAreSpoken
  <2> DEFINE c == N!Original[n]
  <2>0. pass = "done" /\ ready
    BY DEF AskedInv
  <2>1. c \in Seq(ItemsOf(Characters(source))) /\ n \in 1..Len(N!Original)
        /\ N!Original = N!Chunks(Characters(source))
    BY OriginalFacts DEF ChunksInv
  <2>2. Becomes(c, N!Result[n], "done")
    <3>1. Chunked(Characters(source), text, "done")
      BY <2>0 DEF ChunksInv, Ended
    <3> QED BY <2>1, <3>1 DEF Chunked, N!Result
  <2>3. N!Result[n] = N!Said(NumberSaid(c))
    BY <2>2 DEF Becomes, Writing
  <2>4. NumberSaid(c) \in Seq(NumberWords)
    BY <2>1, NumberUnderstood
  <2> HIDE DEF c
  <2>5. PICK w \in NumberWords : asked = <<w>>
    BY <2>3, <2>4, NumberAsked
  <2>6. L!Listed(asked) # <<>>
    BY <2>5
  <2>7. L!Lookup(asked) = L!Listed(asked)
    BY <2>0, <2>6, WholeDictionary
  <2> QED BY <2>6, <2>7 DEF AskedInv
<1> QED BY <1>1, ChunksAlways, LexAlways, AskedAlways, PTL

=============================================================================
