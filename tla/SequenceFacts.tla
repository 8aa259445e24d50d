--------------------------- MODULE SequenceFacts ---------------------------
(***************************************************************************)
(* What the sequence operations of the specifications return, index by     *)
(* index, Min, Max and ranks, induction over the numbers of a set and the  *)
(* functions that recursion defines: the lemmas that the proofs rest on.   *)
(***************************************************************************)
EXTENDS Integers, SequencesExt, FiniteSetTheorems, WellFoundedInduction, TLAPS

(* Three sequences of numbers in a row.                                    *)
LEMMA Concat3 ==
  ASSUME NEW a \in Seq(Nat), NEW b \in Seq(Nat), NEW c \in Seq(Nat),
         NEW r, r = a \o b \o c
  PROVE  /\ r \in Seq(Nat)
         /\ Len(r) = Len(a) + Len(b) + Len(c)
         /\ \A k \in 1..Len(a) : r[k] = a[k]
         /\ \A k \in 1..Len(b) : r[Len(a) + k] = b[k]
         /\ \A k \in 1..Len(c) : r[Len(a) + Len(b) + k] = c[k]
OBVIOUS

(* A sequence cut short, and one number more.                              *)
LEMMA CutAppend ==
  ASSUME NEW s \in Seq(Nat), NEW n \in Nat, n <= Len(s), NEW e \in Nat,
         NEW r, r = Append(SubSeq(s, 1, n), e)
  PROVE  /\ r \in Seq(Nat) /\ Len(r) = n + 1
         /\ \A k \in 1..n : r[k] = s[k]
         /\ r[n + 1] = e
<1> DEFINE t == SubSeq(s, 1, n)
<1>1. /\ t \in Seq(Nat) /\ Len(t) = n
      /\ \A k \in 1..n : t[k] = s[k]
  OBVIOUS
<1> HIDE DEF t
<1>2. r = Append(t, e)
  BY DEF t
<1>3. r \in Seq(Nat) /\ Len(r) = n + 1
  BY <1>1, <1>2
<1>4. /\ \A k \in 1..n : r[k] = t[k]
      /\ r[n + 1] = e
  BY <1>1, <1>2
<1>5. ASSUME NEW k \in 1..n PROVE r[k] = s[k]
  BY <1>1, <1>4
<1> QED BY <1>3, <1>4, <1>5

(* A set of numbers that is not empty has a least one.                     *)
LEMMA MinFacts ==
  ASSUME NEW S \in SUBSET Nat, S # {}
  PROVE  Min(S) \in S /\ \A y \in S : Min(S) <= y
<1> DEFINE R == OpToRel(<, Nat)
<1>1. IsWellFoundedOn(R, Nat)
  BY NatLessThanWellFounded
<1>2. \A x, y \in Nat : <<y, x>> \in R <=> y < x
  BY DEF OpToRel
<1> HIDE DEF R
<1>3. PICK x \in S : \A y \in S : <<y, x>> \notin R
  BY <1>1, WFMin
<1>4. ASSUME NEW y \in S PROVE x <= y
  <2>1. x \in Nat /\ y \in Nat /\ ~(y < x)
    BY <1>2, <1>3
  <2> QED BY <2>1
<1> QED BY <1>4 DEF Min

(* A set of numbers up to a bound that is not empty has a greatest one.    *)
LEMMA MaxFacts ==
  ASSUME NEW n \in Nat, NEW S \in SUBSET (0..n), S # {}
  PROVE  Max(S) \in S /\ \A y \in S : y <= Max(S)
<1> DEFINE D == {n - x : x \in S}
<1>1. D \in SUBSET Nat /\ D # {}
  <2>1. ASSUME NEW x \in S PROVE n - x \in Nat
    <3>1. x \in 0..n
      OBVIOUS
    <3> QED BY <3>1
  <2> QED BY <2>1
<1>2. Min(D) \in D /\ \A y \in D : Min(D) <= y
  BY <1>1, MinFacts
<1>3. PICK x \in S : Min(D) = n - x
  BY <1>2
<1>4. ASSUME NEW y \in S PROVE x >= y
  <2>1. n - y \in D
    OBVIOUS
  <2> HIDE DEF D
  <2>2. n - x <= n - y
    BY <1>2, <1>3, <2>1
  <2>3. x \in 0..n /\ y \in 0..n
    OBVIOUS
  <2> QED BY <2>2, <2>3
<1>5. \E z \in S : \A y \in S : z >= y
  BY <1>4
<1>6. Max(S) \in S /\ \A y \in S : Max(S) >= y
  BY <1>5 DEF Max
<1> QED BY <1>6

(* How many numbers of a set there are up to one of them: no fewer up to a *)
(* greater one.                                                            *)
LEMMA RankGrows ==
  ASSUME NEW b \in Nat, NEW S \in SUBSET (0..b), NEW j \in 0..b, NEW k \in 0..b, j <= k
  PROVE  /\ IsFiniteSet({m \in S : m <= k})
         /\ Cardinality({m \in S : m <= j}) \in Nat
         /\ Cardinality({m \in S : m <= k}) \in Nat
         /\ Cardinality({m \in S : m <= j}) <= Cardinality({m \in S : m <= k})
<1> DEFINE A == {m \in S : m <= j}
           B == {m \in S : m <= k}
<1>1. IsFiniteSet(0..b)
  <2>1. 0 \in Int /\ b \in Int
    OBVIOUS
  <2> QED BY <2>1, FS_Interval
<1>2. A \in SUBSET B /\ B \in SUBSET (0..b)
  <2>1. ASSUME NEW x \in S, x <= j PROVE x <= k
    <3>1. x \in 0..b
      OBVIOUS
    <3> QED BY <2>1, <3>1
  <2> QED BY <2>1
<1> HIDE DEF A, B
<1>3. IsFiniteSet(B)
  BY <1>1, <1>2, FS_Subset
<1>4. IsFiniteSet(A) /\ Cardinality(A) <= Cardinality(B)
  BY <1>2, <1>3, FS_Subset
<1> QED BY <1>3, <1>4, FS_CardinalityType DEF A, B

(* Every rank in a set of numbers is that of one of them.                  *)
LEMMA RankExists ==
  ASSUME NEW b \in Nat, NEW S \in SUBSET (0..b), NEW n \in 1..Cardinality(S)
  PROVE  \E k \in S : Cardinality({m \in S : m <= k}) = n
<1> DEFINE R(x) == Cardinality({m \in S : m <= x})
           U == {x \in S : n <= R(x)}
<1>0. IsFiniteSet(0..b)
  <2>1. 0 \in Int /\ b \in Int
    OBVIOUS
  <2> QED BY <2>1, FS_Interval
<1>1. IsFiniteSet(S) /\ Cardinality(S) \in Nat /\ n \in Nat /\ n >= 1 /\ n <= Cardinality(S)
  <2>1. IsFiniteSet(S) /\ Cardinality(S) \in Nat
    BY <1>0, FS_Subset, FS_CardinalityType
  <2> QED BY <2>1
<1>2. S # {}
  BY <1>1, FS_EmptySet
<1>3. Max(S) \in S /\ R(Max(S)) = Cardinality(S)
  <2>1. Max(S) \in S /\ \A y \in S : y <= Max(S)
    BY <1>2, MaxFacts
  <2>2. {m \in S : m <= Max(S)} = S
    BY <2>1
  <2> QED BY <2>1, <2>2
<1>4. U \in SUBSET Nat /\ U # {}
  <2>1. n <= R(Max(S)) /\ Max(S) \in S
    BY <1>1, <1>3
  <2> HIDE DEF R
  <2>2. Max(S) \in U
    BY <2>1
  <2>3. U \in SUBSET S
    OBVIOUS
  <2>4. S \in SUBSET Nat
    OBVIOUS
  <2> HIDE DEF U
  <2> QED BY <2>2, <2>3, <2>4
<1> DEFINE k == Min(U)
<1>5. k \in U /\ \A y \in U : k <= y
  BY <1>4, MinFacts
<1> HIDE DEF k
<1>6. k \in S /\ n <= R(k) /\ R(k) \in Nat /\ k \in 0..b
  BY <1>5, RankGrows
<1>7. ASSUME n < R(k) PROVE FALSE
  <2> DEFINE L == {m \in S : m < k}
  <2>0. \A x \in S : x \in Nat
    OBVIOUS
  <2>1. {m \in S : m <= k} = L \cup {k} /\ k \notin L
    <3>1. k \in S /\ k \in Nat
      BY <1>6
    <3>2. \A x \in S : x <= k <=> x < k \/ x = k
      BY <2>0, <3>1
    <3>3. ~(k < k)
      BY <3>1
    <3>4. ASSUME NEW x PROVE x \in {m \in S : m <= k} <=> x \in L \cup {k}
      BY <3>1, <3>2
    <3> QED BY <3>3, <3>4
  <2>2. L \in SUBSET (0..b) /\ IsFiniteSet(L)
    <3>1. L \in SUBSET (0..b)
      OBVIOUS
    <3> QED BY <1>0, <3>1, FS_Subset
  <2>3. R(k) = Cardinality(L) + 1 /\ Cardinality(L) \in Nat
    BY <2>1, <2>2, FS_AddElement, FS_CardinalityType
  <2>4. n <= Cardinality(L) /\ Cardinality(L) # 0
    BY <1>1, <1>6, <1>7, <2>3
  <2>5. L # {}
    BY <2>4, FS_EmptySet
  <2>6. Max(L) \in L /\ \A y \in L : y <= Max(L)
    BY <2>2, <2>5, MaxFacts
  <2>7. Max(L) \in S /\ Max(L) < k /\ Max(L) \in Nat /\ k \in Nat
    BY <1>6, <2>2, <2>6
  <2>8. {m \in S : m <= Max(L)} = L
    <3>1. \A x \in S : x <= Max(L) => x < k
      BY <2>0, <2>7
    <3>2. \A x \in S : x < k => x <= Max(L)
      BY <2>6
    <3> QED BY <3>1, <3>2
  <2>9. n <= R(Max(L))
    BY <2>4, <2>8
  <2>10. k <= Max(L)
    BY <1>5, <2>7, <2>9
  <2> QED BY <2>7, <2>10
<1>8. R(k) = n
  BY <1>1, <1>6, <1>7
<1> QED BY <1>6, <1>8

(* What holds of a number whenever it holds of all smaller ones holds of   *)
(* every number.                                                           *)
LEMMA Descent ==
  ASSUME NEW Q, \A n \in Nat : (\A m \in Nat : m < n => m \in Q) => n \in Q
  PROVE  \A n \in Nat : n \in Q
<1> DEFINE B == {n \in Nat : n \notin Q}
<1> SUFFICES ASSUME B # {} PROVE FALSE
  OBVIOUS
<1>1. Min(B) \in B /\ \A y \in B : Min(B) <= y
  BY MinFacts
<1> DEFINE b == Min(B)
<1>2. b \in Nat /\ b \notin Q /\ \A y \in B : b <= y
  BY <1>1
<1> HIDE DEF b
<1>3. \A m \in Nat : m < b => m \in Q
  <2> SUFFICES ASSUME NEW m \in Nat, m < b, m \notin Q PROVE FALSE
    OBVIOUS
  <2> QED BY <1>2
<1> QED BY <1>2, <1>3

(* What holds of zero and of the successor of every number it holds of     *)
(* holds of every number.                                                  *)
LEMMA Induction ==
  ASSUME NEW Q, 0 \in Q, \A n \in Nat : n \in Q => n + 1 \in Q
  PROVE  \A n \in Nat : n \in Q
<1>1. ASSUME NEW n \in Nat, \A m \in Nat : m < n => m \in Q PROVE n \in Q
  <2>1. CASE n = 0
    BY <2>1
  <2>2. CASE n # 0
    <3>1. n - 1 \in Nat /\ n - 1 < n /\ (n - 1) + 1 = n
      BY <2>2
    <3> QED BY <1>1, <3>1
  <2> QED BY <2>1, <2>2
<1> QED BY <1>1, Descent

\* A rule for the value of a function at x, which takes of the function only
\* its values where the rank is smaller.
IsRule(step, rank, D, V) ==
  /\ \A x \in D, g \in [D -> V] : step[x][g] \in V
  /\ \A x \in D, g, h \in [D -> V] :
       (\A y \in D : rank[y] < rank[x] => g[y] = h[y]) => step[x][g] = step[x][h]

\* A function that the rule gives its values.
Follows(f, step, D, V) == f \in [D -> V] /\ \A x \in D : f[x] = step[x][f]

(* A recursive definition, whose value at x depends on its values where    *)
(* the rank is smaller, has a solution.                                    *)
LEMMA RecursiveFunction ==
  ASSUME NEW D, NEW V, V # {}, NEW rank \in [D -> Nat], NEW step,
         IsRule(step, rank, D, V)
  PROVE  \E f : Follows(f, step, D, V)
<1> DEFINE Upto(g, n) == \A x \in D : rank[x] < n => g[x] = step[x][g]
           Q == {n \in Nat : \E g \in [D -> V] : Upto(g, n)}
<1>1. \A n \in Nat : n \in Q
  <2>1. 0 \in Q
    <3>1. PICK g : g \in [D -> V]
      <4>1. PICK v : v \in V
        OBVIOUS
      <4>2. [x \in D |-> v] \in [D -> V]
        BY <4>1
      <4> QED BY <4>2
    <3>2. \A x \in D : ~(rank[x] < 0)
      OBVIOUS
    <3> QED BY <3>1, <3>2
  <2>2. ASSUME NEW n \in Nat, n \in Q PROVE n + 1 \in Q
    <3>1. PICK g \in [D -> V] : Upto(g, n)
      BY <2>2
    <3> DEFINE h == [x \in D |-> step[x][g]]
    <3>2. h \in [D -> V]
      BY DEF IsRule
    <3>3. ASSUME NEW x \in D, rank[x] < n + 1 PROVE h[x] = step[x][h]
      <4>1. ASSUME NEW y \in D, rank[y] < rank[x] PROVE g[y] = h[y]
        <5>1. rank[y] < n
          BY <3>3, <4>1
        <5> QED BY <3>1, <5>1
      <4>2. step[x][g] = step[x][h]
        BY <3>2, <4>1 DEF IsRule
      <4> QED BY <4>2
    <3> HIDE DEF h
    <3>4. Upto(h, n + 1)
      BY <3>3
    <3>5. \E r \in [D -> V] : Upto(r, n + 1)
      BY <3>2, <3>4
    <3> QED BY <3>5
  <2> HIDE DEF Q
  <2> QED BY <2>1, <2>2, Induction
<1>2. ASSUME NEW n \in Nat, NEW m \in Nat, NEW g \in [D -> V], NEW h \in [D -> V],
             Upto(g, n), Upto(h, m)
      PROVE  \A x \in D : rank[x] < n /\ rank[x] < m => g[x] = h[x]
  <2> DEFINE E == {k \in Nat : \A x \in D : rank[x] = k /\ k < n /\ k < m => g[x] = h[x]}
  <2>1. ASSUME NEW k \in Nat, \A l \in Nat : l < k => l \in E PROVE k \in E
    <3> SUFFICES ASSUME NEW x \in D, rank[x] = k, k < n, k < m PROVE g[x] = h[x]
      OBVIOUS
    <3>1. ASSUME NEW y \in D, rank[y] < rank[x] PROVE g[y] = h[y]
      <4>1. rank[y] \in Nat /\ rank[y] < k /\ rank[y] < n /\ rank[y] < m
        BY <3>1
      <4>2. rank[y] \in E
        BY <2>1, <4>1
      <4> QED BY <4>1, <4>2
    <3>2. step[x][g] = step[x][h]
      BY <3>1 DEF IsRule
    <3> QED BY <1>2, <3>2
  <2> HIDE DEF E
  <2>2. \A k \in Nat : k \in E
    BY <2>1, Descent
  <2> USE DEF E
  <2> QED BY <2>2
<1> DEFINE F(n) == CHOOSE g : g \in [D -> V] /\ Upto(g, n)
           f == [x \in D |-> F(rank[x] + 1)[x]]
<1>3. ASSUME NEW n \in Nat PROVE F(n) \in [D -> V] /\ Upto(F(n), n)
  <2> HIDE DEF Upto
  <2> QED BY <1>1
<1> HIDE DEF F
<1>4. f \in [D -> V]
  <2>1. ASSUME NEW x \in D PROVE F(rank[x] + 1)[x] \in V
    <3>1. rank[x] + 1 \in Nat
      OBVIOUS
    <3>2. F(rank[x] + 1) \in [D -> V]
      BY <1>3, <3>1
    <3> QED BY <3>2
  <2> QED BY <2>1
<1>5. ASSUME NEW x \in D PROVE f[x] = step[x][f]
  <2>1. rank[x] \in Nat /\ rank[x] + 1 \in Nat /\ rank[x] < rank[x] + 1
    OBVIOUS
  <2>2. F(rank[x] + 1) \in [D -> V] /\ Upto(F(rank[x] + 1), rank[x] + 1)
    BY <1>3, <2>1
  <2>3. F(rank[x] + 1)[x] = step[x][F(rank[x] + 1)]
    BY <2>1, <2>2
  <2>4. ASSUME NEW y \in D, rank[y] < rank[x] PROVE F(rank[x] + 1)[y] = f[y]
    <3>1. rank[y] \in Nat /\ rank[y] + 1 \in Nat /\ rank[y] < rank[y] + 1
          /\ rank[y] < rank[x] + 1
      BY <2>4
    <3>2. F(rank[y] + 1) \in [D -> V] /\ Upto(F(rank[y] + 1), rank[y] + 1)
      BY <1>3, <3>1
    <3> HIDE DEF Upto
    <3>3. F(rank[y] + 1)[y] = F(rank[x] + 1)[y]
      BY <1>2, <2>1, <2>2, <3>1, <3>2
    <3> QED BY <3>3
  <2> HIDE DEF f
  <2>5. step[x][F(rank[x] + 1)] = step[x][f]
    BY <1>4, <2>2, <2>4 DEF IsRule
  <2> USE DEF f
  <2> QED BY <2>3, <2>5
<1>6. Follows(f, step, D, V)
  <2> HIDE DEF f
  <2> QED BY <1>4, <1>5 DEF Follows
<1> QED BY <1>6

Order == [n \in Nat |-> n]

(* So has one over the numbers, by their order.                            *)
LEMMA RecursionOnNat ==
  ASSUME NEW V, V # {}, NEW step, IsRule(step, Order, Nat, V)
  PROVE  \E f : Follows(f, step, Nat, V)
<1>1. PICK D, rank : D = Nat /\ rank = Order
  OBVIOUS
<1>2. rank \in [D -> Nat] /\ IsRule(step, rank, D, V)
  BY <1>1 DEF Order
<1>3. \E f : Follows(f, step, D, V)
  <2>1. V # {}
    OBVIOUS
  <2> QED BY ONLY <1>2, <2>1, RecursiveFunction
<1> QED BY <1>1, <1>3

(* The sequences of a sequence, one after the other: their elements, and   *)
(* what one more sequence adds.                                            *)
LEMMA FlattenRows ==
  ASSUME NEW A, NEW seqs \in Seq(Seq(A)), Len(seqs) > 0
  PROVE  \E rows \in [1..Len(seqs) -> Seq(A)] :
           /\ FlattenSeq(seqs) = rows[Len(seqs)]
           /\ rows[1] = seqs[1]
           /\ \A k \in 2..Len(seqs) : rows[k] = rows[k - 1] \o seqs[k]
<1> DEFINE n == Len(seqs)
           D == 1..n
           V == Seq(A)
           rank == [k \in D |-> k]
           rule == [k \in D |-> [g \in [D -> V] |->
                      IF k = 1 THEN seqs[k] ELSE g[k - 1] \o seqs[k]]]
<1>1. n \in Nat /\ n \in D /\ 1 \in D /\ \A k \in D : k # 1 => k - 1 \in D
  OBVIOUS
<1>2. \A k \in D : seqs[k] \in V
  OBVIOUS
<1>3. IsRule(rule, rank, D, V)
  <2>1. ASSUME NEW k \in D, NEW g \in [D -> V] PROVE rule[k][g] \in V
    <3>1. CASE k = 1
      BY <1>2, <3>1
    <3>2. CASE k # 1
      <4>1. g[k - 1] \in V /\ seqs[k] \in V
        BY <1>1, <1>2, <3>2
      <4>2. g[k - 1] \o seqs[k] \in V
        BY <4>1
      <4> QED BY <3>2, <4>2
    <3> QED BY <3>1, <3>2
  <2>2. ASSUME NEW k \in D, NEW g \in [D -> V], NEW h \in [D -> V],
               \A y \in D : rank[y] < rank[k] => g[y] = h[y]
        PROVE  rule[k][g] = rule[k][h]
    <3>1. k # 1 => k - 1 \in D /\ k - 1 < k
      BY <1>1
    <3>2. k # 1 => g[k - 1] = h[k - 1]
      BY <2>2, <3>1
    <3> QED BY <3>2
  <2> HIDE DEF rule, rank, V, D
  <2> QED BY <2>1, <2>2 DEF IsRule
<1>4. PICK f : Follows(f, rule, D, V)
  <2>1. V # {} /\ rank \in [D -> Nat]
    <3>1. <<>> \in V
      OBVIOUS
    <3> QED BY <3>1
  <2> HIDE DEF rule, rank, V, D
  <2> QED BY <1>3, <2>1, RecursiveFunction
<1>5. f = [k \in D |-> IF k = 1 THEN seqs[k] ELSE f[k - 1] \o seqs[k]]
  BY <1>4 DEF Follows
<1> DEFINE rows == CHOOSE flatten : flatten = [k \in D |-> IF k = 1 THEN seqs[k]
                                                        ELSE flatten[k - 1] \o seqs[k]]
<1>6. rows = [k \in D |-> IF k = 1 THEN seqs[k] ELSE rows[k - 1] \o seqs[k]]
  <2> HIDE DEF D
  <2> QED BY <1>5
<1>7. FlattenSeq(seqs) = rows[n]
  BY DEF FlattenSeq
<1> HIDE DEF rows
<1>8. rows[1] = seqs[1] /\ \A k \in D : k # 1 => rows[k] = rows[k - 1] \o seqs[k]
  BY <1>1, <1>6
<1>9. \A k \in D : rows[k] \in V
  <2> DEFINE Q == {k \in Nat : k + 1 \in D => rows[k + 1] \in V}
  <2>1. 0 \in Q
    BY <1>1, <1>2, <1>8
  <2>2. ASSUME NEW k \in Nat, k \in Q PROVE k + 1 \in Q
    <3> SUFFICES ASSUME (k + 1) + 1 \in D PROVE rows[(k + 1) + 1] \in V
      OBVIOUS
    <3>1. /\ k + 1 \in D /\ (k + 1) + 1 # 1 /\ ((k + 1) + 1) - 1 = k + 1
      BY <1>1
    <3>2. rows[k + 1] \in V /\ seqs[(k + 1) + 1] \in V
      BY <1>2, <2>2, <3>1
    <3>3. rows[(k + 1) + 1] = rows[k + 1] \o seqs[(k + 1) + 1]
      BY <1>8, <3>1
    <3> QED BY <3>2, <3>3
  <2> HIDE DEF Q
  <2>3. \A k \in Nat : k \in Q
    BY <2>1, <2>2, Induction
  <2> USE DEF Q
  <2>4. ASSUME NEW k \in D PROVE rows[k] \in V
    <3>1. k - 1 \in Nat /\ (k - 1) + 1 = k
      BY <1>1
    <3> QED BY <2>3, <3>1
  <2> QED BY <2>4
<1>10. rows \in [D -> V]
  <2> HIDE DEF V
  <2> QED BY <1>6, <1>9
<1>11. \A k \in 2..n : rows[k] = rows[k - 1] \o seqs[k]
  <2>1. \A k \in 2..n : k \in D /\ k # 1
    OBVIOUS
  <2> HIDE DEF D
  <2> QED BY <1>8, <2>1
<1> QED BY <1>7, <1>8, <1>10, <1>11

(* The elements of the whole are elements of the parts.                    *)
LEMMA FlattenElements ==
  ASSUME NEW A, NEW seqs \in Seq(Seq(A)) PROVE FlattenSeq(seqs) \in Seq(A)
<1>1. CASE Len(seqs) = 0
  BY <1>1 DEF FlattenSeq
<1>2. CASE Len(seqs) > 0
  <2>1. PICK rows \in [1..Len(seqs) -> Seq(A)] : FlattenSeq(seqs) = rows[Len(seqs)]
    BY <1>2, FlattenRows
  <2>2. Len(seqs) \in 1..Len(seqs)
    BY <1>2
  <2> QED BY <2>1, <2>2
<1>3. Len(seqs) \in Nat
  OBVIOUS
<1> QED BY <1>1, <1>2, <1>3

\* The greatest number of each set of numbers up to one, zero of none.
Top(n) == [s \in SUBSET (1..n) |-> IF s = {} THEN 0 ELSE Max(s)]

(* A set without its greatest number has a smaller one, or none.           *)
LEMMA TopFalls ==
  ASSUME NEW n \in Nat
  PROVE  /\ Top(n) \in [SUBSET (1..n) -> Nat]
         /\ \A s \in SUBSET (1..n) : s # {} =>
              /\ Max(s) \in s /\ s \ {Max(s)} \in SUBSET (1..n)
              /\ Top(n)[s \ {Max(s)}] < Top(n)[s]
<1>1. ASSUME NEW s \in SUBSET (1..n), s # {}
      PROVE  Max(s) \in s /\ Max(s) \in 1..n /\ \A y \in s : y <= Max(s)
  <2>1. s \in SUBSET (0..n)
    OBVIOUS
  <2>2. Max(s) \in s /\ \A y \in s : y <= Max(s)
    BY <1>1, <2>1, MaxFacts
  <2> QED BY <2>2
<1>2. Top(n) \in [SUBSET (1..n) -> Nat]
  <2>1. ASSUME NEW s \in SUBSET (1..n) PROVE (IF s = {} THEN 0 ELSE Max(s)) \in Nat
    BY <1>1
  <2> QED BY <2>1 DEF Top
<1>3. ASSUME NEW s \in SUBSET (1..n), s # {}
      PROVE  /\ Max(s) \in s /\ s \ {Max(s)} \in SUBSET (1..n)
             /\ Top(n)[s \ {Max(s)}] < Top(n)[s]
  <2> DEFINE m == Max(s)
             r == s \ {m}
  <2>1. m \in s /\ m \in 1..n /\ (\A y \in s : y <= m) /\ r \in SUBSET (1..n)
    BY <1>1, <1>3
  <2>2. Top(n)[s] = m /\ Top(n)[r] = IF r = {} THEN 0 ELSE Max(r)
    BY <1>3, <2>1 DEF Top
  <2>3. ASSUME r = {} PROVE Top(n)[r] < Top(n)[s]
    BY <2>1, <2>2, <2>3
  <2>4. ASSUME r # {} PROVE Top(n)[r] < Top(n)[s]
    <3>1. Max(r) \in r /\ Max(r) \in 1..n
      BY <1>1, <2>1, <2>4
    <3>2. Max(r) \in s /\ Max(r) # m
      BY <3>1
    <3>3. Max(r) <= m
      BY <2>1, <3>2
    <3>4. Max(r) < m
      BY <2>1, <3>1, <3>2, <3>3
    <3> HIDE DEF m, r
    <3> QED BY <2>2, <2>4, <3>4
  <2> QED BY <2>1, <2>3, <2>4
<1> QED BY <1>2, <1>3

(* The greatest of the first numbers is the last of them.                  *)
LEMMA TopOfFirst ==
  ASSUME NEW k \in Nat \ {0}
  PROVE  Max(1..k) = k /\ (1..k) \ {k} = 1..(k - 1) /\ (1..k) # {}
<1>1. 1..k \in SUBSET (0..k) /\ 1..k # {} /\ k \in 1..k
  OBVIOUS
<1>2. Max(1..k) \in 1..k /\ \A y \in 1..k : y <= Max(1..k)
  BY <1>1, MaxFacts
<1>3. Max(1..k) = k
  BY <1>1, <1>2
<1> QED BY <1>1, <1>3
=============================================================================
