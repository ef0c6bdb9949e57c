------------------------ MODULE SubsequencesProofs --------------------------
(***************************************************************************)
(* Filtered sequences: a filter keeps members of the sequence, in order,   *)
(* and all that pass its test.                                             *)
(***************************************************************************)
EXTENDS Subsequences, FiniteSetTheorems, SequenceTheorems, TLAPS

-----------------------------------------------------------------------------
(* Finite sets of numbers.                                                 *)

LEMMA RankIsMonotone ==
  ASSUME NEW ids \in SUBSET Int, IsFiniteSet(ids), NEW x \in ids, NEW y \in ids, x < y
  PROVE  Rank(ids, x) < Rank(ids, y)
<1> DEFINE below(z) == {m \in ids : m <= z}
<1>1. IsFiniteSet(below(y)) /\ IsFiniteSet(below(x))
  BY FS_Subset
<1>2. below(x) \in SUBSET below(y) /\ y \in below(y) /\ y \notin below(x)
  <2>1. x \in Int /\ y \in Int /\ \A m \in ids : m \in Int
    OBVIOUS
  <2>2. \A m \in ids : m <= x => m <= y
    BY <2>1
  <2>3. y <= y /\ ~(y <= x)
    BY <2>1
  <2> QED BY <2>2, <2>3
<1>3. below(x) # below(y)
  BY <1>2
<1> HIDE DEF below
<1>4. /\ Cardinality(below(x)) <= Cardinality(below(y))
      /\ Cardinality(below(x)) # Cardinality(below(y))
  BY <1>1, <1>2, <1>3, FS_Subset
<1>5. Cardinality(below(x)) \in Nat /\ Cardinality(below(y)) \in Nat
  BY <1>1, FS_CardinalityType
<1>6. Cardinality(below(x)) < Cardinality(below(y))
  BY <1>4, <1>5
<1> QED BY <1>6 DEF Rank, below

LEMMA RankIsBijective ==
  ASSUME NEW ids \in SUBSET Int, IsFiniteSet(ids)
  PROVE  /\ Cardinality(ids) \in Nat
         /\ \A x \in ids : Rank(ids, x) \in 1 .. Cardinality(ids)
         /\ \A k \in 1 .. Cardinality(ids) : \E x \in ids : Rank(ids, x) = k
<1> DEFINE n == Cardinality(ids)
           rank == [x \in ids |-> Rank(ids, x)]
<1>1. n \in Nat
  BY FS_CardinalityType
<1>2. ASSUME NEW x \in ids
      PROVE  Rank(ids, x) \in 1 .. n
  <2> DEFINE below == {m \in ids : m <= x}
  <2>1. below \in SUBSET ids /\ x \in below
    OBVIOUS
  <2>2. IsFiniteSet(below) /\ Cardinality(below) <= n
    BY <2>1, FS_Subset
  <2>3. Cardinality(below) \in Nat /\ Cardinality(below) # 0
    BY <2>1, <2>2, FS_CardinalityType, FS_EmptySet
  <2>4. Cardinality(below) \in 1 .. n
    BY <1>1, <2>2, <2>3
  <2> QED BY <2>4 DEF Rank
<1>3. rank \in Injection(ids, 1 .. n)
  <2>1. rank \in [ids -> 1 .. n]
    BY <1>2
  <2>2. ASSUME NEW x \in ids, NEW y \in ids, rank[x] = rank[y]
        PROVE  x = y
    <3>1. Rank(ids, x) = Rank(ids, y) /\ Rank(ids, x) \in Int
      BY <1>2, <2>2
    <3>2. ~(x < y) /\ ~(y < x)
      BY <3>1, RankIsMonotone
    <3> QED BY <3>2
  <2> QED BY <2>1, <2>2 DEF Injection, IsInjective
<1>4. IsFiniteSet(1 .. n) /\ Cardinality(1 .. n) = n
  BY <1>1, FS_Interval
<1>5. rank \in Surjection(ids, 1 .. n)
  BY <1>3, <1>4, FS_Injection
<1>6. \A k \in 1 .. n : \E x \in ids : rank[x] = k
  BY <1>5 DEF Surjection
<1> QED BY <1>1, <1>2, <1>6

LEMMA LeastExists ==
  ASSUME NEW ids \in SUBSET Int, IsFiniteSet(ids), ids # {}
  PROVE  \E x \in ids : \A y \in ids : x <= y
<1>1. Cardinality(ids) \in Nat /\ Cardinality(ids) # 0
  BY FS_CardinalityType, FS_EmptySet
<1>2. PICK x \in ids : Rank(ids, x) = 1
  BY <1>1, RankIsBijective
<1>3. ASSUME NEW y \in ids, ~(x <= y)
      PROVE  FALSE
  <2>1. y < x
    BY <1>3
  <2>2. Rank(ids, y) < 1
    BY <1>2, <2>1, RankIsMonotone
  <2>3. Rank(ids, y) \in 1 .. Cardinality(ids)
    BY RankIsBijective
  <2> QED BY <1>1, <2>2, <2>3
<1> QED BY <1>3

-----------------------------------------------------------------------------
(* Sequences.                                                              *)

\* p has what s has at the indices ids, in the same order.
Selects(p, s, ids) ==
  \E at \in [DOMAIN p -> ids] :
    /\ \A k \in DOMAIN p : p[k] = s[at[k]]
    /\ \A j, k \in DOMAIN p : j < k => at[j] < at[k]
    /\ \A n \in ids : \E k \in DOMAIN p : at[k] = n

LEMMA IndicesAreFinite ==
  ASSUME NEW S, NEW s \in Seq(S), NEW ids \in SUBSET DOMAIN s
  PROVE  /\ ids \in SUBSET Int /\ IsFiniteSet(ids) /\ Cardinality(ids) \in Nat
         /\ Cardinality(ids) <= Len(s)
<1>1. DOMAIN s = 1 .. Len(s) /\ Len(s) \in Nat
  BY LenProperties
<1>2. IsFiniteSet(1 .. Len(s)) /\ Cardinality(1 .. Len(s)) = Len(s)
  <2>1. \A n \in Nat : IsFiniteSet(1 .. n) /\ Cardinality(1 .. n) = n
    BY FS_Interval
  <2> QED BY <1>1, <2>1
<1>3. IsFiniteSet(ids) /\ Cardinality(ids) <= Len(s)
  BY <1>1, <1>2, FS_Subset
<1> QED BY <1>1, <1>3, FS_CardinalityType

\* What Array.prototype.filter leaves of a sequence: the members it selects, in their order.
THEOREM SubsequenceForm ==
  ASSUME NEW S, NEW s \in Seq(S), NEW ids \in SUBSET DOMAIN s
  PROVE  /\ Subsequence(s, ids) \in Seq(S)
         /\ Len(Subsequence(s, ids)) = Cardinality(ids)
         /\ Selects(Subsequence(s, ids), s, ids)
<1> DEFINE card == Cardinality(ids)
           at == [k \in 1 .. card |-> CHOOSE n \in ids : Rank(ids, n) = k]
           p == [k \in 1 .. card |-> s[at[k]]]
<1>1. ids \in SUBSET Int /\ IsFiniteSet(ids) /\ card \in Nat
  BY IndicesAreFinite
<1>2. \A k \in 1 .. card : at[k] \in ids /\ Rank(ids, at[k]) = k
  BY <1>1, RankIsBijective
<1>3. Subsequence(s, ids) = p
  BY DEF Subsequence
<1>4. \A k \in 1 .. card : s[at[k]] \in S
  <2>1. ASSUME NEW k \in 1 .. card
        PROVE  s[at[k]] \in S
    <3>1. at[k] \in 1 .. Len(s)
      BY <1>2, LenProperties
    <3> HIDE DEF at
    <3> QED BY <3>1, ElementOfSeq
  <2> QED BY <2>1
<1> HIDE DEF at
<1>5. p \in [1 .. card -> S]
  BY <1>4
<1>6. p \in Seq(S) /\ Len(p) = card /\ DOMAIN p = 1 .. card
  <2>1. p \in Seq(S)
    BY <1>1, <1>5, SeqDef
  <2>2. DOMAIN p = 1 .. card
    OBVIOUS
  <2>3. Len(p) \in Nat /\ DOMAIN p = 1 .. Len(p)
    BY <2>1, LenProperties
  <2>4. Len(p) = card
    BY <1>1, <2>2, <2>3
  <2> QED BY <2>1, <2>2, <2>4
<1>7. at \in [1 .. card -> ids]
  BY <1>2 DEF at
<1>8. ASSUME NEW j \in 1 .. card, NEW k \in 1 .. card, j < k
      PROVE  at[j] < at[k]
  <2>1. at[j] \in ids /\ at[k] \in ids /\ Rank(ids, at[j]) = j /\ Rank(ids, at[k]) = k
    BY <1>2
  <2>2. at[j] \in Int /\ at[k] \in Int /\ j \in Int /\ k \in Int
    BY <1>1, <2>1
  <2>3. at[j] # at[k]
    BY <1>8, <2>1, <2>2
  <2>4. ~(at[k] < at[j])
    <3>1. SUFFICES ASSUME at[k] < at[j] PROVE FALSE
      OBVIOUS
    <3>2. k < j
      BY <1>1, <2>1, <3>1, RankIsMonotone
    <3> QED BY <1>8, <2>2, <3>2
  <2> QED BY <2>2, <2>3, <2>4
<1>9. ASSUME NEW n \in ids
      PROVE  \E k \in 1 .. card : at[k] = n
  <2> DEFINE k == Rank(ids, n)
  <2>1. k \in 1 .. card
    BY <1>1, RankIsBijective
  <2>2. at[k] \in ids /\ Rank(ids, at[k]) = k
    BY <1>2, <2>1
  <2>3. at[k] \in Int /\ n \in Int
    BY <1>1, <2>2
  <2>4. ~(at[k] < n) /\ ~(n < at[k])
    <3>1. at[k] < n => Rank(ids, at[k]) < Rank(ids, n)
      BY <1>1, <2>2, RankIsMonotone
    <3>2. n < at[k] => Rank(ids, n) < Rank(ids, at[k])
      BY <1>1, <2>2, RankIsMonotone
    <3>3. k \in Int
      BY <2>1
    <3> QED BY <2>2, <3>1, <3>2, <3>3
  <2>5. at[k] = n
    BY <2>3, <2>4
  <2> QED BY <2>1, <2>5
<1>10. Selects(p, s, ids)
  <2>1. \A k \in 1 .. card : p[k] = s[at[k]]
    OBVIOUS
  <2> HIDE DEF p
  <2>2. at \in [DOMAIN p -> ids]
    BY <1>6, <1>7
  <2>3. /\ \A k \in DOMAIN p : p[k] = s[at[k]]
        /\ \A j, k \in DOMAIN p : j < k => at[j] < at[k]
        /\ \A n \in ids : \E k \in DOMAIN p : at[k] = n
    BY <1>6, <1>8, <1>9, <2>1
  <2> QED BY <2>2, <2>3 DEF Selects
<1> QED BY <1>3, <1>6, <1>10

-----------------------------------------------------------------------------
(* Sequences with an element more or less at an end.                       *)

\* A sequence without its first element.
LEMMA Tailed ==
  ASSUME NEW S, NEW s \in Seq(S), s # <<>>
  PROVE  /\ Tail(s) \in Seq(S) /\ Len(s) \in Nat /\ Len(s) >= 1
         /\ Len(Tail(s)) = Len(s) - 1 /\ DOMAIN Tail(s) = 1 .. Len(s) - 1
         /\ DOMAIN s = 1 .. Len(s) /\ Head(s) = s[1] /\ Head(s) \in S
         /\ \A n \in 1 .. Len(s) - 1 : Tail(s)[n] = s[n + 1] /\ n + 1 \in DOMAIN s
<1>1. Len(s) \in Nat /\ DOMAIN s = 1 .. Len(s) /\ Len(s) # 0
  BY LenProperties, EmptySeq
<1>2. /\ Head(s) \in S /\ Tail(s) \in Seq(S) /\ Len(Tail(s)) = Len(s) - 1
      /\ \A n \in 1 .. Len(Tail(s)) : Tail(s)[n] = s[n + 1]
  BY HeadTailProperties
<1>3. DOMAIN Tail(s) = 1 .. Len(s) - 1
  BY <1>1, <1>2, LenProperties
<1>4. Head(s) = s[1]
  BY <1>1
<1>5. \A n \in 1 .. Len(s) - 1 : n + 1 \in DOMAIN s
  BY <1>1
<1> QED BY <1>1, <1>2, <1>3, <1>4, <1>5

\* A sequence with one element more.
LEMMA Appended ==
  ASSUME NEW S, NEW s \in Seq(S), NEW e \in S
  PROVE  /\ Append(s, e) \in Seq(S) /\ Append(s, e) # <<>> /\ Len(s) \in Nat
         /\ Len(Append(s, e)) = Len(s) + 1
         /\ DOMAIN s = 1 .. Len(s) /\ DOMAIN Append(s, e) = 1 .. Len(s) + 1
         /\ \A n \in DOMAIN s : Append(s, e)[n] = s[n] /\ s[n] \in S
         /\ Append(s, e)[Len(s) + 1] = e
<1>1. Len(s) \in Nat /\ DOMAIN s = 1 .. Len(s) /\ \A n \in 1 .. Len(s) : s[n] \in S
  BY LenProperties, ElementOfSeq
<1>2. /\ Append(s, e) \in Seq(S) /\ Append(s, e) # <<>> /\ Len(Append(s, e)) = Len(s) + 1
      /\ \A n \in 1 .. Len(s) : Append(s, e)[n] = s[n]
      /\ Append(s, e)[Len(s) + 1] = e
  BY AppendProperties
<1>3. DOMAIN Append(s, e) = 1 .. Len(s) + 1
  BY <1>2, LenProperties
<1> QED BY <1>1, <1>2, <1>3

\* A sequence with one element more in front.
LEMMA Prepended ==
  ASSUME NEW S, NEW s \in Seq(S), NEW e \in S, NEW p, p = <<e>> \o s
  PROVE  /\ p \in Seq(S) /\ Len(s) \in Nat /\ Len(p) = Len(s) + 1
         /\ DOMAIN s = 1 .. Len(s) /\ DOMAIN p = 1 .. Len(s) + 1
         /\ p[1] = e /\ \A n \in DOMAIN s : p[n + 1] = s[n] /\ s[n] \in S
<1>1. <<e>> \in Seq(S) /\ Len(<<e>>) = 1 /\ <<e>>[1] = e
  OBVIOUS
<1>2. Len(s) \in Nat /\ DOMAIN s = 1 .. Len(s) /\ \A n \in 1 .. Len(s) : s[n] \in S
  BY LenProperties, ElementOfSeq
<1>3. /\ p \in Seq(S) /\ Len(p) = 1 + Len(s)
      /\ \A n \in 1 .. 1 + Len(s) : p[n] = IF n <= 1 THEN <<e>>[n] ELSE s[n - 1]
  BY <1>1, ConcatProperties
<1>4. DOMAIN p = 1 .. Len(s) + 1
  BY <1>2, <1>3, LenProperties
<1>5. p[1] = e
  BY <1>1, <1>2, <1>3
<1>6. ASSUME NEW n \in DOMAIN s PROVE p[n + 1] = s[n]
  <2>1. n \in Nat /\ 1 <= n /\ n <= Len(s) /\ n + 1 \in 1 .. 1 + Len(s) /\ ~(n + 1 <= 1)
    BY <1>2
  <2>2. n + 1 - 1 = n
    BY <2>1
  <2> QED BY <1>3, <2>1, <2>2
<1> QED BY <1>2, <1>3, <1>4, <1>5, <1>6

=============================================================================
