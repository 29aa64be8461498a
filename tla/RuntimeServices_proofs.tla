----------------------- MODULE RuntimeServices_proofs -----------------------
(***************************************************************************)
(* The files, the warning settings and the event listeners of a context,   *)
(* proved for any contents, limits, identifiers, sources and nested        *)
(* handlers: transfers happen where scripts are told, settings that were   *)
(* saved come back when they are given back, and what the registry holds   *)
(* of the listeners is true.                                               *)
(***************************************************************************)
EXTENDS RuntimeFiles, WarningSettings, EventDispatch, TLAPS, WellFoundedInduction, FiniteSetTheorems, FunctionTheorems, SequenceTheorems

LEMMA LeastNumber ==
  ASSUME NEW S \in SUBSET Nat, S # {}
  PROVE  \E n \in S : \A m \in S : n <= m
<1>1. IsWellFoundedOn(OpToRel(<, Nat), Nat)
  BY NatLessThanWellFounded, Zenon
<1>2. PICK n \in S : \A m \in S : ~(<<m, n>> \in OpToRel(<, Nat))
  <2> DEFINE R == OpToRel(<, Nat)
  <2> HIDE DEF R
  <2>1. IsWellFoundedOn(R, Nat)
    BY <1>1, Zenon DEF R
  <2>2. \E n \in S : \A m \in S : ~(<<m, n>> \in R)
    BY <2>1, WFMin
  <2> QED BY <2>2, Zenon DEF R
<1>3. \A m \in S : n <= m
  <2> SUFFICES ASSUME NEW m \in S, m < n PROVE FALSE
    <3>1. n \in Nat /\ \A m \in S : m \in Nat
      BY <1>2
    <3> QED BY <3>1
  <2>1. <<m, n>> \in OpToRel(<, Nat)
    BY <1>2, Zenon DEF OpToRel
  <2> QED BY <1>2, <2>1, Zenon
<1> QED BY <1>2, <1>3

-----------------------------------------------------------------------------
(* Counting the members of a set of positions up to one of them.            *)
Count(set, i) == Cardinality({k \in set : k <= i})

LEMMA Counted ==
  ASSUME NEW n \in Nat, NEW K \in SUBSET (1 .. n)
  PROVE  /\ Count(K, 0) = 0 /\ Count(K, n) = Cardinality(K) /\ IsFiniteSet(K)
         /\ \A i \in Nat : Count(K, i) \in Nat
         /\ \A i \in Nat \ {0} : Count(K, i) = Count(K, i - 1) + (IF i \in K THEN 1 ELSE 0)
<1>0. \A k \in K : k \in Nat /\ 1 <= k /\ k <= n
  OBVIOUS
<1>1. IsFiniteSet(K)
  <2>1. IsFiniteSet(1 .. n)
    BY FS_Interval
  <2> QED BY <2>1, FS_Subset
<1>2. {k \in K : k <= 0} = {} /\ {k \in K : k <= n} = K
  <2>1. \A k \in K : ~(k <= 0) /\ k <= n
    BY <1>0
  <2> QED BY <2>1
<1>3. \A i \in Nat : IsFiniteSet({k \in K : k <= i})
  BY <1>1, FS_Subset
<1>4. \A i \in Nat : Count(K, i) \in Nat
  BY <1>3, FS_CardinalityType DEF Count
<1>5. ASSUME NEW i \in Nat \ {0}
      PROVE Count(K, i) = Count(K, i - 1) + (IF i \in K THEN 1 ELSE 0)
  <2> DEFINE S == {k \in K : k <= i - 1}
             T == {k \in K : k <= i}
  <2>0. i \in Nat /\ i - 1 \in Nat /\ \A k \in K : (k <= i <=> k <= i - 1 \/ k = i)
    BY <1>0
  <2>1. IsFiniteSet(S) /\ i \notin S
    <3>1. IsFiniteSet(S)
      BY <1>3, <2>0
    <3>2. ~(i <= i - 1)
      BY <2>0
    <3> QED BY <3>1, <3>2
  <2>2. CASE i \in K
    <3>1. T = S \cup {i}
      BY <2>0, <2>2
    <3>2. Cardinality(S \cup {i}) = Cardinality(S) + 1
      BY <2>1, FS_AddElement
    <3> QED BY <3>1, <3>2, <2>2 DEF Count
  <2>3. CASE i \notin K
    <3>1. T = S
      BY <2>0, <2>3
    <3>2. Count(K, i) = Count(K, i - 1) /\ Count(K, i) \in Nat
      BY <3>1, <1>4 DEF Count
    <3> QED BY <3>2, <2>3
  <2> QED BY <2>2, <2>3
<1> QED BY <1>1, <1>2, <1>4, <1>5, FS_EmptySet DEF Count

LEMMA CountStep ==
  ASSUME NEW n \in Nat, NEW K \in SUBSET (1 .. n), NEW i \in Nat \ {0}
  PROVE  /\ Count(K, i) = Count(K, i - 1) + (IF i \in K THEN 1 ELSE 0)
         /\ Count(K, i) \in Nat /\ Count(K, i - 1) \in Nat
<1>1. i \in Nat /\ i - 1 \in Nat
  OBVIOUS
<1> QED BY <1>1, Counted

LEMMA CountGrows ==
  ASSUME NEW n \in Nat, NEW K \in SUBSET (1 .. n), NEW i \in Nat, NEW j \in Nat
  PROVE  /\ i <= j => Count(K, i) <= Count(K, j)
         /\ j \in K /\ i < j => Count(K, i) < Count(K, j)
<1>1. \A a, b \in Nat : a <= b => Count(K, a) <= Count(K, b)
  <2> SUFFICES ASSUME NEW a \in Nat, NEW b \in Nat, a <= b PROVE Count(K, a) <= Count(K, b)
    OBVIOUS
  <2>1. IsFiniteSet({k \in K : k <= b})
    BY Counted, FS_Subset
  <2>2. {k \in K : k <= a} \in SUBSET {k \in K : k <= b}
    <3>1. \A k \in K : k \in Nat
      OBVIOUS
    <3>2. \A k \in K : k <= a => k <= b
      BY <3>1
    <3> QED BY <3>2
  <2> QED BY <2>1, <2>2, FS_Subset DEF Count
<1>2. ASSUME j \in K, i < j PROVE Count(K, i) < Count(K, j)
  <2>1. j \in Nat \ {0} /\ j - 1 \in Nat /\ i <= j - 1
    BY <1>2
  <2>2. Count(K, i) <= Count(K, j - 1) /\ Count(K, j) = Count(K, j - 1) + 1
    BY <2>1, <1>1, <1>2, Counted
  <2>3. Count(K, i) \in Nat /\ Count(K, j - 1) \in Nat
    BY <2>1, Counted
  <2> QED BY <2>2, <2>3
<1> QED BY <1>1, <1>2

LEMMA CountReached ==
  ASSUME NEW n \in Nat, NEW K \in SUBSET (1 .. n), NEW m \in 1 .. Cardinality(K)
  PROVE  \E i \in K : Count(K, i) = m
<1> DEFINE S == {i \in Nat : i <= n /\ Count(K, i) >= m}
<1>1. n \in S
  BY Counted
<1>2. PICK i \in S : \A k \in S : i <= k
  BY <1>1, LeastNumber
<1>3. i # 0
  BY <1>2, Counted
<1>4. i - 1 \in Nat /\ Count(K, i - 1) \in Nat /\ Count(K, i) \in Nat
  BY <1>2, <1>3, Counted
<1>5. i - 1 \notin S
  BY <1>2, <1>4
<1>6. Count(K, i - 1) < m
  BY <1>2, <1>4, <1>5
<1>7. Count(K, i) = Count(K, i - 1) + (IF i \in K THEN 1 ELSE 0)
  BY <1>2, <1>3, Counted
<1> QED BY <1>2, <1>4, <1>6, <1>7

(* The positions behind p, counted from there.                              *)
LEMMA CountShifted ==
  ASSUME NEW n \in Nat, NEW K \in SUBSET (1 .. n), NEW p \in 0 .. n
  PROVE  \A i \in 0 .. n - p : Count({k \in 1 .. n - p : k + p \in K}, i) = Count(K, i + p) - Count(K, p)
<1> DEFINE T == {k \in 1 .. n - p : k + p \in K}
           Wrong == {i \in Nat : i <= n - p /\ Count(T, i) # Count(K, i + p) - Count(K, p)}
<1>1. n - p \in Nat /\ T \in SUBSET (1 .. n - p)
  OBVIOUS
<1> HIDE DEF T
<1>2. Wrong = {}
  <2> SUFFICES ASSUME Wrong # {} PROVE FALSE
    OBVIOUS
  <2>1. PICK i \in Wrong : \A k \in Wrong : i <= k
    BY LeastNumber
  <2> HIDE DEF Wrong
  <2>2. i \in Nat /\ i <= n - p /\ Count(T, i) # Count(K, i + p) - Count(K, p)
    BY <2>1 DEF Wrong
  <2>3. i # 0
    <3>1. Count(T, 0) = 0 /\ Count(K, p) \in Nat
      BY <1>1, Counted
    <3> QED BY <2>2, <3>1
  <2>4. i - 1 \in Nat /\ i - 1 <= n - p /\ i - 1 \notin Wrong
    BY <2>1, <2>2, <2>3
  <2>5. Count(T, i - 1) = Count(K, i - 1 + p) - Count(K, p)
    BY <2>4 DEF Wrong
  <2>6. Count(T, i) = Count(T, i - 1) + (IF i \in T THEN 1 ELSE 0)
    BY <1>1, <2>2, <2>3, Counted
  <2>7. PICK j \in Nat \ {0} : j = i + p
    BY <2>2, <2>3
  <2>8. Count(K, j) = Count(K, j - 1) + (IF j \in K THEN 1 ELSE 0)
    BY Counted
  <2>9. i \in T <=> j \in K
    BY <2>2, <2>3, <2>7 DEF T
  <2>10. j - 1 = i - 1 + p
    BY <2>2, <2>7
  <2>11. Count(K, j - 1) \in Nat /\ Count(K, p) \in Nat /\ Count(T, i - 1) \in Nat
    <3>1. j - 1 \in Nat /\ p \in Nat
      BY <2>7
    <3> QED BY <3>1, <2>4, <1>1, Counted
  <2>12. Count(T, i) # Count(K, j) - Count(K, p)
    BY <2>2, <2>7
  <2>13. Count(T, i - 1) = Count(K, j - 1) - Count(K, p)
    BY <2>5, <2>10
  <2> QED BY <2>12, <2>13, <2>6, <2>8, <2>9, <2>11
<1>3. \A i \in 0 .. n - p : Count(T, i) = Count(K, i + p) - Count(K, p)
  BY <1>2
<1> QED BY <1>3 DEF T

(* What is not in a set of positions.                                       *)
LEMMA CountRest ==
  ASSUME NEW n \in Nat, NEW K \in SUBSET (1 .. n), NEW D \in SUBSET (1 .. n), D = (1 .. n) \ K
  PROVE  \A i \in 0 .. n : Count(D, i) = i - Count(K, i)
<1> DEFINE Wrong == {i \in Nat : i <= n /\ Count(D, i) # i - Count(K, i)}
<1>1. Wrong = {}
  <2> SUFFICES ASSUME Wrong # {} PROVE FALSE
    OBVIOUS
  <2>1. PICK i \in Wrong : \A k \in Wrong : i <= k
    BY LeastNumber
  <2> HIDE DEF Wrong
  <2>2. i \in Nat /\ i <= n /\ Count(D, i) # i - Count(K, i)
    BY <2>1 DEF Wrong
  <2>3. i # 0
    BY <2>2, Counted
  <2>4. i - 1 \in Nat /\ i - 1 <= n /\ i - 1 \notin Wrong
    BY <2>1, <2>2, <2>3
  <2>5. Count(D, i - 1) = i - 1 - Count(K, i - 1)
    BY <2>4 DEF Wrong
  <2> DEFINE S == (1 .. n) \ K
  <2>0. S \in SUBSET (1 .. n) /\ D = S /\ i \in Nat \ {0}
    BY <2>2, <2>3
  <2> HIDE DEF S
  <2>6. Count(D, i) = Count(D, i - 1) + (IF i \in D THEN 1 ELSE 0)
    BY <2>0, CountStep
  <2>7. Count(K, i) = Count(K, i - 1) + (IF i \in K THEN 1 ELSE 0)
    BY <2>0, CountStep
  <2>8. i \in D <=> i \notin K
    BY <2>2, <2>3
  <2>9. Count(K, i - 1) \in Nat
    BY <2>4, Counted
  <2> QED BY <2>2, <2>5, <2>6, <2>7, <2>8, <2>9
<1> QED BY <1>1

-----------------------------------------------------------------------------
(* The logical text of a sequence of characters: the n-th one is the one of *)
(* the kept characters that has rank n.                                     *)
Characters == {"CR", "LF", "x", "w", "0"}
Texted == Seq(Characters)

LEMMA RankIs == \A raw, b, i : Rank(raw, b, i) = Count(Kept(raw, b), i)
BY DEF Rank, Count

LEMMA KeptOrNot ==
  ASSUME NEW raw \in Texted, NEW b \in BOOLEAN
  PROVE  /\ Len(raw) \in Nat /\ DOMAIN raw = 1 .. Len(raw)
         /\ Kept(raw, b) \in SUBSET (1 .. Len(raw)) /\ Dropped(raw, b) \in SUBSET (1 .. Len(raw))
         /\ Dropped(raw, b) = (1 .. Len(raw)) \ Kept(raw, b)
         /\ Cardinality(Kept(raw, b)) \in Nat
         /\ \A i \in Dropped(raw, b) : i + 1 \in Kept(raw, b)
<1>1. Len(raw) \in Nat /\ DOMAIN raw = 1 .. Len(raw)
  BY DEF Texted
<1>2. Dropped(raw, b) \in SUBSET (1 .. Len(raw))
  BY <1>1 DEF Dropped
<1>3. Kept(raw, b) \in SUBSET (1 .. Len(raw)) /\ Dropped(raw, b) = (1 .. Len(raw)) \ Kept(raw, b)
  BY <1>1, <1>2 DEF Kept
<1>4. Cardinality(Kept(raw, b)) \in Nat
  BY <1>1, <1>3, Counted, FS_CardinalityType
<1>5. ASSUME NEW i \in Dropped(raw, b) PROVE i + 1 \in Kept(raw, b)
  <2>1. i \in DOMAIN raw /\ i < Len(raw) /\ raw[i + 1] = "LF"
    BY DEF Dropped
  <2>2. i + 1 \in DOMAIN raw /\ raw[i + 1] # "CR"
    BY <1>1, <2>1
  <2>3. i + 1 \notin Dropped(raw, b)
    BY <2>2 DEF Dropped
  <2> QED BY <2>2, <2>3 DEF Kept
<1> QED BY <1>1, <1>2, <1>3, <1>4, <1>5

(* That a sequence is the logical text.                                     *)
IsText(t, raw, b) ==
  /\ t \in Texted /\ Len(t) = Cardinality(Kept(raw, b))
  /\ \A i \in Kept(raw, b) : Rank(raw, b, i) \in 1 .. Len(t) /\ t[Rank(raw, b, i)] = raw[i]

LEMMA RankInText ==
  ASSUME NEW raw \in Texted, NEW b \in BOOLEAN, NEW i \in Kept(raw, b)
  PROVE  Rank(raw, b, i) \in 1 .. Cardinality(Kept(raw, b))
<1> DEFINE K == Kept(raw, b)
           n == Len(raw)
<1>1. n \in Nat /\ K \in SUBSET (1 .. n)
  BY KeptOrNot
<1>2. i \in 1 .. n /\ i \in K
  BY <1>1
<1> HIDE DEF K, n
<1>3. i \in Nat \ {0} /\ i - 1 \in Nat /\ i <= n
  BY <1>1, <1>2
<1>4. Count(K, i) = Count(K, i - 1) + 1 /\ Count(K, i - 1) \in Nat
  BY <1>1, <1>2, <1>3, CountStep
<1>5. Count(K, i) <= Count(K, n) /\ Count(K, n) = Cardinality(K) /\ Count(K, n) \in Nat
  BY <1>1, <1>3, CountGrows, Counted
<1>6. Count(K, i) \in 1 .. Cardinality(K)
  BY <1>4, <1>5
<1> QED BY <1>6, RankIs DEF K

LEMMA SameRank ==
  ASSUME NEW raw \in Texted, NEW b \in BOOLEAN, NEW i \in Kept(raw, b), NEW j \in Kept(raw, b),
         Rank(raw, b, i) = Rank(raw, b, j)
  PROVE  i = j
<1> DEFINE K == Kept(raw, b)
           n == Len(raw)
<1>1. n \in Nat /\ K \in SUBSET (1 .. n)
  BY KeptOrNot
<1>2. i \in K /\ j \in K /\ i \in Nat /\ j \in Nat
  BY <1>1
<1>3. Count(K, i) = Count(K, j)
  BY RankIs
<1> HIDE DEF K, n
<1>4. Count(K, i) \in Nat
  BY <1>1, <1>2, Counted
<1>5. i < j => Count(K, i) < Count(K, j)
  BY <1>1, <1>2, CountGrows
<1>6. j < i => Count(K, j) < Count(K, i)
  BY <1>1, <1>2, CountGrows
<1> QED BY <1>2, <1>3, <1>4, <1>5, <1>6

LEMMA TextOf ==
  ASSUME NEW raw \in Texted, NEW b \in BOOLEAN
  PROVE  IsText(LogicalText(raw, b), raw, b)
<1> DEFINE K == Kept(raw, b)
           At(n) == CHOOSE i \in K : Rank(raw, b, i) = n
<1>1. /\ Len(raw) \in Nat /\ K \in SUBSET (1 .. Len(raw)) /\ Cardinality(K) \in Nat
      /\ DOMAIN raw = 1 .. Len(raw)
  BY KeptOrNot
<1>2. ASSUME NEW n \in 1 .. Cardinality(K) PROVE At(n) \in K /\ Rank(raw, b, At(n)) = n
  <2>1. \E i \in K : Rank(raw, b, i) = n
    BY <1>1, CountReached, RankIs
  <2> QED BY <2>1
<1>3. LogicalText(raw, b) = [n \in 1 .. Cardinality(K) |-> raw[At(n)]]
  BY DEF LogicalText
<1> HIDE DEF At
<1>4. \A i \in K : raw[i] \in Characters
  BY <1>1 DEF Texted
<1>5. LogicalText(raw, b) \in Texted /\ Len(LogicalText(raw, b)) = Cardinality(K)
  BY <1>1, <1>2, <1>3, <1>4 DEF Texted
<1>6. ASSUME NEW i \in K
      PROVE Rank(raw, b, i) \in 1 .. Cardinality(K) /\ LogicalText(raw, b)[Rank(raw, b, i)] = raw[i]
  <2> DEFINE n == Rank(raw, b, i)
  <2>1. n \in 1 .. Cardinality(K)
    BY RankInText
  <2>2. At(n) \in K /\ Rank(raw, b, At(n)) = n
    BY <1>2, <2>1
  <2>3. At(n) = i
    BY <2>2, SameRank
  <2> QED BY <1>3, <2>1, <2>3
<1> QED BY <1>5, <1>6 DEF IsText

LEMMA OneText ==
  ASSUME NEW raw \in Texted, NEW b \in BOOLEAN, NEW t, IsText(t, raw, b)
  PROVE  t = LogicalText(raw, b)
<1> DEFINE K == Kept(raw, b)
           u == LogicalText(raw, b)
<1>1. IsText(u, raw, b)
  BY TextOf
<1>2. Len(raw) \in Nat /\ K \in SUBSET (1 .. Len(raw)) /\ Cardinality(K) \in Nat
  BY KeptOrNot
<1> HIDE DEF u
<1>3. ASSUME NEW n \in 1 .. Len(t) PROVE t[n] = u[n]
  <2>1. n \in 1 .. Cardinality(K)
    BY DEF IsText
  <2>2. \E i \in K : Rank(raw, b, i) = n
    BY <1>2, <2>1, CountReached, RankIs
  <2> QED BY <1>1, <2>2 DEF IsText
<1>4. t \in Texted /\ u \in Texted /\ Len(t) = Len(u)
  BY <1>1 DEF IsText
<1>5. t = u
  BY <1>3, <1>4, SeqEqual DEF Texted
<1> QED BY <1>5 DEF u

-----------------------------------------------------------------------------
(* What is left of a text behind one of its characters.                     *)
Behind(raw, p) == SubSeq(raw, p + 1, Len(raw))

LEMMA BehindIs ==
  ASSUME NEW raw \in Texted, NEW p \in 0 .. Len(raw)
  PROVE  /\ Behind(raw, p) \in Texted /\ Len(Behind(raw, p)) = Len(raw) - p
         /\ \A i \in 1 .. Len(raw) - p : Behind(raw, p)[i] = raw[i + p]
<1>1. Len(raw) \in Nat /\ \A i \in 1 .. Len(raw) : raw[i] \in Characters
  BY DEF Texted
<1>2. p + 1 \in Int /\ \A i \in p + 1 .. Len(raw) : raw[i] \in Characters
  BY <1>1
<1> DEFINE m == p + 1
           n == Len(raw)
<1> HIDE DEF m
<1>3. /\ SubSeq(raw, m, n) \in Texted /\ Len(SubSeq(raw, m, n)) = IF m <= n THEN n - m + 1 ELSE 0
      /\ \A i \in 1 .. n - m + 1 : SubSeq(raw, m, n)[i] = raw[m + i - 1]
  BY <1>1, <1>2, SubSeqProperties DEF m, Texted
<1>4. n - m + 1 = n - p /\ (m <= n <=> p < n) /\ \A i \in Int : m + i - 1 = i + p
  BY <1>1 DEF m
<1>5. Behind(raw, p) = SubSeq(raw, m, n)
  BY DEF m, Behind
<1>6. \A i \in 1 .. n - p : SubSeq(raw, m, n)[i] = raw[i + p]
  <2> SUFFICES ASSUME NEW i \in 1 .. n - p PROVE SubSeq(raw, m, n)[i] = raw[i + p]
    OBVIOUS
  <2>1. i \in 1 .. n - m + 1 /\ m + i - 1 = i + p
    BY <1>1, <1>4
  <2> QED BY <1>3, <2>1
<1>7. Len(SubSeq(raw, m, n)) = n - p
  BY <1>1, <1>3, <1>4
<1> HIDE DEF n
<1>8. /\ Behind(raw, p) \in Texted /\ Len(Behind(raw, p)) = n - p
      /\ \A i \in 1 .. n - p : Behind(raw, p)[i] = raw[i + p]
  BY <1>3, <1>5, <1>6, <1>7
<1> QED BY <1>8 DEF n

LEMMA KeptBehind ==
  ASSUME NEW raw \in Texted, NEW b \in BOOLEAN, NEW p \in 0 .. Len(raw)
  PROVE  /\ Kept(Behind(raw, p), b) = {k \in 1 .. Len(raw) - p : k + p \in Kept(raw, b)}
         /\ Dropped(Behind(raw, p), b) = {k \in 1 .. Len(raw) - p : k + p \in Dropped(raw, b)}
<1> DEFINE tail == Behind(raw, p)
           n == Len(raw)
<1>1. /\ n \in Nat /\ p \in Nat /\ tail \in Texted /\ Len(tail) = n - p /\ p <= n
      /\ \A i \in 1 .. n - p : tail[i] = raw[i + p]
  BY BehindIs DEF Texted
<1>2. DOMAIN raw = 1 .. n /\ DOMAIN tail = 1 .. n - p
  BY <1>1 DEF Texted
<1> HIDE DEF tail, n
<1>3. ASSUME NEW k \in 1 .. n - p
      PROVE k \in Dropped(tail, b) <=> k + p \in Dropped(raw, b)
  <2>1. k + p \in 1 .. n /\ (k < n - p <=> k + p < n) /\ tail[k] = raw[k + p]
    BY <1>1
  <2>2. ASSUME k < n - p PROVE tail[k + 1] = raw[k + p + 1]
    <3>1. k + 1 \in 1 .. n - p /\ (k + 1) + p = k + p + 1
      BY <1>1, <2>2
    <3> QED BY <1>1, <3>1
  <2>3. k \in Dropped(tail, b) <=> ~b /\ k < n - p /\ tail[k] = "CR" /\ tail[k + 1] = "LF"
    BY <1>1, <1>2 DEF Dropped
  <2>4. k + p \in Dropped(raw, b) <=> ~b /\ k + p < n /\ raw[k + p] = "CR" /\ raw[k + p + 1] = "LF"
    BY <1>1, <1>2, <2>1 DEF Dropped, n
  <2> QED BY <2>1, <2>2, <2>3, <2>4
<1>4. Dropped(tail, b) = {k \in 1 .. n - p : k + p \in Dropped(raw, b)}
  <2>1. Dropped(tail, b) \in SUBSET (1 .. n - p)
    BY <1>2 DEF Dropped
  <2> QED BY <1>3, <2>1
<1>5. Kept(tail, b) = {k \in 1 .. n - p : k + p \in Kept(raw, b)}
  <2>1. \A k \in 1 .. n - p : k + p \in 1 .. n
    BY <1>1
  <2>2. \A k \in 1 .. n - p : k \in Kept(tail, b) <=> k + p \in Kept(raw, b)
    BY <1>2, <1>3, <2>1 DEF Kept
  <2>3. Kept(tail, b) \in SUBSET (1 .. n - p)
    BY <1>2 DEF Kept
  <2> QED BY <2>2, <2>3
<1> QED BY <1>4, <1>5 DEF tail, n

LEMMA RankBehind ==
  ASSUME NEW raw \in Texted, NEW b \in BOOLEAN, NEW p \in 0 .. Len(raw)
  PROVE  \A i \in 0 .. Len(raw) - p :
           Rank(Behind(raw, p), b, i) = Rank(raw, b, i + p) - Rank(raw, b, p)
<1> DEFINE K == Kept(raw, b)
           n == Len(raw)
<1>1. n \in Nat /\ K \in SUBSET (1 .. n)
  BY KeptOrNot
<1>2. Kept(Behind(raw, p), b) = {k \in 1 .. n - p : k + p \in K}
  BY KeptBehind
<1> HIDE DEF K
<1>3. \A i \in 0 .. n - p : Count({k \in 1 .. n - p : k + p \in K}, i) = Count(K, i + p) - Count(K, p)
  BY <1>1, CountShifted
<1> QED BY <1>2, <1>3, RankIs DEF K

LEMMA RankBounds ==
  ASSUME NEW raw \in Texted, NEW b \in BOOLEAN, NEW p \in 0 .. Len(raw)
  PROVE  /\ Rank(raw, b, p) \in 0 .. Cardinality(Kept(raw, b))
         /\ Rank(raw, b, Len(raw)) = Cardinality(Kept(raw, b)) /\ Rank(raw, b, 0) = 0
<1> DEFINE K == Kept(raw, b)
           n == Len(raw)
<1>1. n \in Nat /\ K \in SUBSET (1 .. n) /\ p \in Nat /\ p <= n
  BY KeptOrNot
<1> HIDE DEF K, n
<1>2. Count(K, 0) = 0 /\ Count(K, n) = Cardinality(K) /\ Count(K, p) \in Nat /\ Count(K, n) \in Nat
  BY <1>1, Counted
<1>3. Count(K, p) <= Count(K, n)
  BY <1>1, CountGrows
<1>4. Count(K, p) \in 0 .. Cardinality(K)
  BY <1>2, <1>3
<1> QED BY <1>2, <1>4, RankIs DEF K, n

LEMMA TextBehind ==
  ASSUME NEW raw \in Texted, NEW b \in BOOLEAN, NEW p \in 0 .. Len(raw)
  PROVE  LogicalText(Behind(raw, p), b) = Behind(LogicalText(raw, b), Rank(raw, b, p))
<1> DEFINE t == LogicalText(raw, b)
           r == Rank(raw, b, p)
           tail == Behind(raw, p)
           n == Len(raw)
<1>1. IsText(t, raw, b)
  BY TextOf
<1>2. r \in 0 .. Len(t) /\ t \in Texted /\ Len(t) \in Nat
  BY <1>1, RankBounds, KeptOrNot DEF IsText
<1>3. /\ Behind(t, r) \in Texted /\ Len(Behind(t, r)) = Len(t) - r
      /\ \A i \in 1 .. Len(t) - r : Behind(t, r)[i] = t[i + r]
  BY <1>2, BehindIs
<1>4. /\ n \in Nat /\ p \in Nat /\ p <= n /\ tail \in Texted /\ Len(tail) = n - p
      /\ \A i \in 1 .. n - p : tail[i] = raw[i + p]
  BY BehindIs DEF Texted
<1>5. Kept(tail, b) = {k \in 1 .. n - p : k + p \in Kept(raw, b)}
  BY KeptBehind
<1>6. \A i \in 0 .. n - p : Rank(tail, b, i) = Rank(raw, b, i + p) - r
  BY RankBehind
<1>7. Len(t) - r = Cardinality(Kept(tail, b))
  <2>1. Rank(tail, b, n - p) = Cardinality(Kept(tail, b))
    BY <1>4, RankBounds
  <2>2. Rank(tail, b, n - p) = Rank(raw, b, n) - r
    <3>1. n - p \in 0 .. n - p /\ (n - p) + p = n
      BY <1>4
    <3> QED BY <1>6, <3>1
  <2>3. Rank(raw, b, n) = Len(t)
    BY <1>1, RankBounds DEF IsText
  <2> QED BY <2>1, <2>2, <2>3
<1> HIDE DEF t, r, tail, n
<1>8. ASSUME NEW i \in Kept(tail, b)
      PROVE Rank(tail, b, i) \in 1 .. Len(t) - r /\ Behind(t, r)[Rank(tail, b, i)] = tail[i]
  <2>1. i \in 1 .. n - p /\ i + p \in Kept(raw, b) /\ i \in 0 .. n - p
    BY <1>4, <1>5
  <2>2. Rank(tail, b, i) \in 1 .. Len(t) - r
    BY <1>4, <1>7, RankInText
  <2>3. Rank(tail, b, i) = Rank(raw, b, i + p) - r /\ tail[i] = raw[i + p]
    BY <1>4, <1>6, <2>1
  <2>4. Rank(raw, b, i + p) \in 1 .. Len(t) /\ t[Rank(raw, b, i + p)] = raw[i + p]
    BY <1>1, <2>1 DEF IsText
  <2>5. Behind(t, r)[Rank(tail, b, i)] = t[Rank(tail, b, i) + r] /\ Rank(tail, b, i) + r = Rank(raw, b, i + p)
    BY <1>2, <1>3, <2>2, <2>3, <2>4
  <2> QED BY <2>2, <2>3, <2>4, <2>5
<1>9. IsText(Behind(t, r), tail, b)
  BY <1>3, <1>7, <1>8 DEF IsText
<1> QED BY <1>4, <1>9, OneText DEF t, r, tail

(* What is up to a character that is no dropped one.                        *)
LEMMA TextBefore ==
  ASSUME NEW raw \in Texted, NEW b \in BOOLEAN, NEW p \in 0 .. Len(raw), p \notin Dropped(raw, b)
  PROVE  LogicalText(SubSeq(raw, 1, p), b) = SubSeq(LogicalText(raw, b), 1, Rank(raw, b, p))
<1> DEFINE t == LogicalText(raw, b)
           r == Rank(raw, b, p)
           head == SubSeq(raw, 1, p)
           n == Len(raw)
           K == Kept(raw, b)
           H == Kept(head, b)
<1>1. IsText(t, raw, b)
  BY TextOf
<1>2. r \in 0 .. Len(t) /\ t \in Texted /\ Len(t) \in Nat /\ r \in Nat
  BY <1>1, RankBounds, KeptOrNot DEF IsText
<1>3. n \in Nat /\ p \in Nat /\ p <= n /\ DOMAIN raw = 1 .. n /\ \A i \in 1 .. n : raw[i] \in Characters
  BY DEF Texted
<1>4. head \in Texted /\ Len(head) = p /\ DOMAIN head = 1 .. p /\ \A i \in 1 .. p : head[i] = raw[i]
  BY <1>3 DEF Texted
<1> DEFINE cut == SubSeq(t, 1, r)
<1>5. cut \in Texted /\ Len(cut) = r /\ \A i \in 1 .. r : cut[i] = t[i]
  BY <1>2 DEF Texted
<1>6. K \in SUBSET (1 .. n)
  BY KeptOrNot
<1> HIDE DEF t, r, head, n, cut
<1>7. Dropped(head, b) = Dropped(raw, b) \cap 1 .. p
  <2>1. ASSUME NEW i \in 1 .. p PROVE i \in Dropped(head, b) <=> i \in Dropped(raw, b)
    <3>1. i \in Dropped(head, b) <=> ~b /\ i < p /\ head[i] = "CR" /\ head[i + 1] = "LF"
      BY <1>4 DEF Dropped
    <3>2. i \in Dropped(raw, b) <=> ~b /\ i < n /\ raw[i] = "CR" /\ raw[i + 1] = "LF"
      BY <1>3 DEF Dropped, n
    <3>3. CASE i = p
      BY <3>1, <3>3
    <3>4. CASE i < p
      <4>1. i + 1 \in 1 .. p /\ i < n
        BY <1>3, <3>4
      <4> QED BY <1>4, <3>1, <3>2, <3>4, <4>1
    <3> QED BY <1>3, <3>3, <3>4
  <2>2. Dropped(head, b) \in SUBSET (1 .. p)
    BY <1>4 DEF Dropped
  <2> QED BY <2>1, <2>2
<1>8. H = K \cap 1 .. p
  BY <1>3, <1>4, <1>7 DEF Kept
<1>9. \A i \in 0 .. p : Rank(head, b, i) = Rank(raw, b, i)
  <2> SUFFICES ASSUME NEW i \in 0 .. p PROVE Rank(head, b, i) = Rank(raw, b, i)
    OBVIOUS
  <2>1. {k \in H : k <= i} = {k \in K : k <= i}
    <3>1. \A k \in K : k <= i => k \in 1 .. p
      BY <1>3, <1>6
    <3> QED BY <1>8, <3>1
  <2> QED BY <2>1 DEF Rank
<1>10. Cardinality(H) = r
  <2>1. Rank(head, b, p) = Cardinality(H)
    BY <1>4, RankBounds
  <2> QED BY <1>3, <1>9, <2>1 DEF r
<1>11. ASSUME NEW i \in H PROVE Rank(head, b, i) \in 1 .. r /\ cut[Rank(head, b, i)] = head[i]
  <2>1. i \in K /\ i \in 1 .. p /\ i \in 0 .. p
    BY <1>8
  <2>2. Rank(head, b, i) \in 1 .. r
    BY <1>4, <1>10, RankInText
  <2>3. t[Rank(raw, b, i)] = raw[i] /\ Rank(head, b, i) = Rank(raw, b, i) /\ head[i] = raw[i]
    BY <1>1, <1>4, <1>9, <2>1 DEF IsText
  <2> QED BY <1>5, <2>2, <2>3
<1>12. IsText(cut, head, b)
  BY <1>5, <1>10, <1>11 DEF IsText
<1> QED BY <1>4, <1>12, OneText DEF t, r, head, cut

-----------------------------------------------------------------------------
(* The offsets behind which a physical byte is extra.                       *)
Extra(raw, b) == ExtraPhysicalByteOffsets(raw, b)

LEMMA ExtraRanks ==
  ASSUME NEW raw \in Texted, NEW b \in BOOLEAN
  PROVE  /\ Extra(raw, b) = {Rank(raw, b, i + 1) : i \in Dropped(raw, b)}
         /\ Extra(raw, b) \in SUBSET (1 .. Len(LogicalText(raw, b)))
<1>1. Extra(raw, b) = {Rank(raw, b, i + 1) : i \in Dropped(raw, b)}
  BY DEF Extra, ExtraPhysicalByteOffsets
<1>2. \A i \in Dropped(raw, b) : i + 1 \in Kept(raw, b)
  BY KeptOrNot
<1>3. IsText(LogicalText(raw, b), raw, b)
  BY TextOf
<1> QED BY <1>1, <1>2, <1>3 DEF IsText

LEMMA ExtraCounted ==
  ASSUME NEW raw \in Texted, NEW b \in BOOLEAN
  PROVE  /\ IsFiniteSet(Extra(raw, b))
         /\ Cardinality(Extra(raw, b)) = Len(raw) - Len(LogicalText(raw, b))
<1> DEFINE D == Dropped(raw, b)
           K == Kept(raw, b)
           n == Len(raw)
           f == [i \in D |-> Rank(raw, b, i + 1)]
<1>1. /\ n \in Nat /\ K \in SUBSET (1 .. n) /\ D \in SUBSET (1 .. n) /\ D = (1 .. n) \ K
      /\ Cardinality(K) \in Nat /\ \A i \in D : i + 1 \in K
  BY KeptOrNot
<1>2. Extra(raw, b) = {Rank(raw, b, i + 1) : i \in D}
  BY ExtraRanks
<1>3. f \in Bijection(D, Extra(raw, b))
  <2>1. f \in [D -> Extra(raw, b)]
    BY <1>2
  <2>2. ASSUME NEW i \in D, NEW j \in D, f[i] = f[j] PROVE i = j
    <3>1. i + 1 \in K /\ j + 1 \in K /\ Rank(raw, b, i + 1) = Rank(raw, b, j + 1)
      BY <1>1, <2>2
    <3>2. i + 1 = j + 1
      BY <3>1, SameRank
    <3>3. i \in Nat /\ j \in Nat
      BY <1>1
    <3> QED BY <3>2, <3>3
  <2>3. \A e \in Extra(raw, b) : \E i \in D : f[i] = e
    BY <1>2
  <2> HIDE DEF f, D
  <2>4. f \in Injection(D, Extra(raw, b))
    BY <2>1, <2>2 DEF Injection, IsInjective
  <2>5. f \in Surjection(D, Extra(raw, b))
    BY <2>1, <2>3 DEF Surjection
  <2> QED BY <2>4, <2>5 DEF Bijection
<1>4. ExistsBijection(D, Extra(raw, b))
  BY <1>3 DEF ExistsBijection
<1> HIDE DEF D, K, n, f
<1>5. IsFiniteSet(D) /\ Count(D, n) = Cardinality(D) /\ Count(K, n) = Cardinality(K)
  BY <1>1, Counted
<1>6. Count(D, n) = n - Count(K, n)
  <2>1. n \in 0 .. n
    BY <1>1
  <2> QED BY <1>1, <2>1, CountRest
<1>7. IsFiniteSet(Extra(raw, b)) /\ Cardinality(Extra(raw, b)) = Cardinality(D)
  BY <1>4, <1>5, FS_Bijection
<1>8. Len(LogicalText(raw, b)) = Cardinality(K)
  BY TextOf DEF IsText, K
<1> QED BY <1>5, <1>6, <1>7, <1>8 DEF n

LEMMA ExtraBehind ==
  ASSUME NEW raw \in Texted, NEW b \in BOOLEAN, NEW p \in 0 .. Len(raw), p \notin Dropped(raw, b)
  PROVE  Extra(Behind(raw, p), b) = StillAhead(Extra(raw, b), Rank(raw, b, p))
<1> DEFINE D == Dropped(raw, b)
           K == Kept(raw, b)
           n == Len(raw)
           r == Rank(raw, b, p)
           tail == Behind(raw, p)
<1>1. /\ n \in Nat /\ K \in SUBSET (1 .. n) /\ D \in SUBSET (1 .. n) /\ p \in Nat /\ p <= n
      /\ \A i \in D : i + 1 \in K
  BY KeptOrNot
<1>2. Extra(raw, b) = {Rank(raw, b, i + 1) : i \in D}
  BY ExtraRanks
<1>3. tail \in Texted
  BY BehindIs
<1>4. Extra(tail, b) = {Rank(tail, b, k + 1) : k \in Dropped(tail, b)}
  BY <1>3, ExtraRanks
<1>5. Dropped(tail, b) = {k \in 1 .. n - p : k + p \in D}
  BY KeptBehind
<1>6. \A i \in 0 .. n - p : Rank(tail, b, i) = Rank(raw, b, i + p) - r
  BY RankBehind
<1>7. p \notin D
  OBVIOUS
<1>8. r \in Nat
  BY RankBounds, <1>1
<1>9. ASSUME NEW i \in D PROVE Rank(raw, b, i + 1) \in Nat /\ (Rank(raw, b, i + 1) > r <=> i > p)
  <2>1. i \in Nat /\ i + 1 \in K /\ i + 1 \in Nat /\ i # p
    BY <1>1, <1>7
  <2>2. Count(K, i + 1) \in Nat
    BY <1>1, <2>1, Counted
  <2>3. p < i + 1 => Count(K, p) < Count(K, i + 1)
    BY <1>1, <2>1, CountGrows
  <2>4. i + 1 <= p => Count(K, i + 1) <= Count(K, p)
    BY <1>1, <2>1, CountGrows
  <2>5. Rank(raw, b, i + 1) = Count(K, i + 1) /\ r = Count(K, p)
    BY RankIs
  <2> HIDE DEF K, r
  <2> QED BY <1>1, <1>8, <2>1, <2>2, <2>3, <2>4, <2>5
<1> HIDE DEF D, K, n, r, tail
<1>10. ASSUME NEW k \in Dropped(tail, b)
       PROVE /\ k + p \in D /\ k + p > p
             /\ Rank(tail, b, k + 1) = Rank(raw, b, (k + p) + 1) - r
  <2>1. k \in 1 .. n - p /\ k + p \in D
    BY <1>5
  <2>2. k + p + 1 \in 1 .. n
    BY <1>1, <2>1
  <2>3. k + 1 \in 0 .. n - p /\ (k + 1) + p = (k + p) + 1
    BY <1>1, <2>1, <2>2
  <2>4. Rank(tail, b, k + 1) = Rank(raw, b, (k + 1) + p) - r
    BY <1>6, <2>3
  <2> QED BY <1>1, <2>1, <2>3, <2>4
<1>11. ASSUME NEW i \in D, i > p
       PROVE i - p \in Dropped(tail, b) /\ (i - p) + p = i
  <2>1. i \in 1 .. n
    BY <1>1
  <2>2. i - p \in 1 .. n - p /\ (i - p) + p = i
    BY <1>1, <1>11, <2>1
  <2> QED BY <1>5, <2>2
<1>12. ASSUME NEW o \in Extra(tail, b) PROVE o \in StillAhead(Extra(raw, b), r)
  <2>1. PICK k \in Dropped(tail, b) : o = Rank(tail, b, k + 1)
    BY <1>4
  <2>2. PICK i \in D : i = k + p
    BY <1>10
  <2>3. i > p /\ o = Rank(raw, b, i + 1) - r
    BY <1>10, <2>1, <2>2
  <2>4. Rank(raw, b, i + 1) > r /\ Rank(raw, b, i + 1) \in Extra(raw, b)
    BY <1>2, <1>9, <2>3
  <2> QED BY <2>3, <2>4 DEF StillAhead
<1>13. ASSUME NEW o \in StillAhead(Extra(raw, b), r) PROVE o \in Extra(tail, b)
  <2>1. PICK e \in Extra(raw, b) : e > r /\ o = e - r
    BY DEF StillAhead
  <2>2. PICK i \in D : e = Rank(raw, b, i + 1)
    BY <1>2
  <2>3. i > p
    BY <1>9, <2>1, <2>2
  <2>4. PICK k \in Dropped(tail, b) : k + p = i
    BY <1>11, <2>3
  <2>5. Rank(tail, b, k + 1) = Rank(raw, b, i + 1) - r
    BY <1>10, <2>4
  <2> QED BY <1>4, <2>1, <2>2, <2>4, <2>5
<1> QED BY <1>12, <1>13 DEF r, tail

(* Where the first c characters of the text end.                            *)
LEMMA EndsAt ==
  ASSUME NEW raw \in Texted, NEW b \in BOOLEAN, NEW c \in 0 .. Len(LogicalText(raw, b))
  PROVE  \E p \in 0 .. Len(raw) : p \notin Dropped(raw, b) /\ Rank(raw, b, p) = c
<1> DEFINE K == Kept(raw, b)
<1>1. /\ Len(raw) \in Nat /\ K \in SUBSET (1 .. Len(raw))
      /\ Dropped(raw, b) \in SUBSET (1 .. Len(raw)) /\ Cardinality(K) \in Nat
      /\ Dropped(raw, b) = (1 .. Len(raw)) \ K
  BY KeptOrNot
<1>2. Len(LogicalText(raw, b)) = Cardinality(K)
  BY TextOf DEF IsText
<1>3. CASE c = 0
  <2>1. 0 \in 0 .. Len(raw) /\ 0 \notin Dropped(raw, b) /\ Rank(raw, b, 0) = 0
    <3>1. 0 \in 0 .. Len(raw)
      BY <1>1
    <3> QED BY <1>1, <3>1, RankBounds
  <2> QED BY <1>3, <2>1
<1>4. CASE c # 0
  <2>1. c \in 1 .. Cardinality(K)
    BY <1>1, <1>2, <1>4
  <2>2. PICK p \in K : Rank(raw, b, p) = c
    BY <1>1, <2>1, CountReached, RankIs
  <2>3. p \in 0 .. Len(raw) /\ p \notin Dropped(raw, b)
    BY <1>1
  <2> QED BY <2>2, <2>3
<1> QED BY <1>3, <1>4

-----------------------------------------------------------------------------
(* One open file.                                                           *)
FileModes == [readable : BOOLEAN, writable : BOOLEAN, append : BOOLEAN,
              truncate : BOOLEAN, binary : BOOLEAN]

FileRecords ==
  [mode : FileModes, content : Texted, position : Nat, streaming : BOOLEAN,
   unread : Texted, unreadExtra : SUBSET Nat, pendingSize : Nat, pendingExtra : SUBSET Nat,
   pendingEnd : BOOLEAN, endOfFile : BOOLEAN, failed : BOOLEAN,
   lastOperation : {"none", "read", "write"}]

Within(file) ==
  /\ Len(file.content) <= MaxSize /\ file.position <= MaxSize
  /\ file.pendingExtra \subseteq 1 .. file.pendingSize

(* Nothing is buffered, or all that was behind the told position is.        *)
Clean(file) == file.unread = <<>> /\ file.unreadExtra = {}

BufferedFrom(file, at) ==
  /\ file.unread = LogicalText(Behind(file.content, at), file.mode.binary)
  /\ file.unreadExtra = Extra(Behind(file.content, at), file.mode.binary)

Buffered(file) ==
  /\ file.lastOperation = "read" /\ file.position = Len(file.content)
  /\ \E at \in 0 .. Len(file.content) : BufferedFrom(file, at)

SettledFile(file) ==
  /\ Clean(file) \/ Buffered(file)
  /\ file.endOfFile <=> file.lastOperation = "read" /\ Told(file) >= Len(file.content)

(* Between the two critical sections of a read.                             *)
ReadingFile(file, read) ==
  /\ file.lastOperation = "read" /\ Clean(file) /\ file.pendingEnd
  /\ file.position = IF read.from > Len(file.content) THEN read.from ELSE Len(file.content)
  /\ read.text = LogicalText(Behind(file.content, read.from), file.mode.binary)
  /\ file.pendingSize = Len(read.text)
  /\ file.pendingExtra = Extra(Behind(file.content, read.from), file.mode.binary)

Reads == [id : Nat, text : Texted, from : Nat]

LEMMA FileFields ==
  ASSUME NEW file \in FileRecords
  PROVE  /\ file.mode \in FileModes /\ file.mode.binary \in BOOLEAN /\ file.mode.append \in BOOLEAN
         /\ file.mode.writable \in BOOLEAN /\ file.mode.readable \in BOOLEAN
         /\ file.content \in Texted /\ Len(file.content) \in Nat /\ file.position \in Nat
         /\ file.unread \in Texted /\ Len(file.unread) \in Nat
         /\ file.lastOperation \in {"none", "read", "write"}
         /\ file.endOfFile \in BOOLEAN /\ file.streaming \in BOOLEAN
<1>1. file.mode \in FileModes /\ file.content \in Texted /\ file.unread \in Texted /\ file.position \in Nat
  BY DEF FileRecords
<1>2. Len(file.content) \in Nat /\ Len(file.unread) \in Nat
  BY <1>1 DEF Texted
<1> QED BY <1>1, <1>2 DEF FileRecords, FileModes

LEMMA NothingBehind ==
  ASSUME NEW raw \in Texted, NEW b \in BOOLEAN, NEW p \in Nat, p >= Len(raw)
  PROVE  Behind(raw, p) = <<>> /\ LogicalText(<<>>, b) = <<>> /\ Extra(<<>>, b) = {} /\ <<>> \in Texted
<1>1. Len(raw) \in Nat
  BY DEF Texted
<1>2. Behind(raw, p) = <<>>
  <2>1. p + 1 \in Int /\ Len(raw) < p + 1
    BY <1>1
  <2> QED BY <1>1, <2>1, SubSeqEmpty DEF Behind
<1> DEFINE e == <<>>
<1>3. e \in Texted /\ Len(e) = 0
  BY EmptySeq DEF Texted
<1> HIDE DEF e
<1>4. Kept(e, b) = {} /\ Dropped(e, b) = {}
  BY <1>3, KeptOrNot
<1>5. LogicalText(e, b) \in Texted /\ Len(LogicalText(e, b)) = 0
  BY <1>3, <1>4, TextOf, FS_EmptySet DEF IsText
<1>6. LogicalText(e, b) = <<>>
  BY <1>5, EmptySeq DEF Texted
<1>7. Extra(e, b) = {}
  BY <1>3, <1>4, ExtraRanks
<1> QED BY <1>2, <1>3, <1>6, <1>7 DEF e

LEMMA BehindText ==
  ASSUME NEW raw \in Texted, NEW p \in Nat
  PROVE  Behind(raw, p) \in Texted /\ Len(Behind(raw, p)) \in Nat
<1>1. Behind(raw, p) \in Texted
  <2>1. CASE p >= Len(raw)
    BY <2>1, NothingBehind
  <2>2. CASE ~(p >= Len(raw))
    <3>1. p \in 0 .. Len(raw)
      BY <2>2 DEF Texted
    <3> QED BY <3>1, BehindIs
  <2> QED BY <2>1, <2>2
<1> QED BY <1>1 DEF Texted

(* What is buffered tells the position.                                     *)
LEMMA BufferedTold ==
  ASSUME NEW file \in FileRecords, NEW at \in 0 .. Len(file.content), BufferedFrom(file, at),
         file.position = Len(file.content)
  PROVE  /\ Told(file) = at /\ file.unreadExtra \subseteq 1 .. Len(file.unread)
         /\ file.unread \in Texted /\ (file.unread = <<>> => at = Len(file.content))
<1> DEFINE c == file.content
           b == file.mode.binary
           raw == Behind(c, at)
<1>1. b \in BOOLEAN /\ c \in Texted /\ Len(c) \in Nat /\ file.unread \in Texted /\ Len(file.unread) \in Nat
  BY FileFields
<1>2. raw \in Texted /\ Len(raw) = Len(c) - at
  BY <1>1, BehindIs
<1>3. file.unread = LogicalText(raw, b) /\ file.unreadExtra = Extra(raw, b)
  BY DEF BufferedFrom
<1> HIDE DEF raw, c, b
<1>4. Cardinality(file.unreadExtra) = Len(raw) - Len(file.unread)
  BY <1>1, <1>2, <1>3, ExtraCounted
<1>5. Told(file) = at
  <2>1. file.position = Len(c)
    BY DEF c
  <2>2. Told(file) = file.position - Len(file.unread) - Cardinality(file.unreadExtra)
    BY DEF Told
  <2>3. at \in Int /\ Len(raw) = Len(c) - at
    BY <1>1, <1>2 DEF c
  <2> QED BY <1>1, <1>4, <2>1, <2>2, <2>3
<1>6. file.unreadExtra \subseteq 1 .. Len(file.unread)
  BY <1>1, <1>2, <1>3, ExtraRanks
<1>7. ASSUME file.unread = <<>> PROVE at = Len(c)
  <2>1. Len(file.unread) = 0
    BY <1>7, EmptySeq
  <2>2. file.unreadExtra = {}
    BY <1>6, <2>1
  <2>3. Len(raw) = 0
    BY <1>2, <1>4, <2>1, <2>2, FS_EmptySet, <1>1
  <2> QED BY <1>1, <1>2, <2>3
<1> QED BY <1>1, <1>5, <1>6, <1>7 DEF c

LEMMA CleanTold ==
  ASSUME NEW file \in FileRecords, Clean(file)
  PROVE  Told(file) = file.position /\ Len(file.unread) = 0
<1>1. Len(file.unread) = 0 /\ Cardinality(file.unreadExtra) = 0 /\ file.position \in Nat
  BY EmptySeq, FS_EmptySet, FileFields DEF Clean
<1> QED BY <1>1 DEF Told

(* Buffered and left in the stream together are the text from there on.     *)
LEMMA SettledTells ==
  ASSUME NEW file \in FileRecords, SettledFile(file)
  PROVE  /\ Told(file) \in Nat /\ file.unreadExtra \subseteq 1 .. Len(file.unread)
         /\ LogicalText(Behind(file.content, Told(file)), file.mode.binary)
              = file.unread \o LogicalText(RestOfFile(file), file.mode.binary)
         /\ Extra(Behind(file.content, Told(file)), file.mode.binary)
              = file.unreadExtra \cup
                  {Len(file.unread) + o : o \in Extra(RestOfFile(file), file.mode.binary)}
         /\ (IF file.position > Len(file.content) THEN file.position ELSE Len(file.content))
              = IF Told(file) > Len(file.content) THEN Told(file) ELSE Len(file.content)
<1> DEFINE c == file.content
           b == file.mode.binary
           u == file.unread
           rest == RestOfFile(file)
           from == Told(file)
<1>1. b \in BOOLEAN /\ c \in Texted /\ Len(c) \in Nat /\ u \in Texted /\ Len(u) \in Nat /\ file.position \in Nat
  BY FileFields
<1>2. rest = Behind(c, file.position)
  BY DEF RestOfFile, Behind
<1>3. rest \in Texted
  BY <1>1, <1>2, BehindText
<1>4. LogicalText(rest, b) \in Texted
  BY <1>1, <1>3, TextOf DEF IsText
<1>5. CASE Clean(file)
  <2>1. from = file.position /\ Len(u) = 0 /\ u = <<>> /\ file.unreadExtra = {}
    BY <1>5, CleanTold DEF Clean
  <2>2. u \o LogicalText(rest, b) = LogicalText(rest, b)
    BY <1>4, <2>1, ConcatEmptySeq DEF Texted
  <2> DEFINE E == Extra(rest, b)
  <2>3. \A o \in E : o \in Nat
    BY <1>1, <1>3, <1>4, ExtraRanks
  <2> HIDE DEF E
  <2>4. {Len(u) + o : o \in E} = E
    <3>1. \A o \in E : Len(u) + o = o
      BY <2>1, <2>3
    <3> QED BY <3>1
  <2>5. file.unreadExtra \subseteq 1 .. Len(u)
    BY <2>1
  <2> HIDE DEF c, b, u, rest, from
  <2>6. Extra(Behind(c, from), b) = file.unreadExtra \cup {Len(u) + o : o \in E}
    BY <1>2, <2>1, <2>4 DEF E
  <2>7. LogicalText(Behind(c, from), b) = u \o LogicalText(rest, b)
    BY <1>2, <2>1, <2>2
  <2> QED BY <1>1, <2>1, <2>5, <2>6, <2>7 DEF c, b, u, rest, from, E
<1>6. CASE Buffered(file)
  <2>1. PICK at \in 0 .. Len(c) : BufferedFrom(file, at) /\ file.position = Len(c)
    BY <1>6 DEF Buffered
  <2>2. from = at /\ file.unreadExtra \subseteq 1 .. Len(u)
    BY <2>1, BufferedTold
  <2>3. u = LogicalText(Behind(c, at), b) /\ file.unreadExtra = Extra(Behind(c, at), b)
    BY <2>1 DEF BufferedFrom
  <2>4. rest = <<>> /\ LogicalText(<<>>, b) = <<>> /\ Extra(<<>>, b) = {}
    BY <1>1, <1>2, <2>1, NothingBehind
  <2>5. u \o <<>> = u
    BY <1>1, ConcatEmptySeq DEF Texted
  <2> HIDE DEF c, b, u, rest, from
  <2>6. LogicalText(Behind(c, from), b) = u \o LogicalText(rest, b)
    BY <2>2, <2>3, <2>4, <2>5
  <2>7. Extra(Behind(c, from), b) = file.unreadExtra \cup {Len(u) + o : o \in Extra(rest, b)}
    BY <2>2, <2>3, <2>4
  <2>8. from \in Nat /\ ~(from > Len(c)) /\ ~(file.position > Len(c))
    BY <1>1, <2>1, <2>2
  <2> QED BY <2>2, <2>6, <2>7, <2>8 DEF c, b, u, rest, from
<1> QED BY <1>5, <1>6 DEF SettledFile

-----------------------------------------------------------------------------
(* What each operation makes of a file.                                     *)
FileFailed(file, failed) == [file EXCEPT !.failed = failed]

LEMMA FailedFile ==
  ASSUME NEW file \in FileRecords, NEW failed \in BOOLEAN, Within(file)
  PROVE  /\ FileFailed(file, failed) \in FileRecords /\ Within(FileFailed(file, failed))
         /\ SettledFile(file) => SettledFile(FileFailed(file, failed))
         /\ FileFailed(file, failed).content = file.content
<1> DEFINE g == FileFailed(file, failed)
<1>1. /\ g \in FileRecords /\ g.content = file.content /\ g.position = file.position /\ g.mode = file.mode
      /\ g.pendingExtra = file.pendingExtra /\ g.pendingSize = file.pendingSize
      /\ g.unread = file.unread /\ g.unreadExtra = file.unreadExtra
      /\ g.lastOperation = file.lastOperation /\ g.endOfFile = file.endOfFile
  BY DEF FileFailed, FileRecords
<1> HIDE DEF g
<1>2. Within(g)
  BY <1>1 DEF Within
<1>3. Told(g) = Told(file) /\ (Clean(file) => Clean(g)) /\ (Buffered(file) => Buffered(g))
  BY <1>1 DEF Told, Clean, Buffered, BufferedFrom
<1>4. SettledFile(file) => SettledFile(g)
  BY <1>1, <1>3 DEF SettledFile
<1> QED BY <1>1, <1>2, <1>4 DEF g

LEMMA StreamGone ==
  ASSUME NEW file \in FileRecords, Within(file), SettledFile(file)
  PROVE  /\ [file EXCEPT !.streaming = FALSE] \in FileRecords
         /\ Within([file EXCEPT !.streaming = FALSE]) /\ SettledFile([file EXCEPT !.streaming = FALSE])
         /\ [file EXCEPT !.streaming = FALSE].content = file.content
<1> DEFINE g == [file EXCEPT !.streaming = FALSE]
<1>1. /\ g \in FileRecords /\ g.content = file.content /\ g.position = file.position /\ g.mode = file.mode
      /\ g.pendingExtra = file.pendingExtra /\ g.pendingSize = file.pendingSize
      /\ g.unread = file.unread /\ g.unreadExtra = file.unreadExtra
      /\ g.lastOperation = file.lastOperation /\ g.endOfFile = file.endOfFile
  BY DEF FileRecords
<1> HIDE DEF g
<1>2. Within(g)
  BY <1>1 DEF Within
<1>3. Told(g) = Told(file) /\ (Clean(file) => Clean(g)) /\ (Buffered(file) => Buffered(g))
  BY <1>1 DEF Told, Clean, Buffered, BufferedFrom
<1>4. SettledFile(g)
  BY <1>1, <1>3 DEF SettledFile
<1> QED BY <1>1, <1>2, <1>4 DEF g

LEMMA FileOpened ==
  ASSUME FilesAssumption, NEW mode \in Modes, NEW content \in Contents
  PROVE  /\ NewFile(mode, content) \in FileRecords /\ Within(NewFile(mode, content))
         /\ SettledFile(NewFile(mode, content))
<1> DEFINE g == NewFile(mode, content)
           c == IF mode.truncate THEN <<>> ELSE content
           B == {"CR", "LF", "x"}
<1>1. mode \in FileModes /\ content \in Seq(B) /\ Len(content) <= MaxSize /\ MaxSize \in Nat
  BY DEF FilesAssumption, FileModes
<1>2. content \in Texted /\ <<>> \in Texted /\ Len(<<>>) = 0
  <2>1. B \subseteq Characters
    BY DEF Characters
  <2>2. content \in Texted
    BY <1>1, <2>1, SeqMonotonic DEF Texted
  <2> QED BY <2>2, EmptySeq DEF Texted
<1>3. c \in Texted /\ Len(c) <= MaxSize
  BY <1>1, <1>2
<1>4. g = [mode |-> mode, content |-> c, position |-> 0, streaming |-> TRUE, unread |-> <<>>,
           unreadExtra |-> {}, pendingSize |-> 0, pendingExtra |-> {}, pendingEnd |-> FALSE,
           endOfFile |-> FALSE, failed |-> FALSE, lastOperation |-> "none"]
  BY DEF NewFile
<1> HIDE DEF g, c
<1>5. g \in FileRecords
  BY <1>1, <1>2, <1>3, <1>4 DEF FileRecords
<1>6. Within(g)
  BY <1>1, <1>3, <1>4 DEF Within
<1>7. SettledFile(g)
  BY <1>4 DEF SettledFile, Clean
<1> QED BY <1>5, <1>6, <1>7 DEF g

LEMMA InputTaken ==
  ASSUME NEW file \in FileRecords, Within(file), SettledFile(file), NEW id \in Nat, MaxSize \in Nat
  PROVE  LET read == [id |-> id, text |-> Input(file), from |-> Told(file)]
         IN /\ TakenFrom(file) \in FileRecords /\ Within(TakenFrom(file)) /\ read \in Reads
            /\ ReadingFile(TakenFrom(file), read)
            /\ TakenFrom(file).content = file.content
<1> DEFINE read == [id |-> id, text |-> Input(file), from |-> Told(file)]
           g == TakenFrom(file)
           b == file.mode.binary
           c == file.content
           from == Told(file)
           text == Input(file)
           extra == file.unreadExtra \cup {Len(file.unread) + o : o \in Extra(RestOfFile(file), b)}
           at == IF file.position > Len(c) THEN file.position ELSE Len(c)
<1>1. /\ b \in BOOLEAN /\ c \in Texted /\ Len(c) \in Nat /\ file.position \in Nat
      /\ from \in Nat /\ text = LogicalText(Behind(c, from), b) /\ extra = Extra(Behind(c, from), b)
      /\ at = IF from > Len(c) THEN from ELSE Len(c)
  BY FileFields, SettledTells DEF Input
<1>2. Behind(c, from) \in Texted
  BY <1>1, BehindText
<1>3. text \in Texted /\ Len(text) \in Nat
  BY <1>1, <1>2, TextOf DEF IsText, Texted
<1>4. extra \in SUBSET (1 .. Len(text))
  BY <1>1, <1>2, ExtraRanks
<1>5. at \in Nat
  BY <1>1
<1>6. g = [file EXCEPT !.position = at, !.unread = <<>>, !.unreadExtra = {}, !.pendingSize = Len(text),
              !.pendingExtra = extra, !.pendingEnd = TRUE, !.endOfFile = FALSE, !.failed = FALSE,
              !.lastOperation = "read"]
  BY DEF TakenFrom, Extra
<1>7. <<>> \in Texted
  BY EmptySeq DEF Texted
<1> HIDE DEF g, b, from, text, extra, at
<1>8. /\ g \in FileRecords /\ g.mode = file.mode /\ g.content = c /\ g.position = at /\ g.unread = <<>>
      /\ g.unreadExtra = {} /\ g.pendingSize = Len(text) /\ g.pendingExtra = extra /\ g.pendingEnd
      /\ g.endOfFile = FALSE /\ g.lastOperation = "read"
  <2>1. extra \in SUBSET Nat
    <3>1. \A o \in extra : o \in Nat
      BY <1>3, <1>4
    <3> QED BY <3>1
  <2>2. g \in FileRecords
    BY <1>3, <1>5, <1>6, <1>7, <2>1 DEF FileRecords
  <2>3. g.mode = file.mode /\ g.content = c /\ g.position = at /\ g.unread = <<>> /\ g.unreadExtra = {}
    BY <1>6 DEF FileRecords
  <2>4. g.pendingSize = Len(text) /\ g.pendingExtra = extra /\ g.pendingEnd
    BY <1>6 DEF FileRecords
  <2>5. g.endOfFile = FALSE /\ g.lastOperation = "read"
    BY <1>6 DEF FileRecords
  <2> QED BY <2>2, <2>3, <2>4, <2>5
<1>9. Within(g)
  <2>1. at <= MaxSize
    BY <1>1 DEF Within, at
  <2> QED BY <1>4, <1>8, <2>1 DEF Within
<1>10. read.id = id /\ read.text = text /\ read.from = from /\ read \in Reads
  BY <1>1, <1>3 DEF Reads, text, from
<1> HIDE DEF read
<1>11. ReadingFile(g, read)
  BY <1>1, <1>8, <1>10 DEF ReadingFile, Clean, b
<1> QED BY <1>8, <1>9, <1>10, <1>11 DEF g, read, from, text

LEMMA BehindBehind ==
  ASSUME NEW c \in Texted, NEW from \in 0 .. Len(c), NEW p \in 0 .. Len(Behind(c, from))
  PROVE  /\ from + p \in 0 .. Len(c) /\ Behind(Behind(c, from), p) = Behind(c, from + p)
         /\ SubSeq(Behind(c, from), 1, p) = SubSeq(c, from + 1, from + p)
<1> DEFINE raw == Behind(c, from)
           n == Len(c)
<1>1. n \in Nat /\ raw \in Texted /\ Len(raw) = n - from /\ \A i \in 1 .. n - from : raw[i] = c[i + from]
  BY BehindIs DEF Texted
<1> HIDE DEF raw
<1>2. from + p \in 0 .. n /\ p \in 0 .. Len(raw)
  BY <1>1 DEF raw
<1> DEFINE at == from + p
<1>3. at \in 0 .. n
  BY <1>2
<1>4. /\ Behind(raw, p) \in Texted /\ Len(Behind(raw, p)) = Len(raw) - p
      /\ \A i \in 1 .. Len(raw) - p : Behind(raw, p)[i] = raw[i + p]
  BY <1>1, <1>2, BehindIs
<1> HIDE DEF at
<1>5. /\ Behind(c, at) \in Texted /\ Len(Behind(c, at)) = n - at
      /\ \A i \in 1 .. n - at : Behind(c, at)[i] = c[i + at]
  BY <1>3, BehindIs
<1>6. Behind(raw, p) = Behind(c, at)
  <2>1. Len(raw) - p = n - at
    BY <1>1, <1>2 DEF at
  <2>2. ASSUME NEW i \in 1 .. n - at PROVE Behind(raw, p)[i] = Behind(c, at)[i]
    <3>1. i + p \in 1 .. n - from /\ (i + p) + from = i + at
      BY <1>1, <1>2, <2>1 DEF at
    <3> QED BY <1>1, <1>4, <1>5, <2>1, <3>1
  <2> QED BY <1>4, <1>5, <2>1, <2>2, SeqEqual DEF Texted
<1>7. SubSeq(raw, 1, p) = SubSeq(c, from + 1, at)
  <2> DEFINE m == from + 1
             s == SubSeq(raw, 1, p)
             t == SubSeq(c, m, at)
  <2>1. m \in Int /\ at \in Int /\ p \in Int
    BY <1>2, <1>3
  <2>2. \A i \in 1 .. p : raw[i] \in Characters
    BY <1>1, <1>2 DEF Texted
  <2>3. \A i \in m .. at : c[i] \in Characters
    <3>1. \A i \in m .. at : i \in 1 .. n
      BY <1>1, <1>3
    <3> QED BY <3>1 DEF Texted
  <2> HIDE DEF m
  <2>4. /\ s \in Seq(Characters) /\ Len(s) = (IF 1 <= p THEN p - 1 + 1 ELSE 0)
        /\ \A i \in 1 .. p - 1 + 1 : s[i] = raw[1 + i - 1]
    BY <2>1, <2>2, SubSeqProperties
  <2>5. /\ t \in Seq(Characters) /\ Len(t) = (IF m <= at THEN at - m + 1 ELSE 0)
        /\ \A i \in 1 .. at - m + 1 : t[i] = c[m + i - 1]
    BY <2>1, <2>3, SubSeqProperties
  <2>6. at - m + 1 = p /\ p - 1 + 1 = p
    BY <1>2 DEF m, at
  <2> HIDE DEF s, t
  <2>7. Len(s) = p /\ Len(t) = p
    BY <1>2, <2>4, <2>5, <2>6 DEF m, at
  <2>8. ASSUME NEW i \in 1 .. p PROVE s[i] = t[i]
    <3>1. 1 + i - 1 = i /\ m + i - 1 = i + from /\ i \in 1 .. n - from
      BY <1>1, <1>2 DEF m
    <3>2. s[i] = raw[1 + i - 1] /\ t[i] = c[m + i - 1]
      BY <2>4, <2>5, <2>6
    <3> QED BY <1>1, <3>1, <3>2
  <2>9. s = t
    BY <2>4, <2>5, <2>7, <2>8, SeqEqual
  <2> QED BY <2>9 DEF s, t, m
<1> QED BY <1>2, <1>6, <1>7 DEF raw, at

(* What the builtin did not use is buffered.                                *)
ReturnedExactly(g, read) ==
  LogicalText(SubSeq(g.content, read.from + 1, Told(g)), g.mode.binary)
    = SubSeq(read.text, 1, Len(read.text) - Len(g.unread))

LEMMA InputGivenBack ==
  ASSUME NEW file \in FileRecords, Within(file), NEW read \in Reads, ReadingFile(file, read),
         NEW consumed \in 0 .. Len(read.text)
  PROVE  LET g == GivenBack(file, Behind(read.text, consumed))
         IN /\ g \in FileRecords /\ Within(g) /\ SettledFile(g) /\ g.content = file.content
            /\ ReturnedExactly(g, read)
<1> DEFINE b == file.mode.binary
           c == file.content
           from == read.from
           raw == Behind(c, from)
           text == Behind(read.text, consumed)
           extra == StillAhead(Extra(raw, b), consumed)
           g == GivenBack(file, text)
<1>1. /\ b \in BOOLEAN /\ c \in Texted /\ Len(c) \in Nat /\ from \in Nat
      /\ read.text \in Texted /\ Len(read.text) \in Nat
  BY FileFields DEF Reads, Texted
<1>2. raw \in Texted /\ read.text = LogicalText(raw, b)
  BY <1>1, BehindText DEF ReadingFile
<1>3. text \in Texted /\ Len(text) = Len(read.text) - consumed
  BY <1>1, BehindIs
<1>4. /\ file.pendingSize = Len(read.text) /\ file.pendingExtra = Extra(raw, b)
      /\ file.position = (IF from > Len(c) THEN from ELSE Len(c))
      /\ file.pendingEnd /\ file.lastOperation = "read"
  BY DEF ReadingFile
<1>5. file.pendingSize - Len(text) = consumed
  BY <1>1, <1>3, <1>4
<1>6. PICK p \in 0 .. Len(raw) : p \notin Dropped(raw, b) /\ Rank(raw, b, p) = consumed
  BY <1>1, <1>2, EndsAt
<1>7. LogicalText(Behind(raw, p), b) = text
  BY <1>1, <1>2, <1>6, TextBehind
<1>8. Extra(Behind(raw, p), b) = extra
  BY <1>1, <1>2, <1>6, ExtraBehind
<1>9. Behind(raw, p) \in Texted
  BY <1>2, BehindIs
<1>10. extra \in SUBSET Nat
  <2> DEFINE E == Extra(Behind(raw, p), b)
  <2>1. E \in SUBSET (1 .. Len(text))
    BY <1>1, <1>7, <1>9, ExtraRanks
  <2> HIDE DEF E, text
  <2>2. \A o \in E : o \in Nat
    BY <2>1
  <2> QED BY <1>8, <2>2 DEF E
<1>11. g = [file EXCEPT !.unread = text, !.unreadExtra = extra,
               !.endOfFile = file.pendingEnd /\ text = <<>>,
               !.pendingSize = 0, !.pendingExtra = {}, !.pendingEnd = FALSE]
  BY <1>4, <1>5 DEF GivenBack
<1> HIDE DEF g, extra, text
<1> DEFINE eof == file.pendingEnd /\ text = <<>>
<1>12. eof \in BOOLEAN
  OBVIOUS
<1> HIDE DEF eof
<1>13. g = [file EXCEPT !.unread = text, !.unreadExtra = extra, !.endOfFile = eof,
               !.pendingSize = 0, !.pendingExtra = {}, !.pendingEnd = FALSE]
  BY <1>11 DEF eof
<1>14. g \in FileRecords
  BY <1>3, <1>10, <1>12, <1>13 DEF FileRecords
<1>15. g.mode = file.mode /\ g.content = c /\ g.position = file.position /\ g.unread = text /\ g.unreadExtra = extra
  BY <1>13 DEF FileRecords
<1>16. g.endOfFile = eof /\ g.lastOperation = "read" /\ g.pendingExtra = {}
  BY <1>4, <1>13 DEF FileRecords
<1>17. Within(g)
  BY <1>15, <1>16 DEF Within
<1>18. eof <=> text = <<>>
  BY <1>4 DEF eof
<1>19. Len(read.text) - Len(text) = consumed
  BY <1>1, <1>3
<1>20. CASE from <= Len(c)
  <2> DEFINE at == from + p
  <2>1. /\ from \in 0 .. Len(c) /\ at \in 0 .. Len(c) /\ Behind(raw, p) = Behind(c, at)
        /\ SubSeq(raw, 1, p) = SubSeq(c, from + 1, at)
    <3>1. from \in 0 .. Len(c)
      BY <1>1, <1>20
    <3> QED BY <1>1, <1>6, <3>1, BehindBehind
  <2> HIDE DEF at
  <2>2. file.position = Len(c)
    BY <1>1, <1>4, <1>20
  <2>3. g.unread = LogicalText(Behind(c, at), b) /\ g.unreadExtra = Extra(Behind(c, at), b)
    BY <1>7, <1>8, <1>15, <2>1
  <2>4. BufferedFrom(g, at)
    BY <1>15, <2>3 DEF BufferedFrom
  <2>5. Told(g) = at /\ (g.unread = <<>> => at = Len(c))
    BY <1>14, <1>15, <2>1, <2>2, <2>4, BufferedTold
  <2>6. Buffered(g)
    BY <1>15, <1>16, <2>1, <2>2, <2>4 DEF Buffered
  <2>7. at = Len(c) => text = <<>>
    <3>1. at \in Nat
      BY <2>1
    <3> QED BY <1>1, <1>15, <2>3, <3>1, NothingBehind
  <2>8. SettledFile(g)
    BY <1>1, <1>15, <1>16, <1>18, <2>1, <2>5, <2>6, <2>7 DEF SettledFile
  <2>9. LogicalText(SubSeq(raw, 1, p), b) = SubSeq(read.text, 1, consumed)
    BY <1>1, <1>2, <1>6, TextBefore
  <2>10. ReturnedExactly(g, read)
    BY <1>15, <1>19, <2>1, <2>5, <2>9 DEF ReturnedExactly
  <2> QED BY <1>14, <1>15, <1>17, <2>8, <2>10 DEF g, text
<1>21. CASE ~(from <= Len(c))
  <2>1. raw = <<>> /\ LogicalText(<<>>, b) = <<>> /\ Extra(<<>>, b) = {} /\ from > Len(c)
    BY <1>1, <1>21, NothingBehind
  <2>2. read.text = <<>> /\ Len(read.text) = 0 /\ consumed = 0
    BY <1>1, <1>2, <2>1, EmptySeq
  <2>3. text = <<>>
    <3>1. Len(text) = 0
      BY <1>3, <2>2
    <3> QED BY <1>3, <3>1, EmptySeq DEF Texted
  <2>4. extra = {}
    BY <2>1 DEF extra, StillAhead
  <2>5. Clean(g)
    BY <1>15, <2>3, <2>4 DEF Clean
  <2>6. Told(g) = from
    BY <1>1, <1>4, <1>14, <1>15, <2>1, <2>5, CleanTold
  <2>7. SettledFile(g)
    BY <1>1, <1>15, <1>16, <1>18, <2>1, <2>3, <2>5, <2>6 DEF SettledFile
  <2>8. SubSeq(c, from + 1, from) = <<>> /\ SubSeq(read.text, 1, consumed) = <<>>
    <3>1. from + 1 \in Int /\ from < from + 1
      BY <1>1
    <3>2. SubSeq(c, from + 1, from) = <<>>
      BY <1>1, <3>1, SubSeqEmpty
    <3>3. SubSeq(read.text, 1, consumed) = <<>>
      BY <2>2, SubSeqEmpty
    <3> QED BY <3>2, <3>3
  <2>9. ReturnedExactly(g, read)
    BY <1>15, <1>19, <2>1, <2>6, <2>8 DEF ReturnedExactly
  <2> QED BY <1>14, <1>15, <1>17, <2>7, <2>9 DEF g, text
<1> QED BY <1>20, <1>21

-----------------------------------------------------------------------------
(* Writing.  What a text is translated to begins with a character of it.    *)
Joins(seqs, n, f) ==
  f = [i \in 1 .. n |-> IF i = 1 THEN seqs[i] ELSE f[i - 1] \o seqs[i]]

LEMMA JoinExists ==
  ASSUME NEW seqs
  PROVE  \A n \in Nat \ {0} : \E f : Joins(seqs, n, f)
<1> DEFINE Missing == {n \in Nat : n # 0 /\ ~ \E f : Joins(seqs, n, f)}
<1> SUFFICES ASSUME Missing # {} PROVE FALSE
  OBVIOUS
<1> HIDE DEF Missing
<1>1. PICK n \in Missing : \A m \in Missing : n <= m
  <2>1. Missing \in SUBSET Nat
    BY DEF Missing
  <2> QED BY <2>1, LeastNumber
<1>2. n \in Nat /\ n # 0 /\ ~ \E f : Joins(seqs, n, f)
  BY <1>1 DEF Missing
<1>3. CASE n = 1
  <2>1. Joins(seqs, 1, [i \in 1 .. 1 |-> seqs[i]])
    BY DEF Joins
  <2> QED BY <1>2, <1>3, <2>1
<1>4. CASE n # 1
  <2>1. n - 1 \in Nat /\ n - 1 # 0 /\ n - 1 \notin Missing
    BY <1>1, <1>2, <1>4
  <2>2. PICK f : Joins(seqs, n - 1, f)
    BY <2>1 DEF Missing
  <2> DEFINE g == [i \in 1 .. n |-> IF i = n THEN f[n - 1] \o seqs[n] ELSE f[i]]
  <2>3. \A i \in 1 .. n - 1 : f[i] = IF i = 1 THEN seqs[i] ELSE f[i - 1] \o seqs[i]
    BY <2>2, <1>2, <2>1 DEF Joins
  <2>4. \A i \in 1 .. n - 1 : g[i] = f[i]
    BY <1>2
  <2>5. g[n] = g[n - 1] \o seqs[n]
    <3>1. n \in 1 .. n /\ n - 1 \in 1 .. n - 1
      BY <1>2, <1>4
    <3> QED BY <3>1, <2>4
  <2>6. \A i \in 1 .. n : g[i] = IF i = 1 THEN seqs[i] ELSE g[i - 1] \o seqs[i]
    <3> SUFFICES ASSUME NEW i \in 1 .. n PROVE g[i] = IF i = 1 THEN seqs[i] ELSE g[i - 1] \o seqs[i]
      OBVIOUS
    <3> HIDE DEF g
    <3>1. CASE i = n
      BY <2>5, <3>1, <1>4
    <3>2. CASE i # n
      <4>1. i \in 1 .. n - 1
        BY <1>2, <3>2
      <4>2. g[i] = f[i] /\ (i # 1 => g[i - 1] = f[i - 1])
        <5>1. i # 1 => i - 1 \in 1 .. n - 1
          BY <4>1, <1>2
        <5> QED BY <2>4, <4>1, <5>1
      <4> QED BY <2>3, <4>1, <4>2
    <3> QED BY <3>1, <3>2
  <2>7. g = [i \in 1 .. n |-> g[i]]
    OBVIOUS
  <2> HIDE DEF g
  <2>8. Joins(seqs, n, g)
    BY <2>6, <2>7 DEF Joins
  <2> QED BY <1>2, <2>8
<1> QED BY <1>3, <1>4

WrittenCharacters == {"CR", "LF", "w"}
WrittenTexts == {bytes \in Seq(WrittenCharacters) : Len(bytes) >= 1}

LEMMA Flattened ==
  ASSUME NEW seqs, Len(seqs) \in Nat \ {0}, \A i \in 1 .. Len(seqs) : seqs[i] \in WrittenTexts
  PROVE  FlattenSeq(seqs) \in WrittenTexts
<1> DEFINE n == Len(seqs)
           f == CHOOSE f : Joins(seqs, n, f)
<1>1. Joins(seqs, n, f)
  BY JoinExists
<1>2. FlattenSeq(seqs) = f[n]
  BY DEF FlattenSeq, Joins
<1> HIDE DEF f, n
<1>3. n \in Nat /\ n # 0
  BY DEF n
<1>4. \A i \in 1 .. n : f[i] = IF i = 1 THEN seqs[i] ELSE f[i - 1] \o seqs[i]
  BY <1>1 DEF Joins
<1> DEFINE Wrong == {i \in Nat : i >= 1 /\ i <= n /\ f[i] \notin WrittenTexts}
<1>5. Wrong = {}
  <2> SUFFICES ASSUME Wrong # {} PROVE FALSE
    OBVIOUS
  <2>1. PICK i \in Wrong : \A k \in Wrong : i <= k
    BY LeastNumber
  <2> HIDE DEF Wrong
  <2>2. i \in Nat /\ i \in 1 .. n /\ f[i] \notin WrittenTexts
    BY <2>1, <1>3 DEF Wrong
  <2>3. seqs[i] \in WrittenTexts
    BY <2>2 DEF n
  <2>4. i # 1
    BY <1>4, <2>2, <2>3
  <2>5. i - 1 \in Nat /\ i - 1 >= 1 /\ i - 1 <= n /\ i - 1 \notin Wrong
    BY <1>3, <2>1, <2>2, <2>4
  <2>6. f[i - 1] \in WrittenTexts
    BY <2>5 DEF Wrong
  <2>7. f[i] = f[i - 1] \o seqs[i]
    BY <1>4, <2>2, <2>4
  <2> DEFINE s == f[i - 1]
             t == seqs[i]
  <2> HIDE DEF s, t
  <2>8. s \in Seq(WrittenCharacters) /\ t \in Seq(WrittenCharacters) /\ Len(s) >= 1 /\ Len(t) >= 1
    BY <2>3, <2>6 DEF WrittenTexts, s, t
  <2>9. s \o t \in Seq(WrittenCharacters) /\ Len(s \o t) >= 1
    BY <2>8
  <2>10. s \o t \in WrittenTexts
    BY <2>9 DEF WrittenTexts
  <2> QED BY <2>2, <2>7, <2>10 DEF s, t
<1>6. f[n] \in WrittenTexts
  BY <1>3, <1>5
<1> QED BY <1>2, <1>6

LEMMA TranslatedText ==
  ASSUME FilesAssumption, NEW text \in Texts, NEW b \in BOOLEAN
  PROVE  Translated(text, b) \in WrittenTexts
<1> DEFINE W == {"w", "LF"}
           seqs == [i \in DOMAIN text |-> IF ~b /\ text[i] = "LF" THEN <<"CR", "LF">> ELSE <<text[i]>>]
<1>1. text \in Seq(W) /\ text # <<>>
  BY DEF FilesAssumption
<1>2. Len(text) \in Nat /\ Len(text) # 0 /\ DOMAIN text = 1 .. Len(text) /\ \A i \in 1 .. Len(text) : text[i] \in W
  BY <1>1, EmptySeq
<1>3. <<"CR", "LF">> \in WrittenTexts /\ <<"w">> \in WrittenTexts /\ <<"LF">> \in WrittenTexts
  BY DEF WrittenTexts, WrittenCharacters
<1>4. \A i \in 1 .. Len(text) : seqs[i] \in WrittenTexts
  BY <1>2, <1>3
<1>5. Len(seqs) = Len(text)
  BY <1>2
<1>6. Translated(text, b) = FlattenSeq(seqs)
  BY DEF Translated
<1> HIDE DEF seqs
<1> QED BY <1>2, <1>4, <1>5, <1>6, Flattened

(* Bytes put into a content change nothing before them.                     *)
Puts(content, at, bytes, put) ==
  /\ put \in Texted
  /\ Len(put) = IF bytes # <<>> /\ at + Len(bytes) > Len(content) THEN at + Len(bytes)
                ELSE Len(content)
  /\ \A i \in 1 .. Len(content) : i <= at => put[i] = content[i]
  /\ bytes = <<>> => put = content
  /\ bytes # <<>> => put[at + 1] = bytes[1]

LEMMA BytesPut ==
  ASSUME NEW content \in Texted, NEW at \in Nat, NEW bytes \in Texted
  PROVE  Puts(content, at, bytes, PutAt(content, at, bytes))
<1> DEFINE n == Len(content)
           m == Len(bytes)
           size == IF at + m > n THEN at + m ELSE n
           Here(i) == CASE i > at /\ i <= at + m -> bytes[i - at]
                        [] i <= n /\ ~(i > at /\ i <= at + m) -> content[i]
                        [] OTHER -> "0"
           put == PutAt(content, at, bytes)
<1>1. n \in Nat /\ m \in Nat /\ (bytes # <<>> => m # 0)
  BY EmptySeq DEF Texted
<1>2. (\A i \in 1 .. n : content[i] \in Characters) /\ (\A i \in 1 .. m : bytes[i] \in Characters)
  BY DEF Texted
<1>3. CASE bytes = <<>>
  <2>1. put = content
    BY <1>3 DEF PutAt
  <2> HIDE DEF put
  <2> QED BY <1>3, <2>1 DEF Puts, put
<1>4. CASE bytes # <<>>
  <2>1. put = [i \in 1 .. size |-> Here(i)]
    BY <1>4 DEF PutAt
  <2>2. size \in Nat
    BY <1>1
  <2>3. ASSUME NEW i \in 1 .. size PROVE Here(i) \in Characters
    <3>1. i \in Nat /\ i >= 1
      BY <2>2
    <3>2. CASE i > at /\ i <= at + m
      <4>1. i - at \in 1 .. m
        BY <1>1, <3>1, <3>2
      <4> QED BY <1>2, <3>2, <4>1
    <3>3. CASE ~(i > at /\ i <= at + m) /\ i <= n
      <4>1. i \in 1 .. n
        BY <1>1, <3>1, <3>3
      <4> QED BY <1>2, <3>3, <4>1
    <3>4. CASE ~(i > at /\ i <= at + m) /\ ~(i <= n)
      BY <3>4 DEF Characters
    <3> QED BY <3>2, <3>3, <3>4
  <2>4. \A i \in 1 .. n : i <= at => i \in 1 .. size /\ Here(i) = content[i]
    BY <1>1
  <2>5. at + 1 \in 1 .. size /\ Here(at + 1) = bytes[1]
    <3>1. at + 1 > at /\ at + 1 <= at + m /\ (at + 1) - at = 1 /\ at + 1 \in 1 .. size
      BY <1>1, <1>4
    <3> QED BY <3>1
  <2> HIDE DEF put, Here, size
  <2>6. put \in Texted /\ Len(put) = size
    BY <2>1, <2>2, <2>3 DEF Texted
  <2>7. \A i \in 1 .. n : i <= at => put[i] = content[i]
    BY <2>1, <2>4
  <2>8. put[at + 1] = bytes[1]
    BY <2>1, <2>5
  <2>9. Puts(content, at, bytes, put)
    BY <1>4, <2>6, <2>7, <2>8 DEF Puts, size
  <2> QED BY <2>9 DEF put
<1> QED BY <1>3, <1>4

(* A file whose last operation was no read has nothing buffered.            *)
WriteReady(file) ==
  /\ file \in FileRecords /\ Within(file) /\ Clean(file)
  /\ file.lastOperation # "read" /\ ~file.endOfFile

LEMMA ReadyWhenSettled ==
  ASSUME NEW file \in FileRecords, Within(file), file.lastOperation # "read"
  PROVE  SettledFile(file) <=> WriteReady(file)
BY FileFields DEF SettledFile, WriteReady, Buffered

LEMMA BytesWritten ==
  ASSUME NEW file, WriteReady(file), NEW bytes \in Texted, WrittenAt(file) + Len(bytes) <= MaxSize,
         MaxSize \in Nat
  PROVE  LET g == Written(file, bytes)
         IN /\ WriteReady(g) /\ g.mode = file.mode /\ WrittenAt(file) \in Nat
            /\ g.content = PutAt(file.content, WrittenAt(file), bytes)
            /\ g.position = WrittenAt(file) + Len(bytes)
<1> DEFINE at == WrittenAt(file)
           put == PutAt(file.content, at, bytes)
           end == at + Len(bytes)
           g == Written(file, bytes)
<1>1. /\ file \in FileRecords /\ Within(file) /\ Clean(file)
      /\ file.lastOperation # "read" /\ ~file.endOfFile
  BY DEF WriteReady
<1>2. file.content \in Texted /\ Len(file.content) \in Nat /\ file.position \in Nat /\ Len(bytes) \in Nat
  BY <1>1, FileFields DEF Texted
<1>3. at \in Nat /\ end \in Nat /\ at <= end
  BY <1>2 DEF WrittenAt
<1>4. put \in Texted /\ Len(put) <= MaxSize
  <2> HIDE DEF at
  <2>0. Puts(file.content, at, bytes, put)
    BY <1>2, <1>3, BytesPut
  <2> HIDE DEF put
  <2>1. put \in Texted
    BY <2>0 DEF Puts
  <2>2. Len(put) = IF bytes # <<>> /\ at + Len(bytes) > Len(file.content) THEN at + Len(bytes)
                   ELSE Len(file.content)
    BY <2>0 DEF Puts
  <2>3. Len(file.content) <= MaxSize
    BY <1>1 DEF Within
  <2> QED BY <2>1, <2>2, <2>3 DEF at
<1>5. g = [file EXCEPT !.content = put, !.position = end]
  BY DEF Written
<1> HIDE DEF g, put, end, at
<1>6. g \in FileRecords
  BY <1>1, <1>3, <1>4, <1>5 DEF FileRecords
<1>7. /\ g.content = put /\ g.position = end /\ g.mode = file.mode /\ g.unread = file.unread
      /\ g.unreadExtra = file.unreadExtra /\ g.lastOperation = file.lastOperation
      /\ g.endOfFile = file.endOfFile
  BY <1>1, <1>5 DEF FileRecords
<1>8. g.pendingSize = file.pendingSize /\ g.pendingExtra = file.pendingExtra
  BY <1>1, <1>5 DEF FileRecords
<1>9. Within(g)
  BY <1>1, <1>4, <1>7, <1>8 DEF Within, end, at
<1>10. WriteReady(g)
  BY <1>1, <1>6, <1>7, <1>9 DEF WriteReady, Clean
<1> QED BY <1>3, <1>7, <1>10 DEF g, put, end, at

(* A write from `start` on changes nothing before it and begins there.      *)
Begun(content, start, now) ==
  /\ \A i \in 1 .. Len(content) : i <= start => now[i] = content[i]
  /\ now # content => now[start + 1] \in WrittenCharacters

WriteOf(file, g) == WriteReady(g) /\ g.mode = file.mode /\ Begun(file.content, WrittenAt(file), g.content)

LEMMA TextIsText == \A bytes \in WrittenTexts : bytes \in Texted /\ bytes # <<>> /\ bytes[1] \in WrittenCharacters
<1> SUFFICES ASSUME NEW bytes \in WrittenTexts
             PROVE bytes \in Texted /\ bytes # <<>> /\ bytes[1] \in WrittenCharacters
  OBVIOUS
<1>1. bytes \in Seq(WrittenCharacters) /\ Len(bytes) >= 1
  BY DEF WrittenTexts
<1>2. WrittenCharacters \subseteq Characters
  BY DEF WrittenCharacters, Characters
<1>3. bytes \in Texted
  BY <1>1, <1>2, SeqMonotonic DEF Texted
<1>4. bytes # <<>>
  <2>1. Len(<<>>) = 0
    BY EmptySeq
  <2> QED BY <1>1, <2>1
<1> QED BY <1>1, <1>3, <1>4

LEMMA StartOfBytes ==
  ASSUME NEW bytes \in WrittenTexts, NEW n \in 0 .. Len(bytes)
  PROVE  /\ SubSeq(bytes, 1, n) \in Texted /\ Len(SubSeq(bytes, 1, n)) = n
         /\ SubSeq(bytes, 1, n) # <<>> => SubSeq(bytes, 1, n)[1] \in WrittenCharacters
<1>1. bytes \in Seq(Characters) /\ bytes[1] \in WrittenCharacters /\ Len(bytes) \in Nat /\ Len(bytes) >= 1
  BY TextIsText DEF Texted, WrittenTexts
<1> DEFINE s == SubSeq(bytes, 1, n)
<1>2. n \in Int /\ \A i \in 1 .. n : bytes[i] \in Characters
  BY <1>1
<1>3. /\ s \in Seq(Characters) /\ Len(s) = (IF 1 <= n THEN n - 1 + 1 ELSE 0)
      /\ \A i \in 1 .. n - 1 + 1 : s[i] = bytes[1 + i - 1]
  BY <1>2, SubSeqProperties
<1>4. Len(s) = n
  BY <1>1, <1>3
<1> HIDE DEF s
<1>5. ASSUME s # <<>> PROVE s[1] \in WrittenCharacters
  <2>1. n # 0
    BY <1>3, <1>4, <1>5, EmptySeq
  <2>2. 1 \in 1 .. n - 1 + 1 /\ 1 + 1 - 1 = 1
    BY <1>1, <2>1
  <2>3. s[1] = bytes[1 + 1 - 1]
    BY <1>3, <2>2
  <2> QED BY <1>1, <2>2, <2>3
<1> QED BY <1>3, <1>4, <1>5 DEF s, Texted

LEMMA TextWritten ==
  ASSUME NEW file, WriteReady(file), NEW bytes \in Texted, WrittenAt(file) + Len(bytes) <= MaxSize,
         MaxSize \in Nat, bytes # <<>> => bytes[1] \in WrittenCharacters
  PROVE  WriteOf(file, Written(file, bytes))
<1> DEFINE g == Written(file, bytes)
           at == WrittenAt(file)
<1>1. /\ WriteReady(g) /\ g.mode = file.mode /\ at \in Nat /\ g.content = PutAt(file.content, at, bytes)
  BY BytesWritten
<1>2. file.content \in Texted
  BY FileFields DEF WriteReady
<1> HIDE DEF g, at
<1>3. /\ \A i \in 1 .. Len(file.content) : i <= at => g.content[i] = file.content[i]
      /\ bytes = <<>> => g.content = file.content
      /\ bytes # <<>> => g.content[at + 1] = bytes[1]
  <2> DEFINE content == file.content
             put == PutAt(content, at, bytes)
             now == g.content
  <2>1. content \in Texted
    BY <1>2
  <2> HIDE DEF content
  <2>2. Puts(content, at, bytes, put)
    BY <1>1, <2>1, BytesPut
  <2>3. now = put
    BY <1>1 DEF content
  <2> HIDE DEF put, now
  <2>4. /\ \A i \in 1 .. Len(content) : i <= at => now[i] = content[i]
        /\ bytes = <<>> => now = content
        /\ bytes # <<>> => now[at + 1] = bytes[1]
    BY <2>2, <2>3 DEF Puts
  <2> QED BY <2>4 DEF now, content
<1>4. Begun(file.content, at, g.content)
  BY <1>3 DEF Begun
<1> QED BY <1>1, <1>4 DEF WriteOf, g, at

(* A write that completes or fails is still that write.                     *)
LEMMA WriteEnds ==
  ASSUME NEW file, NEW g, WriteOf(file, g)
  PROVE  WriteOf(file, WriteCompleted(g)) /\ WriteOf(file, FileFailed(g, TRUE))
<1>1. /\ g \in FileRecords /\ Within(g) /\ Clean(g) /\ g.lastOperation # "read" /\ ~g.endOfFile
      /\ g.mode = file.mode /\ Begun(file.content, WrittenAt(file), g.content)
  BY DEF WriteOf, WriteReady
<1>2. ASSUME NEW h, h = WriteCompleted(g) \/ h = FileFailed(g, TRUE) PROVE WriteOf(file, h)
  <2>1. h \in FileRecords
    <3>1. CASE h = WriteCompleted(g)
      BY <1>1, <3>1 DEF FileRecords, WriteCompleted
    <3>2. CASE h = FileFailed(g, TRUE)
      BY <1>1, <3>2 DEF FileRecords, FileFailed
    <3> QED BY <1>2, <3>1, <3>2
  <2>2. /\ h.mode = g.mode /\ h.content = g.content /\ h.position = g.position /\ h.unread = g.unread
        /\ h.unreadExtra = g.unreadExtra /\ h.pendingSize = g.pendingSize
        /\ h.pendingExtra = g.pendingExtra
    BY <1>1, <1>2 DEF FileRecords, WriteCompleted, FileFailed
  <2>3. h.lastOperation # "read" /\ ~h.endOfFile
    BY <1>1, <1>2 DEF FileRecords, WriteCompleted, FileFailed
  <2>4. WriteReady(h)
    BY <1>1, <2>1, <2>2, <2>3 DEF WriteReady, Within, Clean
  <2> QED BY <1>1, <2>2, <2>4 DEF WriteOf
<1> QED BY <1>2

(* A skip of one byte, in a block.                                          *)
LEMMA ByteSkipped ==
  ASSUME NEW file, WriteReady(file), WrittenAt(file) + 1 <= MaxSize, MaxSize \in Nat
  PROVE  LET g == SkippedByte(file)
         IN /\ WriteReady(g) /\ g.mode = file.mode /\ g.position = WrittenAt(file) + 1
            /\ Len(g.content) \in Nat
            /\ Len(g.content) = IF file.mode.append THEN Len(file.content) + 1 ELSE Len(file.content)
            /\ \A i \in 1 .. Len(file.content) : g.content[i] = file.content[i]
<1> DEFINE g == SkippedByte(file)
           c == file.content
           at == WrittenAt(file)
           zero == <<"0">>
<1>1. /\ file \in FileRecords /\ Within(file) /\ Clean(file)
      /\ file.lastOperation # "read" /\ ~file.endOfFile
      /\ c \in Texted /\ Len(c) \in Nat /\ file.position \in Nat
  BY FileFields DEF WriteReady
<1>2. CASE file.mode.append
  <2>1. at = Len(c)
    BY <1>2 DEF WrittenAt
  <2>2. zero \in Texted /\ Len(zero) = 1 /\ zero # <<>>
    BY DEF Texted, Characters
  <2>3. g = Written(file, zero)
    BY <1>2 DEF SkippedByte
  <2> DEFINE put == PutAt(c, at, zero)
  <2> HIDE DEF g, c, at, zero
  <2>4. WriteReady(g) /\ g.mode = file.mode /\ g.content = put /\ g.position = at + Len(zero)
    BY <2>2, <2>3, BytesWritten DEF c, at
  <2>5. at \in Nat /\ at + Len(zero) = Len(c) + 1
    BY <1>1, <2>1, <2>2
  <2>60. Puts(c, at, zero, put)
    BY <1>1, <2>2, <2>5, BytesPut DEF c
  <2> HIDE DEF put
  <2>6. /\ Len(put) = IF zero # <<>> /\ at + Len(zero) > Len(c) THEN at + Len(zero) ELSE Len(c)
        /\ \A i \in 1 .. Len(c) : i <= at => put[i] = c[i]
    BY <2>60 DEF Puts
  <2>7. Len(put) = Len(c) + 1 /\ Len(put) \in Nat /\ \A i \in 1 .. Len(c) : put[i] = c[i]
    BY <1>1, <2>1, <2>2, <2>5, <2>6
  <2> QED BY <1>2, <2>1, <2>4, <2>5, <2>7 DEF g, c, at
<1>3. CASE ~file.mode.append
  <2>1. at = file.position
    BY <1>3 DEF WrittenAt
  <2>2. g = [file EXCEPT !.position = file.position + 1]
    BY <1>3 DEF SkippedByte
  <2> HIDE DEF g
  <2>3. g \in FileRecords
    BY <1>1, <2>2 DEF FileRecords
  <2>4. /\ g.content = c /\ g.position = at + 1 /\ g.mode = file.mode /\ g.unread = file.unread
        /\ g.unreadExtra = file.unreadExtra /\ g.lastOperation = file.lastOperation
        /\ g.endOfFile = file.endOfFile
    BY <1>1, <2>1, <2>2 DEF FileRecords
  <2>5. g.pendingSize = file.pendingSize /\ g.pendingExtra = file.pendingExtra
    BY <1>1, <2>2 DEF FileRecords
  <2>6. WriteReady(g)
    BY <1>1, <2>3, <2>4, <2>5 DEF WriteReady, Within, Clean
  <2> QED BY <1>1, <1>3, <2>4, <2>6 DEF g
<1> QED BY <1>2, <1>3

(* One byte written.                                                        *)
LEMMA OneWritten ==
  ASSUME NEW file, WriteReady(file), WrittenAt(file) + 1 <= MaxSize, MaxSize \in Nat
  PROVE  LET g == Written(file, <<"w">>)
         IN /\ WriteOf(file, g) /\ g.mode = file.mode /\ WrittenAt(file) \in Nat
            /\ g.position = WrittenAt(file) + 1
            /\ Len(g.content) \in Nat /\ WrittenAt(file) + 1 <= Len(g.content)
            /\ Len(file.content) <= Len(g.content)
            /\ file.mode.append => Len(g.content) = WrittenAt(file) + 1
            /\ \A i \in 1 .. Len(file.content) : i <= WrittenAt(file) => g.content[i] = file.content[i]
            /\ g.content[WrittenAt(file) + 1] = "w"
<1> DEFINE w == <<"w">>
           g == Written(file, w)
           c == file.content
           at == WrittenAt(file)
           put == PutAt(c, at, w)
<1>1. w \in Texted /\ Len(w) = 1 /\ w # <<>> /\ w[1] = "w" /\ w[1] \in WrittenCharacters
  BY DEF Texted, Characters, WrittenCharacters
<1>2. c \in Texted /\ Len(c) \in Nat
  BY FileFields DEF WriteReady
<1> HIDE DEF w
<1>3. /\ WriteReady(g) /\ g.mode = file.mode /\ at \in Nat /\ g.content = put
      /\ g.position = at + Len(w)
  BY <1>1, BytesWritten
<1>4. WriteOf(file, g)
  BY <1>1, TextWritten
<1> HIDE DEF g, at, c
<1>50. c \in Texted /\ Puts(c, at, w, put)
  BY <1>1, <1>2, <1>3, BytesPut
<1> HIDE DEF put
<1>5. /\ Len(put) = IF w # <<>> /\ at + Len(w) > Len(c) THEN at + Len(w) ELSE Len(c)
      /\ \A i \in 1 .. Len(c) : i <= at => put[i] = c[i]
      /\ w # <<>> => put[at + 1] = w[1]
  BY <1>50 DEF Puts
<1>6. Len(put) = IF at + 1 > Len(c) THEN at + 1 ELSE Len(c)
  BY <1>1, <1>5
<1>7. Len(put) \in Nat /\ at + 1 <= Len(put) /\ Len(c) <= Len(put)
  BY <1>2, <1>3, <1>6
<1>8. file.mode.append => at = Len(c)
  BY DEF at, c, WrittenAt
<1>9. file.mode.append => Len(put) = at + 1
  BY <1>2, <1>3, <1>6, <1>8
<1>10. put[at + 1] = "w" /\ g.position = at + 1
  BY <1>1, <1>3, <1>5
<1> DEFINE now == g.content
<1>11. now = put
  BY <1>3
<1> HIDE DEF now
<1>12. /\ Len(now) \in Nat /\ at + 1 <= Len(now) /\ Len(c) <= Len(now)
       /\ file.mode.append => Len(now) = at + 1
       /\ \A i \in 1 .. Len(c) : i <= at => now[i] = c[i]
       /\ now[at + 1] = "w"
  BY <1>5, <1>7, <1>9, <1>10, <1>11
<1> QED BY <1>3, <1>4, <1>10, <1>12 DEF g, w, c, at, now

(* A block: a byte, a skip, a byte.  The first one stands where it began.   *)
LEMMA BlockWritten ==
  ASSUME NEW file, WriteReady(file), WrittenAt(file) + 3 <= MaxSize, MaxSize \in Nat
  PROVE  LET one == Written(file, <<"w">>)
             skipped == SkippedByte(one)
         IN WriteOf(file, file) /\ WriteOf(file, one) /\ WriteOf(file, skipped)
              /\ WriteOf(file, Written(skipped, <<"w">>))
<1> DEFINE one == Written(file, <<"w">>)
           two == SkippedByte(one)
           all == Written(two, <<"w">>)
           c == file.content
           at == WrittenAt(file)
<1>1. c \in Texted /\ Len(c) \in Nat /\ at \in Nat
  <2>1. file \in FileRecords
    BY DEF WriteReady
  <2> QED BY <2>1, FileFields DEF WrittenAt
<1>2. at + 1 <= MaxSize
  BY <1>1
<1>3. /\ WriteOf(file, one) /\ one.mode = file.mode /\ one.position = at + 1
      /\ Len(one.content) \in Nat /\ at + 1 <= Len(one.content)
      /\ Len(c) <= Len(one.content)
      /\ file.mode.append => Len(one.content) = at + 1
      /\ \A i \in 1 .. Len(c) : i <= at => one.content[i] = c[i]
      /\ one.content[at + 1] = "w"
  BY <1>2, OneWritten
<1> HIDE DEF one
<1>4. WriteReady(one) /\ WrittenAt(one) = at + 1
  <2>1. WrittenAt(one) = at + 1
    BY <1>3 DEF WrittenAt
  <2> QED BY <1>3, <2>1 DEF WriteOf
<1>5. WrittenAt(one) + 1 <= MaxSize
  BY <1>1, <1>4
<1>6. /\ WriteReady(two) /\ two.mode = one.mode /\ two.position = WrittenAt(one) + 1
      /\ Len(two.content) \in Nat
      /\ Len(two.content) = IF one.mode.append THEN Len(one.content) + 1 ELSE Len(one.content)
      /\ \A i \in 1 .. Len(one.content) : two.content[i] = one.content[i]
  BY <1>4, <1>5, ByteSkipped
<1> HIDE DEF two
<1>7. two.mode = file.mode /\ two.position = at + 2 /\ at + 1 <= Len(two.content)
      /\ Len(one.content) <= Len(two.content)
  BY <1>1, <1>3, <1>4, <1>6
<1>8. WrittenAt(two) = at + 2
  <2>1. CASE file.mode.append
    BY <2>1, <1>1, <1>3, <1>6 DEF WrittenAt
  <2>2. CASE ~file.mode.append
    BY <2>2, <1>7 DEF WrittenAt
  <2> QED BY <2>1, <2>2
<1>9. WrittenAt(two) + 1 <= MaxSize
  BY <1>1, <1>8
<1>10. /\ WriteOf(two, all) /\ all.mode = two.mode
       /\ \A i \in 1 .. Len(two.content) : i <= WrittenAt(two) => all.content[i] = two.content[i]
  BY <1>6, <1>9, OneWritten
<1> HIDE DEF all
<1> DEFINE d == one.content
           e == two.content
           f == all.content
           n == Len(c)
           start == at + 1
<1>11. /\ n \in Nat /\ n <= Len(d) /\ start <= Len(d) /\ start <= Len(e) /\ Len(d) \in Nat
       /\ Len(d) <= Len(e) /\ Len(e) \in Nat
       /\ (\A i \in 1 .. n : i <= at => d[i] = c[i]) /\ d[start] = "w"
       /\ (\A i \in 1 .. Len(d) : e[i] = d[i])
       /\ (\A i \in 1 .. Len(e) : i <= at + 2 => f[i] = e[i])
  BY <1>1, <1>3, <1>6, <1>7, <1>8, <1>10
<1>12. start \in Nat /\ start >= 1 /\ start <= at + 2 /\ start = at + 1
  BY <1>1
<1> HIDE DEF c, d, e, f, n, start
<1>13. /\ \A i \in 1 .. n : i <= at => e[i] = c[i] /\ f[i] = c[i]
       /\ e[start] = "w" /\ f[start] = "w"
  <2>1. start \in 1 .. Len(d) /\ start \in 1 .. Len(e)
    BY <1>11, <1>12
  <2>2. e[start] = "w" /\ f[start] = "w"
    BY <1>11, <1>12, <2>1
  <2>3. ASSUME NEW i \in 1 .. n, i <= at PROVE e[i] = c[i] /\ f[i] = c[i]
    <3>1. i \in 1 .. Len(d) /\ i \in 1 .. Len(e) /\ i <= at + 2
      BY <1>1, <1>11, <2>3
    <3>2. d[i] = c[i]
      BY <1>11, <2>3
    <3> QED BY <1>11, <3>1, <3>2
  <2> QED BY <2>2, <2>3
<1>14. "w" \in WrittenCharacters
  BY DEF WrittenCharacters
<1>15. Begun(c, at, c) /\ Begun(c, at, e) /\ Begun(c, at, f)
  BY <1>12, <1>13, <1>14 DEF Begun, n
<1>16. WriteOf(file, two)
  BY <1>6, <1>7, <1>15 DEF WriteOf, c, e
<1>17. WriteOf(file, all)
  BY <1>7, <1>10, <1>15 DEF WriteOf, c, f
<1>18. WriteOf(file, file)
  BY <1>15 DEF WriteOf, c
<1> QED BY <1>3, <1>16, <1>17, <1>18 DEF one, two, all

(* A seek forgets what was buffered.                                        *)
LEMMA PositionSought ==
  ASSUME NEW file \in FileRecords, Within(file), NEW position \in Nat, position <= MaxSize
  PROVE  LET g == Sought(file, position)
         IN g \in FileRecords /\ Within(g) /\ SettledFile(g) /\ g.content = file.content
<1> DEFINE g == Sought(file, position)
<1>1. <<>> \in Texted
  BY EmptySeq DEF Texted
<1>2. g \in FileRecords
  BY <1>1 DEF Sought, FileRecords
<1>3. /\ g.content = file.content /\ g.position = position /\ g.unread = <<>> /\ g.unreadExtra = {}
      /\ g.pendingExtra = {} /\ g.endOfFile = FALSE /\ g.lastOperation = "none"
  BY DEF Sought, FileRecords
<1> HIDE DEF g
<1>4. Within(g) /\ SettledFile(g)
  BY <1>3 DEF Within, SettledFile, Clean
<1> QED BY <1>2, <1>3, <1>4 DEF g

(* How much a builtin takes of a text.                                      *)
LEMMA ConsumedOfText ==
  ASSUME NEW text \in Texted, NEW consumed \in Consumptions(text)
  PROVE  consumed \in 0 .. Len(text)
<1> DEFINE n == Len(text)
<1>1. n \in Nat
  BY DEF Texted
<1>2. ASSUME NEW limit \in Nat PROVE LineConsumed(text, limit) \in 0 .. n
  <2> DEFINE ends == {i \in DOMAIN text : text[i] \in {"CR", "LF"} /\ i <= limit}
             first == CHOOSE i \in ends : \A j \in ends : i <= j
             paired == first < Len(text) /\ text[first + 1] \in {"CR", "LF"} \ {text[first]}
  <2>1. LineConsumed(text, limit)
          = IF ends = {} THEN IF limit < Len(text) THEN limit ELSE Len(text)
            ELSE IF paired THEN first + 1 ELSE first
    BY DEF LineConsumed
  <2>2. ends \subseteq 1 .. n
    BY DEF Texted
  <2>3. paired => first < n
    OBVIOUS
  <2> HIDE DEF paired
  <2>4. CASE ends = {}
    BY <1>1, <2>1, <2>4
  <2>5. CASE ends # {}
    <3> HIDE DEF ends
    <3>1. ends \in SUBSET Nat
      BY <2>2, <1>1
    <3>2. \E i \in ends : \A j \in ends : i <= j
      BY <2>5, <3>1, LeastNumber
    <3>3. first \in ends
      BY <3>2
    <3> HIDE DEF first
    <3>4. first \in 1 .. n
      BY <2>2, <3>3
    <3> QED BY <1>1, <2>1, <2>3, <2>5, <3>4
  <2> QED BY <2>4, <2>5
<1>3. ASSUME NEW values \in {1, 2} PROVE BinaryConsumed(text, values, 2, 1) \in 0 .. n
  <2>1. 1 \div 2 = 0 /\ 2 \div 2 = 1
    OBVIOUS
  <2>2. values + (values \div 2) * 1 \in Nat
    BY <2>1
  <2> QED BY <1>1, <2>2 DEF BinaryConsumed
<1>4. PICK limit \in Nat, values \in {1, 2} :
        consumed \in {0, LineConsumed(text, limit), BinaryConsumed(text, values, 2, 1)}
  <2>1. 1 \in Nat /\ Len(text) + 1 \in Nat
    BY <1>1
  <2> QED BY <2>1 DEF Consumptions
<1>5. 0 \in 0 .. n
  BY <1>1
<1> QED BY <1>2, <1>3, <1>4, <1>5

-----------------------------------------------------------------------------
(* The inductive invariant.  Identifiers are handed out in order, so until  *)
(* all are used the used ones are those before the next one; every open     *)
(* file is settled, except the one a builtin has the input of.              *)
TypedFiles ==
  /\ OpenIdentifiers \subseteq Identifiers /\ Cardinality(OpenIdentifiers) <= MaximumOpenFiles
  /\ openFiles \in [OpenIdentifiers -> FileRecords]
  /\ nextFileIdentifier \in Identifiers
  /\ reading \in Reads /\ (reading = NoRead \/ reading.id \in Identifiers)

InOrder ==
  /\ OpenIdentifiers \subseteq handedOut
  /\ handedOut = 3 .. nextFileIdentifier - 1 \/ handedOut = Identifiers

FileSound(id, file, read) ==
  Within(file) /\ IF read.id = id THEN ReadingFile(file, read) ELSE SettledFile(file)

FilesSound == \A id \in OpenIdentifiers : FileSound(id, openFiles[id], reading)

FilesInv == TypedFiles /\ InOrder /\ FilesSound
Transfers == ReadsContinue /\ WritesWhereTold /\ IdentifiersFresh

LEMMA IdentifierFacts ==
  ASSUME FilesAssumption
  PROVE  /\ MaxIdentifier \in Nat /\ MaxIdentifier > 3 /\ MaxSize \in Nat /\ MaximumOpenFiles \in Nat
         /\ NoRead \in Reads /\ NoRead.id = 0 /\ NoRead.text = <<>>
         /\ 3 \in Identifiers /\ 0 \notin Identifiers
         /\ \A id \in Identifiers : id \in Nat /\ id >= 3 /\ id <= MaxIdentifier
<1>1. /\ MaxIdentifier \in Nat /\ MaxIdentifier > 3 /\ MaxSize \in Nat /\ MaximumOpenFiles \in Nat
  BY DEF FilesAssumption
<1>2. NoRead \in Reads /\ NoRead.id = 0 /\ NoRead.text = <<>>
  <2>1. <<>> \in Texted
    BY EmptySeq DEF Texted
  <2> QED BY <2>1 DEF NoRead, Reads
<1> QED BY <1>1, <1>2 DEF Identifiers

LEMMA FiniteIdentifiers ==
  ASSUME FilesAssumption
  PROVE  IsFiniteSet(Identifiers) /\ Cardinality(Identifiers) = MaxIdentifier - 3 + 1
<1>1. 3 \in Int /\ MaxIdentifier \in Int
  BY IdentifierFacts
<1>2. IsFiniteSet(Identifiers) /\ Cardinality(Identifiers) = IF 3 > MaxIdentifier THEN 0 ELSE MaxIdentifier - 3 + 1
  BY <1>1, FS_Interval, Zenon DEF Identifiers
<1> QED BY <1>2, IdentifierFacts

LEMMA FilesStart == ASSUME FilesAssumption, FilesInit PROVE FilesInv
<1>1. OpenIdentifiers = {} /\ nextFileIdentifier = 3 /\ reading = NoRead /\ handedOut = {}
  BY DEF FilesInit, OpenIdentifiers
<1>2. openFiles \in [OpenIdentifiers -> FileRecords]
  BY <1>1 DEF FilesInit, OpenIdentifiers
<1>3. TypedFiles
  BY <1>1, <1>2, IdentifierFacts, FS_EmptySet DEF TypedFiles
<1>4. handedOut = 3 .. nextFileIdentifier - 1
  BY <1>1
<1> QED BY <1>1, <1>3, <1>4 DEF FilesInv, InOrder, FilesSound

(* What a property says of one file that a step changes.                    *)
WriteKept(before, after) ==
  LET start == IF before.mode.append THEN Len(before.content) ELSE Told(before)
  IN before.content # after.content =>
       /\ \A i \in DOMAIN before.content :
            i <= start => after.content[i] = before.content[i]
       /\ after.content[start + 1] \notin {"x", "0"}

LEMMA NoReadEnds ==
  ASSUME FilesAssumption, FilesInv, UNCHANGED reading
  PROVE  ReadsContinue
<1>1. \A id \in OpenIdentifiers : id # 0
  BY IdentifierFacts DEF FilesInv, TypedFiles
<1> QED BY <1>1, IdentifierFacts DEF ReadsContinue

(* One file is replaced by another that is sound.                           *)
LEMMA FileReplaced ==
  ASSUME FilesInv, NEW id \in OpenIdentifiers, NEW g \in FileRecords, SetFile(id, g),
         reading' \in Reads, reading' = NoRead \/ reading'.id \in Identifiers,
         UNCHANGED <<nextFileIdentifier, handedOut>>,
         FileSound(id, g, reading'), WriteKept(openFiles[id], g),
         \A other \in OpenIdentifiers \ {id} : FileSound(other, openFiles[other], reading')
  PROVE  FilesInv' /\ WritesWhereTold /\ IdentifiersFresh /\ openFiles'[id] = g
<1>1. openFiles \in [OpenIdentifiers -> FileRecords]
  BY DEF FilesInv, TypedFiles
<1>2. openFiles' = [openFiles EXCEPT ![id] = g]
  BY DEF SetFile
<1>3. /\ openFiles' \in [OpenIdentifiers -> FileRecords] /\ OpenIdentifiers' = OpenIdentifiers
      /\ openFiles'[id] = g /\ \A other \in OpenIdentifiers \ {id} : openFiles'[other] = openFiles[other]
  BY <1>1, <1>2 DEF OpenIdentifiers
<1>4. TypedFiles'
  BY <1>3 DEF FilesInv, TypedFiles
<1>5. InOrder'
  BY <1>3 DEF FilesInv, InOrder
<1>6. FilesSound'
  <2>1. ASSUME NEW other \in OpenIdentifiers PROVE FileSound(other, openFiles'[other], reading')
    BY <1>3
  <2> HIDE DEF FileSound
  <2> QED BY <1>3, <2>1 DEF FilesSound
<1>7. WritesWhereTold
  <2>1. ASSUME NEW other \in OpenIdentifiers PROVE WriteKept(openFiles[other], openFiles'[other])
    <3>1. CASE other = id
      BY <1>3, <3>1
    <3>2. CASE other # id
      BY <1>3, <3>2 DEF WriteKept
    <3> QED BY <3>1, <3>2
  <2>2. DOMAIN openFiles' = OpenIdentifiers
    BY <1>3 DEF OpenIdentifiers
  <2> QED BY <2>1, <2>2 DEF WritesWhereTold, WriteKept
<1>8. IdentifiersFresh
  BY <1>3 DEF IdentifiersFresh, OpenIdentifiers
<1> QED BY <1>3, <1>4, <1>5, <1>6, <1>7, <1>8 DEF FilesInv

LEMMA FileUpdated ==
  ASSUME FilesAssumption, FilesInv, NotReading, NEW id \in OpenIdentifiers, NEW g \in FileRecords,
         SetFile(id, g), UNCHANGED <<nextFileIdentifier, reading, handedOut>>,
         Within(g), SettledFile(g), WriteKept(openFiles[id], g)
  PROVE  FilesInv' /\ Transfers
<1>1. reading = NoRead /\ reading.id = 0 /\ reading' = reading /\ reading' \in Reads
  BY IdentifierFacts DEF NotReading
<1>2. id # 0
  BY IdentifierFacts DEF FilesInv, TypedFiles
<1>3. FileSound(id, g, reading')
  BY <1>1, <1>2 DEF FileSound
<1>4. \A other \in OpenIdentifiers : FileSound(other, openFiles[other], reading')
  BY <1>1 DEF FilesInv, FilesSound
<1>5. FilesInv' /\ WritesWhereTold /\ IdentifiersFresh
  BY <1>1, <1>3, <1>4, FileReplaced
<1> QED BY <1>1, <1>5, NoReadEnds DEF Transfers

(* An open file while no builtin reads.                                     *)
LEMMA OpenFile ==
  ASSUME FilesAssumption, FilesInv, NEW id \in OpenIdentifiers
  PROVE  /\ openFiles[id] \in FileRecords /\ Within(openFiles[id]) /\ id \in Identifiers
         /\ id \in Nat /\ id # 0
         /\ NotReading => SettledFile(openFiles[id])
<1>1. openFiles[id] \in FileRecords /\ id \in Identifiers
  BY DEF FilesInv, TypedFiles
<1>2. id \in Nat /\ id # 0
  BY <1>1, IdentifierFacts
<1>3. FileSound(id, openFiles[id], reading)
  BY DEF FilesInv, FilesSound
<1>4. NotReading => reading.id = 0
  BY IdentifierFacts DEF NotReading
<1> QED BY <1>1, <1>2, <1>3, <1>4 DEF FileSound

LEMMA SameContent ==
  ASSUME NEW before, NEW after, after.content = before.content
  PROVE  WriteKept(before, after)
BY DEF WriteKept

LEMMA FileFails ==
  ASSUME FilesAssumption, FilesInv, NotReading, NEW id \in OpenIdentifiers, NEW failed \in BOOLEAN,
         SetFile(id, FileFailed(openFiles[id], failed)),
         UNCHANGED <<nextFileIdentifier, reading, handedOut>>
  PROVE  FilesInv' /\ Transfers
<1> DEFINE g == FileFailed(openFiles[id], failed)
<1>1. openFiles[id] \in FileRecords /\ Within(openFiles[id]) /\ SettledFile(openFiles[id])
  BY OpenFile
<1>2. g \in FileRecords /\ Within(g) /\ SettledFile(g) /\ g.content = openFiles[id].content
  BY <1>1, FailedFile
<1> HIDE DEF g
<1>3. WriteKept(openFiles[id], g) /\ SetFile(id, g)
  BY <1>2, SameContent DEF g
<1> QED BY <1>2, <1>3, FileUpdated


LEMMA FilesError ==
  ASSUME FilesAssumption, FilesInv, NEW id \in OpenIdentifiers, fileError(id)
  PROVE  FilesInv' /\ Transfers
<1>1. NotReading /\ UNCHANGED <<nextFileIdentifier, reading, handedOut>>
      /\ SetFile(id, FileFailed(openFiles[id], FALSE))
  BY DEF fileError, FileFailed
<1> QED BY <1>1, FileFails

LEMMA FilesSeek ==
  ASSUME FilesAssumption, FilesInv, NEW id \in OpenIdentifiers, NEW offset \in {-1, 0, 1},
         NEW origin \in Origins, seekFile(id, offset, origin)
  PROVE  FilesInv' /\ Transfers
<1> DEFINE file == openFiles[id]
           base == CASE origin = "bof" -> 0
                     [] origin = "cof" -> Told(file)
                     [] origin = "eof" -> Len(file.content)
           at == base + offset
           g == Sought(file, at)
<1>1. /\ NotReading /\ UNCHANGED <<nextFileIdentifier, reading, handedOut>> /\ at <= MaxSize
      /\ IF at >= 0 /\ file.streaming THEN SetFile(id, g) ELSE FailFile(id)
  BY DEF seekFile
<1>2. file \in FileRecords /\ Within(file) /\ SettledFile(file)
  BY <1>1, OpenFile
<1>3. base \in Nat
  <2>1. Told(file) \in Nat /\ Len(file.content) \in Nat
    BY <1>2, SettledTells, FileFields
  <2>2. origin = "bof" \/ origin = "cof" \/ origin = "eof"
    BY DEF Origins
  <2> HIDE DEF file
  <2> QED BY <2>1, <2>2
<1> HIDE DEF base
<1>4. at \in Int
  BY <1>3
<1>5. CASE at >= 0 /\ file.streaming
  <2>1. at \in Nat
    BY <1>4, <1>5
  <2> HIDE DEF at
  <2>2. g \in FileRecords /\ Within(g) /\ SettledFile(g) /\ g.content = file.content
    BY <1>1, <1>2, <2>1, PositionSought
  <2>3. SetFile(id, g)
    BY <1>1, <1>5
  <2> HIDE DEF g
  <2>4. WriteKept(openFiles[id], g)
    BY <2>2, SameContent
  <2> QED BY <1>1, <2>2, <2>3, <2>4, FileUpdated
<1>6. CASE ~(at >= 0 /\ file.streaming)
  <2>1. SetFile(id, FileFailed(openFiles[id], TRUE))
    BY <1>1, <1>6 DEF FailFile, FileFailed
  <2> QED BY <1>1, <2>1, FileFails
<1> QED BY <1>5, <1>6

(* A write of a file that may be written.                                   *)
LEMMA FileWritten ==
  ASSUME FilesAssumption, FilesInv, NotReading, NEW id \in OpenIdentifiers,
         openFiles[id].lastOperation # "read", NEW g, WriteOf(openFiles[id], g),
         SetFile(id, g), UNCHANGED <<nextFileIdentifier, reading, handedOut>>
  PROVE  FilesInv' /\ Transfers
<1> DEFINE file == openFiles[id]
           start == IF file.mode.append THEN Len(file.content) ELSE Told(file)
<1>1. file \in FileRecords /\ Within(file) /\ SettledFile(file)
  BY OpenFile
<1>2. WriteReady(file) /\ WriteReady(g)
  BY <1>1, ReadyWhenSettled DEF WriteOf
<1>3. g \in FileRecords /\ Within(g) /\ SettledFile(g)
  BY <1>2, ReadyWhenSettled DEF WriteReady
<1>4. start = WrittenAt(file)
  BY <1>1, <1>2, CleanTold DEF WriteReady, WrittenAt
<1>5. DOMAIN file.content = 1 .. Len(file.content)
  BY <1>1, FileFields DEF Texted
<1>6. Begun(file.content, start, g.content)
  BY <1>4 DEF WriteOf
<1> HIDE DEF start
<1>7. "x" \notin WrittenCharacters /\ "0" \notin WrittenCharacters
  BY DEF WrittenCharacters
<1>8. WriteKept(file, g)
  BY <1>5, <1>6, <1>7 DEF WriteKept, Begun, start
<1> QED BY <1>3, <1>8, FileUpdated

LEMMA FilesWrite ==
  ASSUME FilesAssumption, FilesInv, NEW id \in OpenIdentifiers, NEW text \in Texts, writeFile(id, text)
  PROVE  FilesInv' /\ Transfers
<1> DEFINE file == openFiles[id]
           bytes == Translated(text, file.mode.binary)
<1>1. /\ NotReading /\ UNCHANGED <<nextFileIdentifier, reading, handedOut>>
      /\ WrittenAt(file) + Len(bytes) <= MaxSize
      /\ IF MayWrite(file) /\ file.streaming
         THEN \/ SetFile(id, WriteCompleted(Written(file, bytes)))
              \/ \E n \in 0 .. Len(bytes) :
                   SetFile(id, FileFailed(Written(file, SubSeq(bytes, 1, n)), TRUE))
         ELSE SetFile(id, FileFailed(file, TRUE))
  BY DEF writeFile, FailFile, FileFailed
<1>2. CASE ~(MayWrite(file) /\ file.streaming)
  BY <1>1, <1>2, FileFails
<1>3. CASE MayWrite(file) /\ file.streaming
  <2>1. file \in FileRecords /\ Within(file) /\ SettledFile(file) /\ file.lastOperation # "read"
    BY <1>1, <1>3, OpenFile DEF MayWrite
  <2>2. WriteReady(file)
    BY <2>1, ReadyWhenSettled
  <2>3. bytes \in WrittenTexts
    <3>1. file.mode.binary \in BOOLEAN
      BY <2>1, FileFields
    <3> QED BY <3>1, TranslatedText
  <2> HIDE DEF bytes
  <2>4. WrittenAt(file) \in Nat /\ MaxSize \in Nat /\ Len(bytes) \in Nat
    BY <2>1, <2>3, FileFields, IdentifierFacts DEF WrittenAt, WrittenTexts
  <2>5. PICK part \in Texted :
          /\ part # <<>> => part[1] \in WrittenCharacters
          /\ Len(part) \in Nat /\ Len(part) <= Len(bytes)
          /\ \/ SetFile(id, WriteCompleted(Written(file, part)))
             \/ SetFile(id, FileFailed(Written(file, part), TRUE))
    <3> HIDE DEF file
    <3>1. CASE SetFile(id, WriteCompleted(Written(file, bytes)))
      <4>1. bytes \in Texted /\ bytes[1] \in WrittenCharacters /\ Len(bytes) <= Len(bytes)
        BY <2>3, <2>4, TextIsText
      <4> QED BY <2>4, <3>1, <4>1
    <3>2. CASE \E n \in 0 .. Len(bytes) :
                 SetFile(id, FileFailed(Written(file, SubSeq(bytes, 1, n)), TRUE))
      <4>1. PICK n \in 0 .. Len(bytes) :
                 SetFile(id, FileFailed(Written(file, SubSeq(bytes, 1, n)), TRUE))
        BY <3>2
      <4> DEFINE s == SubSeq(bytes, 1, n)
      <4>2. s \in Texted /\ Len(s) = n /\ (s # <<>> => s[1] \in WrittenCharacters)
        BY <2>3, StartOfBytes
      <4> HIDE DEF s
      <4>3. SetFile(id, FileFailed(Written(file, s), TRUE))
        BY <4>1 DEF s
      <4>4. Len(s) \in Nat /\ Len(s) <= Len(bytes)
        BY <2>4, <4>2
      <4> QED BY <4>2, <4>3, <4>4
    <3> QED BY <1>1, <1>3, <3>1, <3>2
  <2>6. WrittenAt(file) + Len(part) <= MaxSize
    BY <1>1, <2>4, <2>5
  <2>7. WriteOf(file, Written(file, part))
    BY <2>2, <2>4, <2>5, <2>6, TextWritten
  <2>8. PICK g : WriteOf(file, g) /\ SetFile(id, g)
    BY <2>5, <2>7, WriteEnds
  <2> QED BY <1>1, <2>1, <2>8, FileWritten
<1> QED BY <1>2, <1>3

LEMMA FilesWriteBlocks ==
  ASSUME FilesAssumption, FilesInv, NEW id \in OpenIdentifiers, writeFileBlocks(id)
  PROVE  FilesInv' /\ Transfers
<1> DEFINE file == openFiles[id]
           one == Written(file, <<"w">>)
           skipped == SkippedByte(one)
           all == Written(skipped, <<"w">>)
<1>1. /\ NotReading /\ UNCHANGED <<nextFileIdentifier, reading, handedOut>>
      /\ WrittenAt(file) + 3 <= MaxSize
      /\ IF MayWrite(file) /\ file.streaming
         THEN \/ SetFile(id, WriteCompleted(all))
              \/ \E part \in {file, one, skipped} : SetFile(id, FileFailed(part, TRUE))
         ELSE SetFile(id, FileFailed(file, TRUE))
  BY DEF writeFileBlocks, FailFile, FileFailed
<1>2. CASE ~(MayWrite(file) /\ file.streaming)
  BY <1>1, <1>2, FileFails
<1>3. CASE MayWrite(file) /\ file.streaming
  <2>1. file \in FileRecords /\ Within(file) /\ SettledFile(file) /\ file.lastOperation # "read"
    BY <1>1, <1>3, OpenFile DEF MayWrite
  <2>2. WriteReady(file)
    BY <2>1, ReadyWhenSettled
  <2>3. WriteOf(file, file) /\ WriteOf(file, one) /\ WriteOf(file, skipped) /\ WriteOf(file, all)
    BY <1>1, <2>2, BlockWritten, IdentifierFacts
  <2> HIDE DEF one, skipped, all
  <2>4. PICK g : WriteOf(file, g) /\ SetFile(id, g)
    BY <1>1, <1>3, <2>3, WriteEnds
  <2> QED BY <1>1, <2>1, <2>4, FileWritten
<1> QED BY <1>2, <1>3


(* Files leave the table, and what stays is as it was.                      *)
LEMMA FilesGone ==
  ASSUME FilesAssumption, FilesInv, NEW left \in SUBSET OpenIdentifiers,
         openFiles' = [other \in left |-> openFiles[other]],
         UNCHANGED <<nextFileIdentifier, reading, handedOut>>
  PROVE  FilesInv' /\ Transfers
<1>1. /\ openFiles \in [OpenIdentifiers -> FileRecords] /\ OpenIdentifiers \subseteq Identifiers
      /\ Cardinality(OpenIdentifiers) <= MaximumOpenFiles
  BY DEF FilesInv, TypedFiles
<1>2. /\ openFiles' \in [left -> FileRecords] /\ OpenIdentifiers' = left /\ DOMAIN openFiles' = left
      /\ \A other \in left : openFiles'[other] = openFiles[other]
  BY <1>1 DEF OpenIdentifiers
<1>3. IsFiniteSet(OpenIdentifiers)
  <2>1. IsFiniteSet(Identifiers)
    BY FiniteIdentifiers
  <2> QED BY <1>1, <2>1, FS_Subset
<1>4. Cardinality(left) <= MaximumOpenFiles
  <2>1. Cardinality(left) <= Cardinality(OpenIdentifiers) /\ Cardinality(left) \in Nat
        /\ Cardinality(OpenIdentifiers) \in Nat
    BY <1>3, FS_Subset, FS_CardinalityType
  <2> QED BY <1>1, <2>1, IdentifierFacts
<1>5. TypedFiles'
  BY <1>1, <1>2, <1>4 DEF FilesInv, TypedFiles
<1>6. InOrder' /\ IdentifiersFresh
  BY <1>2 DEF FilesInv, InOrder, IdentifiersFresh
<1>7. FilesSound'
  <2>1. ASSUME NEW id \in left PROVE FileSound(id, openFiles'[id], reading')
    BY <1>2 DEF FilesInv, FilesSound
  <2> HIDE DEF FileSound
  <2> QED BY <1>2, <2>1 DEF FilesSound
<1>8. WritesWhereTold
  BY <1>2 DEF WritesWhereTold
<1> QED BY <1>5, <1>6, <1>7, <1>8, NoReadEnds DEF FilesInv, Transfers

LEMMA FilesClose ==
  ASSUME FilesAssumption, FilesInv, NEW id \in OpenIdentifiers, closeFile(id)
  PROVE  FilesInv' /\ Transfers
<1>1. NotReading /\ UNCHANGED <<nextFileIdentifier, reading, handedOut>>
  BY DEF closeFile
<1>2. CASE openFiles' = [other \in OpenIdentifiers \ {id} |-> openFiles[other]]
  BY <1>1, <1>2, FilesGone
<1>3. CASE SetFile(id, [openFiles[id] EXCEPT !.streaming = FALSE])
  <2> DEFINE g == [openFiles[id] EXCEPT !.streaming = FALSE]
  <2>1. openFiles[id] \in FileRecords /\ Within(openFiles[id]) /\ SettledFile(openFiles[id])
    BY <1>1, OpenFile
  <2>2. g \in FileRecords /\ Within(g) /\ SettledFile(g) /\ g.content = openFiles[id].content
    BY <2>1, StreamGone
  <2> HIDE DEF g
  <2>3. WriteKept(openFiles[id], g) /\ SetFile(id, g)
    BY <1>3, <2>2, SameContent DEF g
  <2> QED BY <1>1, <2>2, <2>3, FileUpdated
<1> QED BY <1>2, <1>3 DEF closeFile

LEMMA FilesCloseAll ==
  ASSUME FilesAssumption, FilesInv, closeAllFiles
  PROVE  FilesInv' /\ Transfers
<1>1. openFiles' = <<>> /\ UNCHANGED <<nextFileIdentifier, reading, handedOut>>
  BY DEF closeAllFiles
<1> DEFINE none == {}
<1>2. <<>> = [other \in none |-> openFiles[other]] /\ none \in SUBSET OpenIdentifiers
  OBVIOUS
<1> HIDE DEF none
<1> QED BY <1>1, <1>2, FilesGone

(* An identifier is always free, and the one taken is the next one or comes *)
(* round when all were used.                                                *)
LEMMA FreeOne ==
  ASSUME FilesAssumption, FilesInv, Cardinality(OpenIdentifiers) < MaximumOpenFiles
  PROVE  /\ FreeIdentifier \in Identifiers \ OpenIdentifiers
         /\ handedOut = 3 .. nextFileIdentifier - 1 => FreeIdentifier = nextFileIdentifier
<1> DEFINE free == Identifiers \ OpenIdentifiers
           ahead == {id \in free : id >= nextFileIdentifier}
           candidates == IF ahead = {} THEN free ELSE ahead
           chosen == CHOOSE id \in candidates : \A other \in candidates : id <= other
<1>1. FreeIdentifier = chosen
  BY DEF FreeIdentifier
<1>2. /\ OpenIdentifiers \subseteq Identifiers /\ nextFileIdentifier \in Identifiers
      /\ OpenIdentifiers \subseteq handedOut
  BY DEF FilesInv, TypedFiles, InOrder
<1>3. free # {}
  <2> SUFFICES ASSUME free = {} PROVE FALSE
    OBVIOUS
  <2>1. OpenIdentifiers = Identifiers
    BY <1>2
  <2>2. Cardinality(Identifiers) = MaxIdentifier - 3 + 1
    BY FiniteIdentifiers
  <2>3. MaximumOpenFiles < MaxIdentifier - 2
    BY DEF FilesAssumption
  <2> QED BY <2>1, <2>2, <2>3, IdentifierFacts
<1>4. candidates # {} /\ candidates \subseteq free /\ candidates \in SUBSET Nat
  BY <1>3, IdentifierFacts
<1>5. ASSUME handedOut = 3 .. nextFileIdentifier - 1
      PROVE nextFileIdentifier \in ahead
  <2>1. nextFileIdentifier \in Nat /\ nextFileIdentifier \notin 3 .. nextFileIdentifier - 1
    BY <1>2, IdentifierFacts
  <2> QED BY <1>2, <1>5, <2>1
<1>6. \A id \in ahead : id \in Nat /\ id >= nextFileIdentifier
  BY IdentifierFacts
<1> HIDE DEF candidates
<1>7. \E id \in candidates : \A other \in candidates : id <= other
  BY <1>4, LeastNumber
<1>8. chosen \in candidates /\ \A other \in candidates : chosen <= other
  BY <1>7
<1> HIDE DEF chosen
<1>9. ASSUME handedOut = 3 .. nextFileIdentifier - 1
      PROVE chosen = nextFileIdentifier
  <2>1. candidates = ahead
    BY <1>5, <1>9 DEF candidates
  <2>2. chosen \in ahead /\ chosen <= nextFileIdentifier
    BY <1>5, <1>8, <1>9, <2>1
  <2> HIDE DEF ahead
  <2>3. nextFileIdentifier \in Nat
    BY <1>2, IdentifierFacts
  <2> QED BY <1>6, <2>2, <2>3
<1> QED BY <1>1, <1>4, <1>8, <1>9

LEMMA FilesOpen ==
  ASSUME FilesAssumption, FilesInv, openFile
  PROVE  FilesInv' /\ Transfers
<1> DEFINE new == FreeIdentifier
<1>1. /\ Cardinality(OpenIdentifiers) < MaximumOpenFiles /\ new # reading.id
      /\ nextFileIdentifier' = NextIdentifier(new) /\ handedOut' = handedOut \cup {new}
      /\ UNCHANGED reading
  BY DEF openFile
<1>2. PICK mode \in Modes, content \in Contents :
        openFiles' = [id \in OpenIdentifiers \cup {new} |->
                        IF id = new THEN NewFile(mode, content) ELSE openFiles[id]]
  BY DEF openFile
<1> DEFINE file == NewFile(mode, content)
<1>3. /\ new \in Identifiers \ OpenIdentifiers
      /\ handedOut = 3 .. nextFileIdentifier - 1 => new = nextFileIdentifier
  BY <1>1, FreeOne
<1>4. file \in FileRecords /\ Within(file) /\ SettledFile(file)
  BY FileOpened
<1> HIDE DEF new, file
<1>5. /\ openFiles \in [OpenIdentifiers -> FileRecords] /\ OpenIdentifiers \subseteq Identifiers
      /\ Cardinality(OpenIdentifiers) <= MaximumOpenFiles
  BY DEF FilesInv, TypedFiles
<1>6. /\ openFiles' \in [OpenIdentifiers \cup {new} -> FileRecords]
      /\ OpenIdentifiers' = OpenIdentifiers \cup {new} /\ DOMAIN openFiles' = OpenIdentifiers \cup {new}
      /\ openFiles'[new] = file
      /\ \A other \in OpenIdentifiers : openFiles'[other] = openFiles[other]
  <2>1. openFiles' = [id \in OpenIdentifiers \cup {new} |-> IF id = new THEN file ELSE openFiles[id]]
    BY <1>2 DEF file
  <2> DEFINE Open == OpenIdentifiers
  <2>2. OpenIdentifiers' = Open \cup {new}
    BY <2>1 DEF OpenIdentifiers
  <2>3. DOMAIN openFiles' = Open \cup {new}
    BY <2>1
  <2>4. new \in Open \cup {new} /\ new \notin Open
    BY <1>3
  <2> HIDE DEF Open
  <2>5. openFiles \in [Open -> FileRecords]
    BY <1>5 DEF Open
  <2>6. openFiles' = [id \in Open \cup {new} |-> IF id = new THEN file ELSE openFiles[id]]
    BY <2>1 DEF Open
  <2>7. openFiles'[new] = file /\ \A other \in Open : openFiles'[other] = openFiles[other]
    BY <2>4, <2>6
  <2>8. openFiles' \in [Open \cup {new} -> FileRecords]
    BY <1>4, <2>5, <2>6
  <2> QED BY <2>2, <2>3, <2>7, <2>8 DEF Open
<1>7. Cardinality(OpenIdentifiers') <= MaximumOpenFiles
  <2>1. IsFiniteSet(Identifiers)
    BY FiniteIdentifiers
  <2>2. IsFiniteSet(OpenIdentifiers)
    BY <1>5, <2>1, FS_Subset
  <2>3. Cardinality(OpenIdentifiers \cup {new}) = Cardinality(OpenIdentifiers) + 1
        /\ Cardinality(OpenIdentifiers) \in Nat
    BY <1>3, <2>2, FS_AddElement, FS_CardinalityType
  <2> QED BY <1>1, <1>6, <2>3, IdentifierFacts
<1>8. new \in Nat /\ new >= 3 /\ new <= MaxIdentifier
  BY <1>3, IdentifierFacts
<1>9. nextFileIdentifier' \in Identifiers
  BY <1>1, <1>8, IdentifierFacts DEF NextIdentifier, Identifiers
<1>10. TypedFiles'
  BY <1>1, <1>3, <1>5, <1>6, <1>7, <1>9 DEF FilesInv, TypedFiles
<1>11. OpenIdentifiers' \subseteq handedOut'
  BY <1>1, <1>6 DEF FilesInv, InOrder
<1>12. handedOut' = 3 .. nextFileIdentifier' - 1 \/ handedOut' = Identifiers
  <2>1. CASE handedOut = Identifiers
    BY <1>1, <1>3, <2>1
  <2>2. CASE handedOut = 3 .. nextFileIdentifier - 1
    <3>1. handedOut' = 3 .. new
      <4>1. (3 .. new - 1) \cup {new} = 3 .. new
        BY <1>8
      <4> QED BY <1>1, <1>3, <2>2, <4>1
    <3>2. CASE new = MaxIdentifier
      BY <3>1, <3>2, Zenon DEF Identifiers
    <3>3. CASE new # MaxIdentifier
      <4>1. nextFileIdentifier' = new + 1
        BY <1>1, <3>3 DEF NextIdentifier
      <4>2. nextFileIdentifier' - 1 = new
        BY <1>8, <4>1
      <4> QED BY <3>1, <4>2, Zenon
    <3> QED BY <3>2, <3>3
  <2> QED BY <2>1, <2>2 DEF FilesInv, InOrder
<1>13. FilesSound'
  <2>1. FileSound(new, openFiles'[new], reading')
    BY <1>1, <1>4, <1>6 DEF FileSound, new
  <2>2. ASSUME NEW id \in OpenIdentifiers PROVE FileSound(id, openFiles'[id], reading')
    BY <1>1, <1>6 DEF FilesInv, FilesSound
  <2> HIDE DEF FileSound
  <2> QED BY <1>6, <2>1, <2>2 DEF FilesSound
<1>14. WritesWhereTold
  BY <1>6 DEF WritesWhereTold
<1>15. IdentifiersFresh
  <2>1. new \in handedOut => handedOut = Identifiers
    <3>1. CASE handedOut = 3 .. nextFileIdentifier - 1
      <4>1. new = nextFileIdentifier /\ new \notin 3 .. new - 1
        BY <1>3, <1>8, <3>1
      <4> QED BY <3>1, <4>1
    <3> QED BY <3>1 DEF FilesInv, InOrder
  <2> QED BY <1>6, <2>1 DEF IdentifiersFresh
<1> QED BY <1>1, <1>10, <1>11, <1>12, <1>13, <1>14, <1>15, NoReadEnds DEF FilesInv, InOrder, Transfers


LEMMA FilesRead ==
  ASSUME FilesAssumption, FilesInv, NEW id \in OpenIdentifiers, readFileRemaining(id)
  PROVE  FilesInv' /\ Transfers
<1> DEFINE file == openFiles[id]
           read == [id |-> id, text |-> Input(file), from |-> Told(file)]
           g == TakenFrom(file)
<1>1. /\ NotReading /\ UNCHANGED <<nextFileIdentifier, handedOut>>
      /\ IF Readable(file) THEN SetFile(id, g) /\ reading' = read
         ELSE FailFile(id) /\ UNCHANGED reading
  BY DEF readFileRemaining
<1>2. CASE ~Readable(file)
  <2>1. SetFile(id, FileFailed(openFiles[id], TRUE)) /\ UNCHANGED reading
    BY <1>1, <1>2 DEF FailFile, FileFailed
  <2> QED BY <1>1, <2>1, FileFails
<1>3. CASE Readable(file)
  <2>1. file \in FileRecords /\ Within(file) /\ SettledFile(file) /\ id \in Nat /\ id # 0
        /\ id \in Identifiers
    BY <1>1, OpenFile
  <2>2. /\ g \in FileRecords /\ Within(g) /\ read \in Reads /\ ReadingFile(g, read)
        /\ g.content = file.content
    BY <2>1, InputTaken, IdentifierFacts
  <2>3. SetFile(id, g) /\ reading' = read /\ read.id = id
    BY <1>1, <1>3
  <2> HIDE DEF g, read
  <2>4. FileSound(id, g, reading')
    BY <2>2, <2>3 DEF FileSound
  <2>5. WriteKept(openFiles[id], g)
    BY <2>2, SameContent
  <2>6. ASSUME NEW other \in OpenIdentifiers \ {id}
        PROVE  FileSound(other, openFiles[other], reading')
    <3>1. Within(openFiles[other]) /\ SettledFile(openFiles[other])
      BY <1>1, OpenFile
    <3> QED BY <2>3, <3>1 DEF FileSound
  <2> HIDE DEF FileSound, WriteKept
  <2>7. FilesInv' /\ WritesWhereTold /\ IdentifiersFresh
    BY <1>1, <2>1, <2>2, <2>3, <2>4, <2>5, <2>6, FileReplaced
  <2>8. ReadsContinue
    <3>1. reading.id = 0
      BY <1>1, IdentifierFacts DEF NotReading
    <3>2. \A other \in OpenIdentifiers : other # 0
      BY OpenFile
    <3> QED BY <3>1, <3>2 DEF ReadsContinue
  <2> QED BY <2>7, <2>8 DEF Transfers
<1> QED BY <1>2, <1>3

LEMMA FilesRestore ==
  ASSUME FilesAssumption, FilesInv, NEW consumed \in Consumptions(reading.text),
         restoreUnreadFileData(consumed)
  PROVE  FilesInv' /\ Transfers
<1> DEFINE id == reading.id
           file == openFiles[id]
           text == Behind(reading.text, consumed)
           g == GivenBack(file, text)
<1>1. /\ ~NotReading /\ reading' = NoRead /\ UNCHANGED <<nextFileIdentifier, handedOut>>
      /\ IF id \in OpenIdentifiers THEN SetFile(id, g) ELSE UNCHANGED openFiles
  BY DEF restoreUnreadFileData, Behind
<1>2. reading \in Reads /\ reading.text \in Texted
  BY DEF FilesInv, TypedFiles, Reads
<1>3. consumed \in 0 .. Len(reading.text)
  BY <1>2, ConsumedOfText
<1>4. ASSUME NEW other \in OpenIdentifiers, other # id
      PROVE  FileSound(other, openFiles[other], reading')
  <2>1. FileSound(other, openFiles[other], reading)
    BY DEF FilesInv, FilesSound
  <2>2. NoRead.id # other
    BY OpenFile, IdentifierFacts
  <2> QED BY <1>1, <1>4, <2>1, <2>2 DEF FileSound
<1>5. CASE id \in OpenIdentifiers
  <2>1. file \in FileRecords /\ Within(file)
    BY <1>5, OpenFile
  <2>2. ReadingFile(file, reading)
    <3>1. FileSound(id, file, reading)
      BY <1>5 DEF FilesInv, FilesSound
    <3> QED BY <3>1 DEF FileSound
  <2>3. /\ g \in FileRecords /\ Within(g) /\ SettledFile(g) /\ g.content = file.content
        /\ ReturnedExactly(g, reading)
    BY <1>2, <1>3, <2>1, <2>2, InputGivenBack
  <2>4. SetFile(id, g)
    BY <1>1, <1>5
  <2>5. NoRead.id # id
    BY <1>5, OpenFile, IdentifierFacts
  <2> HIDE DEF g
  <2>6. FileSound(id, g, reading') /\ WriteKept(openFiles[id], g)
    BY <1>1, <2>3, <2>5, SameContent DEF FileSound
  <2>7. reading' \in Reads
    BY <1>1, IdentifierFacts
  <2> HIDE DEF id
  <2>8. FilesInv' /\ WritesWhereTold /\ IdentifiersFresh /\ openFiles'[id] = g
    BY <1>1, <1>4, <1>5, <2>3, <2>4, <2>6, <2>7, FileReplaced
  <2>9. ReadsContinue
    BY <2>3, <2>8 DEF ReadsContinue, ReturnedExactly, id
  <2> QED BY <2>8, <2>9 DEF Transfers
<1>6. CASE id \notin OpenIdentifiers
  <2>1. UNCHANGED openFiles
    BY <1>1, <1>6
  <2>2. TypedFiles' /\ InOrder'
    BY <1>1, <2>1, IdentifierFacts DEF FilesInv, TypedFiles, InOrder, OpenIdentifiers
  <2>3. FilesSound'
    <3>1. ASSUME NEW other \in OpenIdentifiers PROVE FileSound(other, openFiles[other], reading')
      BY <1>4, <1>6
    <3> HIDE DEF FileSound
    <3> QED BY <2>1, <3>1 DEF FilesSound, OpenIdentifiers
  <2>4. Transfers
    BY <1>6, <2>1 DEF Transfers, ReadsContinue, WritesWhereTold, IdentifiersFresh, OpenIdentifiers
  <2> QED BY <2>2, <2>3, <2>4 DEF FilesInv
<1> QED BY <1>5, <1>6

LEMMA FilesStep ==
  ASSUME FilesAssumption, FilesInv, FilesNext
  PROVE  FilesInv' /\ Transfers
<1>1. CASE openFile
  BY <1>1, FilesOpen
<1>2. CASE closeAllFiles
  BY <1>2, FilesCloseAll
<1>3. ASSUME NEW consumed \in Consumptions(reading.text), restoreUnreadFileData(consumed)
      PROVE  FilesInv' /\ Transfers
  BY <1>3, FilesRestore
<1>4. ASSUME NEW id \in OpenIdentifiers,
             \/ closeFile(id) \/ readFileRemaining(id) \/ writeFileBlocks(id) \/ fileError(id)
      PROVE  FilesInv' /\ Transfers
  BY <1>4, FilesClose, FilesRead, FilesWriteBlocks, FilesError
<1>5. ASSUME NEW id \in OpenIdentifiers, NEW text \in Texts, writeFile(id, text)
      PROVE  FilesInv' /\ Transfers
  BY <1>5, FilesWrite
<1>6. ASSUME NEW id \in OpenIdentifiers, NEW offset \in {-1, 0, 1}, NEW origin \in Origins,
             seekFile(id, offset, origin)
      PROVE  FilesInv' /\ Transfers
  BY <1>6, FilesSeek
<1> QED BY <1>1, <1>2, <1>3, <1>4, <1>5, <1>6 DEF FilesNext

LEMMA FilesStutter ==
  ASSUME FilesAssumption, FilesInv, UNCHANGED fileVars
  PROVE  FilesInv' /\ Transfers
<1>1. UNCHANGED <<openFiles, nextFileIdentifier, reading, handedOut>>
  BY DEF fileVars
<1>2. TypedFiles' /\ InOrder'
  BY <1>1 DEF FilesInv, TypedFiles, InOrder, OpenIdentifiers
<1>3. FilesSound'
  BY <1>1 DEF FilesInv, FilesSound, OpenIdentifiers
<1>4. WritesWhereTold /\ IdentifiersFresh
  BY <1>1 DEF WritesWhereTold, IdentifiersFresh, OpenIdentifiers
<1> QED BY <1>1, <1>2, <1>3, <1>4, NoReadEnds DEF FilesInv, Transfers

(* What the invariant says of the files.                                    *)
LEMMA InvariantTells ==
  ASSUME FilesAssumption, FilesInv
  PROVE  FilesConsistent
<1>1. ASSUME NEW id \in OpenIdentifiers
      PROVE  LET file == openFiles[id]
             IN /\ file.position \in 0 .. MaxSize
                /\ file.lastOperation \in {"none", "read", "write"}
                /\ file.pendingExtra \subseteq 1 .. file.pendingSize
                /\ file.unreadExtra \subseteq 1 .. Len(file.unread)
  <2> DEFINE file == openFiles[id]
  <2>1. file \in FileRecords /\ Within(file)
    BY OpenFile
  <2>2. file.position \in 0 .. MaxSize /\ file.lastOperation \in {"none", "read", "write"}
        /\ file.pendingExtra \subseteq 1 .. file.pendingSize
    BY <2>1, FileFields, IdentifierFacts DEF Within
  <2>3. FileSound(id, file, reading)
    BY DEF FilesInv, FilesSound
  <2>4. file.unreadExtra \subseteq 1 .. Len(file.unread)
    <3>1. CASE reading.id = id
      BY <2>3, <3>1 DEF FileSound, ReadingFile, Clean
    <3>2. CASE reading.id # id
      BY <2>1, <2>3, <3>2, SettledTells DEF FileSound
    <3> QED BY <3>1, <3>2
  <2> QED BY <2>2, <2>4
<1>2. FilesTypeOK
  <2>1. handedOut \subseteq Identifiers
    <3>1. nextFileIdentifier \in Nat /\ nextFileIdentifier <= MaxIdentifier
      BY IdentifierFacts DEF FilesInv, TypedFiles
    <3>2. 3 .. nextFileIdentifier - 1 \subseteq Identifiers
      BY <3>1, IdentifierFacts DEF Identifiers
    <3> QED BY <3>2 DEF FilesInv, InOrder
  <2> QED BY <1>1, <2>1 DEF FilesTypeOK, FilesInv, TypedFiles, InOrder
<1>3. ASSUME NEW id \in OpenIdentifiers, reading.id # id
      PROVE  openFiles[id] \in FileRecords /\ SettledFile(openFiles[id])
  <2>1. FileSound(id, openFiles[id], reading)
    BY DEF FilesInv, FilesSound
  <2> QED BY <1>3, <2>1, OpenFile DEF FileSound
<1>4. NextByteTold
  <2> DEFINE Tells(file) ==
        /\ Told(file) >= 0
        /\ LogicalText(SubSeq(file.content, Told(file) + 1, Len(file.content)), file.mode.binary)
             = file.unread \o LogicalText(RestOfFile(file), file.mode.binary)
  <2>1. ASSUME NEW id \in OpenIdentifiers, reading.id # id PROVE Tells(openFiles[id])
    <3> DEFINE file == openFiles[id]
    <3>1. file \in FileRecords /\ SettledFile(file)
      BY <1>3, <2>1
    <3> HIDE DEF file
    <3>2. /\ Told(file) \in Nat
          /\ LogicalText(Behind(file.content, Told(file)), file.mode.binary)
               = file.unread \o LogicalText(RestOfFile(file), file.mode.binary)
      BY <3>1, SettledTells
    <3>3. Told(file) >= 0
      BY <3>2
    <3>4. LogicalText(SubSeq(file.content, Told(file) + 1, Len(file.content)), file.mode.binary)
            = file.unread \o LogicalText(RestOfFile(file), file.mode.binary)
      BY <3>2, Zenon DEF Behind
    <3> QED BY <3>3, <3>4 DEF file
  <2> QED BY <2>1 DEF NextByteTold, Settled
<1>5. EndOfFileTrue
  BY <1>3 DEF EndOfFileTrue, Settled, SettledFile
<1> QED BY <1>2, <1>4, <1>5 DEF FilesConsistent

-----------------------------------------------------------------------------

LEMMA FilesInduction ==
  ASSUME FilesAssumption
  PROVE  FilesSpec => []FilesInv
<1>1. FilesInit => FilesInv
  BY FilesStart
<1>2. FilesInv /\ [FilesNext]_fileVars => FilesInv'
  BY FilesStep, FilesStutter
<1> QED BY <1>1, <1>2, PTL DEF FilesSpec

(* The files of a context are always consistent: the told position is where *)
(* the next input starts, whatever reads, seeks and failures came before,   *)
(* the buffered line ends are counted once, and the end-of-file flag says   *)
(* whether any input is left (runtime_system.cpp, 2407-2512 and 2556-2620). *)
THEOREM FilesStayConsistent ==
  ASSUME FilesAssumption
  PROVE  FilesSpec => []FilesConsistent
<1>1. FilesInv => FilesConsistent
  BY InvariantTells
<1> QED BY <1>1, FilesInduction, PTL

(* A read returns exactly what follows the told position, also when another *)
(* session opens files in between; a write begins where scripts are told,   *)
(* complete or not; an identifier comes back only when all have been used   *)
(* (readFileRemaining, restoreUnreadFileData, writeFile, openFile).         *)
THEOREM TransfersHappenWhereTold ==
  ASSUME FilesAssumption
  PROVE  FilesSpec => TransfersWhereTold
<1>1. FilesInv /\ [FilesNext]_fileVars => [Transfers]_fileVars
  BY FilesStep, FilesStutter
<1>2. FilesSpec => [][Transfers]_fileVars
  BY <1>1, FilesInduction, PTL DEF FilesSpec
<1> QED BY <1>2 DEF TransfersWhereTold, Transfers

-----------------------------------------------------------------------------
(* A state of the warnings, and what a change of one setting does to it.    *)
Overrides == UNION {[D -> BOOLEAN] : D \in SUBSET WarningIds}

WarningStates ==
  {s \in [all : BOOLEAN, overrides : Overrides, modes : [WarningModes -> BOOLEAN],
          last : WarningIds \cup {NoIdentifier}] : IsFiniteSet(DOMAIN s.overrides)}

LEMMA StateFields ==
  ASSUME NEW s \in WarningStates
  PROVE  /\ s = [all |-> s.all, overrides |-> s.overrides, modes |-> s.modes, last |-> s.last]
         /\ s.all \in BOOLEAN /\ s.modes \in [WarningModes -> BOOLEAN]
         /\ s.last \in WarningIds \cup {NoIdentifier}
         /\ s.overrides \in [DOMAIN s.overrides -> BOOLEAN] /\ DOMAIN s.overrides \subseteq WarningIds
         /\ IsFiniteSet(DOMAIN s.overrides)
<1>1. /\ s \in [all : BOOLEAN, overrides : Overrides, modes : [WarningModes -> BOOLEAN],
                last : WarningIds \cup {NoIdentifier}]
      /\ IsFiniteSet(DOMAIN s.overrides)
  BY DEF WarningStates
<1>2. s.overrides \in Overrides
  BY <1>1
<1>3. PICK D \in SUBSET WarningIds : s.overrides \in [D -> BOOLEAN]
  BY <1>2 DEF Overrides
<1> QED BY <1>1, <1>3

LEMMA StateMade ==
  ASSUME NEW all \in BOOLEAN, NEW D \in SUBSET WarningIds, IsFiniteSet(D), NEW overrides \in [D -> BOOLEAN],
         NEW modes \in [WarningModes -> BOOLEAN], NEW last \in WarningIds \cup {NoIdentifier}
  PROVE  [all |-> all, overrides |-> overrides, modes |-> modes, last |-> last] \in WarningStates
<1>1. overrides \in Overrides
  BY DEF Overrides
<1>2. DOMAIN overrides = D
  OBVIOUS
<1> QED BY <1>1, <1>2 DEF WarningStates

LEMMA Names ==
  /\ \A x \in WarningIds : x # "all" /\ x \notin WarningModes /\ x # "last" /\ x # NoIdentifier
  /\ "all" \notin WarningModes /\ "last" \notin WarningModes /\ "all" # "last"
BY WarningAssumption DEF WarningModes, NoIdentifier

(* A warning is shown by its override or else as all are.                   *)
LEMMA EnabledIs ==
  ASSUME NEW s
  PROVE  /\ Enabled(s, "all") = s.all
         /\ \A m \in WarningModes : Enabled(s, m) = s.modes[m]
         /\ \A x \in WarningIds : Enabled(s, x) = IF x \in DOMAIN s.overrides THEN s.overrides[x] ELSE s.all
<1>1. Enabled(s, "all") = s.all
  BY Names DEF Enabled
<1>2. ASSUME NEW m \in WarningModes PROVE Enabled(s, m) = s.modes[m]
  <2>1. m # "all"
    BY Names
  <2> QED BY <2>1 DEF Enabled
<1>3. ASSUME NEW x \in WarningIds PROVE Enabled(s, x) = IF x \in DOMAIN s.overrides THEN s.overrides[x] ELSE s.all
  <2>1. x # "all" /\ x \notin WarningModes
    BY Names
  <2> QED BY <2>1 DEF Enabled
<1> QED BY <1>1, <1>2, <1>3

(* One warning's setting changed: the others keep theirs.                   *)
OneChanged(s, t, x, enabled) ==
  /\ t \in WarningStates /\ t.all = s.all
  /\ \A y \in WarningIds : Enabled(t, y) = IF y = x THEN enabled ELSE Enabled(s, y)

LEMMA SetOne ==
  ASSUME NEW s \in WarningStates, NEW x \in WarningIds, NEW enabled \in BOOLEAN
  PROVE  OneChanged(s, SetSetting(s, x, enabled), x, enabled)
<1> DEFINE o == s.overrides
           t == SetSetting(s, x, enabled)
           D == DOMAIN o
<1>1. /\ s = [all |-> s.all, overrides |-> o, modes |-> s.modes, last |-> s.last]
      /\ s.all \in BOOLEAN /\ s.modes \in [WarningModes -> BOOLEAN]
      /\ s.last \in WarningIds \cup {NoIdentifier}
      /\ o \in [D -> BOOLEAN] /\ D \subseteq WarningIds /\ IsFiniteSet(D)
  BY StateFields
<1>2. x # "all" /\ x \notin WarningModes
  BY Names
<1>3. CASE enabled = s.all
  <2> DEFINE p == RemovedWarning(o, x)
             E == D \ {x}
  <2>1. t = [s EXCEPT !.overrides = p]
    BY <1>2, <1>3 DEF SetSetting, Overriding
  <2>2. IsFiniteSet(E) /\ E \in SUBSET WarningIds
    BY <1>1, FS_RemoveElement
  <2>3. p \in [E -> BOOLEAN] /\ \A y \in E : p[y] = o[y]
    BY <1>1 DEF RemovedWarning
  <2> HIDE DEF p, t
  <2>4. t = [all |-> s.all, overrides |-> p, modes |-> s.modes, last |-> s.last]
    BY <1>1, <2>1
  <2>5. t \in WarningStates
    BY <1>1, <2>2, <2>3, <2>4, StateMade
  <2>6. t.all = s.all /\ t.overrides = p /\ DOMAIN p = E
    BY <2>3, <2>4
  <2>7. \A y \in WarningIds : Enabled(t, y) = IF y = x THEN enabled ELSE Enabled(s, y)
    BY <1>3, <2>3, <2>6, EnabledIs
  <2> QED BY <2>5, <2>6, <2>7 DEF OneChanged, t
<1>4. CASE enabled # s.all
  <2> DEFINE E == D \cup {x}
             p == [other \in E |-> IF other = x THEN enabled ELSE o[other]]
  <2>1. t = [s EXCEPT !.overrides = p]
    BY <1>2, <1>4 DEF SetSetting, Overriding
  <2>2. IsFiniteSet(E) /\ E \in SUBSET WarningIds
    BY <1>1, FS_AddElement
  <2>3. p \in [E -> BOOLEAN] /\ p[x] = enabled /\ \A y \in E : y # x => p[y] = o[y]
    BY <1>1
  <2> HIDE DEF p, t
  <2>4. t = [all |-> s.all, overrides |-> p, modes |-> s.modes, last |-> s.last]
    BY <1>1, <2>1
  <2>5. t \in WarningStates
    BY <1>1, <2>2, <2>3, <2>4, StateMade
  <2>6. t.all = s.all /\ t.overrides = p /\ DOMAIN p = E
    BY <2>3, <2>4
  <2>7. \A y \in WarningIds : Enabled(t, y) = IF y = x THEN enabled ELSE Enabled(s, y)
    BY <2>3, <2>6, EnabledIs
  <2> QED BY <2>5, <2>6, <2>7 DEF OneChanged, t
<1> QED BY <1>3, <1>4

(* All set at once: no warning has a state of its own any more.             *)
LEMMA SetEvery ==
  ASSUME NEW s \in WarningStates, NEW enabled \in BOOLEAN
  PROVE  LET t == SetSetting(s, "all", enabled)
         IN /\ t \in WarningStates /\ t.all = enabled
            /\ \A y \in WarningIds : Enabled(t, y) = enabled
<1> DEFINE t == SetSetting(s, "all", enabled)
           p == <<>>
<1>1. /\ s = [all |-> s.all, overrides |-> s.overrides, modes |-> s.modes, last |-> s.last]
      /\ s.modes \in [WarningModes -> BOOLEAN] /\ s.last \in WarningIds \cup {NoIdentifier}
  BY StateFields
<1>2. t = [s EXCEPT !.all = enabled, !.overrides = p]
  BY Names DEF SetSetting, SetAll
<1>3. p \in [{} -> BOOLEAN] /\ IsFiniteSet({}) /\ {} \in SUBSET WarningIds /\ DOMAIN p = {}
  BY FS_EmptySet
<1> HIDE DEF p, t
<1>4. t = [all |-> enabled, overrides |-> p, modes |-> s.modes, last |-> s.last]
  BY <1>1, <1>2
<1>5. t \in WarningStates
  BY <1>1, <1>3, <1>4, StateMade
<1>6. t.all = enabled /\ t.overrides = p
  BY <1>4
<1>7. \A y \in WarningIds : Enabled(t, y) = enabled
  BY <1>3, <1>6, EnabledIs
<1> QED BY <1>5, <1>6, <1>7 DEF t

LEMMA SetMode ==
  ASSUME NEW s \in WarningStates, NEW m \in WarningModes, NEW enabled \in BOOLEAN
  PROVE  SetSetting(s, m, enabled) \in WarningStates /\ Enabled(SetSetting(s, m, enabled), m) = enabled
<1> DEFINE t == SetSetting(s, m, enabled)
           q == [s.modes EXCEPT ![m] = enabled]
<1>1. /\ s = [all |-> s.all, overrides |-> s.overrides, modes |-> s.modes, last |-> s.last]
      /\ s.all \in BOOLEAN /\ s.modes \in [WarningModes -> BOOLEAN]
      /\ s.last \in WarningIds \cup {NoIdentifier}
      /\ s.overrides \in [DOMAIN s.overrides -> BOOLEAN] /\ DOMAIN s.overrides \in SUBSET WarningIds
      /\ IsFiniteSet(DOMAIN s.overrides)
  BY StateFields
<1>2. t = [s EXCEPT !.modes = q]
  <2>1. m # "all"
    BY Names
  <2> QED BY <2>1 DEF SetSetting
<1>3. q \in [WarningModes -> BOOLEAN] /\ q[m] = enabled
  BY <1>1
<1> HIDE DEF q, t
<1>4. t = [all |-> s.all, overrides |-> s.overrides, modes |-> q, last |-> s.last]
  BY <1>1, <1>2
<1>5. t \in WarningStates
  BY <1>1, <1>3, <1>4, StateMade
<1>6. t.modes = q
  BY <1>4
<1> QED BY <1>3, <1>5, <1>6, EnabledIs DEF t

-----------------------------------------------------------------------------
(* Restoring settings one after the other.                                  *)
Runs(settings, state, n, f) ==
  f = [i \in 0 .. n |-> IF i = 0 THEN state ELSE Restoring(f[i - 1], settings[i])]

LEMMA RunExists ==
  ASSUME NEW settings, NEW state
  PROVE  \A n \in Nat : \E f : Runs(settings, state, n, f)
<1> DEFINE Missing == {n \in Nat : ~ \E f : Runs(settings, state, n, f)}
<1> SUFFICES ASSUME Missing # {} PROVE FALSE
  OBVIOUS
<1> HIDE DEF Missing
<1>1. PICK n \in Missing : \A m \in Missing : n <= m
  <2>1. Missing \in SUBSET Nat
    BY DEF Missing
  <2> QED BY <2>1, LeastNumber
<1>2. n \in Nat /\ ~ \E f : Runs(settings, state, n, f)
  BY <1>1 DEF Missing
<1>3. CASE n = 0
  <2>1. Runs(settings, state, 0, [i \in 0 .. 0 |-> state])
    BY DEF Runs
  <2> QED BY <1>2, <1>3, <2>1
<1>4. CASE n # 0
  <2>1. n - 1 \in Nat /\ n - 1 \notin Missing
    BY <1>1, <1>2, <1>4
  <2>2. PICK f : Runs(settings, state, n - 1, f)
    BY <2>1 DEF Missing
  <2> DEFINE g == [i \in 0 .. n |-> IF i = n THEN Restoring(f[n - 1], settings[n]) ELSE f[i]]
  <2>3. \A i \in 0 .. n - 1 : f[i] = IF i = 0 THEN state ELSE Restoring(f[i - 1], settings[i])
    BY <2>2, <1>2, <2>1 DEF Runs
  <2>4. \A i \in 0 .. n - 1 : g[i] = f[i]
    BY <1>2
  <2>5. g[n] = Restoring(g[n - 1], settings[n])
    BY <1>2, <1>4, <2>4
  <2>6. \A i \in 0 .. n : g[i] = IF i = 0 THEN state ELSE Restoring(g[i - 1], settings[i])
    BY <2>3, <2>4, <2>5, <1>2, <1>4
  <2>7. g = [i \in 0 .. n |-> g[i]]
    OBVIOUS
  <2> HIDE DEF g
  <2>8. Runs(settings, state, n, g)
    BY <2>6, <2>7 DEF Runs
  <2> QED BY <1>2, <2>8
<1> QED BY <1>3, <1>4

RestoredBy(settings, state, f) ==
  /\ RestoredState(settings, state) = f[Len(settings)] /\ f[0] = state
  /\ \A i \in 1 .. Len(settings) : f[i] = Restoring(f[i - 1], settings[i])

LEMMA RestoredRun ==
  ASSUME NEW settings, NEW state, Len(settings) \in Nat
  PROVE  \E f : RestoredBy(settings, state, f)
<1> DEFINE n == Len(settings)
           f == CHOOSE f : Runs(settings, state, n, f)
<1>1. Runs(settings, state, n, f)
  BY RunExists
<1>2. RestoredState(settings, state) = f[n]
  BY DEF RestoredState, Runs
<1> HIDE DEF f, n
<1>3. n \in Nat
  BY DEF n
<1>4. f[0] = state /\ \A i \in 1 .. n : f[i] = Restoring(f[i - 1], settings[i])
  BY <1>1, <1>3 DEF Runs
<1>5. RestoredBy(settings, state, f)
  BY <1>2, <1>4 DEF n, RestoredBy
<1> QED BY <1>5

-----------------------------------------------------------------------------
(* All settings listed: that of all first, then each override once.         *)
ListsAll(s, q, n, ids) ==
  /\ n \in Nat /\ Len(q) = n + 1 /\ q[1] = Setting("all", s.all)
  /\ ids \in [1 .. n -> DOMAIN s.overrides]
  /\ \A x \in DOMAIN s.overrides : \E i \in 1 .. n : ids[i] = x
  /\ \A i, k \in 1 .. n : ids[i] = ids[k] => i = k
  /\ \A i \in 1 .. n : q[i + 1] = Setting(ids[i], s.overrides[ids[i]])

LEMMA InSomeOrder ==
  ASSUME NEW D, IsFiniteSet(D)
  PROVE  /\ Cardinality(D) \in Nat
         /\ SetToSeq(D) \in [1 .. Cardinality(D) -> D]
         /\ \A x \in D : \E i \in 1 .. Cardinality(D) : SetToSeq(D)[i] = x
         /\ \A i, k \in 1 .. Cardinality(D) : SetToSeq(D)[i] = SetToSeq(D)[k] => i = k
<1> DEFINE n == Cardinality(D)
           ids == SetToSeq(D)
<1>1. n \in Nat /\ ExistsBijection(1 .. n, D)
  BY FS_CardinalityType
<1>2. \E f \in [1 .. n -> D] : IsInjective(f)
  <2>1. PICK f : f \in Bijection(1 .. n, D)
    BY <1>1 DEF ExistsBijection
  <2>2. f \in [1 .. n -> D] /\ IsInjective(f)
    BY <2>1 DEF Bijection, Injection
  <2> QED BY <2>2
<1>3. ids \in [1 .. n -> D] /\ IsInjective(ids)
  BY <1>2, Zenon DEF SetToSeq
<1> HIDE DEF ids
<1>4. ids \in Injection(1 .. n, D)
  BY <1>3 DEF Injection
<1>5. IsFiniteSet(1 .. n) /\ Cardinality(1 .. n) = n
  BY <1>1, FS_Interval
<1>6. ids \in Surjection(1 .. n, D)
  BY <1>4, <1>5, FS_Injection
<1>7. \A x \in D : \E i \in 1 .. n : ids[i] = x
  BY <1>6 DEF Surjection
<1>8. \A i, k \in 1 .. n : ids[i] = ids[k] => i = k
  BY <1>3 DEF IsInjective
<1> QED BY <1>1, <1>3, <1>7, <1>8 DEF ids

LEMMA AllListed ==
  ASSUME NEW s \in WarningStates
  PROVE  \E n, ids : ListsAll(s, AllSettings(s), n, ids)
<1> DEFINE D == DOMAIN s.overrides
           n == Cardinality(D)
           ids == SetToSeq(D)
           rest == [i \in DOMAIN ids |-> Setting(ids[i], s.overrides[ids[i]])]
           first == Setting("all", s.all)
           q == <<first>> \o rest
<1>1. IsFiniteSet(D)
  BY StateFields
<1>2. AllSettings(s) = q
  BY DEF AllSettings
<1> HIDE DEF D
<1>3. /\ n \in Nat /\ ids \in [1 .. n -> D]
      /\ \A x \in D : \E i \in 1 .. n : ids[i] = x
      /\ \A i, k \in 1 .. n : ids[i] = ids[k] => i = k
  BY <1>1, InSomeOrder
<1> HIDE DEF n, ids
<1> DEFINE Put(i) == Setting(ids[i], s.overrides[ids[i]])
<1>4. rest = [i \in 1 .. n |-> Put(i)]
  BY <1>3
<1> HIDE DEF rest, first, Put
<1>5. Len(q) = n + 1 /\ q[1] = first /\ \A i \in 1 .. n : q[i + 1] = Put(i)
  <2>1. rest \in Seq({Put(i) : i \in 1 .. n}) /\ Len(rest) = n /\ \A i \in 1 .. n : rest[i] = Put(i)
    BY <1>3, <1>4
  <2>2. Len(<<first>>) = 1 /\ <<first>>[1] = first
    OBVIOUS
  <2> QED BY <1>3, <2>1, <2>2
<1> HIDE DEF q
<1>6. ListsAll(s, q, n, ids)
  BY <1>3, <1>5 DEF ListsAll, D, first, Put
<1> QED BY <1>2, <1>6

(* The state that is restored shows every warning as the state saved did.   *)
Alike(r, s) == r \in WarningStates /\ r.all = s.all /\ \A y \in WarningIds : Enabled(r, y) = Enabled(s, y)

LEMMA AllRestored ==
  ASSUME NEW s \in WarningStates, NEW q, NEW n, NEW ids, ListsAll(s, q, n, ids), NEW c \in WarningStates
  PROVE  Alike(RestoredState(q, c), s)
<1>1. n \in Nat /\ Len(q) = n + 1 /\ Len(q) \in Nat
  BY DEF ListsAll
<1>0. PICK f : RestoredBy(q, c, f)
  BY <1>1, RestoredRun
<1>2. /\ RestoredState(q, c) = f[Len(q)] /\ f[0] = c
      /\ \A i \in 1 .. Len(q) : f[i] = Restoring(f[i - 1], q[i])
  BY <1>0 DEF RestoredBy
<1>3. s.all \in BOOLEAN /\ s.overrides \in [DOMAIN s.overrides -> BOOLEAN] /\ DOMAIN s.overrides \subseteq WarningIds
  BY StateFields
<1> DEFINE Right(i) == /\ f[i] \in WarningStates /\ f[i].all = s.all
                       /\ \A y \in WarningIds :
                            /\ (\E k \in 1 .. i - 1 : ids[k] = y) => Enabled(f[i], y) = s.overrides[y]
                            /\ (\A k \in 1 .. i - 1 : ids[k] # y) => Enabled(f[i], y) = s.all
           Wrong == {i \in 1 .. n + 1 : ~Right(i)}
<1>4. Right(1)
  <2>1. f[1] = Restoring(c, q[1]) /\ q[1] = Setting("all", s.all)
    BY <1>1, <1>2 DEF ListsAll
  <2>2. f[1] = SetSetting(c, "all", s.all)
    BY <2>1 DEF Restoring, Setting, Resolved
  <2>3. f[1] \in WarningStates /\ f[1].all = s.all /\ \A y \in WarningIds : Enabled(f[1], y) = s.all
    BY <2>2, <1>3, SetEvery
  <2>4. 1 .. 1 - 1 = {}
    OBVIOUS
  <2> QED BY <2>3, <2>4
<1>5. ASSUME NEW i \in 1 .. n, Right(i) PROVE Right(i + 1)
  <2> DEFINE x == ids[i]
             e == s.overrides[x]
  <2>1. x \in WarningIds /\ e \in BOOLEAN /\ q[i + 1] = Setting(x, e) /\ i + 1 \in 1 .. Len(q)
    BY <1>1, <1>3 DEF ListsAll
  <2>2. f[i + 1] = Restoring(f[i], q[i + 1])
    BY <2>1, <1>1, <1>2
  <2> HIDE DEF x, e
  <2>3. f[i + 1] = SetSetting(f[i], x, e)
    <3>1. x # "last"
      BY <2>1, Names
    <3> QED BY <2>1, <2>2, <3>1 DEF Restoring, Setting, Resolved
  <2>4. f[i] \in WarningStates
    BY <1>5
  <2>5. OneChanged(f[i], f[i + 1], x, e)
    BY <2>1, <2>3, <2>4, SetOne
  <2>6. f[i + 1] \in WarningStates /\ f[i + 1].all = s.all
    BY <2>5, <1>5 DEF OneChanged
  <2>7. ASSUME NEW y \in WarningIds
        PROVE  /\ (\E k \in 1 .. i : ids[k] = y) => Enabled(f[i + 1], y) = s.overrides[y]
               /\ (\A k \in 1 .. i : ids[k] # y) => Enabled(f[i + 1], y) = s.all
    <3>1. CASE y = x
      <4>1. Enabled(f[i + 1], y) = s.overrides[y] /\ i \in 1 .. i /\ ids[i] = y
        BY <3>1, <2>5 DEF OneChanged, x, e
      <4> QED BY <4>1
    <3>2. CASE y # x
      <4>1. Enabled(f[i + 1], y) = Enabled(f[i], y)
        BY <3>2, <2>5 DEF OneChanged
      <4>2. (\E k \in 1 .. i : ids[k] = y) <=> (\E k \in 1 .. i - 1 : ids[k] = y)
        BY <3>2 DEF x
      <4> QED BY <4>1, <4>2, <1>5
    <3> QED BY <3>1, <3>2
  <2>8. (i + 1) - 1 = i
    OBVIOUS
  <2> QED BY <2>6, <2>7, <2>8
<1> HIDE DEF Right
<1>6. Wrong = {}
  <2> SUFFICES ASSUME Wrong # {} PROVE FALSE
    OBVIOUS
  <2>1. PICK i \in Wrong : \A m \in Wrong : i <= m
    <3>1. Wrong \in SUBSET Nat
      OBVIOUS
    <3> HIDE DEF Wrong
    <3> QED BY <3>1, LeastNumber
  <2>2. i \in 1 .. n + 1 /\ ~Right(i)
    BY <2>1
  <2>3. i # 1
    BY <2>2, <1>4
  <2>4. i - 1 \in 1 .. n /\ i - 1 \in 1 .. n + 1 /\ ~(i <= i - 1) /\ (i - 1) + 1 = i
    BY <2>2, <2>3, <1>1
  <2>5. Right(i - 1)
    <3>1. i - 1 \notin Wrong
      <4> HIDE DEF Wrong
      <4> QED BY <2>1, <2>4
    <3> QED BY <3>1, <2>4
  <2>6. Right((i - 1) + 1)
    <3> DEFINE k == i - 1
    <3>1. k \in 1 .. n /\ Right(k)
      BY <2>4, <2>5
    <3> HIDE DEF k
    <3>2. Right(k + 1)
      BY <3>1, <1>5
    <3> QED BY <3>2 DEF k
  <2> QED BY <2>2, <2>4, <2>6
<1> DEFINE r == f[n + 1]
<1>7. Right(n + 1)
  BY <1>1, <1>6
<1>8. r \in WarningStates /\ r.all = s.all
  BY <1>7 DEF Right
<1>9. ASSUME NEW y \in WarningIds PROVE Enabled(r, y) = Enabled(s, y)
  <2>1. (n + 1) - 1 = n
    BY <1>1
  <2>2. CASE y \in DOMAIN s.overrides
    <3>1. \E k \in 1 .. (n + 1) - 1 : ids[k] = y
      BY <2>1, <2>2 DEF ListsAll
    <3>2. Enabled(r, y) = s.overrides[y]
      BY <3>1, <1>7 DEF Right
    <3> QED BY <3>2, <2>2, EnabledIs
  <2>3. CASE y \notin DOMAIN s.overrides
    <3>1. \A k \in 1 .. (n + 1) - 1 : ids[k] # y
      BY <2>1, <2>3 DEF ListsAll
    <3>2. Enabled(r, y) = s.all
      BY <3>1, <1>7 DEF Right
    <3> QED BY <3>2, <2>3, EnabledIs
  <2> QED BY <2>2, <2>3
<1> QED BY <1>1, <1>2, <1>8, <1>9 DEF Alike

-----------------------------------------------------------------------------
(* What is saved tells the state it was saved from.                         *)
SavedRight(m) ==
  /\ m.state \in WarningStates /\ m.whole \in BOOLEAN
  /\ m.whole => \E n, ids : ListsAll(m.state, m.settings, n, ids)
  /\ ~m.whole => \E x \in WarningIds \cup WarningModes \cup {"all"} :
                   m.settings = <<Setting(x, Enabled(m.state, x))>>

WarningInv ==
  /\ warnings \in WarningStates
  /\ saved # NothingSaved => SavedRight(saved)
  /\ SettingsComeBack

LEMMA EnabledOrNot ==
  ASSUME NEW s \in WarningStates, NEW x \in WarningIds \cup WarningModes \cup {"all"}
  PROVE  Enabled(s, x) \in BOOLEAN
BY StateFields, EnabledIs

(* Any setting may be changed.                                              *)
LEMMA AnySet ==
  ASSUME NEW s \in WarningStates, NEW x \in WarningIds \cup WarningModes \cup {"all"}, NEW enabled \in BOOLEAN
  PROVE  SetSetting(s, x, enabled) \in WarningStates /\ Enabled(SetSetting(s, x, enabled), x) = enabled
<1>1. CASE x \in WarningIds
  BY <1>1, SetOne DEF OneChanged
<1>2. CASE x \in WarningModes
  BY <1>2, SetMode
<1>3. CASE x = "all"
  BY <1>3, SetEvery, EnabledIs
<1> QED BY <1>1, <1>2, <1>3

LEMMA ResolvedIs ==
  ASSUME NEW s \in WarningStates, NEW x \in WarningIds \cup WarningModes \cup {"all", "last"}
  PROVE  Resolved(s, x) \in WarningIds \cup WarningModes \cup {"all"}
BY StateFields DEF Resolved

(* One setting given back alone.                                            *)
LEMMA OneRestored ==
  ASSUME NEW m, SavedRight(m), ~m.whole, NEW c \in WarningStates
  PROVE  /\ RestoredState(m.settings, c) \in WarningStates
         /\ Enabled(RestoredState(m.settings, c), m.settings[1].identifier)
              = Enabled(m.state, m.settings[1].identifier)
<1> DEFINE q == m.settings
           s == m.state
<1>1. PICK x \in WarningIds \cup WarningModes \cup {"all"} : q = <<Setting(x, Enabled(s, x))>>
  BY DEF SavedRight
<1>2. s \in WarningStates
  BY DEF SavedRight
<1> HIDE DEF q, s
<1> DEFINE e == Enabled(s, x)
<1>3. e \in BOOLEAN
  BY <1>2, EnabledOrNot
<1> HIDE DEF e
<1>4. Len(q) = 1 /\ q[1] = Setting(x, e)
  BY <1>1 DEF e
<1>5. PICK f : RestoredBy(q, c, f)
  BY <1>4, RestoredRun
<1>6. RestoredState(q, c) = Restoring(c, Setting(x, e))
  BY <1>4, <1>5 DEF RestoredBy
<1>7. x # "last"
  BY Names
<1>8. RestoredState(q, c) = SetSetting(c, x, e)
  BY <1>6, <1>7 DEF Restoring, Resolved, Setting
<1>9. RestoredState(q, c) \in WarningStates /\ Enabled(RestoredState(q, c), x) = e
  BY <1>3, <1>8, AnySet
<1>10. q[1].identifier = x
  BY <1>4 DEF Setting
<1> QED BY <1>9, <1>10 DEF q, s, e

LEMMA WarningStarts == WarningInit => WarningInv
<1> SUFFICES ASSUME WarningInit PROVE WarningInv
  OBVIOUS
<1> DEFINE o == <<>>
           modes == [mode \in WarningModes |-> TRUE]
<1>1. o \in [{} -> BOOLEAN] /\ IsFiniteSet({}) /\ {} \in SUBSET WarningIds
  BY FS_EmptySet
<1>2. modes \in [WarningModes -> BOOLEAN]
  OBVIOUS
<1>3. warnings = [all |-> TRUE, overrides |-> o, modes |-> modes, last |-> NoIdentifier]
  BY DEF WarningInit
<1> HIDE DEF o, modes
<1>4. warnings \in WarningStates
  BY <1>1, <1>2, <1>3, StateMade
<1> QED BY <1>4 DEF WarningInv, WarningInit, SettingsComeBack

LEMMA WarningSteps ==
  ASSUME WarningInv, [WarningNext]_warningVars
  PROVE  WarningInv'
<1>1. warnings \in WarningStates /\ (saved # NothingSaved => SavedRight(saved))
  BY DEF WarningInv
<1>2. CASE QueryAll
  <2> DEFINE m == [settings |-> AllSettings(warnings), state |-> warnings, whole |-> TRUE]
  <2>1. saved' = m /\ restored' = NothingSaved /\ warnings' = warnings
    BY <1>2 DEF QueryAll, Save
  <2>2. \E n, ids : ListsAll(warnings, AllSettings(warnings), n, ids)
    BY <1>1, AllListed
  <2>3. SavedRight(m)
    BY <2>2, <1>1 DEF SavedRight
  <2> QED BY <2>1, <2>3, <1>1 DEF WarningInv, SettingsComeBack
<1>3. CASE ChangeSetting
  <2>1. PICK identifier \in WarningIds \cup WarningModes \cup {"all", "last"},
             enabled \in BOOLEAN, query \in BOOLEAN, keep \in BOOLEAN :
          LET resolved == Resolved(warnings, identifier)
          IN /\ IF keep THEN Save(<<Setting(resolved, Enabled(warnings, resolved))>>, FALSE)
                ELSE UNCHANGED saved
             /\ warnings' = IF query THEN warnings ELSE SetSetting(warnings, resolved, enabled)
    BY <1>3, Zenon DEF ChangeSetting
  <2> DEFINE x == Resolved(warnings, identifier)
             m == [settings |-> <<Setting(x, Enabled(warnings, x))>>, state |-> warnings, whole |-> FALSE]
  <2>2. x \in WarningIds \cup WarningModes \cup {"all"}
    BY <1>1, ResolvedIs
  <2>3. /\ saved' = m \/ saved' = saved
        /\ warnings' = warnings \/ warnings' = SetSetting(warnings, x, enabled)
    BY <2>1 DEF Save
  <2> HIDE DEF x
  <2>4. warnings' \in WarningStates
    BY <2>2, <2>3, <1>1, AnySet
  <2>5. SavedRight(m)
    BY <2>2, <1>1 DEF SavedRight
  <2>6. restored' = NothingSaved
    BY <1>3 DEF ChangeSetting
  <2> HIDE DEF m
  <2> QED BY <2>3, <2>4, <2>5, <2>6, <1>1 DEF WarningInv, SettingsComeBack
<1>4. CASE Restore
  <2>1. saved # NothingSaved /\ warnings' = RestoredState(saved.settings, warnings)
        /\ restored' = saved /\ saved' = saved
    BY <1>4 DEF Restore
  <2>2. SavedRight(saved)
    BY <2>1, <1>1
  <2>3. CASE saved.whole
    <3>1. PICK n, ids : ListsAll(saved.state, saved.settings, n, ids)
      BY <2>2, <2>3 DEF SavedRight
    <3>2. Alike(warnings', saved.state)
      <4> DEFINE s == saved.state
                 q == saved.settings
      <4>1. s \in WarningStates /\ ListsAll(s, q, n, ids)
        BY <2>2, <3>1 DEF SavedRight
      <4> HIDE DEF s, q
      <4>2. Alike(RestoredState(q, warnings), s)
        BY <4>1, <1>1, AllRestored
      <4> QED BY <4>2, <2>1 DEF s, q
    <3>3. Enabled(warnings', "all") = Enabled(saved.state, "all")
      BY <3>2, EnabledIs DEF Alike
    <3>4. \A x \in WarningIds \cup {"all"} : Enabled(warnings', x) = Enabled(saved.state, x)
      BY <3>2, <3>3 DEF Alike
    <3>5. SettingsComeBack'
      BY <3>4, <2>1, <2>3, Zenon DEF SettingsComeBack
    <3> QED BY <3>2, <3>5, <2>1, <2>2 DEF WarningInv, Alike
  <2>4. CASE ~saved.whole
    <3>1. /\ warnings' \in WarningStates
          /\ Enabled(warnings', saved.settings[1].identifier) = Enabled(saved.state, saved.settings[1].identifier)
      BY <2>1, <2>2, <2>4, <1>1, OneRestored
    <3>2. SettingsComeBack'
      BY <3>1, <2>1, <2>4, Zenon DEF SettingsComeBack
    <3> QED BY <3>1, <3>2, <2>1, <2>2 DEF WarningInv
  <2> QED BY <2>3, <2>4
<1>5. CASE Warn
  <2>1. PICK identifier \in WarningIds \cup {NoIdentifier} : warnings' = [warnings EXCEPT !.last = identifier]
    BY <1>5 DEF Warn
  <2>2. /\ warnings = [all |-> warnings.all, overrides |-> warnings.overrides, modes |-> warnings.modes,
                       last |-> warnings.last]
        /\ warnings.all \in BOOLEAN /\ warnings.modes \in [WarningModes -> BOOLEAN]
        /\ warnings.overrides \in [DOMAIN warnings.overrides -> BOOLEAN]
        /\ DOMAIN warnings.overrides \in SUBSET WarningIds /\ IsFiniteSet(DOMAIN warnings.overrides)
    BY <1>1, StateFields
  <2>3. warnings' = [all |-> warnings.all, overrides |-> warnings.overrides, modes |-> warnings.modes,
                     last |-> identifier]
    BY <2>1, <2>2
  <2>4. warnings' \in WarningStates
    BY <2>2, <2>3, StateMade
  <2> QED BY <2>4, <1>1, <1>5 DEF Warn, WarningInv, SettingsComeBack
<1>6. CASE UNCHANGED warningVars
  BY <1>6 DEF warningVars, WarningInv, SettingsComeBack
<1> QED BY <1>2, <1>3, <1>4, <1>5, <1>6 DEF WarningNext

(***************************************************************************)
(* Whatever happened in between, giving back what `warning` returned makes *)
(* each warning show as it did when that was returned: every warning if    *)
(* all settings were saved, the one it names otherwise.                    *)
(***************************************************************************)
THEOREM SavedSettingsComeBack == WarningSpec => []SettingsComeBack
<1>1. WarningInit => WarningInv
  BY WarningStarts
<1>2. WarningInv /\ [WarningNext]_warningVars => WarningInv'
  BY WarningSteps
<1>3. WarningInv => SettingsComeBack
  BY DEF WarningInv
<1> QED BY <1>1, <1>2, <1>3, PTL DEF WarningSpec

-----------------------------------------------------------------------------
(* Listeners and handlers.                                                 *)
\* The fields of a listener.
Listener == [source : Sources, event : Events, coupled : BOOLEAN, recursive : BOOLEAN,
             valid : BOOLEAN, retained : BOOLEAN, held : BOOLEAN]

DispatchTypes ==
    /\ valid \in [Sources -> BOOLEAN]
    /\ destroying \subseteq Sources
    /\ listeners \in Seq(Listener)
    /\ DOMAIN records \subseteq DOMAIN listeners
    /\ records \in [DOMAIN records -> [active : BOOLEAN]]

\* A callback runs on behalf of the handler below it, which called a
\* registered listener; it found the listener active exactly when another
\* callback of it runs further out.
CallbackNests(i) ==
    /\ i > 1 /\ handlers[i - 1].kind \in {"notify", "destroy"}
    /\ handlers[i].id \in DOMAIN records
    /\ handlers[i].previous \in BOOLEAN
    /\ handlers[i].previous <=> \E j \in CallbacksOf(handlers[i].id) : j < i

\* A source is being destroyed once, and is no longer valid.
DestructionNests(i) ==
    /\ handlers[i].source \in Sources
    /\ ~valid[handlers[i].source]
    /\ \A j \in DOMAIN handlers :
         handlers[j].kind = "destroy" /\ handlers[j].source = handlers[i].source => j = i

Kinds == {"notify", "callback", "destroy", "destructor"}
Described(handler) ==
    /\ handler.kind \in Kinds
    /\ handler.kind \in {"notify", "destroy"} => {"kind", "source"} \subseteq DOMAIN handler

IsSeq(s) == \E S : s \in Seq(S)

HandlersNest ==
    /\ IsSeq(handlers)
    /\ \A i \in DOMAIN handlers :
         /\ Described(handlers[i])
         /\ handlers[i].kind = "callback" => CallbackNests(i)
         /\ handlers[i].kind = "destroy" => DestructionNests(i)

\* The registry drops only listeners nothing holds any more.
DroppedAreGone == \A id \in DOMAIN listeners \ DOMAIN records : ~Locked(id)

DispatchInv ==
    /\ DispatchTypes
    /\ HandlersNest
    /\ ActiveWhileRunning
    /\ CoupledListenersEnd
    /\ DroppedAreGone
-----------------------------------------------------------------------------
(***************************************************************************)
(* The control stack.                                                      *)
(***************************************************************************)
LEMMA Pushed ==
  ASSUME NEW s, IsSeq(s), NEW x
  PROVE  /\ IsSeq(Append(s, x))
         /\ Len(s) \in Nat /\ DOMAIN s = 1..Len(s)
         /\ Len(Append(s, x)) = Len(s) + 1
         /\ DOMAIN Append(s, x) = 1..(Len(s) + 1)
         /\ Append(s, x)[Len(s) + 1] = x
         /\ \A i \in 1..Len(s) : Append(s, x)[i] = s[i]
<1>1. PICK S : s \in Seq(S)
  BY DEF IsSeq
<1>2. s \in Seq(S \cup {x}) /\ x \in S \cup {x}
  BY <1>1, SeqMonotonic
<1>3. Append(s, x) \in Seq(S \cup {x})
  BY <1>2
<1> QED
  BY <1>2, <1>3, AppendProperties DEF IsSeq

LEMMA Popped ==
  ASSUME NEW s, IsSeq(s), s # <<>>
  PROVE  /\ IsSeq(Front(s))
         /\ Len(s) \in Nat \ {0} /\ DOMAIN s = 1..Len(s)
         /\ Last(s) = s[Len(s)]
         /\ Len(Front(s)) = Len(s) - 1
         /\ DOMAIN Front(s) = 1..(Len(s) - 1)
         /\ \A i \in 1..(Len(s) - 1) : Front(s)[i] = s[i]
<1>1. PICK S : s \in Seq(S)
  BY DEF IsSeq
<1>2. Len(s) \in Nat \ {0} /\ DOMAIN s = 1..Len(s)
  BY <1>1, EmptySeq, LenProperties
<1>3. Front(s) \in Seq(S) /\ Len(Front(s)) = Len(s) - 1
      /\ \A i \in 1..(Len(s) - 1) : Front(s)[i] = s[i]
  BY <1>1, <1>2 DEF Front
<1> QED
  BY <1>2, <1>3, LenProperties DEF IsSeq, Last

LEMMA Changed ==
  ASSUME NEW s, IsSeq(s), NEW n \in 1..Len(s), NEW x, NEW t, t = [s EXCEPT ![n] = x]
  PROVE  /\ IsSeq(t)
         /\ Len(s) \in Nat /\ DOMAIN s = 1..Len(s)
         /\ Len(t) = Len(s) /\ DOMAIN t = 1..Len(s)
         /\ t[n] = x
         /\ \A i \in 1..Len(s) : i # n => t[i] = s[i]
<1>1. PICK S : s \in Seq(S)
  BY DEF IsSeq
<1>2. s \in Seq(S \cup {x}) /\ x \in S \cup {x}
  BY <1>1, SeqMonotonic
<1>3. Len(s) \in Nat /\ DOMAIN s = 1..Len(s)
  BY <1>1
<1>4. t \in Seq(S \cup {x}) /\ Len(t) = Len(s) /\ DOMAIN t = 1..Len(s)
  BY <1>2, <1>3, ExceptSeq
<1>5. t[n] = x /\ \A i \in 1..Len(s) : i # n => t[i] = s[i]
  BY <1>3
<1> QED
  BY <1>3, <1>4, <1>5 DEF IsSeq

\* The current handler is the last one.
LEMMA CurrentHandler ==
  ASSUME IsSeq(handlers), Current.kind # "script"
  PROVE  /\ handlers # <<>>
         /\ Len(handlers) \in Nat \ {0} /\ DOMAIN handlers = 1..Len(handlers)
         /\ Current = handlers[Len(handlers)]
<1>1. handlers # <<>> /\ Current = Last(handlers)
  BY DEF Current, NoHandler
<1> QED
  BY <1>1, Popped

\* The outermost callback of a listener.
LEMMA OutermostRuns ==
  ASSUME IsSeq(handlers), NEW id, Active(id)
  PROVE  \E i \in CallbacksOf(id) :
           Outermost(id) = handlers[i] /\ \A j \in CallbacksOf(id) : i <= j
<1> DEFINE S == CallbacksOf(id)
<1>1. S # {} /\ S \subseteq Nat
  <2>1. PICK T : handlers \in Seq(T)
    BY DEF IsSeq
  <2>2. DOMAIN handlers \subseteq Nat
    BY <2>1
  <2> QED
    BY <2>2 DEF Active, CallbacksOf
<1>2. IsWellFoundedOn(OpToRel(<, Nat), Nat)
  BY NatLessThanWellFounded, Zenon
<1>3. PICK i \in S : \A j \in S : ~(<<j, i>> \in OpToRel(<, Nat))
  <2> DEFINE R == OpToRel(<, Nat)
  <2> HIDE DEF R, S
  <2>1. IsWellFoundedOn(R, Nat)
    BY <1>2, Zenon DEF R
  <2>2. \E i \in S : \A j \in S : ~(<<j, i>> \in R)
    BY <1>1, <2>1, WFMin
  <2> QED
    BY <2>2, Zenon DEF R
<1>4. \A j \in S : i <= j
  <2> SUFFICES ASSUME NEW j \in S, j < i
               PROVE  FALSE
    BY <1>1
  <2>1. <<j, i>> \in OpToRel(<, Nat)
    BY <1>1, <1>3, Zenon DEF OpToRel
  <2> QED
    BY <1>3, <2>1, Zenon
<1> HIDE DEF S
<1> DEFINE m == CHOOSE k \in S : \A j \in S : k <= j
<1>5. m \in S /\ \A j \in S : m <= j
  BY <1>3, <1>4
<1>6. Outermost(id) = handlers[m]
  BY Zenon DEF Outermost, S
<1> QED
  BY <1>5, <1>6 DEF S
-----------------------------------------------------------------------------
(***************************************************************************)
(* Steps that call no listener, end no callback and no destruction: the    *)
(* handlers that matter to the registry are the same before and after.     *)
(***************************************************************************)
AlikeListeners(new, old) ==
    /\ new.kind = old.kind
    /\ old.kind = "callback" => new = old
    /\ old.kind \in {"notify", "destroy"} =>
         {"kind", "source"} \subseteq DOMAIN new /\ new.source = old.source

Passive(handler) ==
    /\ handler.kind \in {"notify", "destructor"}
    /\ handler.kind = "notify" => {"kind", "source"} \subseteq DOMAIN handler

LEMMA PassiveStep ==
  ASSUME DispatchInv, IsSeq(handlers'),
         valid' = valid, destroying' = destroying, records' = records, listeners' = listeners,
         NEW n \in Nat, n <= Len(handlers), n <= Len(handlers'),
         \A i \in 1..n : AlikeListeners(handlers'[i], handlers[i]),
         \A i \in DOMAIN handlers : i > n => Passive(handlers[i]),
         \A i \in DOMAIN handlers' : i > n => Passive(handlers'[i])
  PROVE  DispatchInv'
<1>1. /\ Len(handlers) \in Nat /\ DOMAIN handlers = 1..Len(handlers)
      /\ Len(handlers') \in Nat /\ DOMAIN handlers' = 1..Len(handlers')
  BY DEF DispatchInv, HandlersNest, IsSeq
<1>2. \A id : CallbacksOf(id)' = CallbacksOf(id)
  <2> SUFFICES ASSUME NEW id PROVE CallbacksOf(id)' = CallbacksOf(id)
    OBVIOUS
  <2>1. \A i \in DOMAIN handlers : i \in CallbacksOf(id) => i \in CallbacksOf(id)'
    BY <1>1 DEF CallbacksOf, AlikeListeners, Passive
  <2>2. \A i \in DOMAIN handlers' : i \in CallbacksOf(id)' => i \in CallbacksOf(id)
    BY <1>1 DEF CallbacksOf, AlikeListeners, Passive
  <2> QED
    BY <2>1, <2>2 DEF CallbacksOf
<1>3. \A id : Active(id)' = Active(id) /\ Locked(id)' = Locked(id)
  BY <1>2 DEF Active, Locked
<1>4. \A i : i \in DOMAIN handlers' /\ handlers'[i].kind = "destroy"
              <=> i \in DOMAIN handlers /\ handlers[i].kind = "destroy"
  BY <1>1 DEF AlikeListeners, Passive
<1>5. \A i \in DOMAIN handlers : handlers[i].kind = "destroy" =>
        i \in 1..n /\ handlers'[i].source = handlers[i].source
  BY <1>1 DEF AlikeListeners, Passive
<1>6. DispatchTypes'
  BY DEF DispatchInv, DispatchTypes
<1>7. HandlersNest'
  <2>1. SUFFICES ASSUME NEW i \in DOMAIN handlers'
                 PROVE  /\ Described(handlers'[i])
                        /\ handlers'[i].kind = "callback" => CallbackNests(i)'
                        /\ handlers'[i].kind = "destroy" => DestructionNests(i)'
    BY DEF HandlersNest
  <2>2. CASE i > n
    BY <2>2 DEF Passive, Described, Kinds
  <2>3. CASE i <= n
    <3>1. i \in 1..n /\ i \in DOMAIN handlers /\ AlikeListeners(handlers'[i], handlers[i])
      BY <1>1, <2>3
    <3>2. /\ Described(handlers[i])
          /\ handlers[i].kind = "callback" => CallbackNests(i)
          /\ handlers[i].kind = "destroy" => DestructionNests(i)
      BY <3>1 DEF DispatchInv, HandlersNest
    <3>3. Described(handlers'[i])
      BY <3>1, <3>2 DEF Described, AlikeListeners
    <3>4. handlers'[i].kind = "callback" => CallbackNests(i)'
      <4> SUFFICES ASSUME handlers'[i].kind = "callback" PROVE CallbackNests(i)'
        OBVIOUS
      <4>1. handlers'[i] = handlers[i] /\ CallbackNests(i)
        BY <3>1, <3>2 DEF AlikeListeners
      <4>2. i - 1 \in 1..n /\ AlikeListeners(handlers'[i - 1], handlers[i - 1])
        BY <1>1, <3>1, <4>1 DEF CallbackNests
      <4> QED
        BY <1>2, <4>1, <4>2 DEF CallbackNests, AlikeListeners
    <3>5. handlers'[i].kind = "destroy" => DestructionNests(i)'
      BY <1>4, <1>5, <3>1, <3>2 DEF DestructionNests, AlikeListeners
    <3> QED
      BY <3>3, <3>4, <3>5
  <2> QED
    BY <1>1, <2>2, <2>3
<1>8. ActiveWhileRunning'
  BY <1>3, <1>4, <1>5 DEF DispatchInv, ActiveWhileRunning
<1>9. CoupledListenersEnd' /\ DroppedAreGone'
  BY <1>3 DEF DispatchInv, CoupledListenersEnd, DroppedAreGone, Usable
<1> QED
  BY <1>6, <1>7, <1>8, <1>9 DEF DispatchInv

LEMMA NotifyKeeps == ASSUME DispatchInv, Notify PROVE DispatchInv'
<1>1. PICK source \in Sources, event \in Events :
        handlers' = Append(handlers, [kind |-> "notify", source |-> source,
                                      pending |-> Matching(source, event)])
  BY DEF Notify
<1> DEFINE x == [kind |-> "notify", source |-> source, pending |-> Matching(source, event)]
<1>2. x.kind = "notify" /\ {"kind", "source"} \subseteq DOMAIN x
  OBVIOUS
<1> HIDE DEF x
<1>3. handlers' = Append(handlers, x) /\ IsSeq(handlers)
  BY <1>1 DEF x, DispatchInv, HandlersNest
<1>4. /\ IsSeq(handlers') /\ Len(handlers) \in Nat /\ DOMAIN handlers = 1..Len(handlers)
      /\ Len(handlers') = Len(handlers) + 1 /\ DOMAIN handlers' = 1..(Len(handlers) + 1)
      /\ handlers'[Len(handlers) + 1] = x
      /\ \A i \in 1..Len(handlers) : handlers'[i] = handlers[i]
  BY <1>3, Pushed
<1>5. \A i \in 1..Len(handlers) : AlikeListeners(handlers'[i], handlers[i])
  BY <1>4 DEF DispatchInv, HandlersNest, Described, AlikeListeners
<1>6. \A i \in DOMAIN handlers' : i > Len(handlers) => Passive(handlers'[i])
  BY <1>2, <1>4 DEF Passive
<1> QED
  BY <1>4, <1>5, <1>6, PassiveStep DEF Notify

LEMMA SkipKeeps ==
  ASSUME DispatchInv, Current.kind \in {"notify", "destroy"}, UNCHANGED <<valid, destroying, records, listeners>>,
         handlers' = [handlers EXCEPT ![Len(handlers)].pending = Tail(@)]
  PROVE  DispatchInv'
<1> DEFINE n == Len(handlers)
           x == [handlers[n] EXCEPT !.pending = Tail(@)]
<1>1. IsSeq(handlers)
  BY DEF DispatchInv, HandlersNest
<1>2. n \in Nat \ {0} /\ DOMAIN handlers = 1..n /\ Current = handlers[n]
  BY <1>1, CurrentHandler
<1>3. {"kind", "source"} \subseteq DOMAIN handlers[n]
  BY <1>2 DEF DispatchInv, HandlersNest, Described
<1>4. x.kind = handlers[n].kind /\ x.source = handlers[n].source /\ {"kind", "source"} \subseteq DOMAIN x
  BY <1>3
<1>5. handlers' = [handlers EXCEPT ![n] = x]
  OBVIOUS
<1>a. n = Len(handlers) /\ n \in 1..n /\ n \in 1..Len(handlers)
  BY <1>2
<1> HIDE DEF x, n
<1>b. IsSeq(handlers')
  <2> DEFINE s == [handlers EXCEPT ![n] = x]
  <2>1. IsSeq(s)
    BY <1>1, <1>a, Changed
  <2> HIDE DEF s
  <2>2. handlers' = s
    BY <1>5 DEF s
  <2> QED
    BY <2>1, <2>2
<1>6. /\ Len(handlers') = n /\ DOMAIN handlers' = 1..n /\ handlers'[n] = x
      /\ \A i \in 1..n : i # n => handlers'[i] = handlers[i]
  BY <1>1, <1>a, <1>5, Changed
<1>7. \A i \in 1..n : AlikeListeners(handlers'[i], handlers[i])
  <2> SUFFICES ASSUME NEW i \in 1..n PROVE AlikeListeners(handlers'[i], handlers[i])
    OBVIOUS
  <2>1. CASE i = n
    BY <1>2, <1>4, <1>6, <2>1 DEF AlikeListeners
  <2>2. CASE i # n
    BY <1>2, <1>6, <2>2 DEF DispatchInv, HandlersNest, Described, AlikeListeners
  <2> QED
    BY <2>1, <2>2
<1>8. \A i \in DOMAIN handlers : i > n => Passive(handlers[i])
  BY <1>2
<1>9. \A i \in DOMAIN handlers' : i > n => Passive(handlers'[i])
  BY <1>2, <1>6
<1>10. n \in Nat /\ n <= Len(handlers) /\ n <= Len(handlers')
  BY <1>2, <1>6, <1>a
<1> QED
  BY <1>6, <1>7, <1>8, <1>9, <1>10, <1>b, PassiveStep

\* A handler of a notification that is over, and a destructor, leave.
LEMMA LeaveKeeps ==
  ASSUME DispatchInv, Current.kind \in {"notify", "destructor"}, UNCHANGED <<valid, destroying, records, listeners>>,
         handlers' = Front(handlers)
  PROVE  DispatchInv'
<1> DEFINE n == Len(handlers)
<1>1. IsSeq(handlers)
  BY DEF DispatchInv, HandlersNest
<1>2. handlers # <<>> /\ n \in Nat \ {0} /\ DOMAIN handlers = 1..n /\ Current = handlers[n]
  BY <1>1, CurrentHandler
<1>3. /\ IsSeq(handlers') /\ Len(handlers') = n - 1 /\ DOMAIN handlers' = 1..(n - 1)
      /\ \A i \in 1..(n - 1) : handlers'[i] = handlers[i]
  BY <1>1, <1>2, Popped
<1>4. \A i \in 1..(n - 1) : AlikeListeners(handlers'[i], handlers[i])
  BY <1>2, <1>3 DEF DispatchInv, HandlersNest, Described, AlikeListeners
<1>5. Passive(handlers[n])
  BY <1>2 DEF DispatchInv, HandlersNest, Described, Passive
<1>6. /\ n - 1 \in Nat /\ n - 1 <= Len(handlers) /\ n - 1 <= Len(handlers')
      /\ \A i \in DOMAIN handlers : i > n - 1 => Passive(handlers[i])
      /\ \A i \in DOMAIN handlers' : i > n - 1 => Passive(handlers'[i])
  BY <1>2, <1>3, <1>5
<1> QED
  BY <1>3, <1>4, <1>6, PassiveStep

LEMMA RunDestructorKeeps == ASSUME DispatchInv, RunDestructor PROVE DispatchInv'
<1> DEFINE n == Len(handlers)
           x == [handlers[n] EXCEPT !.destructors = @ - 1]
           s == [handlers EXCEPT ![n] = x]
           d == [kind |-> "destructor"]
<1>1. IsSeq(handlers)
  BY DEF DispatchInv, HandlersNest
<1>2. n \in Nat \ {0} /\ DOMAIN handlers = 1..n /\ Current = handlers[n]
  BY <1>1, CurrentHandler DEF RunDestructor
<1>3. {"kind", "source"} \subseteq DOMAIN handlers[n]
  BY <1>2 DEF DispatchInv, HandlersNest, Described, RunDestructor
<1>4. x.kind = handlers[n].kind /\ x.source = handlers[n].source /\ {"kind", "source"} \subseteq DOMAIN x
  BY <1>3
<1>5. handlers' = Append(s, d)
  BY DEF RunDestructor
<1>6. d.kind = "destructor"
  OBVIOUS
<1>a. n = Len(handlers) /\ n \in 1..n /\ n \in 1..Len(handlers)
  BY <1>2
<1> HIDE DEF x, n, d
<1>b. IsSeq(s)
  BY <1>1, <1>a, Changed
<1>7. /\ Len(s) = n /\ DOMAIN s = 1..n /\ s[n] = x
      /\ \A i \in 1..n : i # n => s[i] = handlers[i]
  BY <1>1, <1>a, Changed
<1> HIDE DEF s
<1>8. /\ IsSeq(handlers') /\ Len(handlers') = n + 1 /\ DOMAIN handlers' = 1..(n + 1)
      /\ handlers'[n + 1] = d
      /\ \A i \in 1..n : handlers'[i] = s[i]
  BY <1>5, <1>7, <1>b, Pushed
<1>9. \A i \in 1..n : AlikeListeners(handlers'[i], handlers[i])
  <2> SUFFICES ASSUME NEW i \in 1..n PROVE AlikeListeners(handlers'[i], handlers[i])
    OBVIOUS
  <2>1. CASE i = n
    BY <1>2, <1>4, <1>7, <1>8, <2>1 DEF AlikeListeners, RunDestructor
  <2>2. CASE i # n
    BY <1>2, <1>7, <1>8, <2>2 DEF DispatchInv, HandlersNest, Described, AlikeListeners
  <2> QED
    BY <2>1, <2>2
<1>10. \A i \in DOMAIN handlers' : i > n => Passive(handlers'[i])
  BY <1>2, <1>6, <1>8 DEF Passive
<1>11. \A i \in DOMAIN handlers : i > n => Passive(handlers[i])
  BY <1>2
<1>12. n \in Nat /\ n <= Len(handlers) /\ n <= Len(handlers')
  BY <1>2, <1>8, <1>a
<1>13. UNCHANGED <<valid, destroying, records, listeners>>
  BY DEF RunDestructor
<1> QED
  BY <1>8, <1>9, <1>10, <1>11, <1>12, <1>13, PassiveStep
-----------------------------------------------------------------------------
(***************************************************************************)
(* Operations on listeners: the registry gains listeners that are new and  *)
(* loses listeners that are gone, and no listener is locked again.         *)
(***************************************************************************)
LEMMA RegistryStep ==
  ASSUME DispatchInv, handlers' = handlers, valid' = valid, destroying' = destroying, DispatchTypes',
         \A id \in DOMAIN records \cap DOMAIN records' : records'[id] = records[id],
         \A id \in DOMAIN records' \ DOMAIN records : id \notin DOMAIN listeners /\ ~records'[id].active,
         \A id \in DOMAIN records \ DOMAIN records' : ~Locked(id),
         DOMAIN listeners \subseteq DOMAIN listeners',
         \A id \in DOMAIN listeners' \ DOMAIN listeners :
           id \in DOMAIN records' /\ Usable(listeners'[id].source),
         \A id \in DOMAIN listeners :
           /\ listeners'[id].source = listeners[id].source
           /\ listeners'[id].coupled => listeners[id].coupled
           /\ listeners'[id].valid => listeners[id].valid
           /\ listeners'[id].retained => listeners[id].retained
           /\ listeners'[id].held => listeners[id].held
  PROVE  DispatchInv'
<1>1. \A id : CallbacksOf(id)' = CallbacksOf(id) /\ Active(id)' = Active(id)
  BY DEF CallbacksOf, Active
<1>2. \A id \in DOMAIN listeners : Locked(id)' => Locked(id)
  BY <1>1 DEF Locked
<1>3. \A id : Active(id) => id \in DOMAIN records
  BY DEF DispatchInv, HandlersNest, CallbackNests, Active, CallbacksOf
<1>4. \A id : Active(id) => id \in DOMAIN records'
  BY <1>3 DEF Locked
<1>5. HandlersNest'
  <2>1. SUFFICES ASSUME NEW i \in DOMAIN handlers
                 PROVE  /\ Described(handlers[i])
                        /\ handlers[i].kind = "callback" => CallbackNests(i)'
                        /\ handlers[i].kind = "destroy" => DestructionNests(i)'
    BY DEF HandlersNest, DispatchInv
  <2>2. /\ Described(handlers[i])
        /\ handlers[i].kind = "callback" => CallbackNests(i)
        /\ handlers[i].kind = "destroy" => DestructionNests(i)
    BY DEF DispatchInv, HandlersNest
  <2>3. handlers[i].kind = "callback" => handlers[i].id \in DOMAIN records'
    BY <1>4 DEF Active, CallbacksOf
  <2>4. handlers[i].kind = "callback" => CallbackNests(i)'
    BY <1>1, <2>2, <2>3 DEF CallbackNests
  <2>5. handlers[i].kind = "destroy" => DestructionNests(i)'
    BY <2>2 DEF DestructionNests
  <2> QED
    BY <2>2, <2>4, <2>5
<1>6. ActiveWhileRunning'
  <2>1. \A id \in DOMAIN records' : records'[id].active = Active(id)'
    <3> SUFFICES ASSUME NEW id \in DOMAIN records' PROVE records'[id].active = Active(id)
      BY <1>1
    <3>1. CASE id \in DOMAIN records
      BY <3>1 DEF DispatchInv, ActiveWhileRunning
    <3>2. CASE id \notin DOMAIN records
      <4>1. ~records'[id].active /\ records'[id].active \in BOOLEAN
        BY <3>2 DEF DispatchTypes
      <4>2. ~Active(id)
        BY <1>3, <3>2
      <4>3. Active(id) \in BOOLEAN
        BY DEF Active
      <4> QED
        BY <4>1, <4>2, <4>3
    <3> QED
      BY <3>1, <3>2
  <2> QED
    BY <2>1 DEF DispatchInv, ActiveWhileRunning
<1>7. CoupledListenersEnd'
  BY <1>2 DEF DispatchInv, CoupledListenersEnd, Usable
<1>8. DroppedAreGone'
  BY <1>2 DEF DispatchInv, DispatchTypes, DroppedAreGone
<1> QED
  BY <1>5, <1>6, <1>7, <1>8 DEF DispatchInv

LEMMA CreateListenerKeeps == ASSUME DispatchInv, CreateListener PROVE DispatchInv'
<1>1. PICK source \in Sources, event \in Events, coupled \in BOOLEAN, recursive \in BOOLEAN, held \in BOOLEAN :
        /\ Usable(source)
        /\ listeners' = Append(listeners,
             [source |-> source, event |-> event, coupled |-> coupled, recursive |-> recursive,
              valid |-> TRUE, retained |-> coupled, held |-> held])
        /\ records' = [id \in DOMAIN records \cup {Len(listeners')} |->
                         IF id \in DOMAIN records THEN records[id] ELSE [active |-> FALSE]]
  BY DEF CreateListener
<1> DEFINE x == [source |-> source, event |-> event, coupled |-> coupled, recursive |-> recursive,
                 valid |-> TRUE, retained |-> coupled, held |-> held]
           n == Len(listeners) + 1
<1>2. x \in Listener /\ x.source = source
  BY DEF Listener
<1>3. listeners \in Seq(Listener)
  BY DEF DispatchInv, DispatchTypes
<1> HIDE DEF x
<1>4. listeners' = Append(listeners, x)
  BY <1>1 DEF x
<1>5. /\ listeners' \in Seq(Listener)
      /\ DOMAIN listeners = 1..Len(listeners) /\ Len(listeners) \in Nat
      /\ DOMAIN listeners' = 1..n /\ Len(listeners') = n
      /\ listeners'[n] = x
      /\ \A id \in DOMAIN listeners : listeners'[id] = listeners[id]
  BY <1>2, <1>3, <1>4, AppendProperties
<1>6. /\ DOMAIN records' = DOMAIN records \cup {n}
      /\ \A id \in DOMAIN records : records'[id] = records[id]
      /\ n \notin DOMAIN records => records'[n] = [active |-> FALSE]
  BY <1>1, <1>5
<1>7. n \notin DOMAIN listeners /\ n \notin DOMAIN records
  BY <1>5 DEF DispatchInv, DispatchTypes
<1>8. DispatchTypes'
  <2>1. DOMAIN records' \subseteq DOMAIN listeners'
    BY <1>5, <1>6 DEF DispatchInv, DispatchTypes
  <2>2. \A id \in DOMAIN records' : records'[id] \in [active : BOOLEAN]
    <3>1. \A id \in DOMAIN records : records[id] \in [active : BOOLEAN]
      BY DEF DispatchInv, DispatchTypes
    <3>2. records'[n] \in [active : BOOLEAN]
      <4>1. records'[n] = [active |-> FALSE]
        BY <1>6, <1>7
      <4>2. [active |-> FALSE] \in [active : BOOLEAN]
        OBVIOUS
      <4> QED
        BY <4>1, <4>2, Zenon
    <3> QED
      BY <1>6, <3>1, <3>2
  <2>3. records' \in [DOMAIN records' -> [active : BOOLEAN]]
    BY <1>1, <2>2
  <2> QED
    BY <1>5, <2>1, <2>3 DEF DispatchInv, DispatchTypes, CreateListener
<1> QED
  BY <1>1, <1>2, <1>5, <1>6, <1>7, <1>8, RegistryStep DEF CreateListener

\* A listener whose fields only leave it less held.
LEMMA ListenerWeakens ==
  ASSUME DispatchInv, UNCHANGED <<valid, destroying, records, handlers>>,
         NEW id \in DOMAIN listeners, NEW x \in Listener,
         listeners' = [listeners EXCEPT ![id] = x],
         x.source = listeners[id].source, x.coupled => listeners[id].coupled,
         x.valid => listeners[id].valid, x.retained => listeners[id].retained,
         x.held => listeners[id].held
  PROVE  DispatchInv'
<1>1. listeners \in Seq(Listener)
  BY DEF DispatchInv, DispatchTypes
<1>2. listeners' \in Seq(Listener) /\ DOMAIN listeners' = DOMAIN listeners
      /\ listeners'[id] = x
      /\ \A other \in DOMAIN listeners : other # id => listeners'[other] = listeners[other]
  BY <1>1, ExceptSeq
<1>3. DispatchTypes'
  BY <1>2 DEF DispatchInv, DispatchTypes
<1> QED
  BY <1>2, <1>3, RegistryStep

LEMMA ListenerFields ==
  ASSUME DispatchTypes, NEW id \in DOMAIN listeners
  PROVE  listeners[id] \in Listener
BY DEF DispatchTypes

LEMMA ChangeRecursiveKeeps == ASSUME DispatchInv, ChangeRecursive PROVE DispatchInv'
<1>1. PICK id \in DOMAIN listeners : listeners' = [listeners EXCEPT ![id].recursive = ~@]
  BY DEF ChangeRecursive
<1> DEFINE x == [listeners[id] EXCEPT !.recursive = ~@]
<1>2. listeners[id] \in Listener
  BY ListenerFields DEF DispatchInv
<1>3. x \in Listener /\ x.source = listeners[id].source /\ x.coupled = listeners[id].coupled
      /\ x.valid = listeners[id].valid /\ x.retained = listeners[id].retained /\ x.held = listeners[id].held
  BY <1>2 DEF Listener
<1>4. listeners' = [listeners EXCEPT ![id] = x]
  BY <1>1
<1> HIDE DEF x
<1> QED
  BY <1>3, <1>4, ListenerWeakens DEF ChangeRecursive

LEMMA DropListenerKeeps == ASSUME DispatchInv, DropListener PROVE DispatchInv'
<1>1. PICK id \in DOMAIN listeners : listeners' = [listeners EXCEPT ![id].held = FALSE]
  BY DEF DropListener
<1> DEFINE x == [listeners[id] EXCEPT !.held = FALSE]
<1>2. listeners[id] \in Listener
  BY ListenerFields DEF DispatchInv
<1>3. x \in Listener /\ x.source = listeners[id].source /\ x.coupled = listeners[id].coupled
      /\ x.valid = listeners[id].valid /\ x.retained = listeners[id].retained /\ x.held = FALSE
  BY <1>2 DEF Listener
<1>4. listeners' = [listeners EXCEPT ![id] = x]
  BY <1>1
<1> HIDE DEF x
<1> QED
  BY <1>3, <1>4, ListenerWeakens DEF DropListener

LEMMA DeleteListenerKeeps == ASSUME DispatchInv, DeleteListener PROVE DispatchInv'
<1>1. PICK id \in DOMAIN listeners :
        listeners' = [listeners EXCEPT ![id].valid = FALSE, ![id].retained = @ /\ id \notin DOMAIN records]
  BY DEF DeleteListener
<1> DEFINE kept == listeners[id].retained /\ id \notin DOMAIN records
           x == [listeners[id] EXCEPT !.valid = FALSE, !.retained = kept]
<1>2. listeners[id] \in Listener
  BY ListenerFields DEF DispatchInv
<1>3. kept \in BOOLEAN /\ (kept => listeners[id].retained)
  BY <1>2 DEF Listener
<1>4. listeners' = [listeners EXCEPT ![id] = x]
  BY <1>1
<1> HIDE DEF kept
<1>5. x \in Listener /\ x.source = listeners[id].source /\ x.coupled = listeners[id].coupled
      /\ x.valid = FALSE /\ x.retained = kept /\ x.held = listeners[id].held
  BY <1>2, <1>3 DEF Listener
<1> HIDE DEF x
<1> QED
  BY <1>3, <1>4, <1>5, ListenerWeakens DEF DeleteListener

LEMMA CollectKeeps == ASSUME DispatchInv, Collect PROVE DispatchInv'
<1>1. /\ DOMAIN records' = {id \in DOMAIN records : Locked(id)}
      /\ \A id \in DOMAIN records' : records'[id] = records[id]
      /\ records' = [id \in DOMAIN records' |-> records[id]]
  BY DEF Collect
<1>2. DispatchTypes'
  BY <1>1 DEF DispatchInv, DispatchTypes, Collect
<1> QED
  BY <1>1, <1>2, RegistryStep DEF Collect
-----------------------------------------------------------------------------
(***************************************************************************)
(* A source begins to be destroyed.                                        *)
(***************************************************************************)
LEMMA DeleteKeeps == ASSUME DispatchInv, Delete PROVE DispatchInv'
<1>1. PICK source \in Sources :
        /\ valid[source]
        /\ valid' = [valid EXCEPT ![source] = FALSE]
        /\ destroying' = destroying \cup {source}
        /\ handlers' = Append(handlers, [kind |-> "destroy", source |-> source,
                                         pending |-> Matching(source, Destroyed),
                                         destructors |-> Destructors])
  BY DEF Delete
<1> DEFINE x == [kind |-> "destroy", source |-> source, pending |-> Matching(source, Destroyed),
                 destructors |-> Destructors]
           n == Len(handlers) + 1
<1>2. x.kind = "destroy" /\ x.source = source /\ {"kind", "source"} \subseteq DOMAIN x
  OBVIOUS
<1> HIDE DEF x
<1>3. handlers' = Append(handlers, x) /\ IsSeq(handlers)
  BY <1>1 DEF x, DispatchInv, HandlersNest
<1>4. /\ IsSeq(handlers') /\ Len(handlers) \in Nat /\ DOMAIN handlers = 1..Len(handlers)
      /\ DOMAIN handlers' = 1..n /\ handlers'[n] = x
      /\ \A i \in 1..Len(handlers) : handlers'[i] = handlers[i]
  BY <1>3, Pushed
<1>5. \A id : CallbacksOf(id)' = CallbacksOf(id) /\ Active(id)' = Active(id) /\ Locked(id)' = Locked(id)
  <2>1. \A id : CallbacksOf(id)' = CallbacksOf(id)
    BY <1>2, <1>4 DEF CallbacksOf
  <2>2. \A id : Active(id)' = Active(id)
    BY <2>1 DEF Active
  <2> QED
    BY <2>1, <2>2 DEF Locked, Delete
<1>6. UNCHANGED <<records, listeners>>
  BY DEF Delete
<1>7. DispatchTypes'
  BY <1>1, <1>6 DEF DispatchInv, DispatchTypes
<1>8. \A s \in Sources : valid'[s] <=> valid[s] /\ s # source
  BY <1>1 DEF DispatchInv, DispatchTypes
<1>9. HandlersNest'
  <2>1. SUFFICES ASSUME NEW i \in DOMAIN handlers'
                 PROVE  /\ Described(handlers'[i])
                        /\ handlers'[i].kind = "callback" => CallbackNests(i)'
                        /\ handlers'[i].kind = "destroy" => DestructionNests(i)'
    BY <1>4 DEF HandlersNest
  <2>2. CASE i = n
    <3>1. Described(handlers'[i])
      BY <1>2, <1>4, <2>2 DEF Described, Kinds
    <3>2. \A j \in DOMAIN handlers : handlers[j].kind = "destroy" => handlers[j].source # source
      BY <1>1 DEF DispatchInv, HandlersNest, DestructionNests
    <3>3. DestructionNests(i)'
      BY <1>2, <1>4, <1>8, <2>2, <3>2 DEF DestructionNests
    <3> QED
      BY <1>2, <1>4, <2>2, <3>1, <3>3
  <2>3. CASE i # n
    <3>1. i \in DOMAIN handlers /\ handlers'[i] = handlers[i]
      BY <1>4, <2>3
    <3>2. /\ Described(handlers[i])
          /\ handlers[i].kind = "callback" => CallbackNests(i)
          /\ handlers[i].kind = "destroy" => DestructionNests(i)
      BY <3>1 DEF DispatchInv, HandlersNest
    <3>3. handlers'[i].kind = "callback" => CallbackNests(i)'
      <4> SUFFICES ASSUME handlers'[i].kind = "callback" PROVE CallbackNests(i)'
        OBVIOUS
      <4>1. CallbackNests(i) /\ i - 1 \in 1..Len(handlers) /\ handlers'[i - 1] = handlers[i - 1]
        BY <1>4, <3>1, <3>2 DEF CallbackNests
      <4> QED
        BY <1>5, <1>6, <3>1, <4>1 DEF CallbackNests
    <3>4. handlers'[i].kind = "destroy" => DestructionNests(i)'
      <4> SUFFICES ASSUME handlers'[i].kind = "destroy" PROVE DestructionNests(i)'
        OBVIOUS
      <4>1. DestructionNests(i)
        BY <3>1, <3>2
      <4>2. handlers[i].source # source
        BY <1>1, <4>1 DEF DestructionNests
      <4> QED
        BY <1>2, <1>4, <1>8, <3>1, <4>1, <4>2 DEF DestructionNests
    <3> QED
      BY <3>1, <3>2, <3>3, <3>4
  <2> QED
    BY <2>2, <2>3
<1>10. ActiveWhileRunning'
  <2>1. destroying = {handlers[i].source : i \in {j \in DOMAIN handlers : handlers[j].kind = "destroy"}}
    BY DEF DispatchInv, ActiveWhileRunning
  <2>2. destroying' = {handlers'[i].source : i \in {j \in DOMAIN handlers' : handlers'[j].kind = "destroy"}}
    BY <1>1, <1>2, <1>4, <2>1
  <2> QED
    BY <1>5, <1>6, <2>2 DEF DispatchInv, ActiveWhileRunning
<1>11. CoupledListenersEnd'
  <2>1. \A id \in DOMAIN listeners : listeners[id].source \in Sources
    BY ListenerFields DEF DispatchInv, Listener
  <2>2. \A s \in Sources : Usable(s) => Usable(s)'
    BY <1>1, <1>8 DEF Usable
  <2> QED
    BY <1>5, <1>6, <2>1, <2>2 DEF DispatchInv, CoupledListenersEnd
<1>12. DroppedAreGone'
  BY <1>5, <1>6 DEF DispatchInv, DroppedAreGone
<1> QED
  BY <1>7, <1>9, <1>10, <1>11, <1>12 DEF DispatchInv
-----------------------------------------------------------------------------
(***************************************************************************)
(* Callbacks begin and end.                                                *)
(***************************************************************************)
LEMMA CallKeeps ==
  ASSUME DispatchInv, Current.kind \in {"notify", "destroy"}, UNCHANGED <<valid, destroying, listeners>>,
         NEW id, MayRun(id),
         handlers' = Append([handlers EXCEPT ![Len(handlers)].pending = Tail(@)],
                            [kind |-> "callback", id |-> id, previous |-> records[id].active]),
         records' = [records EXCEPT ![id].active = TRUE]
  PROVE  DispatchInv'
<1> DEFINE n == Len(handlers)
           x == [handlers[n] EXCEPT !.pending = Tail(@)]
           s == [handlers EXCEPT ![n] = x]
           c == [kind |-> "callback", id |-> id, previous |-> records[id].active]
<1>1. IsSeq(handlers)
  BY DEF DispatchInv, HandlersNest
<1>2. n \in Nat \ {0} /\ DOMAIN handlers = 1..n /\ Current = handlers[n]
  BY <1>1, CurrentHandler
<1>3. {"kind", "source"} \subseteq DOMAIN handlers[n]
  BY <1>2 DEF DispatchInv, HandlersNest, Described
<1>4. x.kind = handlers[n].kind /\ x.source = handlers[n].source /\ {"kind", "source"} \subseteq DOMAIN x
  BY <1>3
<1>5. handlers' = Append(s, c)
  OBVIOUS
<1>6. c.kind = "callback" /\ c.id = id /\ c.previous = records[id].active
  OBVIOUS
<1>a. n = Len(handlers) /\ n \in 1..n /\ n \in 1..Len(handlers)
  BY <1>2
<1> HIDE DEF x, n, c
<1>b. IsSeq(s)
  BY <1>1, <1>a, Changed
<1>7. /\ Len(s) = n /\ DOMAIN s = 1..n /\ s[n] = x
      /\ \A i \in 1..n : i # n => s[i] = handlers[i]
  BY <1>1, <1>a, Changed
<1> HIDE DEF s
<1>8. /\ IsSeq(handlers') /\ DOMAIN handlers' = 1..(n + 1) /\ handlers'[n + 1] = c
      /\ \A i \in 1..n : handlers'[i] = s[i]
  <2> DEFINE pushed == Append(s, c)
  <2>1. IsSeq(pushed)
    BY <1>b, Pushed
  <2>2. /\ DOMAIN pushed = 1..(n + 1) /\ pushed[n + 1] = c
        /\ \A i \in 1..n : pushed[i] = s[i]
    BY <1>7, <1>b, Pushed
  <2> HIDE DEF pushed
  <2>3. handlers' = pushed
    BY <1>5 DEF pushed
  <2> QED
    BY <2>1, <2>2, <2>3
<1>9. \A i \in 1..n : AlikeListeners(handlers'[i], handlers[i])
  <2> SUFFICES ASSUME NEW i \in 1..n PROVE AlikeListeners(handlers'[i], handlers[i])
    OBVIOUS
  <2>1. CASE i = n
    BY <1>2, <1>4, <1>7, <1>8, <2>1 DEF AlikeListeners
  <2>2. CASE i # n
    BY <1>2, <1>7, <1>8, <2>2 DEF DispatchInv, HandlersNest, Described, AlikeListeners
  <2> QED
    BY <2>1, <2>2
<1>10. /\ \A other : other # id => CallbacksOf(other)' = CallbacksOf(other)
       /\ CallbacksOf(id)' = CallbacksOf(id) \cup {n + 1}
  <2>1. \A other : \A i \in 1..n : i \in CallbacksOf(other)' <=> i \in CallbacksOf(other)
    BY <1>2, <1>8, <1>9 DEF CallbacksOf, AlikeListeners
  <2>2. \A other : n + 1 \in CallbacksOf(other)' <=> other = id
    BY <1>2, <1>6, <1>8 DEF CallbacksOf
  <2>3. \A other : CallbacksOf(other) \subseteq 1..n /\ CallbacksOf(other)' \subseteq 1..(n + 1)
    BY <1>2, <1>8 DEF CallbacksOf
  <2>4. \A i : i \in 1..(n + 1) <=> i \in 1..n \/ i = n + 1
    BY <1>2
  <2> QED
    BY <2>1, <2>2, <2>3, <2>4
<1>11. /\ \A other : other # id => Active(other)' = Active(other)
       /\ Active(id)'
  BY <1>10 DEF Active
<1>12. id \in DOMAIN records /\ Locked(id)
  BY DEF MayRun, StillValid
<1>13. \A i \in 1..(n + 1) : handlers'[i].kind = "destroy" =>
         i \in 1..n /\ handlers[i].kind = "destroy" /\ handlers'[i].source = handlers[i].source
  BY <1>2, <1>6, <1>8, <1>9 DEF AlikeListeners
<1>14. \A i \in 1..n : handlers[i].kind = "destroy" =>
         handlers'[i].kind = "destroy" /\ handlers'[i].source = handlers[i].source
  BY <1>9 DEF AlikeListeners
<1>15. /\ DOMAIN records' = DOMAIN records
       /\ records'[id].active = TRUE
       /\ \A other \in DOMAIN records : other # id => records'[other] = records[other]
       /\ records' \in [DOMAIN records -> [active : BOOLEAN]]
  BY <1>12 DEF DispatchInv, DispatchTypes
<1>16. DispatchTypes'
  BY <1>15 DEF DispatchInv, DispatchTypes
<1>17. HandlersNest'
  <2>1. SUFFICES ASSUME NEW i \in 1..(n + 1)
                 PROVE  /\ Described(handlers'[i])
                        /\ handlers'[i].kind = "callback" => CallbackNests(i)'
                        /\ handlers'[i].kind = "destroy" => DestructionNests(i)'
    BY <1>8 DEF HandlersNest
  <2>2. CASE i = n + 1
    <3>1. Described(handlers'[i])
      BY <1>6, <1>8, <2>2 DEF Described, Kinds
    <3>2. records[id].active = Active(id) /\ Active(id) \in BOOLEAN
      BY <1>12 DEF DispatchInv, ActiveWhileRunning, Active
    <3>3. Active(id) <=> \E j \in CallbacksOf(id)' : j < i
      BY <1>2, <1>10, <2>2 DEF Active, CallbacksOf
    <3>4. i > 1 /\ i - 1 = n /\ handlers'[i - 1].kind \in {"notify", "destroy"}
      BY <1>2, <1>9, <1>a, <2>2 DEF AlikeListeners
    <3>5. handlers'[i].id = id /\ handlers'[i].previous = Active(id)
      BY <1>6, <1>8, <2>2, <3>2
    <3>6. CallbackNests(i)'
      BY <1>12, <1>15, <3>2, <3>3, <3>4, <3>5 DEF CallbackNests
    <3> QED
      BY <1>6, <1>8, <2>2, <3>1, <3>6
  <2>3. CASE i # n + 1
    <3>0. i \in 1..n
      BY <1>2, <2>3
    <3>1. i \in 1..n /\ i \in DOMAIN handlers /\ AlikeListeners(handlers'[i], handlers[i])
      BY <1>2, <1>9, <3>0
    <3>2. /\ Described(handlers[i])
          /\ handlers[i].kind = "callback" => CallbackNests(i)
          /\ handlers[i].kind = "destroy" => DestructionNests(i)
      BY <3>1 DEF DispatchInv, HandlersNest
    <3>3. Described(handlers'[i])
      BY <3>1, <3>2 DEF Described, AlikeListeners
    <3>4. handlers'[i].kind = "callback" => CallbackNests(i)'
      <4> SUFFICES ASSUME handlers'[i].kind = "callback" PROVE CallbackNests(i)'
        OBVIOUS
      <4>1. handlers'[i] = handlers[i] /\ CallbackNests(i)
        BY <3>1, <3>2 DEF AlikeListeners
      <4>2. i - 1 \in 1..n /\ AlikeListeners(handlers'[i - 1], handlers[i - 1])
        BY <1>2, <1>9, <3>1, <4>1 DEF CallbackNests
      <4>3. (\E j \in CallbacksOf(handlers[i].id)' : j < i) <=> \E j \in CallbacksOf(handlers[i].id) : j < i
        <5>1. ~(n + 1 < i)
          BY <1>2, <3>1
        <5>2. \A other : (\E j \in CallbacksOf(other)' : j < i) <=> \E j \in CallbacksOf(other) : j < i
          <6> SUFFICES ASSUME NEW other
                       PROVE  (\E j \in CallbacksOf(other)' : j < i) <=> \E j \in CallbacksOf(other) : j < i
            OBVIOUS
          <6>1. CASE other = id
            BY <1>10, <5>1, <6>1
          <6>2. CASE other # id
            BY <1>10, <6>2
          <6> QED
            BY <6>1, <6>2
        <5> QED
          BY <4>1, <5>2
      <4> QED
        BY <1>15, <4>1, <4>2, <4>3 DEF CallbackNests, AlikeListeners
    <3>5. handlers'[i].kind = "destroy" => DestructionNests(i)'
      BY <1>2, <1>8, <1>13, <3>1, <3>2 DEF DestructionNests, AlikeListeners
    <3> QED
      BY <3>3, <3>4, <3>5
  <2> QED
    BY <2>2, <2>3
<1>18. ActiveWhileRunning'
  <2>1. \A other \in DOMAIN records' : records'[other].active = Active(other)'
    <3> SUFFICES ASSUME NEW other \in DOMAIN records' PROVE records'[other].active = Active(other)'
      OBVIOUS
    <3>1. CASE other = id
      <4>1. Active(id)' \in BOOLEAN
        BY DEF Active
      <4> QED
        BY <1>11, <1>15, <3>1, <4>1
    <3>2. CASE other # id
      BY <1>11, <1>15, <3>2 DEF DispatchInv, ActiveWhileRunning
    <3> QED
      BY <3>1, <3>2
  <2>2. destroying = {handlers[i].source : i \in {j \in DOMAIN handlers : handlers[j].kind = "destroy"}}
    BY DEF DispatchInv, ActiveWhileRunning
  <2>3. destroying' = {handlers'[i].source : i \in {j \in DOMAIN handlers' : handlers'[j].kind = "destroy"}}
    BY <1>2, <1>8, <1>13, <1>14, <2>2
  <2> QED
    BY <2>1, <2>3 DEF ActiveWhileRunning
<1>19. \A other : other # id => Locked(other)' = Locked(other)
  BY <1>11 DEF Locked
<1>20. CoupledListenersEnd'
  BY <1>12, <1>19 DEF DispatchInv, CoupledListenersEnd, Usable
<1>21. DroppedAreGone'
  BY <1>12, <1>15, <1>19 DEF DispatchInv, DroppedAreGone
<1> QED
  BY <1>16, <1>17, <1>18, <1>20, <1>21 DEF DispatchInv

LEMMA InvokeKeeps == ASSUME DispatchInv, Invoke PROVE DispatchInv'
<1> DEFINE id == Head(Current.pending)
           rest == [handlers EXCEPT ![Len(handlers)].pending = Tail(@)]
<1>0. PICK enabled \in BOOLEAN :
        IF MayRun(id) /\ enabled
        THEN /\ handlers' = Append(rest, [kind |-> "callback", id |-> id, previous |-> records[id].active])
             /\ records' = [records EXCEPT ![id].active = TRUE]
        ELSE handlers' = rest /\ UNCHANGED records
  BY DEF Invoke
<1>1. CASE MayRun(id) /\ enabled
  <2>1. handlers' = Append(rest, [kind |-> "callback", id |-> id, previous |-> records[id].active])
        /\ records' = [records EXCEPT ![id].active = TRUE]
    BY <1>0, <1>1
  <2>2. Current.kind \in {"notify", "destroy"} /\ UNCHANGED <<valid, destroying, listeners>>
    BY DEF Invoke
  <2> HIDE DEF id
  <2> QED
    BY <1>1, <2>1, <2>2, CallKeeps
<1>2. CASE ~(MayRun(id) /\ enabled)
  <2>1. handlers' = rest /\ UNCHANGED records
    BY <1>0, <1>2
  <2> QED
    BY <2>1, SkipKeeps DEF Invoke
<1> QED
  BY <1>1, <1>2
-----------------------------------------------------------------------------
(***************************************************************************)
(* Handlers leave, the innermost first.                                    *)
(***************************************************************************)
LEMMA PrefixNests ==
  ASSUME HandlersNest, IsSeq(handlers'), valid' = valid, DOMAIN records' = DOMAIN records,
         NEW m \in Nat, m <= Len(handlers), DOMAIN handlers' = 1..m,
         \A i \in 1..m : handlers'[i] = handlers[i]
  PROVE  /\ HandlersNest'
         /\ \A id : CallbacksOf(id)' = {i \in CallbacksOf(id) : i <= m}
<1>1. DOMAIN handlers = 1..Len(handlers) /\ Len(handlers) \in Nat
  BY DEF HandlersNest, IsSeq
<1>2. \A id : CallbacksOf(id)' = {i \in CallbacksOf(id) : i <= m}
  <2> SUFFICES ASSUME NEW id PROVE CallbacksOf(id)' = {i \in CallbacksOf(id) : i <= m}
    OBVIOUS
  <2>1. \A i : i \in 1..m <=> i \in DOMAIN handlers /\ i <= m
    BY <1>1
  <2> QED
    BY <1>1, <2>1 DEF CallbacksOf
<1>3. ASSUME NEW i \in 1..m
      PROVE  /\ Described(handlers'[i])
             /\ handlers'[i].kind = "callback" => CallbackNests(i)'
             /\ handlers'[i].kind = "destroy" => DestructionNests(i)'
  <2>1. i \in DOMAIN handlers /\ handlers'[i] = handlers[i]
    BY <1>1
  <2>2. /\ Described(handlers[i])
        /\ handlers[i].kind = "callback" => CallbackNests(i)
        /\ handlers[i].kind = "destroy" => DestructionNests(i)
    BY <2>1 DEF HandlersNest
  <2>3. handlers'[i].kind = "callback" => CallbackNests(i)'
    <3> SUFFICES ASSUME handlers'[i].kind = "callback" PROVE CallbackNests(i)'
      OBVIOUS
    <3>1. CallbackNests(i)
      BY <2>1, <2>2
    <3>2. i - 1 \in 1..m /\ handlers'[i - 1] = handlers[i - 1]
      BY <1>1, <3>1 DEF CallbackNests
    <3>3. \A id : \A j : j \in CallbacksOf(id) /\ j < i => j <= m
      BY <1>1 DEF CallbacksOf
    <3>4. \A id : (\E j \in CallbacksOf(id)' : j < i) <=> \E j \in CallbacksOf(id) : j < i
      BY <1>2, <3>3
    <3> QED
      BY <2>1, <3>1, <3>2, <3>4 DEF CallbackNests
  <2>4. handlers'[i].kind = "destroy" => DestructionNests(i)'
    BY <1>1, <2>1, <2>2 DEF DestructionNests
  <2> QED
    BY <2>1, <2>2, <2>3, <2>4
<1> QED
  BY <1>2, <1>3 DEF HandlersNest

\* A callback ends, and with it the notification it fails.
LEMMA CallbackEnds ==
  ASSUME DispatchInv, UNCHANGED <<valid, destroying, listeners>>,
         IsSeq(handlers'),
         NEW n, n = Len(handlers), n > 1, handlers[n].kind = "callback",
         records' = Restored(records, handlers[n]),
         NEW m \in {n - 1, n - 2}, DOMAIN handlers' = 1..m,
         \A i \in 1..m : handlers'[i] = handlers[i],
         m = n - 2 => handlers[n - 1].kind = "notify"
  PROVE  DispatchInv'
<1>1. n \in Nat /\ DOMAIN handlers = 1..n /\ m \in Nat
  BY DEF DispatchInv, HandlersNest, IsSeq
<1> DEFINE id == handlers[n].id
<1>2. CallbackNests(n) /\ n \in DOMAIN handlers
  BY <1>1 DEF DispatchInv, HandlersNest
<1>3. /\ DOMAIN records' = DOMAIN records
      /\ records'[id].active = handlers[n].previous
      /\ \A other \in DOMAIN records : other # id => records'[other] = records[other]
      /\ records' \in [DOMAIN records -> [active : BOOLEAN]]
  <2>1. id \in DOMAIN records /\ handlers[n].previous \in BOOLEAN
    BY <1>2 DEF CallbackNests
  <2>2. records' = [records EXCEPT ![id].active = handlers[n].previous]
    BY <2>1 DEF Restored, Previous
  <2>3. records \in [DOMAIN records -> [active : BOOLEAN]]
    BY DEF DispatchInv, DispatchTypes
  <2> QED
    BY <2>1, <2>2, <2>3
<1>4. /\ HandlersNest'
      /\ \A other : CallbacksOf(other)' = {i \in CallbacksOf(other) : i <= m}
  <2>1. m <= Len(handlers)
    BY <1>1
  <2> QED
    BY <1>1, <1>3, <2>1, PrefixNests DEF DispatchInv
<1>5. \A i \in 1..n : i <= m \/ i = n \/ handlers[i].kind = "notify"
  BY <1>1
<1>6. \A other : \A i \in CallbacksOf(other) : i \in 1..n /\ (i <= m \/ i = n)
  BY <1>1, <1>5 DEF CallbacksOf
<1>7. \A other : other # id => CallbacksOf(other)' = CallbacksOf(other)
  <2>1. \A other : other # id => n \notin CallbacksOf(other)
    BY DEF CallbacksOf
  <2> QED
    BY <1>4, <1>6, <2>1
<1>8. \A other : other # id => Active(other)' = Active(other)
  <2> SUFFICES ASSUME NEW other, other # id PROVE Active(other)' = Active(other)
    OBVIOUS
  <2>1. CallbacksOf(other)' = CallbacksOf(other)
    BY <1>7
  <2> QED
    BY <2>1 DEF Active
<1>9. ASSUME NEW other, other = id
      PROVE  Active(other)' <=> \E j \in CallbacksOf(other) : j < n
  <2>1. CallbacksOf(other)' = {i \in CallbacksOf(other) : i <= m}
    BY <1>4
  <2>2. \A i \in CallbacksOf(other) : i <= m <=> i < n
    BY <1>1, <1>6
  <2> QED
    BY <2>1, <2>2 DEF Active
<1>10. ActiveWhileRunning'
  <2>1. \A other \in DOMAIN records' : records'[other].active = Active(other)'
    <3> SUFFICES ASSUME NEW other \in DOMAIN records' PROVE records'[other].active = Active(other)'
      OBVIOUS
    <3>1. CASE other = id
      <4>1. Active(other)' \in BOOLEAN
        BY DEF Active
      <4>2. Active(other)' <=> handlers[n].previous
        BY <1>2, <1>9, <3>1 DEF CallbackNests
      <4> QED
        BY <1>2, <1>3, <3>1, <4>1, <4>2 DEF CallbackNests
    <3>2. CASE other # id
      BY <1>3, <1>8, <3>2 DEF DispatchInv, ActiveWhileRunning
    <3> QED
      BY <3>1, <3>2
  <2>2. destroying = {handlers[i].source : i \in {j \in DOMAIN handlers : handlers[j].kind = "destroy"}}
    BY DEF DispatchInv, ActiveWhileRunning
  <2>3. \A i : i \in 1..n /\ handlers[i].kind = "destroy"
               <=> i \in 1..m /\ handlers'[i].kind = "destroy"
    BY <1>1, <1>5
  <2>4. destroying' = {handlers'[i].source : i \in {j \in DOMAIN handlers' : handlers'[j].kind = "destroy"}}
    BY <1>1, <2>2, <2>3
  <2> QED
    BY <2>1, <2>4 DEF ActiveWhileRunning
<1>11. \A other : Locked(other)' => Locked(other)
  <2>1. \A other : Active(other)' => Active(other)
    BY <1>4 DEF Active
  <2> QED
    BY <2>1 DEF Locked
<1>12. DispatchTypes'
  BY <1>3 DEF DispatchInv, DispatchTypes
<1>13. CoupledListenersEnd'
  BY <1>11 DEF DispatchInv, CoupledListenersEnd, Usable
<1>14. DroppedAreGone'
  BY <1>3, <1>11 DEF DispatchInv, DroppedAreGone
<1> QED
  BY <1>4, <1>10, <1>12, <1>13, <1>14 DEF DispatchInv

LEMMA CallbackReturnsKeeps == ASSUME DispatchInv, CallbackReturns PROVE DispatchInv'
<1> DEFINE n == Len(handlers)
           below == Front(handlers)
<1>1. IsSeq(handlers)
  BY DEF DispatchInv, HandlersNest
<1>2. handlers # <<>> /\ n \in Nat \ {0} /\ DOMAIN handlers = 1..n /\ Current = handlers[n]
  BY <1>1, CurrentHandler DEF CallbackReturns
<1>3. n > 1 /\ handlers[n - 1].kind \in {"notify", "destroy"}
  BY <1>2 DEF DispatchInv, HandlersNest, CallbackNests, CallbackReturns
<1>4. /\ IsSeq(below) /\ Len(below) = n - 1 /\ DOMAIN below = 1..(n - 1)
      /\ \A i \in 1..(n - 1) : below[i] = handlers[i]
  BY <1>1, <1>2, Popped
<1>5. \/ handlers' = below
      \/ handlers' = Front(below) /\ Last(below).kind # "destroy"
  BY DEF CallbackReturns
<1>6. UNCHANGED <<valid, destroying, listeners>> /\ records' = Restored(records, handlers[n])
      /\ handlers[n].kind = "callback"
  BY <1>2 DEF CallbackReturns
<1> HIDE DEF below
<1>7. CASE handlers' = below
  <2>1. IsSeq(handlers') /\ DOMAIN handlers' = 1..(n - 1) /\ \A i \in 1..(n - 1) : handlers'[i] = handlers[i]
    BY <1>4, <1>7
  <2>2. n - 1 \in {n - 1, n - 2} /\ n - 1 # n - 2
    <3>1. n \in Int
      BY <1>2
    <3> HIDE DEF n
    <3>2. n - 1 # n - 2
      BY <3>1
    <3> QED
      BY <3>2
  <2> QED
    BY <1>2, <1>3, <1>6, <2>1, <2>2, CallbackEnds
<1>8. CASE handlers' = Front(below) /\ Last(below).kind # "destroy"
  <2> DEFINE rest == Front(below)
  <2>1. below # <<>>
    BY <1>2, <1>3, <1>4
  <2>2. /\ IsSeq(rest) /\ DOMAIN rest = 1..(Len(below) - 1)
        /\ \A i \in 1..(Len(below) - 1) : rest[i] = below[i]
        /\ Last(below) = below[Len(below)]
    BY <1>4, <2>1, Popped
  <2> HIDE DEF rest
  <2>3. handlers' = rest
    BY <1>8 DEF rest
  <2>4. n - 2 \in {n - 1, n - 2} /\ Len(below) - 1 = n - 2 /\ n - 2 \in Nat
    BY <1>2, <1>3, <1>4
  <2>5. IsSeq(handlers') /\ DOMAIN handlers' = 1..(n - 2) /\ \A i \in 1..(n - 2) : handlers'[i] = handlers[i]
    <3>1. \A i \in 1..(n - 2) : i \in 1..(n - 1)
      BY <2>4
    <3> QED
      BY <1>4, <2>2, <2>3, <2>4, <3>1
  <2>6. handlers[n - 1].kind = "notify"
    BY <1>2, <1>3, <1>4, <1>8, <2>2
  <2> QED
    BY <1>2, <1>3, <1>6, <2>4, <2>5, <2>6, CallbackEnds
<1> QED
  BY <1>5, <1>7, <1>8
-----------------------------------------------------------------------------
(***************************************************************************)
(* Destructions end, one by one or all with an exception of the host: the  *)
(* listeners coupled to their sources are cut off.                         *)
(***************************************************************************)
LEMMA CutOffFields ==
  ASSUME DispatchTypes, NEW sources
  PROVE  /\ CutOff(sources) \in Seq(Listener)
         /\ DOMAIN CutOff(sources) = DOMAIN listeners
         /\ \A id \in DOMAIN listeners :
              LET new == CutOff(sources)[id]
              IN /\ new.source = listeners[id].source
                 /\ new.coupled = listeners[id].coupled
                 /\ new.held = listeners[id].held
                 /\ new.retained => listeners[id].retained
                 /\ new.valid => listeners[id].valid
                 /\ listeners[id].coupled /\ listeners[id].source \in sources /\ id \in DOMAIN records
                      => ~new.retained /\ (new.valid => ~Locked(id))
<1> DEFINE cut(id) == listeners[id].coupled /\ \E source \in sources :
                        listeners[id].source = source /\ id \in InRegistry(source)
           off(id) == [listeners[id] EXCEPT !.valid = @ /\ ~Locked(id), !.retained = FALSE]
<1>1. \A id \in DOMAIN listeners : listeners[id] \in Listener
  BY ListenerFields
<1>2. ASSUME NEW id \in DOMAIN listeners
      PROVE  /\ off(id) \in Listener /\ off(id).source = listeners[id].source
             /\ off(id).coupled = listeners[id].coupled /\ off(id).held = listeners[id].held
             /\ ~off(id).retained
             /\ off(id).valid => listeners[id].valid /\ ~Locked(id)
  <2>1. listeners[id] \in Listener
    BY <1>1
  <2> DEFINE v == listeners[id].valid /\ ~Locked(id)
  <2>2. v \in BOOLEAN
    OBVIOUS
  <2>3. off(id) = [listeners[id] EXCEPT !.valid = v, !.retained = FALSE]
    OBVIOUS
  <2> HIDE DEF v
  <2>4. /\ off(id) \in Listener /\ off(id).source = listeners[id].source
        /\ off(id).coupled = listeners[id].coupled /\ off(id).held = listeners[id].held
        /\ off(id).retained = FALSE /\ off(id).valid = v
    BY <2>1, <2>2, <2>3 DEF Listener
  <2> HIDE DEF off
  <2> QED
    BY <2>4 DEF v
<1>3. CutOff(sources) = [id \in DOMAIN listeners |-> IF cut(id) THEN off(id) ELSE listeners[id]]
  BY DEF CutOff
<1>4. \A id \in DOMAIN listeners :
        listeners[id].coupled /\ listeners[id].source \in sources /\ id \in DOMAIN records => cut(id)
  BY DEF InRegistry
<1> HIDE DEF cut, off
<1>5. DOMAIN listeners = 1..Len(listeners) /\ Len(listeners) \in Nat
  BY DEF DispatchTypes
<1>6. \A id \in DOMAIN listeners : CutOff(sources)[id] = IF cut(id) THEN off(id) ELSE listeners[id]
  BY <1>3
<1>7. CutOff(sources) \in [1..Len(listeners) -> Listener]
  BY <1>1, <1>2, <1>3, <1>5
<1>8. CutOff(sources) \in Seq(Listener) /\ DOMAIN CutOff(sources) = DOMAIN listeners
  BY <1>5, <1>7, IsASeq
<1> QED
  BY <1>2, <1>4, <1>6, <1>8

\* The handlers above the first m leave, with every callback and destruction
\* among them.
LEMMA SourcesGone ==
  ASSUME DispatchInv, NEW sources, sources \subseteq Sources,
         valid' = valid, IsSeq(handlers'), DOMAIN records' = DOMAIN records,
         records' \in [DOMAIN records -> [active : BOOLEAN]],
         listeners' = CutOff(sources), destroying' = destroying \ sources,
         NEW m \in Nat, m <= Len(handlers), DOMAIN handlers' = 1..m,
         \A i \in 1..m : handlers'[i] = handlers[i],
         \A source \in sources : ~valid[source],
         sources = {handlers[i].source : i \in {j \in DOMAIN handlers : handlers[j].kind = "destroy" /\ j > m}},
         \A id \in DOMAIN records : records'[id].active = Active(id)'
  PROVE  DispatchInv'
<1>1. /\ HandlersNest'
      /\ \A id : CallbacksOf(id)' = {i \in CallbacksOf(id) : i <= m}
  BY PrefixNests DEF DispatchInv
<1>2. \A id : Active(id)' => Active(id)
  BY <1>1 DEF Active
<1>3. /\ listeners' \in Seq(Listener) /\ DOMAIN listeners' = DOMAIN listeners
      /\ \A id \in DOMAIN listeners :
           /\ listeners'[id].source = listeners[id].source
           /\ listeners'[id].coupled = listeners[id].coupled
           /\ listeners'[id].held = listeners[id].held
           /\ listeners'[id].retained => listeners[id].retained
           /\ listeners'[id].valid => listeners[id].valid
           /\ listeners[id].coupled /\ listeners[id].source \in sources /\ id \in DOMAIN records
                => ~listeners'[id].retained /\ (listeners'[id].valid => ~Locked(id))
  BY CutOffFields DEF DispatchInv
<1>4. \A id \in DOMAIN listeners : Locked(id)' => Locked(id)
  BY <1>2, <1>3 DEF Locked
<1>5. DispatchTypes'
  BY <1>3 DEF DispatchInv, DispatchTypes
<1>6. destroying' = {handlers'[i].source : i \in {j \in DOMAIN handlers' : handlers'[j].kind = "destroy"}}
  <2> DEFINE Left == {j \in DOMAIN handlers : handlers[j].kind = "destroy" /\ j > m}
             KeptOn == {j \in DOMAIN handlers' : handlers'[j].kind = "destroy"}
  <2>1. destroying = {handlers[i].source : i \in {j \in DOMAIN handlers : handlers[j].kind = "destroy"}}
    BY DEF DispatchInv, ActiveWhileRunning
  <2>2. DOMAIN handlers = 1..Len(handlers) /\ Len(handlers) \in Nat
    BY DEF DispatchInv, HandlersNest, IsSeq
  <2>3. {j \in DOMAIN handlers : handlers[j].kind = "destroy"} = Left \cup KeptOn
    BY <2>2
  <2>4. \A i \in Left, j \in KeptOn : handlers[i].source # handlers[j].source
    <3> SUFFICES ASSUME NEW i \in Left, NEW j \in KeptOn, handlers[i].source = handlers[j].source PROVE FALSE
      OBVIOUS
    <3>1. i \in DOMAIN handlers /\ j \in DOMAIN handlers /\ i > m /\ j <= m /\ i \in Nat /\ j \in Nat
          /\ handlers[i].kind = "destroy" /\ handlers[j].kind = "destroy"
      BY <2>2
    <3>2. DestructionNests(i)
      BY <3>1 DEF DispatchInv, HandlersNest
    <3>3. i = j
      BY <3>1, <3>2 DEF DestructionNests
    <3> QED
      BY <3>1, <3>3
  <2>5. \A j \in KeptOn : handlers'[j] = handlers[j]
    OBVIOUS
  <2>6. sources = {handlers[i].source : i \in Left}
    OBVIOUS
  <2> HIDE DEF Left, KeptOn
  <2>7. destroying' = {handlers[i].source : i \in KeptOn}
    <3>1. ASSUME NEW x \in destroying' PROVE x \in {handlers[i].source : i \in KeptOn}
      <4>1. x \in destroying /\ x \notin sources
        OBVIOUS
      <4>2. PICK i \in Left \cup KeptOn : x = handlers[i].source
        BY <2>1, <2>3, <4>1
      <4>3. i \notin Left
        BY <2>6, <4>1, <4>2
      <4> QED
        BY <4>2, <4>3
    <3>2. ASSUME NEW j \in KeptOn PROVE handlers[j].source \in destroying'
      <4>1. handlers[j].source \in destroying
        BY <2>1, <2>3
      <4>2. handlers[j].source \notin sources
        BY <2>4, <2>6
      <4> QED
        BY <4>1, <4>2
    <3> QED
      BY <3>1, <3>2
  <2>8. destroying' = {handlers'[i].source : i \in KeptOn}
    BY <2>5, <2>7
  <2> QED
    BY <2>8 DEF KeptOn
<1>7. ActiveWhileRunning'
  BY <1>6 DEF ActiveWhileRunning
<1>8. CoupledListenersEnd'
  <2> SUFFICES ASSUME NEW id \in DOMAIN listeners,
                      listeners'[id].coupled, listeners'[id].valid, Locked(id)'
               PROVE  Usable(listeners[id].source)'
    BY <1>3 DEF CoupledListenersEnd
  <2>1. listeners[id].coupled /\ listeners[id].valid /\ Locked(id)
    BY <1>3, <1>4
  <2>2. id \in DOMAIN records
    BY <2>1 DEF DispatchInv, DroppedAreGone
  <2>3. listeners[id].source \notin sources
    BY <1>3, <2>1, <2>2
  <2>4. Usable(listeners[id].source)
    BY <2>1 DEF DispatchInv, CoupledListenersEnd
  <2> QED
    BY <1>3, <2>3, <2>4 DEF Usable
<1>9. DroppedAreGone'
  BY <1>3, <1>4 DEF DispatchInv, DroppedAreGone
<1> QED
  BY <1>1, <1>5, <1>7, <1>8, <1>9 DEF DispatchInv

LEMMA DestructionEndsKeeps == ASSUME DispatchInv, DestructionEnds PROVE DispatchInv'
<1> DEFINE n == Len(handlers)
           source == handlers[n].source
<1>1. IsSeq(handlers)
  BY DEF DispatchInv, HandlersNest
<1>2. handlers # <<>> /\ n \in Nat \ {0} /\ DOMAIN handlers = 1..n /\ Current = handlers[n]
      /\ handlers[n].kind = "destroy"
  BY <1>1, CurrentHandler DEF DestructionEnds
<1>3. DestructionNests(n)
  BY <1>2 DEF DispatchInv, HandlersNest
<1>4. /\ IsSeq(handlers') /\ DOMAIN handlers' = 1..(n - 1)
      /\ \A i \in 1..(n - 1) : handlers'[i] = handlers[i]
  BY <1>1, <1>2, Popped DEF DestructionEnds
<1>5. {source} = {handlers[i].source : i \in {j \in DOMAIN handlers : handlers[j].kind = "destroy" /\ j > n - 1}}
  <2>1. {j \in DOMAIN handlers : handlers[j].kind = "destroy" /\ j > n - 1} = {n}
    BY <1>2
  <2> QED
    BY <2>1
<1>6. \A id : CallbacksOf(id)' = CallbacksOf(id)
  <2>1. n - 1 \in Nat /\ n - 1 <= Len(handlers)
    BY <1>2
  <2>2. \A id : CallbacksOf(id)' = {i \in CallbacksOf(id) : i <= n - 1}
    BY <1>4, <2>1, PrefixNests DEF DispatchInv, DestructionEnds
  <2>3. \A id : \A i \in CallbacksOf(id) : i <= n - 1
    BY <1>2 DEF CallbacksOf
  <2> QED
    BY <2>2, <2>3
<1>7. \A id \in DOMAIN records : records'[id].active = Active(id)'
  BY <1>6 DEF DispatchInv, ActiveWhileRunning, Active, DestructionEnds
<1>8. /\ valid' = valid /\ records' = records
      /\ listeners' = CutOff({source}) /\ destroying' = destroying \ {source}
  BY <1>2 DEF DestructionEnds
<1>9. records \in [DOMAIN records -> [active : BOOLEAN]]
  BY DEF DispatchInv, DispatchTypes
<1>10. {source} \subseteq Sources /\ \A s \in {source} : ~valid[s]
  BY <1>3 DEF DestructionNests
<1>11. n - 1 \in Nat /\ n - 1 <= Len(handlers)
  BY <1>2
<1> HIDE DEF source, n
<1> QED
  BY <1>4, <1>5, <1>7, <1>8, <1>9, <1>10, <1>11, SourcesGone

LEMMA HostThrowsKeeps == ASSUME DispatchInv, HostThrows PROVE DispatchInv'
<1> DEFINE destroyed == {handlers[i].source : i \in {j \in DOMAIN handlers : handlers[j].kind = "destroy"}}
<1>1. IsSeq(handlers)
  BY DEF DispatchInv, HandlersNest
<1>2. DOMAIN handlers = 1..Len(handlers) /\ Len(handlers) \in Nat
  BY <1>1 DEF IsSeq
<1>3. /\ valid' = valid /\ handlers' = <<>>
      /\ listeners' = CutOff(destroyed) /\ destroying' = destroying \ destroyed
  BY DEF HostThrows
<1>4. IsSeq(handlers') /\ DOMAIN handlers' = 1..0
  <2>1. handlers' \in Seq({})
    BY <1>3, EmptySeq
  <2>2. DOMAIN handlers' = 1..0
    BY <1>3
  <2> QED
    BY <2>1, <2>2 DEF IsSeq
<1>5. \A i \in DOMAIN handlers : handlers[i].kind = "destroy" => DestructionNests(i)
  BY DEF DispatchInv, HandlersNest
<1>6. destroyed \subseteq Sources /\ \A source \in destroyed : ~valid[source]
  BY <1>5 DEF DestructionNests
<1>7. ASSUME NEW id \in DOMAIN records, Active(id)
      PROVE  Outermost(id).previous = FALSE
  <2>1. PICK i \in CallbacksOf(id) : Outermost(id) = handlers[i] /\ \A j \in CallbacksOf(id) : i <= j
    BY <1>1, <1>7, OutermostRuns
  <2>2. i \in DOMAIN handlers /\ handlers[i].kind = "callback" /\ handlers[i].id = id
    BY DEF CallbacksOf
  <2>3. CallbackNests(i)
    BY <2>2 DEF DispatchInv, HandlersNest
  <2>4. \A j \in CallbacksOf(id) : ~(j < i)
    BY <1>2, <2>1 DEF CallbacksOf
  <2> QED
    BY <2>1, <2>2, <2>3, <2>4 DEF CallbackNests
<1>8. records \in [DOMAIN records -> [active : BOOLEAN]]
  BY DEF DispatchInv, DispatchTypes
<1>9. \A id \in DOMAIN records : records'[id] \in [active : BOOLEAN] /\ records'[id].active = FALSE
  <2> SUFFICES ASSUME NEW id \in DOMAIN records
               PROVE  records'[id] \in [active : BOOLEAN] /\ records'[id].active = FALSE
    OBVIOUS
  <2>1. records'[id] = IF Active(id) THEN [records[id] EXCEPT !.active = Previous(Outermost(id))]
                       ELSE records[id]
    BY DEF HostThrows
  <2>2. records[id] \in [active : BOOLEAN]
    BY <1>8
  <2>3. CASE Active(id)
    <3>1. Previous(Outermost(id)) = FALSE
      BY <1>7, <2>3 DEF Previous
    <3> QED
      BY <2>1, <2>2, <2>3, <3>1
  <2>4. CASE ~Active(id)
    BY <2>1, <2>2, <2>4 DEF DispatchInv, ActiveWhileRunning
  <2> QED
    BY <2>3, <2>4
<1>10. DOMAIN records' = DOMAIN records /\ records' \in [DOMAIN records -> [active : BOOLEAN]]
  BY <1>9 DEF HostThrows
<1>11. \A id : CallbacksOf(id)' = {}
  BY <1>3 DEF CallbacksOf
<1>12. \A id \in DOMAIN records : records'[id].active = Active(id)'
  BY <1>9, <1>11 DEF Active
<1>13. destroyed = {handlers[i].source : i \in {j \in DOMAIN handlers : handlers[j].kind = "destroy" /\ j > 0}}
  <2>1. {j \in DOMAIN handlers : handlers[j].kind = "destroy"}
          = {j \in DOMAIN handlers : handlers[j].kind = "destroy" /\ j > 0}
    BY <1>2
  <2> QED
    BY <2>1
<1>14. 0 \in Nat /\ 0 <= Len(handlers) /\ \A i \in 1..0 : handlers'[i] = handlers[i]
  BY <1>2
<1> HIDE DEF destroyed
<1> QED
  BY <1>3, <1>4, <1>6, <1>10, <1>12, <1>13, <1>14, SourcesGone
-----------------------------------------------------------------------------
(***************************************************************************)
(* The invariant is inductive.                                             *)
(***************************************************************************)
LEMMA DispatchInitially == DispatchInit => DispatchInv
<1> SUFFICES ASSUME DispatchInit PROVE DispatchInv
  OBVIOUS
<1>1. handlers = <<>> /\ listeners = <<>> /\ records = <<>> /\ destroying = {}
  BY DEF DispatchInit
<1>2. DOMAIN handlers = {} /\ DOMAIN listeners = {} /\ DOMAIN records = {}
  BY <1>1
<1>3. IsSeq(handlers)
  BY <1>1, EmptySeq DEF IsSeq
<1>4. DispatchTypes
  BY <1>1, <1>2 DEF DispatchInit, DispatchTypes
<1>5. HandlersNest /\ CoupledListenersEnd /\ DroppedAreGone
  BY <1>2, <1>3 DEF HandlersNest, CoupledListenersEnd, DroppedAreGone
<1>6. ActiveWhileRunning
  BY <1>1, <1>2 DEF ActiveWhileRunning
<1> QED
  BY <1>4, <1>5, <1>6 DEF DispatchInv

LEMMA DispatchStuttering ==
  ASSUME DispatchInv, UNCHANGED <<valid, destroying, records, listeners, handlers>>
  PROVE  DispatchInv'
<1>1. \A id : CallbacksOf(id)' = CallbacksOf(id) /\ Active(id)' = Active(id) /\ Locked(id)' = Locked(id)
  BY DEF CallbacksOf, Active, Locked
<1>2. HandlersNest'
  BY <1>1 DEF DispatchInv, HandlersNest, CallbackNests, DestructionNests
<1>3. DispatchTypes'
  BY DEF DispatchInv, DispatchTypes
<1>4. ActiveWhileRunning' /\ CoupledListenersEnd' /\ DroppedAreGone'
  BY <1>1 DEF DispatchInv, ActiveWhileRunning, CoupledListenersEnd, DroppedAreGone, Usable
<1> QED
  BY <1>2, <1>3, <1>4 DEF DispatchInv

LEMMA DispatchStepKeeps == DispatchInv /\ [DispatchNext]_dispatchVars => DispatchInv'
<1> SUFFICES ASSUME DispatchInv, [DispatchNext]_dispatchVars PROVE DispatchInv'
  OBVIOUS
<1>1. CASE CreateListener
  BY <1>1, CreateListenerKeeps
<1>2. CASE ChangeRecursive
  BY <1>2, ChangeRecursiveKeeps
<1>3. CASE DropListener
  BY <1>3, DropListenerKeeps
<1>4. CASE DeleteListener
  BY <1>4, DeleteListenerKeeps
<1>5. CASE Collect
  BY <1>5, CollectKeeps
<1>6. CASE Notify
  BY <1>6, NotifyKeeps
<1>7. CASE Invoke
  BY <1>7, InvokeKeeps
<1>8. CASE CallbackReturns
  BY <1>8, CallbackReturnsKeeps
<1>9. CASE NotifyReturns
  BY <1>9, LeaveKeeps DEF NotifyReturns
<1>10. CASE Delete
  BY <1>10, DeleteKeeps
<1>11. CASE RunDestructor
  BY <1>11, RunDestructorKeeps
<1>12. CASE DestructorReturns
  BY <1>12, LeaveKeeps DEF DestructorReturns
<1>13. CASE DestructionEnds
  BY <1>13, DestructionEndsKeeps
<1>14. CASE HostThrows
  BY <1>14, HostThrowsKeeps
<1>15. CASE UNCHANGED dispatchVars
  BY <1>15, DispatchStuttering DEF dispatchVars
<1> QED
  BY <1>1, <1>2, <1>3, <1>4, <1>5, <1>6, <1>7, <1>8, <1>9, <1>10, <1>11, <1>12, <1>13, <1>14, <1>15
     DEF DispatchNext

\* The types of the registry, the nesting of the control stack and what they
\* say of the listeners hold in every reachable state.
THEOREM DispatchInvariance == DispatchSpec => []DispatchInv
<1>1. DispatchInit => DispatchInv
  BY DispatchInitially
<1>2. DispatchInv /\ [DispatchNext]_dispatchVars => DispatchInv'
  BY DispatchStepKeeps
<1> QED
  BY <1>1, <1>2, PTL DEF DispatchSpec

\* Whatever callbacks, destructors, errors and exceptions of the host do: a
\* listener is marked active exactly while a callback of it runs, and none
\* coupled to a destroyed source stays valid (CallbackActiveScope,
\* cleanupDestroyedHandleState).
THEOREM ListenersStayTracked == DispatchSpec => []ListenersAreTracked
<1>1. DispatchInv => ListenersAreTracked
  BY DEF DispatchInv, ListenersAreTracked
<1> QED
  BY <1>1, DispatchInvariance, PTL

=============================================================================
