---------------------------- MODULE Jit_proofs ----------------------------
(***************************************************************************)
(* The two parts of the native execution of hot loops: the cache the       *)
(* threads share and the tier of one session that chooses what it runs.    *)
(* First the consistency of the kernel cache and of its eviction order,    *)
(* proved for any kernels, code sizes, limits and number of threads; then  *)
(* what the adaptive tier promises, for every set of regions, every        *)
(* threshold and every number of invocations.                              *)
(***************************************************************************)
EXTENDS NativeKernelCache, AdaptiveTier, FiniteSetTheorems, SequenceTheorems, WellFoundedInduction, TLAPS

\* A list in the order of the last uses, the latest first: none occurs twice.
Ordered(s, u) == \A i, j \in 1..Len(s) : i < j => u[s[j]] < u[s[i]]

CacheTypes ==
    /\ limits \in Limits
    /\ statistics \in [Counters -> Nat]
    /\ recency \in Seq(Keys)
    /\ stage \in [Compilers -> CachePlaces]
    /\ DOMAIN key = Compilers
    /\ \A t \in Compilers : stage[t] # "idle" => key[t] \in Keys
    /\ used \in [Keys -> Nat]
    /\ \E last \in Nat : \A k \in Keys : used[k] <= last
    /\ atReset \in Nat

CacheInv ==
    /\ CacheTypes
    /\ ListMatchesMap
    /\ Ordered(recency, used)
    /\ WithinLimits
    /\ MissesAccounted
-----------------------------------------------------------------------------
(***************************************************************************)
(* The greatest element of a set of numbers.                               *)
(***************************************************************************)
LEMMA GreatestExists ==
  ASSUME NEW S \in SUBSET Nat, S # {}, NEW n \in Nat, \A x \in S : x <= n
  PROVE  Max(S) \in S /\ \A x \in S : x <= Max(S)
<1> DEFINE T == {y \in Nat : \E x \in S : y = n - x}
<1>1. T \subseteq Nat /\ T # {}
  <2>1. PICK x \in S : TRUE
    OBVIOUS
  <2>2. n - x \in Nat
    BY <2>1
  <2> QED
    BY <2>1, <2>2
<1>2. IsWellFoundedOn(OpToRel(<, Nat), Nat)
  BY NatLessThanWellFounded, Zenon
<1>3. PICK y \in T : \A z \in T : ~(<<z, y>> \in OpToRel(<, Nat))
  <2> DEFINE R == OpToRel(<, Nat)
  <2> HIDE DEF R, T
  <2>1. IsWellFoundedOn(R, Nat)
    BY <1>2, Zenon DEF R
  <2>2. \E y \in T : \A z \in T : ~(<<z, y>> \in R)
    BY <1>1, <2>1, WFMin
  <2> QED
    BY <2>2, Zenon DEF R
<1>4. PICK x \in S : y = n - x
  BY <1>3, Zenon
<1>5. \A z \in S : z <= x
  <2> SUFFICES ASSUME NEW z \in S, x < z
               PROVE  FALSE
    BY <1>4
  <2>1. n - z \in T
    OBVIOUS
  <2>2. n - z < y
    BY <1>4
  <2>3. <<n - z, y>> \in OpToRel(<, Nat)
    BY <1>1, <1>3, <2>1, <2>2, Zenon DEF OpToRel
  <2> QED
    BY <1>3, <2>1, <2>3, Zenon
<1> QED
  BY <1>4, <1>5 DEF Max
-----------------------------------------------------------------------------
(***************************************************************************)
(* The size of the code of a set of kernels.                               *)
(***************************************************************************)
LEMMA IsBijection ==
  ASSUME NEW S, NEW T, NEW f \in [S -> T],
         \A x, y \in S : f[x] = f[y] => x = y,
         \A c \in T : \E x \in S : f[x] = c
  PROVE  ExistsBijection(S, T)
<1>1. f \in Injection(S, T)
  BY DEF Injection, IsInjective
<1>2. f \in Surjection(S, T)
  BY DEF Surjection
<1> QED
  BY <1>1, <1>2 DEF Bijection, ExistsBijection

CodeOfOne(k) == {<<k, i>> : i \in 1..CodeSize[k]}

LEMMA BytesOfOne ==
  ASSUME CacheAssumption, NEW k \in Keys
  PROVE  /\ Bytes({k}) = CodeSize[k] /\ CodeSize[k] \in Nat \ {0}
         /\ IsFiniteSet(CodeOfOne(k))
<1> DEFINE n == CodeSize[k]
           f == [i \in 1..n |-> <<k, i>>]
<1>1. n \in Nat \ {0}
  BY DEF CacheAssumption
<1>2. IsFiniteSet(1..n) /\ Cardinality(1..n) = n
  <2> HIDE DEF n
  <2> QED
    BY <1>1, FS_Interval
<1>4. ExistsBijection(1..n, CodeOfOne(k))
  <2>1. \A i \in 1..n : f[i] = <<k, i>>
    OBVIOUS
  <2>2. \A i, j \in 1..n : f[i] = f[j] => i = j
    BY <2>1
  <2>3. f \in [1..n -> CodeOfOne(k)]
    BY DEF CodeOfOne
  <2>4. \A c \in CodeOfOne(k) : \E i \in 1..n : f[i] = c
    BY <2>1 DEF CodeOfOne
  <2> DEFINE I == 1..n
             T == CodeOfOne(k)
  <2>5. /\ f \in [I -> T]
        /\ \A x, y \in I : f[x] = f[y] => x = y
        /\ \A c \in T : \E x \in I : f[x] = c
    BY <2>2, <2>3, <2>4
  <2> HIDE DEF f, n, I, T
  <2>6. ExistsBijection(I, T)
    BY <2>5, IsBijection
  <2> QED
    BY <2>6 DEF I, T
<1>5. IsFiniteSet(CodeOfOne(k)) /\ Cardinality(CodeOfOne(k)) = n
  <2> HIDE DEF f, n
  <2> QED
    BY <1>2, <1>4, FS_Bijection
<1>6. CodeOf({k}) = CodeOfOne(k)
  BY DEF CodeOf, CodeOfOne
<1> QED
  BY <1>1, <1>5, <1>6 DEF Bytes

LEMMA CodeIsFinite ==
  ASSUME CacheAssumption, NEW A \in SUBSET Keys, IsFiniteSet(A)
  PROVE  IsFiniteSet(CodeOf(A)) /\ Bytes(A) \in Nat
<1> DEFINE C == {CodeOfOne(k) : k \in A}
           f == [k \in A |-> CodeOfOne(k)]
<1>1. f \in Surjection(A, C)
  BY DEF Surjection
<1>2. IsFiniteSet(C)
  <2> HIDE DEF f, C
  <2> QED
    BY <1>1, FS_Surjection
<1>3. \A c \in C : IsFiniteSet(c)
  BY BytesOfOne
<1>4. IsFiniteSet(UNION C)
  <2> HIDE DEF C
  <2> QED
    BY <1>2, <1>3, FS_UNION
<1>5. CodeOf(A) = UNION C
  BY DEF CodeOf, CodeOfOne
<1> QED
  BY <1>4, <1>5, FS_CardinalityType DEF Bytes

LEMMA BytesAdd ==
  ASSUME CacheAssumption, NEW A \in SUBSET Keys, IsFiniteSet(A),
         NEW B \in SUBSET Keys, IsFiniteSet(B), A \cap B = {}
  PROVE  Bytes(A \cup B) = Bytes(A) + Bytes(B)
<1>1. CodeOf(A \cup B) = CodeOf(A) \cup CodeOf(B)
  BY DEF CodeOf
<1>2. CodeOf(A) \cap CodeOf(B) = {}
  BY DEF CodeOf
<1>3. IsFiniteSet(CodeOf(A)) /\ IsFiniteSet(CodeOf(B))
  BY CodeIsFinite
<1> DEFINE a == CodeOf(A)
           b == CodeOf(B)
<1>4. Cardinality(a \cup b) = Cardinality(a) + Cardinality(b)
  <2> HIDE DEF a, b
  <2>1. IsFiniteSet(a) /\ IsFiniteSet(b) /\ a \cap b = {}
    BY <1>2, <1>3 DEF a, b
  <2>2. Cardinality(a) \in Nat /\ Cardinality(b) \in Nat /\ Cardinality(a \cap b) = 0
    BY <2>1, FS_CardinalityType, FS_EmptySet
  <2>3. Cardinality(a \cup b) = Cardinality(a) + Cardinality(b) - Cardinality(a \cap b)
    BY <2>1, FS_Union
  <2> QED
    BY <2>2, <2>3
<1> QED
  BY <1>1, <1>4 DEF Bytes

LEMMA BytesOfNone == Bytes({}) = 0
BY FS_EmptySet DEF Bytes, CodeOf
-----------------------------------------------------------------------------
(***************************************************************************)
(* Lists in the order of their last uses.                                  *)
(***************************************************************************)
LEMMA OrderedCounts ==
  ASSUME NEW s \in Seq(Keys), NEW u \in [Keys -> Nat], Ordered(s, u)
  PROVE  /\ IsFiniteSet(ToSet(s)) /\ Cardinality(ToSet(s)) = Len(s)
         /\ ToSet(s) \subseteq Keys
<1>1. Len(s) \in Nat /\ DOMAIN s = 1..Len(s) /\ s \in [1..Len(s) -> Keys]
  BY LenProperties
<1>2. ToSet(s) \subseteq Keys
  BY <1>1 DEF ToSet
<1>3. s \in [1..Len(s) -> ToSet(s)] /\ \A k \in ToSet(s) : \E i \in 1..Len(s) : s[i] = k
  BY <1>1 DEF ToSet
<1>4. \A i, j \in 1..Len(s) : s[i] = s[j] => i = j
  <2> SUFFICES ASSUME NEW i \in 1..Len(s), NEW j \in 1..Len(s), s[i] = s[j], i # j
               PROVE  FALSE
    OBVIOUS
  <2>1. s[i] \in Keys /\ u[s[i]] \in Nat
    BY <1>1
  <2>2. i < j \/ j < i
    BY <1>1
  <2> QED
    BY <1>1, <2>1, <2>2 DEF Ordered
<1> DEFINE T == ToSet(s)
           n == Len(s)
<1>5. ExistsBijection(1..n, T)
  BY <1>3, <1>4, IsBijection, SMTT(30)
<1>6. IsFiniteSet(1..n) /\ Cardinality(1..n) = n
  <2> HIDE DEF n
  <2> QED
    BY <1>1, FS_Interval DEF n
<1>7. IsFiniteSet(T) /\ Cardinality(T) = Cardinality(1..n)
  <2> HIDE DEF T, n
  <2> QED
    BY <1>5, <1>6, FS_Bijection
<1> QED
  BY <1>2, <1>6, <1>7

LEMMA OrderedPrefix ==
  ASSUME NEW s \in Seq(Keys), NEW u, Ordered(s, u), NEW n \in 0..Len(s)
  PROVE  /\ SubSeq(s, 1, n) \in Seq(Keys) /\ Len(SubSeq(s, 1, n)) = n
         /\ \A i \in 1..n : SubSeq(s, 1, n)[i] = s[i]
         /\ Ordered(SubSeq(s, 1, n), u)
         /\ ToSet(SubSeq(s, 1, n)) = {s[i] : i \in 1..n}
<1>1. Len(s) \in Nat /\ s \in [1..Len(s) -> Keys]
  BY LenProperties
<1> DEFINE p == SubSeq(s, 1, n)
<1>2. p \in Seq(Keys) /\ Len(p) = n /\ \A i \in 1..n : p[i] = s[i]
  <2>1. \A i \in 1..n : s[i] \in Keys
    BY <1>1
  <2>2. /\ p \in Seq(Keys) /\ Len(p) = IF 1 <= n THEN n - 1 + 1 ELSE 0
        /\ \A i \in 1..(n - 1 + 1) : p[i] = s[1 + i - 1]
    BY <2>1, SubSeqProperties
  <2> HIDE DEF p
  <2> QED
    BY <1>1, <2>2
<1>3. DOMAIN p = 1..n
  BY <1>2, LenProperties
<1> HIDE DEF p
<1>4. Ordered(p, u)
  BY <1>1, <1>2 DEF Ordered
<1>5. ToSet(p) = {s[i] : i \in 1..n}
  BY <1>2, <1>3 DEF ToSet
<1> QED
  BY <1>2, <1>4, <1>5 DEF p

\* A kernel that is used more recently than all others belongs in front.
LEMMA OrderedFront ==
  ASSUME NEW s \in Seq(Keys), NEW u \in [Keys -> Nat], Ordered(s, u),
         NEW k \in Keys, k \notin ToSet(s),
         NEW v \in [Keys -> Nat], \A x \in Keys : x # k => v[x] = u[x] /\ v[x] < v[k]
  PROVE  /\ <<k>> \o s \in Seq(Keys)
         /\ Ordered(<<k>> \o s, v) /\ ToSet(<<k>> \o s) = ToSet(s) \cup {k}
<1> DEFINE q == <<k>> \o s
           n == Len(s)
<1>1. n \in Nat /\ DOMAIN s = 1..n /\ \A i \in 1..n : s[i] \in Keys /\ s[i] # k
  BY LenProperties DEF ToSet
<1>2. /\ q \in Seq(Keys) /\ Len(q) = n + 1 /\ q[1] = k
      /\ \A i \in 1..n : q[i + 1] = s[i]
  <2>1. <<k>> \in Seq(Keys) /\ Len(<<k>>) = 1 /\ <<k>>[1] = k
    OBVIOUS
  <2>2. /\ q \in Seq(Keys) /\ Len(q) = Len(<<k>>) + Len(s)
        /\ \A i \in 1..(Len(<<k>>) + Len(s)) :
              q[i] = IF i <= Len(<<k>>) THEN <<k>>[i] ELSE s[i - Len(<<k>>)]
    BY <2>1, ConcatProperties
  <2> HIDE DEF q, n
  <2>3. /\ q \in Seq(Keys) /\ Len(q) = 1 + n
        /\ \A i \in 1..(1 + n) : q[i] = IF i <= 1 THEN k ELSE s[i - 1]
    <3> DEFINE one == <<k>>
    <3>1. Len(one) = 1 /\ one[1] = k
      OBVIOUS
    <3> HIDE DEF one
    <3>2. /\ q \in Seq(Keys) /\ Len(q) = Len(one) + n
          /\ \A i \in 1..(Len(one) + n) :
                q[i] = IF i <= Len(one) THEN one[i] ELSE s[i - Len(one)]
      BY <2>2 DEF n, one
    <3>3. \A i \in 1..(1 + n) : i <= 1 => i = 1
      BY <1>1
    <3> QED
      BY <3>1, <3>2, <3>3
  <2>4. q[1] = k
    BY <1>1, <2>3
  <2>5. ASSUME NEW i \in 1..n
        PROVE  q[i + 1] = s[i]
    <3>1. i + 1 \in 1..(1 + n) /\ ~(i + 1 <= 1) /\ (i + 1) - 1 = i
      BY <1>1
    <3> QED
      BY <2>3, <3>1
  <2> QED
    BY <1>1, <2>3, <2>4, <2>5, SMTT(30)
<1>3. DOMAIN q = 1..(n + 1)
  BY <1>2, LenProperties
<1>4. \A j \in 1..(n + 1) : j = 1 \/ (j - 1 \in 1..n /\ q[j] = s[j - 1])
  <2> HIDE DEF q, n
  <2> SUFFICES ASSUME NEW j \in 1..(n + 1), j # 1
               PROVE  j - 1 \in 1..n /\ q[j] = s[j - 1]
    OBVIOUS
  <2>1. j - 1 \in 1..n /\ (j - 1) + 1 = j
    BY <1>1
  <2> QED
    BY <1>2, <2>1
<1> HIDE DEF q
<1>5. Ordered(q, v)
  <2> SUFFICES ASSUME NEW i \in 1..(n + 1), NEW j \in 1..(n + 1), i < j
               PROVE  v[q[j]] < v[q[i]]
    BY <1>2 DEF Ordered
  <2>1. q[j] = s[j - 1] /\ j - 1 \in 1..n
    BY <1>4, <1>1
  <2>2. CASE i = 1
    BY <1>1, <1>2, <2>1, <2>2
  <2>3. CASE i # 1
    <3>1. q[i] = s[i - 1] /\ i - 1 \in 1..n
      BY <1>4, <2>3
    <3>2. u[s[j - 1]] < u[s[i - 1]]
      <4> HIDE DEF n
      <4>1. i - 1 < j - 1
        BY <1>1
      <4>2. \A a, b \in 1..n : a < b => u[s[b]] < u[s[a]]
        BY DEF Ordered, n
      <4> QED
        BY <2>1, <3>1, <4>1, <4>2
    <3>3. v[s[j - 1]] = u[s[j - 1]] /\ v[s[i - 1]] = u[s[i - 1]]
      BY <1>1, <2>1, <3>1
    <3> QED
      BY <2>1, <3>1, <3>2, <3>3
  <2> QED
    BY <2>2, <2>3
<1> HIDE DEF n
<1>6. ToSet(q) = ToSet(s) \cup {k}
  <2>1. ToSet(q) = {q[j] : j \in 1..(n + 1)} /\ ToSet(s) = {s[i] : i \in 1..n}
    BY <1>1, <1>3 DEF ToSet
  <2>2. \A i \in 1..n : i + 1 \in 1..(n + 1)
    BY <1>1
  <2>3. 1 \in 1..(n + 1)
    BY <1>1
  <2>4. \A j \in 1..(n + 1) : q[j] \in ToSet(s) \cup {k}
    <3> SUFFICES ASSUME NEW j \in 1..(n + 1) PROVE q[j] \in ToSet(s) \cup {k}
      OBVIOUS
    <3>1. CASE j = 1
      BY <1>2, <3>1
    <3>2. CASE j # 1
      <4>1. j - 1 \in 1..n /\ (j - 1) + 1 = j
        BY <1>1, <3>2
      <4>2. q[j] = s[j - 1]
        BY <1>2, <4>1
      <4> QED
        BY <2>1, <4>1, <4>2
    <3> QED
      BY <3>1, <3>2
  <2>5. \A i \in 1..n : s[i] \in ToSet(q)
    BY <1>2, <2>1, <2>2
  <2>6. k \in ToSet(q)
    BY <1>2, <2>1, <2>3
  <2> QED
    <3>1. ToSet(q) \subseteq ToSet(s) \cup {k}
      BY <2>1, <2>4
    <3>2. ToSet(s) \subseteq ToSet(q)
      BY <2>1, <2>5
    <3> QED
      BY <2>6, <3>1, <3>2
<1> QED
  BY <1>2, <1>5, <1>6 DEF q

\* A use is later than every earlier one.
LEMMA UseIsLatest ==
  ASSUME used \in [Keys -> Nat], NEW k \in Keys, Use(k),
         NEW last \in Nat, \A x \in Keys : used[x] <= last
  PROVE  /\ used' \in [Keys -> Nat]
         /\ \A x \in Keys : x # k => used'[x] = used[x] /\ used'[x] < used'[k]
         /\ \E later \in Nat : \A x \in Keys : used'[x] <= later
<1> DEFINE R == Range(used)
           m == Max(R)
<1>1. R \in SUBSET Nat /\ R # {} /\ \A x \in R : x <= last
  BY DEF Range
<1>2. \A x \in Keys : used[x] \in R
  BY DEF Range
<1>3. used' = [used EXCEPT ![k] = 1 + m]
  BY DEF Use
<1>4. m \in R /\ \A x \in R : x <= m
  <2> HIDE DEF R
  <2> QED
    BY <1>1, GreatestExists
<1>5. m \in Nat
  BY <1>1, <1>4
<1> HIDE DEF R, m
<1>6. \A x \in Keys : used'[x] = IF x = k THEN 1 + m ELSE used[x]
  BY <1>3
<1>7. \A x \in Keys : used[x] \in Nat /\ used[x] <= m
  BY <1>2, <1>4
<1>8. \A x \in Keys : used'[x] \in Nat /\ used'[x] <= 1 + m
  BY <1>5, <1>6, <1>7
<1>9. used' \in [Keys -> Nat]
  BY <1>3, <1>5
<1>10. \E later \in Nat : \A x \in Keys : used'[x] <= later
  BY <1>5, <1>8
<1> QED
  BY <1>5, <1>6, <1>7, <1>9, <1>10

\* Moving a kernel to the front keeps the set and restores the order.
LEMMA TouchedIsOrdered ==
  ASSUME recency \in Seq(Keys), used \in [Keys -> Nat], Ordered(recency, used),
         NEW k \in ToSet(recency),
         NEW v \in [Keys -> Nat], \A x \in Keys : x # k => v[x] = used[x] /\ v[x] < v[k]
  PROVE  /\ touchLocked(k) \in Seq(Keys) /\ Len(touchLocked(k)) = Len(recency)
         /\ Ordered(touchLocked(k), v) /\ ToSet(touchLocked(k)) = ToSet(recency)
<1> DEFINE n == Len(recency)
           at == CHOOSE i \in DOMAIN recency : recency[i] = k
           q == touchLocked(k)
           from(j) == IF j <= at THEN j - 1 ELSE j
<1>1. /\ n \in Nat /\ DOMAIN recency = 1..n /\ recency \in [1..n -> Keys]
      /\ \A i \in 1..n : recency[i] \in Keys
  BY LenProperties
<1>2. at \in 1..n /\ recency[at] = k
  <2>1. \E i \in DOMAIN recency : recency[i] = k
    BY DEF ToSet
  <2> QED
    BY <1>1, <2>1
<1>3. q = [j \in 1..n |-> IF j = 1 THEN k ELSE IF j <= at THEN recency[j - 1] ELSE recency[j]]
  BY <1>1 DEF touchLocked
<1> HIDE DEF at, n
<1>4. \A j \in 1..n : j # 1 => /\ q[j] = recency[from(j)] /\ from(j) \in 1..n /\ from(j) # at
  BY <1>1, <1>2, <1>3
<1>5. n >= 1 /\ q[1] = k /\ k \in Keys
  BY <1>1, <1>2, <1>3
<1>6. q \in [1..n -> Keys]
  <2>1. \A j \in 1..n : q[j] \in Keys
    BY <1>1, <1>4, <1>5
  <2> QED
    BY <1>3, <2>1
<1>7. q \in Seq(Keys) /\ Len(q) = n
  BY <1>1, <1>6
<1>8. \A i, j \in 1..n : i < j => used[recency[j]] < used[recency[i]]
  BY DEF Ordered, n
<1>9. \A i \in 1..n : i # at => recency[i] # k
  <2> SUFFICES ASSUME NEW i \in 1..n, i # at, recency[i] = k
               PROVE  FALSE
    OBVIOUS
  <2>1. i < at \/ at < i
    BY <1>1, <1>2
  <2>2. used[k] < used[k] /\ used[k] \in Nat
    BY <1>2, <1>5, <1>8, <2>1
  <2> QED
    BY <2>2
<1>10. \A i, j \in 1..n : i < j => v[q[j]] < v[q[i]]
  <2> SUFFICES ASSUME NEW i \in 1..n, NEW j \in 1..n, i < j
               PROVE  v[q[j]] < v[q[i]]
    OBVIOUS
  <2>1. j # 1
    BY <1>1
  <2>2. q[j] = recency[from(j)] /\ from(j) \in 1..n /\ recency[from(j)] # k
    BY <1>4, <1>9, <2>1
  <2>3. CASE i = 1
    BY <1>1, <1>5, <2>2, <2>3
  <2>4. CASE i # 1
    <3>1. q[i] = recency[from(i)] /\ from(i) \in 1..n /\ recency[from(i)] # k
      BY <1>4, <1>9, <2>4
    <3>2. from(i) < from(j)
      BY <1>1, <1>2, <2>2, <3>1, SMTT(30)
    <3> HIDE DEF from
    <3>3. used[recency[from(j)]] < used[recency[from(i)]]
      BY <1>8, <2>2, <3>1, <3>2
    <3> QED
      BY <1>1, <2>2, <3>1, <3>3
  <2> QED
    BY <2>3, <2>4
<1>11. ToSet(q) = ToSet(recency)
  <2>1. ToSet(q) = {q[j] : j \in 1..n} /\ ToSet(recency) = {recency[i] : i \in 1..n}
    BY <1>1, <1>6 DEF ToSet
  <2>2. \A j \in 1..n : \E i \in 1..n : recency[i] = q[j]
    BY <1>2, <1>4, <1>5
  <2>3. ASSUME NEW i \in 1..n
        PROVE  \E j \in 1..n : q[j] = recency[i]
    <3>1. CASE i = at
      BY <1>1, <1>2, <1>5, <3>1
    <3>2. CASE i < at
      <4>1. i + 1 \in 1..n /\ i + 1 # 1 /\ i + 1 <= at /\ (i + 1) - 1 = i
        BY <1>1, <1>2, <3>2
      <4> QED
        BY <1>3, <4>1
    <3>3. CASE at < i
      <4>1. i # 1 /\ ~(i <= at)
        BY <1>1, <1>2, <3>3
      <4> QED
        BY <1>3, <4>1
    <3> QED
      BY <1>1, <1>2, <3>1, <3>2, <3>3
  <2> HIDE DEF q
  <2>4. \A x \in ToSet(q) : x \in ToSet(recency)
    BY <2>1, <2>2
  <2>5. \A x \in ToSet(recency) : x \in ToSet(q)
    BY <2>1, <2>3
  <2> QED
    BY <2>4, <2>5
<1> QED
  BY <1>7, <1>10, <1>11 DEF Ordered, n
-----------------------------------------------------------------------------
(***************************************************************************)
(* What an eviction leaves.                                                *)
(***************************************************************************)
LEMMA EntriesAreFinite ==
  ASSUME CacheAssumption, CacheInv
  PROVE  /\ IsFiniteSet(entries) /\ entries \subseteq Keys
         /\ codeBytes \in Nat /\ Len(recency) \in Nat
<1>1. /\ recency \in Seq(Keys) /\ used \in [Keys -> Nat] /\ Ordered(recency, used)
      /\ ToSet(recency) = entries /\ codeBytes = Bytes(entries)
  BY DEF CacheInv, CacheTypes, ListMatchesMap
<1>2. IsFiniteSet(entries) /\ entries \subseteq Keys
  BY <1>1, OrderedCounts
<1>3. Bytes(entries) \in Nat
  BY <1>2, CodeIsFinite
<1> QED
  BY <1>1, <1>2, <1>3, LenProperties

PrefixKept(p, n) ==
    /\ n \in 0..Len(recency) /\ p \in Seq(Keys) /\ Len(p) = n
    /\ Ordered(p, used)
    /\ ToSet(p) \subseteq entries /\ IsFiniteSet(ToSet(p)) /\ Cardinality(ToSet(p)) = n
    /\ Bytes(ToSet(p)) \in Nat /\ Bytes(ToSet(p)) = codeBytes - Bytes(entries \ ToSet(p))
    /\ \A victim \in entries \ ToSet(p), kept \in ToSet(p) : used[victim] < used[kept]

LEMMA PrefixOfList ==
  ASSUME CacheAssumption, CacheInv, NEW n \in 0..Len(recency)
  PROVE  PrefixKept(SubSeq(recency, 1, n), n)
<1> DEFINE p == SubSeq(recency, 1, n)
<1>1. /\ recency \in Seq(Keys) /\ used \in [Keys -> Nat] /\ Ordered(recency, used)
      /\ ToSet(recency) = entries /\ codeBytes = Bytes(entries)
  BY DEF CacheInv, CacheTypes, ListMatchesMap
<1>2. /\ p \in Seq(Keys) /\ Len(p) = n /\ Ordered(p, used)
      /\ ToSet(p) = {recency[i] : i \in 1..n}
  BY <1>1, OrderedPrefix
<1> HIDE DEF p
<1>3. IsFiniteSet(ToSet(p)) /\ Cardinality(ToSet(p)) = n
  BY <1>1, <1>2, OrderedCounts
<1>4. /\ Len(recency) \in Nat
      /\ entries = {recency[i] : i \in 1..Len(recency)}
  BY <1>1, LenProperties DEF ToSet
<1>5. ToSet(p) \subseteq entries
  BY <1>2, <1>4
<1>6. /\ Bytes(ToSet(p)) \in Nat
      /\ Bytes(ToSet(p)) = codeBytes - Bytes(entries \ ToSet(p))
  <2> DEFINE A == ToSet(p)
             B == entries \ A
  <2>1. /\ A \in SUBSET Keys /\ B \in SUBSET Keys /\ A \cap B = {}
        /\ A \cup B = entries
        /\ IsFiniteSet(A) /\ IsFiniteSet(B)
    BY <1>3, <1>5, EntriesAreFinite, FS_Subset
  <2> HIDE DEF A, B
  <2>2. Bytes(entries) = Bytes(A) + Bytes(B) /\ Bytes(A) \in Nat /\ Bytes(B) \in Nat
    BY <2>1, BytesAdd, CodeIsFinite
  <2> QED
    BY <1>1, <2>2 DEF A, B
<1>7. ASSUME NEW victim \in entries \ ToSet(p), NEW kept \in ToSet(p)
      PROVE  used[victim] < used[kept]
  <2>1. PICK i \in 1..n : recency[i] = kept
    BY <1>2
  <2>2. PICK j \in 1..Len(recency) : recency[j] = victim
    BY <1>4
  <2>3. ~(j \in 1..n)
    BY <1>2, <2>2
  <2>4. i \in 1..Len(recency) /\ i < j
    BY <1>4, <2>3
  <2> QED
    BY <1>1, <2>1, <2>2, <2>4 DEF Ordered
<1> QED
  BY <1>2, <1>3, <1>5, <1>6, <1>7 DEF PrefixKept, p

LEMMA SurvivorsFit ==
  ASSUME CacheAssumption, CacheInv, NEW room \in Int, NEW bytes \in Int
  PROVE  \E n \in 0..Len(recency) :
            /\ PrefixKept(Survivors(room, bytes), n)
            /\ \/ n = 0
               \/ n <= room /\ Bytes(ToSet(Survivors(room, bytes))) <= bytes
<1> DEFINE Fits(m) == \/ m = 0
                      \/ /\ m <= room
                         /\ codeBytes - Bytes(entries \ ToSet(SubSeq(recency, 1, m))) <= bytes
           N == {m \in 0..Len(recency) : Fits(m)}
           n == Max(N)
<1>1. Survivors(room, bytes) = SubSeq(recency, 1, n)
  BY DEF Survivors
<1>2. Len(recency) \in Nat
  BY EntriesAreFinite
<1>3. N \in SUBSET Nat /\ N # {} /\ \A m \in N : m <= Len(recency)
  <2>1. 0 \in N
    BY <1>2
  <2> QED
    BY <1>2, <2>1
<1>4. n \in N
  <2> HIDE DEF N
  <2> QED
    BY <1>2, <1>3, GreatestExists
<1>5. n \in 0..Len(recency) /\ Fits(n)
  BY <1>4
<1> HIDE DEF n
<1>6. PrefixKept(SubSeq(recency, 1, n), n)
  BY <1>5, PrefixOfList
<1> QED
  BY <1>1, <1>5, <1>6 DEF PrefixKept
-----------------------------------------------------------------------------
(***************************************************************************)
(* The list, the map, the size and the limits, by what is done to them.    *)
(***************************************************************************)
ListInv ==
    /\ limits \in Limits
    /\ recency \in Seq(Keys)
    /\ used \in [Keys -> Nat]
    /\ \E last \in Nat : \A k \in Keys : used[k] <= last
    /\ ListMatchesMap
    /\ Ordered(recency, used)
    /\ WithinLimits

LeastRecentGo ==
    \A victim \in entries \ entries', kept \in entries \cap entries' :
        used[victim] < used[kept]

LEMMA ListStays ==
  ASSUME CacheInv, UNCHANGED cache
  PROVE  ListInv' /\ LeastRecentGo
BY DEF CacheInv, CacheTypes, ListInv, ListMatchesMap, WithinLimits, cache, LeastRecentGo

LEMMA ListTouched ==
  ASSUME CacheAssumption, CacheInv, NEW k \in entries, recency' = touchLocked(k), Use(k),
         UNCHANGED <<limits, entries, codeBytes>>
  PROVE  ListInv' /\ LeastRecentGo
<1>1. /\ limits \in Limits /\ recency \in Seq(Keys) /\ used \in [Keys -> Nat]
      /\ Ordered(recency, used) /\ ListMatchesMap /\ WithinLimits
      /\ ToSet(recency) = entries
  BY DEF CacheInv, CacheTypes, ListMatchesMap
<1>2. k \in Keys
  BY EntriesAreFinite
<1>3. PICK last \in Nat : \A x \in Keys : used[x] <= last
  BY DEF CacheInv, CacheTypes
<1>4. /\ used' \in [Keys -> Nat]
      /\ \A x \in Keys : x # k => used'[x] = used[x] /\ used'[x] < used'[k]
      /\ \E later \in Nat : \A x \in Keys : used'[x] <= later
  BY <1>1, <1>2, <1>3, UseIsLatest
<1>5. /\ recency' \in Seq(Keys) /\ Len(recency') = Len(recency)
      /\ Ordered(recency', used') /\ ToSet(recency') = ToSet(recency)
  BY <1>1, <1>4, TouchedIsOrdered
<1>6. ListMatchesMap'
  BY <1>1, <1>5 DEF ListMatchesMap
<1>7. WithinLimits'
  BY <1>1 DEF WithinLimits
<1> QED
  BY <1>1, <1>4, <1>5, <1>6, <1>7 DEF ListInv, LeastRecentGo

LEMMA ListCut ==
  ASSUME CacheAssumption, CacheInv, NEW new \in LimitChoices, limits' = new,
         NEW kept, kept = Survivors(new.maxEntries, new.maxCodeBytes),
         recency' = kept, entries' = ToSet(kept),
         codeBytes' = codeBytes - Bytes(entries \ ToSet(kept)),
         UNCHANGED used
  PROVE  ListInv' /\ LeastRecentGo
<1>1. new \in Limits /\ new.maxEntries \in Nat /\ new.maxCodeBytes \in Nat
  BY DEF CacheAssumption, Limits
<1>2. PICK n \in 0..Len(recency) :
            /\ PrefixKept(kept, n)
            /\ \/ n = 0
               \/ n <= new.maxEntries /\ Bytes(ToSet(kept)) <= new.maxCodeBytes
  <2> DEFINE room == new.maxEntries
             bytes == new.maxCodeBytes
  <2>1. room \in Int /\ bytes \in Int /\ kept = Survivors(room, bytes)
    BY <1>1
  <2> HIDE DEF room, bytes
  <2>2. \E n \in 0..Len(recency) :
           /\ PrefixKept(kept, n)
           /\ n = 0 \/ (n <= room /\ Bytes(ToSet(kept)) <= bytes)
    BY <2>1, SurvivorsFit
  <2> QED
    BY <2>2 DEF room, bytes
<1>3. /\ kept \in Seq(Keys) /\ Len(kept) = n /\ Ordered(kept, used)
      /\ IsFiniteSet(ToSet(kept)) /\ Cardinality(ToSet(kept)) = n
      /\ Bytes(ToSet(kept)) = codeBytes - Bytes(entries \ ToSet(kept))
      /\ Bytes(ToSet(kept)) \in Nat
  BY <1>2 DEF PrefixKept
<1>4. n = 0 => Bytes(ToSet(kept)) = 0
  BY <1>3, FS_EmptySet, BytesOfNone
<1>5. ListMatchesMap'
  BY <1>3 DEF ListMatchesMap
<1>6. WithinLimits'
  BY <1>1, <1>2, <1>3, <1>4 DEF WithinLimits
<1>7. LeastRecentGo
  BY <1>2 DEF PrefixKept, LeastRecentGo
<1> QED
  BY <1>1, <1>3, <1>5, <1>6, <1>7 DEF ListInv, CacheInv, CacheTypes

LEMMA ListGrown ==
  ASSUME CacheAssumption, CacheInv, NEW k \in Keys, k \notin entries, Use(k),
         NEW size, size = CodeSize[k], Cachable(size),
         NEW kept, kept = KeptBeside(size),
         recency' = <<k>> \o kept, entries' = ToSet(kept) \cup {k},
         codeBytes' = codeBytes - Bytes(entries \ ToSet(kept)) + size,
         UNCHANGED limits
  PROVE  ListInv' /\ LeastRecentGo
<1>1. /\ limits.maxEntries \in Nat \ {0} /\ limits.maxCodeBytes \in Nat
      /\ size <= limits.maxCodeBytes /\ size \in Nat /\ limits \in Limits
      /\ Bytes({k}) = size
  BY BytesOfOne DEF CacheInv, CacheTypes, Limits, Cachable
<1>2. PICK n \in 0..Len(recency) :
            /\ PrefixKept(kept, n)
            /\ \/ n = 0
               \/ /\ n <= limits.maxEntries - 1
                  /\ Bytes(ToSet(kept)) <= limits.maxCodeBytes - size
  <2> DEFINE room == limits.maxEntries - 1
             bytes == limits.maxCodeBytes - size
  <2>1. room \in Int /\ bytes \in Int /\ kept = Survivors(room, bytes)
    BY <1>1 DEF KeptBeside
  <2> HIDE DEF room, bytes
  <2>2. \E n \in 0..Len(recency) :
           /\ PrefixKept(kept, n)
           /\ n = 0 \/ (n <= room /\ Bytes(ToSet(kept)) <= bytes)
    BY <2>1, SurvivorsFit
  <2> QED
    BY <2>2 DEF room, bytes
<1>3. /\ n \in Nat
      /\ kept \in Seq(Keys) /\ Len(kept) = n /\ Ordered(kept, used)
      /\ IsFiniteSet(ToSet(kept)) /\ Cardinality(ToSet(kept)) = n
      /\ Bytes(ToSet(kept)) = codeBytes - Bytes(entries \ ToSet(kept))
      /\ Bytes(ToSet(kept)) \in Nat
      /\ ToSet(kept) \subseteq entries
  BY <1>2, EntriesAreFinite DEF PrefixKept
<1>4. n = 0 => Bytes(ToSet(kept)) = 0
  BY <1>3, FS_EmptySet, BytesOfNone
<1>5. PICK last \in Nat : \A x \in Keys : used[x] <= last
  BY DEF CacheInv, CacheTypes
<1>6. used \in [Keys -> Nat]
  BY DEF CacheInv, CacheTypes
<1>7. /\ used' \in [Keys -> Nat]
      /\ \A x \in Keys : x # k => used'[x] = used[x] /\ used'[x] < used'[k]
      /\ \E later \in Nat : \A x \in Keys : used'[x] <= later
  BY <1>5, <1>6, UseIsLatest
<1>8. k \notin ToSet(kept) /\ entries \subseteq Keys
  BY <1>3, EntriesAreFinite
<1>9. /\ recency' \in Seq(Keys) /\ Ordered(recency', used')
      /\ ToSet(recency') = ToSet(kept) \cup {k}
  <2> DEFINE v == used'
  <2>1. v \in [Keys -> Nat] /\ \A x \in Keys : x # k => v[x] = used[x] /\ v[x] < v[k]
    BY <1>7
  <2> HIDE DEF v
  <2>2. /\ <<k>> \o kept \in Seq(Keys)
        /\ Ordered(<<k>> \o kept, v) /\ ToSet(<<k>> \o kept) = ToSet(kept) \cup {k}
    <3>1. /\ kept \in Seq(Keys) /\ Ordered(kept, used)
          /\ used \in [Keys -> Nat] /\ k \notin ToSet(kept)
      BY <1>3, <1>6, <1>8
    <3> QED
      BY <2>1, <3>1, OrderedFront, Zenon
  <2> QED
    BY <2>2 DEF v
<1>10. Len(recency') = n + 1 /\ Cardinality(ToSet(kept) \cup {k}) = n + 1
  <2>1. Cardinality(ToSet(kept) \cup {k}) = n + 1
    <3> DEFINE A == ToSet(kept)
    <3>1. IsFiniteSet(A) /\ Cardinality(A) = n /\ k \notin A
      BY <1>3, <1>8
    <3> HIDE DEF A
    <3>2. Cardinality(A \cup {k}) = n + 1
      BY <3>1, FS_AddElement
    <3> QED
      BY <3>2 DEF A
  <2>2. Cardinality(ToSet(recency')) = Len(recency')
    BY <1>7, <1>9, OrderedCounts
  <2> QED
    BY <1>9, <2>1, <2>2
<1>11. Bytes(ToSet(kept) \cup {k}) = Bytes(ToSet(kept)) + size
  <2> DEFINE A == ToSet(kept)
             B == {k}
  <2>1. /\ A \in SUBSET Keys /\ B \in SUBSET Keys /\ A \cap B = {}
        /\ IsFiniteSet(A) /\ IsFiniteSet(B)
    BY <1>3, <1>8, FS_Singleton
  <2> HIDE DEF A, B
  <2>2. Bytes(A \cup B) = Bytes(A) + Bytes(B)
    BY <2>1, BytesAdd
  <2> QED
    BY <1>1, <2>2 DEF A, B
<1>12. ListMatchesMap'
  BY <1>3, <1>9, <1>10, <1>11 DEF ListMatchesMap
<1>13. WithinLimits'
  <2>1. n + 1 <= limits.maxEntries /\ Bytes(ToSet(kept)) + size <= limits.maxCodeBytes
    BY <1>1, <1>2, <1>3, <1>4, SMTT(30)
  <2> QED
    BY <1>3, <1>10, <2>1 DEF WithinLimits
<1>14. LeastRecentGo
  BY <1>2, <1>8 DEF PrefixKept, LeastRecentGo
<1> QED
  BY <1>1, <1>7, <1>9, <1>12, <1>13, <1>14 DEF ListInv

LEMMA ListCleared ==
  ASSUME CacheAssumption, CacheInv, recency' = <<>>, entries' = {}, codeBytes' = 0,
         UNCHANGED <<limits, used>>
  PROVE  ListInv' /\ LeastRecentGo
<1>1. limits \in Limits /\ limits.maxEntries \in Nat /\ limits.maxCodeBytes \in Nat
  BY DEF CacheInv, CacheTypes, Limits
<1>2. ListMatchesMap' /\ WithinLimits'
  BY <1>1, FS_EmptySet, BytesOfNone DEF ListMatchesMap, WithinLimits, ToSet
<1>3. Ordered(recency', used') /\ recency' \in Seq(Keys)
  BY DEF Ordered
<1> QED
  BY <1>1, <1>2, <1>3 DEF ListInv, LeastRecentGo, CacheInv, CacheTypes
-----------------------------------------------------------------------------
(***************************************************************************)
(* The counters and the misses in flight.                                  *)
(***************************************************************************)
\* Where the threads are, what they execute and what was counted.
ThreadInv ==
    /\ statistics \in [Counters -> Nat]
    /\ stage \in [Compilers -> CachePlaces]
    /\ DOMAIN key = Compilers
    /\ \A t \in Compilers : stage[t] # "idle" => key[t] \in Keys
    /\ atReset \in Nat
    /\ MissesAccounted

LEMMA InvOfParts ==
  /\ CacheInv => ThreadInv
  /\ (ThreadInv /\ ListInv)' => CacheInv'
BY DEF ThreadInv, ListInv, CacheInv, CacheTypes

LEMMA MissesAreFinite ==
  ASSUME CacheAssumption
  PROVE  IsFiniteSet(Misses) /\ InFlight \in Nat
<1>1. IsFiniteSet(Misses)
  BY FS_Subset DEF CacheAssumption, Misses
<1> QED
  BY <1>1, FS_CardinalityType DEF InFlight

Miss == {"compile", "store"}

\* A thread that misses or is done with its miss changes the number in flight.
LEMMA ThreadMoves ==
  ASSUME CacheAssumption, ThreadInv, NEW t \in Compilers, NEW place \in CachePlaces,
         Proceed(t, place)
  PROVE  /\ stage' \in [Compilers -> CachePlaces]
         /\ stage'[t] = place /\ \A u \in Compilers : u # t => stage'[u] = stage[u]
         /\ InFlight \in Nat
         /\ stage[t] \notin Miss /\ place \in Miss => InFlight' = InFlight + 1
         /\ stage[t] \in Miss /\ place \notin Miss => InFlight' = InFlight - 1
         /\ (stage[t] \in Miss <=> place \in Miss) => InFlight' = InFlight
<1>1. /\ stage' \in [Compilers -> CachePlaces]
      /\ stage'[t] = place /\ \A u \in Compilers : u # t => stage'[u] = stage[u]
  BY DEF Proceed, ThreadInv
<1>2. IsFiniteSet(Misses) /\ InFlight \in Nat
  BY MissesAreFinite
<1> DEFINE before == Misses
           after == Misses'
<1>3. InFlight = Cardinality(before) /\ InFlight' = Cardinality(after)
  BY DEF InFlight
<1>4. t \in before <=> stage[t] \in Miss
  BY DEF Misses, Miss
<1>5. after = IF place \in Miss THEN before \cup {t} ELSE before \ {t}
  BY <1>1 DEF Misses, Miss
<1> HIDE DEF before, after
<1>6. IsFiniteSet(before)
  BY <1>2 DEF before
<1>7. CASE place \in Miss
  BY <1>1, <1>2, <1>3, <1>4, <1>5, <1>6, <1>7, FS_AddElement
<1>8. CASE place \notin Miss
  BY <1>1, <1>2, <1>3, <1>4, <1>5, <1>6, <1>8, FS_RemoveElement
<1> QED
  BY <1>1, <1>2, <1>7, <1>8

\* What is counted of an operation, and of the misses.
LEMMA Counted ==
  ASSUME statistics \in [Counters -> Nat], NEW by, Count(by),
         \A c \in DOMAIN by : by[c] \in Nat
  PROVE  /\ statistics' \in [Counters -> Nat]
         /\ \A c \in Counters : /\ c \in DOMAIN by => statistics'[c] = statistics[c] + by[c]
                                /\ c \notin DOMAIN by => statistics'[c] = statistics[c]
BY DEF Count

Ended == statistics["failure"] + statistics["insertion"]
            + statistics["duplicate"] + statistics["bypass"]

LEMMA StillAccounted ==
  ASSUME CacheAssumption, ThreadInv, statistics' \in [Counters -> Nat], atReset' = atReset,
         NEW begun \in Nat, NEW over \in Nat,
         statistics'["miss"] = statistics["miss"] + begun,
         Ended' = Ended + over,
         InFlight' = InFlight + begun - over
  PROVE  MissesAccounted'
<1>1. /\ statistics["miss"] \in Nat /\ statistics["failure"] \in Nat
      /\ statistics["insertion"] \in Nat /\ statistics["duplicate"] \in Nat
      /\ statistics["bypass"] \in Nat
  BY DEF ThreadInv, Counters
<1>2. /\ statistics'["miss"] \in Nat /\ statistics'["failure"] \in Nat
      /\ statistics'["insertion"] \in Nat /\ statistics'["duplicate"] \in Nat
      /\ statistics'["bypass"] \in Nat
  BY DEF Counters
<1>3. InFlight \in Nat /\ atReset \in Nat
  BY MissesAreFinite DEF ThreadInv
<1>4. atReset + statistics["miss"] = InFlight + Ended
  BY <1>1, <1>3 DEF ThreadInv, MissesAccounted, Ended
<1>5. Ended \in Nat
  BY <1>1 DEF Ended
<1>6. atReset' + statistics'["miss"] = InFlight' + Ended'
  BY <1>1, <1>3, <1>4, <1>5
<1>7. InFlight' \in Int
  BY <1>3
<1> QED
  BY <1>2, <1>6, <1>7 DEF MissesAccounted, Ended

\* A thread moves, with the misses counted.
LEMMA ThreadsStand ==
  ASSUME CacheAssumption, ThreadInv, NEW t \in Compilers, NEW place \in CachePlaces,
         Proceed(t, place),
         \/ \E k \in Keys : key' = [key EXCEPT ![t] = k]
         \/ key' = key /\ stage[t] # "idle",
         statistics' \in [Counters -> Nat], atReset' = atReset, MissesAccounted'
  PROVE  ThreadInv'
<1>1. /\ stage' \in [Compilers -> CachePlaces]
      /\ stage'[t] = place /\ \A u \in Compilers : u # t => stage'[u] = stage[u]
  BY ThreadMoves
<1>2. DOMAIN key' = Compilers /\ \A u \in Compilers : stage'[u] # "idle" => key'[u] \in Keys
  BY <1>1 DEF ThreadInv
<1> QED
  BY <1>1, <1>2 DEF ThreadInv

LEMMA FindKeeps ==
  ASSUME CacheAssumption, ThreadInv, NEW t \in Compilers, NEW k \in Keys, find(t, k)
  PROVE  ThreadInv'
<1>1. /\ stage[t] = "idle" /\ key' = [key EXCEPT ![t] = k] /\ UNCHANGED atReset
  BY DEF find
<1>2. CASE k \in entries
  <2> DEFINE by == [lookup |-> 1, hit |-> 1]
  <2>1. Count(by) /\ Proceed(t, "execute")
    BY <1>2 DEF find
  <2>2. DOMAIN by = {"lookup", "hit"} /\ \A c \in DOMAIN by : by[c] \in Nat
    OBVIOUS
  <2> HIDE DEF by
  <2>3. /\ statistics' \in [Counters -> Nat]
        /\ \A c \in Counters \ {"lookup", "hit"} : statistics'[c] = statistics[c]
    BY <2>1, <2>2, Counted DEF ThreadInv
  <2>4. InFlight' = InFlight /\ InFlight \in Nat
    BY <1>1, <2>1, ThreadMoves DEF CachePlaces, Miss
  <2>5. /\ statistics["miss"] \in Nat /\ Ended \in Nat
        /\ statistics'["miss"] = statistics["miss"] /\ Ended' = Ended
    BY <2>3 DEF ThreadInv, Counters, Ended
  <2>6. MissesAccounted'
    BY <1>1, <2>3, <2>4, <2>5, StillAccounted
  <2> QED
    BY <1>1, <2>1, <2>3, <2>6, ThreadsStand DEF CachePlaces
<1>3. CASE k \notin entries
  <2> DEFINE by == [lookup |-> 1, miss |-> 1]
  <2>1. Count(by) /\ Proceed(t, "compile")
    BY <1>3 DEF find
  <2>2. /\ DOMAIN by = {"lookup", "miss"} /\ \A c \in DOMAIN by : by[c] \in Nat
        /\ by["miss"] = 1
    OBVIOUS
  <2> HIDE DEF by
  <2>3. /\ statistics' \in [Counters -> Nat]
        /\ \A c \in Counters \ {"lookup", "miss"} : statistics'[c] = statistics[c]
        /\ statistics'["miss"] = statistics["miss"] + 1
    BY <2>1, <2>2, Counted DEF ThreadInv, Counters
  <2>4. InFlight' = InFlight + 1 /\ InFlight \in Nat
    BY <1>1, <2>1, ThreadMoves DEF CachePlaces, Miss
  <2>5. Ended \in Nat /\ Ended' = Ended
    BY <2>3 DEF ThreadInv, Counters, Ended
  <2>6. MissesAccounted'
    BY <1>1, <2>3, <2>4, <2>5, StillAccounted
  <2> QED
    BY <1>1, <2>1, <2>3, <2>6, ThreadsStand DEF CachePlaces
<1> QED
  BY <1>2, <1>3

\* A miss is over: as one failure, one insertion, one duplicate or one bypass.
LEMMA MissEnds ==
  ASSUME CacheAssumption, ThreadInv, NEW t \in Compilers, stage[t] \in Miss,
         NEW place \in {"idle", "execute"}, Proceed(t, place), UNCHANGED <<key, atReset>>,
         NEW end \in {"failure", "insertion", "duplicate", "bypass"},
         NEW by, Count(by), \A c \in DOMAIN by : by[c] \in Nat,
         end \in DOMAIN by, by[end] = 1,
         DOMAIN by \subseteq {end, "eviction", "evictedBytes"}
  PROVE  ThreadInv'
<1>1. /\ statistics' \in [Counters -> Nat]
      /\ \A c \in Counters \ {end, "eviction", "evictedBytes"} : statistics'[c] = statistics[c]
      /\ statistics'[end] = statistics[end] + 1
  <2>1. end \in Counters
    BY DEF Counters
  <2>2. /\ statistics' \in [Counters -> Nat]
        /\ \A c \in Counters : /\ c \in DOMAIN by => statistics'[c] = statistics[c] + by[c]
                               /\ c \notin DOMAIN by => statistics'[c] = statistics[c]
    BY Counted DEF ThreadInv
  <2> QED
    BY <2>1, <2>2
<1>2. InFlight' = InFlight - 1 /\ InFlight \in Nat
  BY ThreadMoves DEF CachePlaces, Miss
<1>3. /\ statistics["miss"] \in Nat /\ statistics["failure"] \in Nat
      /\ statistics["insertion"] \in Nat /\ statistics["duplicate"] \in Nat
      /\ statistics["bypass"] \in Nat
  BY DEF ThreadInv, Counters
<1>4. statistics'["miss"] = statistics["miss"]
  BY <1>1 DEF Counters
<1>5. Ended' = Ended + 1
  <2>1. CASE end = "failure"
    BY <1>1, <1>3, <2>1 DEF Counters, Ended
  <2>2. CASE end = "insertion"
    BY <1>1, <1>3, <2>2 DEF Counters, Ended
  <2>3. CASE end = "duplicate"
    BY <1>1, <1>3, <2>3 DEF Counters, Ended
  <2>4. CASE end = "bypass"
    BY <1>1, <1>3, <2>4 DEF Counters, Ended
  <2> QED
    BY <2>1, <2>2, <2>3, <2>4
<1>6. MissesAccounted'
  BY <1>1, <1>2, <1>3, <1>4, <1>5, StillAccounted
<1>7. stage[t] # "idle" /\ place \in CachePlaces
  BY DEF Miss, CachePlaces
<1> QED
  BY <1>1, <1>6, <1>7, ThreadsStand

LEMMA CompilationKeeps ==
  ASSUME CacheAssumption, ThreadInv, NEW t \in Compilers, recordCompilation(t)
  PROVE  ThreadInv'
<1>1. stage[t] = "compile" /\ UNCHANGED <<key, atReset>>
  BY DEF recordCompilation
<1>2. CASE Count([compilation |-> 1]) /\ Proceed(t, "store")
  <2> DEFINE by == [compilation |-> 1]
  <2>1. Count(by)
    BY <1>2
  <2>2. DOMAIN by = {"compilation"} /\ \A c \in DOMAIN by : by[c] \in Nat
    OBVIOUS
  <2> HIDE DEF by
  <2>3. /\ statistics' \in [Counters -> Nat]
        /\ \A c \in Counters \ {"compilation"} : statistics'[c] = statistics[c]
    BY <2>1, <2>2, Counted DEF ThreadInv
  <2>4. InFlight' = InFlight /\ InFlight \in Nat
    BY <1>1, <1>2, ThreadMoves DEF CachePlaces, Miss
  <2>5. /\ statistics["miss"] \in Nat /\ Ended \in Nat
        /\ statistics'["miss"] = statistics["miss"] /\ Ended' = Ended
    BY <2>3 DEF ThreadInv, Counters, Ended
  <2>6. MissesAccounted'
    BY <1>1, <2>3, <2>4, <2>5, StillAccounted
  <2> QED
    BY <1>1, <1>2, <2>3, <2>6, ThreadsStand DEF CachePlaces
<1>3. CASE Count([failure |-> 1]) /\ Proceed(t, "idle")
  <2> DEFINE by == [failure |-> 1]
  <2>1. /\ Count(by) /\ DOMAIN by = {"failure"} /\ by["failure"] = 1
        /\ \A c \in DOMAIN by : by[c] \in Nat
    BY <1>3
  <2> HIDE DEF by
  <2> QED
    BY <1>1, <1>3, <2>1, MissEnds DEF Miss
<1> QED
  BY <1>2, <1>3 DEF recordCompilation

LEMMA StoreKeeps ==
  ASSUME CacheAssumption, CacheInv, NEW t \in Compilers, store(t)
  PROVE  CacheInv' /\ LeastRecentGo
<1> DEFINE k == key[t]
           size == CodeSize[k]
           kept == KeptBeside(size)
           victims == entries \ ToSet(kept)
<1>1. /\ stage[t] = "store" /\ stage[t] \in Miss /\ Proceed(t, "execute")
      /\ UNCHANGED <<limits, key, atReset>>
  BY DEF store, Miss
<1>2. k \in Keys /\ ThreadInv
  BY <1>1, InvOfParts DEF CacheInv, CacheTypes
<1>3. CASE /\ k \in entries /\ Count([duplicate |-> 1])
           /\ recency' = touchLocked(k) /\ Use(k) /\ UNCHANGED <<entries, codeBytes>>
  <2> DEFINE by == [duplicate |-> 1]
  <2>1. /\ Count(by) /\ DOMAIN by = {"duplicate"} /\ by["duplicate"] = 1
        /\ \A c \in DOMAIN by : by[c] \in Nat
    BY <1>3
  <2> HIDE DEF by
  <2>2. ThreadInv'
    BY <1>1, <1>2, <2>1, MissEnds
  <2> HIDE DEF k
  <2>3. ListInv' /\ LeastRecentGo
    BY <1>1, <1>3, ListTouched
  <2> QED
    BY <2>2, <2>3, InvOfParts
<1>4. CASE /\ k \notin entries /\ Count([bypass |-> 1])
           /\ UNCHANGED <<recency, used, entries, codeBytes>>
  <2> DEFINE by == [bypass |-> 1]
  <2>1. /\ Count(by) /\ DOMAIN by = {"bypass"} /\ by["bypass"] = 1
        /\ \A c \in DOMAIN by : by[c] \in Nat
    BY <1>4
  <2> HIDE DEF by
  <2>2. ThreadInv'
    BY <1>1, <1>2, <2>1, MissEnds
  <2>3. ListInv' /\ LeastRecentGo
    BY <1>1, <1>4, ListStays DEF cache
  <2> QED
    BY <2>2, <2>3, InvOfParts
<1>5. CASE /\ k \notin entries /\ Cachable(size)
           /\ Count([insertion |-> 1, eviction |-> Cardinality(victims),
                     evictedBytes |-> Bytes(victims)])
           /\ recency' = <<k>> \o kept
           /\ entries' = ToSet(kept) \cup {k}
           /\ codeBytes' = codeBytes - Bytes(victims) + size
           /\ Use(k)
  <2> DEFINE by == [insertion |-> 1, eviction |-> Cardinality(victims),
                    evictedBytes |-> Bytes(victims)]
  <2>1. Cardinality(victims) \in Nat /\ Bytes(victims) \in Nat
    <3>1. victims \in SUBSET Keys /\ IsFiniteSet(victims)
      BY EntriesAreFinite, FS_Subset
    <3> QED
      BY <3>1, CodeIsFinite, FS_CardinalityType
  <2>2. /\ Count(by) /\ DOMAIN by = {"insertion", "eviction", "evictedBytes"}
        /\ by["insertion"] = 1 /\ \A c \in DOMAIN by : by[c] \in Nat
    <3> DEFINE a == Cardinality(victims)
               b == Bytes(victims)
    <3>1. by = [insertion |-> 1, eviction |-> a, evictedBytes |-> b] /\ a \in Nat /\ b \in Nat
      BY <2>1
    <3>2. Count(by)
      BY <1>5
    <3> HIDE DEF a, b, by
    <3> QED
      BY <3>1, <3>2
  <2> HIDE DEF by
  <2>3. ThreadInv'
    BY <1>1, <1>2, <2>2, MissEnds
  <2>4. ListInv' /\ LeastRecentGo
    BY <1>1, <1>2, <1>5, ListGrown
  <2> QED
    BY <2>3, <2>4, InvOfParts
<1> QED
  BY <1>3, <1>4, <1>5 DEF store

LEMMA HostKeeps ==
  ASSUME CacheAssumption, CacheInv, Configuration
  PROVE  CacheInv' /\ LeastRecentGo
<1>1. ThreadInv
  BY InvOfParts
<1>2. ASSUME NEW by, Count(by), \A c \in DOMAIN by : by[c] \in Nat,
             DOMAIN by \cap {"miss", "failure", "insertion", "duplicate", "bypass"} = {},
             UNCHANGED <<stage, key, atReset>>
      PROVE  ThreadInv'
  <2>1. /\ statistics' \in [Counters -> Nat]
        /\ \A c \in Counters : c \notin DOMAIN by => statistics'[c] = statistics[c]
    BY <1>1, <1>2, Counted DEF ThreadInv
  <2>2. InFlight' = InFlight
    BY <1>2 DEF InFlight, Misses
  <2>3. \A c \in {"miss", "failure", "insertion", "duplicate", "bypass"} :
           statistics'[c] = statistics[c]
    BY <1>2, <2>1 DEF Counters
  <2>4. MissesAccounted'
    BY <1>1, <1>2, <2>2, <2>3 DEF ThreadInv, MissesAccounted
  <2> QED
    BY <1>1, <1>2, <2>1, <2>4 DEF ThreadInv
<1>3. ASSUME NEW new \in LimitChoices, configure(new)
      PROVE  CacheInv' /\ LeastRecentGo
  <2> DEFINE kept == Survivors(new.maxEntries, new.maxCodeBytes)
             victims == entries \ ToSet(kept)
             a == Cardinality(victims)
             b == Bytes(victims)
             by == [eviction |-> a, evictedBytes |-> b]
  <2>1. a \in Nat /\ b \in Nat
    <3>1. victims \in SUBSET Keys /\ IsFiniteSet(victims)
      BY EntriesAreFinite, FS_Subset
    <3> QED
      BY <3>1, CodeIsFinite, FS_CardinalityType
  <2>2. Count(by) /\ UNCHANGED <<stage, key, atReset>>
    BY <1>3 DEF configure
  <2>3. ListInv' /\ LeastRecentGo
    BY <1>3, ListCut DEF configure
  <2> HIDE DEF a, b
  <2>4. DOMAIN by = {"eviction", "evictedBytes"} /\ \A c \in DOMAIN by : by[c] \in Nat
    BY <2>1
  <2> HIDE DEF by
  <2>5. ThreadInv'
    BY <1>2, <2>2, <2>4
  <2> QED
    BY <2>3, <2>5, InvOfParts
<1>4. CASE clear
  <2> DEFINE a == Cardinality(entries)
             by == [cleared |-> a, clearedBytes |-> codeBytes]
  <2>1. a \in Nat /\ codeBytes \in Nat
    BY EntriesAreFinite, FS_CardinalityType
  <2>2. Count(by) /\ UNCHANGED <<stage, key, atReset>>
    BY <1>4 DEF clear
  <2>3. ListInv' /\ LeastRecentGo
    BY <1>4, ListCleared DEF clear
  <2> HIDE DEF a
  <2>4. DOMAIN by = {"cleared", "clearedBytes"} /\ \A c \in DOMAIN by : by[c] \in Nat
    BY <2>1
  <2> HIDE DEF by
  <2>5. ThreadInv'
    BY <1>2, <2>2, <2>4
  <2> QED
    BY <2>3, <2>5, InvOfParts
<1>5. CASE resetStatistics
  <2>1. /\ statistics' = NoCounts /\ atReset' = InFlight
        /\ UNCHANGED cache /\ UNCHANGED <<stage, key>>
    BY <1>5 DEF resetStatistics
  <2>2. ListInv' /\ LeastRecentGo
    BY <2>1, ListStays
  <2>3. InFlight' = InFlight /\ InFlight \in Nat
    BY <2>1, MissesAreFinite DEF InFlight, Misses
  <2>4. /\ statistics' \in [Counters -> Nat]
        /\ \A c \in {"miss", "failure", "insertion", "duplicate", "bypass"} : statistics'[c] = 0
    BY <2>1 DEF NoCounts, Counters
  <2>5. MissesAccounted'
    BY <2>1, <2>3, <2>4 DEF MissesAccounted
  <2>6. ThreadInv'
    BY <1>1, <2>1, <2>3, <2>4, <2>5 DEF ThreadInv
  <2> QED
    BY <2>2, <2>6, InvOfParts
<1> QED
  BY <1>3, <1>4, <1>5 DEF Configuration

LEMMA CacheStepKeeps ==
  ASSUME CacheAssumption, CacheInv, [CacheNext]_cacheVars
  PROVE  CacheInv' /\ LeastRecentGo
<1>1. ThreadInv
  BY InvOfParts
<1>2. ASSUME NEW t \in Compilers, NEW k \in Keys, find(t, k)
      PROVE  CacheInv' /\ LeastRecentGo
  <2>1. ThreadInv'
    BY <1>1, <1>2, FindKeeps
  <2>2. CASE k \in entries
    <3>1. recency' = touchLocked(k) /\ Use(k) /\ UNCHANGED <<limits, entries, codeBytes>>
      BY <1>2, <2>2 DEF find
    <3> QED
      BY <2>1, <2>2, <3>1, ListTouched, InvOfParts
  <2>3. CASE k \notin entries
    <3>1. UNCHANGED cache
      BY <1>2, <2>3 DEF find, cache
    <3> QED
      BY <2>1, <3>1, ListStays, InvOfParts
  <2> QED
    BY <2>2, <2>3
<1>3. ASSUME NEW t \in Compilers, recordCompilation(t)
      PROVE  CacheInv' /\ LeastRecentGo
  <2>1. UNCHANGED cache
    BY <1>3 DEF recordCompilation
  <2> QED
    BY <1>1, <1>3, <2>1, CompilationKeeps, ListStays, InvOfParts
<1>4. ASSUME NEW t \in Compilers, execute(t)
      PROVE  CacheInv' /\ LeastRecentGo
  <2>1. /\ stage[t] = "execute" /\ Proceed(t, "idle")
        /\ UNCHANGED cache /\ UNCHANGED <<statistics, key, atReset>>
    BY <1>4 DEF execute
  <2>2. InFlight' = InFlight
    BY <1>1, <2>1, ThreadMoves DEF CachePlaces, Miss
  <2>3. MissesAccounted' /\ statistics' \in [Counters -> Nat]
    BY <1>1, <2>1, <2>2 DEF ThreadInv, MissesAccounted
  <2>4. ThreadInv'
    BY <1>1, <2>1, <2>3, ThreadsStand DEF CachePlaces
  <2> QED
    BY <2>1, <2>4, ListStays, InvOfParts
<1>5. CASE UNCHANGED cacheVars
  <2>1. UNCHANGED cache /\ ThreadInv'
    BY <1>1, <1>5 DEF cacheVars, cache, ThreadInv, MissesAccounted, InFlight, Misses
  <2> QED
    BY <2>1, ListStays, InvOfParts
<1>6. ASSUME NEW t \in Compilers, store(t)
      PROVE  CacheInv' /\ LeastRecentGo
  BY <1>6, StoreKeeps
<1>7. CASE Execution
  BY <1>2, <1>3, <1>4, <1>6, <1>7 DEF Execution
<1>8. CASE Configuration
  BY <1>8, HostKeeps
<1>9. CASE CacheQuiescent
  BY <1>5, <1>9 DEF CacheQuiescent
<1> QED
  BY <1>5, <1>7, <1>8, <1>9 DEF CacheNext

\* Every state the cache reaches is consistent and ordered by use.
THEOREM CacheInvariance == CacheAssumption => (CacheSpec => []CacheInv)
<1> SUFFICES ASSUME CacheAssumption
             PROVE  CacheSpec => []CacheInv
  OBVIOUS
<1>1. CacheInit => CacheInv
  <2> SUFFICES ASSUME CacheInit
               PROVE  CacheInv
    OBVIOUS
  <2>1. CacheTypes
    BY SMTT(30) DEF CacheInit, EmptyCache, CacheTypes, CacheAssumption, CachePlaces, NoCounts
  <2>2. ListMatchesMap /\ Ordered(recency, used)
    BY FS_EmptySet, BytesOfNone DEF CacheInit, EmptyCache, ListMatchesMap, Ordered, ToSet
  <2>3. WithinLimits
    BY FS_EmptySet DEF CacheInit, EmptyCache, WithinLimits, CacheAssumption, Limits
  <2>4. Misses = {}
    BY DEF CacheInit, EmptyCache, Misses
  <2>5. InFlight = 0
    BY <2>4, FS_EmptySet DEF InFlight
  <2>6. MissesAccounted
    BY <2>5 DEF CacheInit, EmptyCache, NoCounts, Counters, MissesAccounted
  <2> QED
    BY <2>1, <2>2, <2>3, <2>6 DEF CacheInv
<1>2. CacheInv /\ [CacheNext]_cacheVars => CacheInv'
  BY CacheStepKeeps
<1> QED
  BY <1>1, <1>2, PTL DEF CacheSpec

\* List, map and size agree, the limits hold and every miss is accounted for,
\* whoever stored, evicted, cleared or reconfigured while kernels compiled.
THEOREM CacheStaysConsistent == CacheAssumption => (CacheSpec => []CacheIsConsistent)
<1>1. CacheInv => CacheIsConsistent
  BY DEF CacheInv, CacheIsConsistent
<1> QED
  BY <1>1, CacheInvariance, PTL

\* An eviction takes the least recently used kernels, for whatever reason and
\* in whatever thread it happens.
THEOREM LeastRecentAreEvicted == CacheAssumption => (CacheSpec => EvictsLeastRecent)
<1> SUFFICES ASSUME CacheAssumption
             PROVE  CacheSpec => EvictsLeastRecent
  OBVIOUS
<1>1. CacheInv /\ [CacheNext]_cacheVars => [LeastRecentGo]_cacheVars
  BY CacheStepKeeps
<1>2. CacheSpec => []CacheInv
  BY CacheInvariance
<1> QED
  BY <1>1, <1>2, PTL DEF CacheSpec, EvictsLeastRecent, LeastRecentGo

-----------------------------------------------------------------------------
(***************************************************************************)
(* The adaptive tier.                                                      *)
(***************************************************************************)

TierTypes ==
    /\ profile \in [Regions -> [iterations : 0..HotLoopThreshold, seen : Seen]]
    /\ consecutiveFallbacks \in [Regions -> Nat]
    /\ streak \in [Regions -> Nat]
    /\ observed \in [Regions -> SUBSET {"good", "bad"}]
    /\ iterations \in [Regions -> Nat]
    /\ installed \subseteq Regions /\ failed \subseteq Regions

\* What the session counts of a region is at least its streak, and below the
\* limit; a region that failed is out until it is promoted again.
FallbacksCounted ==
    /\ installed \cap failed = {}
    /\ \A r \in Regions :
          /\ consecutiveFallbacks[r] < FallbackInvalidationThreshold
          /\ r \notin failed => streak[r] <= consecutiveFallbacks[r]

\* The profile summarises exactly what ran since the last invalidation.
SeenTells(seen, values) ==
    /\ seen = "none" <=> values = {}
    /\ seen = "good" <=> values = {"good"}

ProfileTells ==
    \A r \in Regions : /\ iterations[r] = profile[r].iterations
                       /\ SeenTells(profile[r].seen, observed[r])

InstalledAreHot ==
    \A r \in installed \cap Loops : iterations[r] >= HotLoopThreshold

\* The session's two sets of loops are the loops that failed and those of them
\* whose rejection was reported; a hot loop that is turned down was reported.
FailuresTold ==
    \A r \in Loops :
        /\ r \in failed <=> r \in retraining
        /\ r \in told <=> r \in reported
        /\ r \in reported => r \in retraining
        /\ installed = {} /\ r \in failed /\ r \in plan(profile) => r \in told

TierInv == TierTypes /\ FallbacksCounted /\ ProfileTells /\ InstalledAreHot /\ FailuresTold
-----------------------------------------------------------------------------
(***************************************************************************)
(* What the operators of the model return.                                 *)
(***************************************************************************)
LEMMA OutcomesAreFinite ==
  ASSUME TierAssumption, NEW o \in Outcomes
  PROVE  \E n \in Nat : o \in [1..n -> {"executed", "fallback"}]
BY DEF Outcomes, TierAssumption

LEMMA FallbacksCount ==
  ASSUME TierAssumption, NEW o \in Outcomes
  PROVE  /\ Fallbacks(o) \in Nat
         /\ \A S : S \subseteq {i \in DOMAIN o : o[i] = "fallback"}
                => Cardinality(S) \in Nat /\ Cardinality(S) <= Fallbacks(o)
<1> PICK n \in Nat : o \in [1..n -> {"executed", "fallback"}]
  BY OutcomesAreFinite
<1> DEFINE F == {i \in DOMAIN o : o[i] = "fallback"}
<1>1. IsFiniteSet(1..n)
  BY FS_Interval
<1>2. IsFiniteSet(F)
  BY <1>1, FS_Subset
<1>3. ASSUME NEW S, S \subseteq F
      PROVE  Cardinality(S) \in Nat /\ Cardinality(S) <= Cardinality(F)
  BY <1>2, <1>3, FS_Subset, FS_CardinalityType
<1> QED
  BY <1>2, <1>3, FS_CardinalityType DEF Fallbacks

\* Counting every fallback of an invocation counts at least those that follow
\* its last execution.
LEMMA TrailingIsCounted ==
  ASSUME TierAssumption, NEW o \in Outcomes, NEW before \in Nat
  PROVE  /\ Trailing(before, o) \in Nat
         /\ Trailing(before, o) <= (IF Executed(o) THEN 0 ELSE before) + Fallbacks(o)
<1>1. Fallbacks(o) \in Nat
  BY FallbacksCount
<1>2. CASE Executed(o)
  <2> DEFINE S == {i \in DOMAIN o :
                      /\ o[i] = "fallback"
                      /\ \A j \in DOMAIN o : o[j] = "executed" => j < i}
  <2>1. S \subseteq {i \in DOMAIN o : o[i] = "fallback"}
    OBVIOUS
  <2>2. Cardinality(S) \in Nat /\ Cardinality(S) <= Fallbacks(o)
    BY <2>1, FallbacksCount
  <2>3. Trailing(before, o) = Cardinality(S)
    BY <1>2 DEF Trailing
  <2> HIDE DEF S
  <2> QED
    BY <1>1, <1>2, <2>2, <2>3
<1>3. CASE ~Executed(o)
  BY <1>1, <1>3 DEF Trailing
<1> QED
  BY <1>2, <1>3

\* Merging an observation keeps the profile a summary of the values seen.
LEMMA MergeTells ==
  ASSUME NEW old \in Seen, NEW new \in Seen, NEW values \in SUBSET {"good", "bad"},
         SeenTells(old, values)
  PROVE  /\ mergeSeen(old, new) \in Seen
         /\ SeenTells(mergeSeen(old, new), values \cup ({new} \ {"none"}))
BY DEF Seen, SeenTells, mergeSeen

LEMMA CappedSum ==
  ASSUME TierAssumption, NEW a \in 0..HotLoopThreshold, NEW b \in 0..IterationBound
  PROVE  AddIterations(a, b) \in 0..HotLoopThreshold
BY DEF TierAssumption, AddIterations
-----------------------------------------------------------------------------
LEMMA StartsRight ==
  ASSUME TierAssumption, TierInit
  PROVE  TierInv
<1>1. TierTypes
  BY DEF TierInit, TierTypes, TierAssumption, Initial, Empty, Seen
<1>2. FallbacksCounted
  BY DEF TierInit, FallbacksCounted, TierAssumption, Initial
<1>3. ProfileTells
  BY DEF TierInit, ProfileTells, SeenTells, Initial, Empty
<1>4. InstalledAreHot
  BY DEF TierInit, InstalledAreHot
<1>5. FailuresTold
  BY DEF TierInit, FailuresTold
<1> QED
  BY <1>1, <1>2, <1>3, <1>4, <1>5 DEF TierInv
-----------------------------------------------------------------------------
(***************************************************************************)
(* An invocation of the profiling tier.                                    *)
(***************************************************************************)
\* What is promoted, what is kept back and what is told of it.
LEMMA Promotes ==
  ASSUME TierAssumption, TierInv, installed = {}, NEW run \in Runs,
         NEW merged, merged = mergeProfile(run),
         applyRetrainingRequirements(merged), Promote(merged), Observe(run),
         NEW r \in Loops
  PROVE  /\ r \in installed' <=> r \in Executable(merged)
         /\ r \in failed' <=> r \in retraining'
         /\ r \in told' <=> r \in reported'
         /\ r \in reported' => r \in retraining'
         /\ r \in failed' /\ r \in plan(merged) => r \in told'
         /\ r \in failed /\ r \in installed' => merged[r].seen = "good"
         /\ <<"RetrainingRejected", r>> \in events' /\ r \in failed => r \notin told
<1> DEFINE rejected == RejectedLoops(merged)
           proved == (plan(merged) \cap Loops \cap retraining) \ rejected
<1>1. /\ r \in failed <=> r \in retraining
      /\ r \in told <=> r \in reported
      /\ r \in reported => r \in retraining
  BY DEF TierInv, FailuresTold
<1>2. r \in installed' <=> r \in Executable(merged)
  BY DEF Promote
<1>3. /\ r \in retraining' <=> r \in retraining /\ r \notin proved
      /\ r \in reported' <=> (r \in reported /\ r \notin proved) \/ r \in rejected
  BY DEF applyRetrainingRequirements
<1>4. /\ <<"RetrainingRejected", r>> \in events' <=> r \in rejected /\ r \notin reported
      /\ r \in {e[2] : e \in {x \in events' : x[1] = "RetrainingRejected"}}
            <=> r \in rejected /\ r \notin reported
  <2>1. events' = TierEvents("RetrainingRejected", rejected \ reported)
                      \cup TierEvents("Promotion", Executable(merged) \cap Loops)
    BY DEF applyRetrainingRequirements
  <2> HIDE DEF rejected
  <2>2. {x \in events' : x[1] = "RetrainingRejected"}
            = TierEvents("RetrainingRejected", rejected \ reported)
    BY <2>1 DEF TierEvents
  <2>3. {e[2] : e \in TierEvents("RetrainingRejected", rejected \ reported)}
            = rejected \ reported
    <3>1. \A e \in TierEvents("RetrainingRejected", rejected \ reported) :
             e[2] \in rejected \ reported
      BY DEF TierEvents
    <3>2. ASSUME NEW q \in rejected \ reported
          PROVE  \E e \in TierEvents("RetrainingRejected", rejected \ reported) : e[2] = q
      <4>1. <<"RetrainingRejected", q>> \in
                TierEvents("RetrainingRejected", rejected \ reported)
        BY DEF TierEvents
      <4>2. <<"RetrainingRejected", q>>[2] = q
        OBVIOUS
      <4> QED
        BY <4>1, <4>2
    <3> QED
      BY <3>1, <3>2
  <2>4. <<"RetrainingRejected", r>> \in events' <=> r \in rejected \ reported
    BY <2>1 DEF TierEvents
  <2> QED
    BY <2>2, <2>3, <2>4
<1>5. /\ r \in failed' <=> r \in failed /\ r \notin installed'
      /\ r \in told' <=> (r \in told \/ (r \in rejected /\ r \notin reported)) /\ r \notin installed'
  BY <1>4 DEF Observe
<1>6. /\ r \in rejected <=> /\ r \in plan(merged) /\ r \in retraining
                            /\ merged[r].seen # "good"
      /\ r \in Executable(merged) <=> r \in plan(merged) /\ r \notin rejected
      /\ r \in proved <=> r \in plan(merged) /\ r \in retraining /\ r \notin rejected
  BY DEF RejectedLoops, Executable, hasRetrainingEvidence
<1> HIDE DEF rejected, proved
<1> QED
  BY <1>1, <1>2, <1>3, <1>4, <1>5, <1>6

LEMMA ProfilingKeeps ==
  ASSUME TierAssumption, TierInv, ProfilingRun
  PROVE  /\ TierInv'
         /\ \A r \in Loops :
               /\ r \in failed /\ r \in installed' => observed'[r] = {"good"}
               /\ <<"RetrainingRejected", r>> \in events' /\ r \in failed => r \notin told
               /\ r \in failed' /\ r \in plan(profile') => r \in told'
<1>1. PICK run \in Runs : /\ profile' = mergeProfile(run)
                          /\ applyRetrainingRequirements(mergeProfile(run))
                          /\ Promote(mergeProfile(run))
                          /\ Observe(run)
  BY DEF ProfilingRun
<1> DEFINE merged == mergeProfile(run)
<1>2. installed = {} /\ UNCHANGED consecutiveFallbacks
  BY DEF ProfilingRun
<1>3. /\ \A r \in Regions : run[r].iterations \in 0..IterationBound /\ run[r].seen \in Seen
      /\ run \in [Regions -> Observation]
  BY DEF Runs, Observation
<1>4. \A r \in Regions : profile[r].iterations \in 0..HotLoopThreshold /\ profile[r].seen \in Seen
  BY DEF TierInv, TierTypes
<1>5. installed' \subseteq Executable(merged) /\ installed' \subseteq Regions
  <2>1. installed' \subseteq Executable(merged)
    BY <1>1 DEF Promote
  <2>2. Executable(merged) \subseteq Regions
    BY DEF Executable, plan, Regions
  <2> QED
    BY <2>1, <2>2
<1>6. /\ failed' = failed \ installed'
      /\ streak' = [r \in Regions |-> IF r \in failed \cap installed' THEN 0 ELSE streak[r]]
      /\ observed' = [r \in Regions |-> observed[r] \cup ({run[r].seen} \ {"none"})]
      /\ iterations' = [r \in Regions |-> AddIterations(iterations[r], run[r].iterations)]
  BY <1>1 DEF Observe
<1>7. \A r \in Regions :
         /\ profile'[r] = [iterations |-> AddIterations(profile[r].iterations, run[r].iterations),
                           seen |-> mergeSeen(profile[r].seen, run[r].seen)]
         /\ profile'[r].iterations \in 0..HotLoopThreshold
         /\ profile'[r].seen \in Seen
         /\ SeenTells(profile'[r].seen, observed'[r])
         /\ observed'[r] \in SUBSET {"good", "bad"}
         /\ iterations'[r] = profile'[r].iterations
  <2> SUFFICES ASSUME NEW r \in Regions
               PROVE  /\ profile'[r] = [iterations |-> AddIterations(profile[r].iterations, run[r].iterations),
                                        seen |-> mergeSeen(profile[r].seen, run[r].seen)]
                      /\ profile'[r].iterations \in 0..HotLoopThreshold
                      /\ profile'[r].seen \in Seen
                      /\ SeenTells(profile'[r].seen, observed'[r])
                      /\ observed'[r] \in SUBSET {"good", "bad"}
                      /\ iterations'[r] = profile'[r].iterations
    OBVIOUS
  <2>1. profile'[r] = [iterations |-> AddIterations(profile[r].iterations, run[r].iterations),
                       seen |-> mergeSeen(profile[r].seen, run[r].seen)]
    BY <1>1 DEF mergeProfile
  <2>2. AddIterations(profile[r].iterations, run[r].iterations) \in 0..HotLoopThreshold
    BY <1>3, <1>4, CappedSum
  <2>3. observed[r] \in SUBSET {"good", "bad"} /\ SeenTells(profile[r].seen, observed[r])
    BY DEF TierInv, TierTypes, ProfileTells
  <2>4. observed'[r] = observed[r] \cup ({run[r].seen} \ {"none"})
    BY <1>6
  <2>5. /\ mergeSeen(profile[r].seen, run[r].seen) \in Seen
        /\ SeenTells(mergeSeen(profile[r].seen, run[r].seen), observed'[r])
    <3> DEFINE old == profile[r].seen
               new == run[r].seen
               values == observed[r]
    <3>1. /\ old \in Seen /\ new \in Seen /\ values \in SUBSET {"good", "bad"}
          /\ SeenTells(old, values)
      BY <1>3, <1>4, <2>3
    <3> HIDE DEF old, new, values
    <3>2. /\ mergeSeen(old, new) \in Seen
          /\ SeenTells(mergeSeen(old, new), values \cup ({new} \ {"none"}))
      BY <3>1, MergeTells
    <3> QED
      BY <2>4, <3>2 DEF old, new, values
  <2>6. observed'[r] \in SUBSET {"good", "bad"}
    BY <1>3, <2>3, <2>4 DEF Seen
  <2>7. iterations'[r] = AddIterations(profile[r].iterations, run[r].iterations)
    BY <1>6 DEF TierInv, ProfileTells
  <2> QED
    BY <2>1, <2>2, <2>5, <2>6, <2>7
<1>8. profile' \in [Regions -> [iterations : 0..HotLoopThreshold, seen : Seen]]
  BY <1>1, <1>7 DEF mergeProfile
<1>9. TierTypes'
  <2>1. streak' \in [Regions -> Nat]
    BY <1>6 DEF TierInv, TierTypes
  <2>2. observed' \in [Regions -> SUBSET {"good", "bad"}]
    BY <1>6, <1>7
  <2>3. iterations' \in [Regions -> Nat]
    <3>1. 0..HotLoopThreshold \subseteq Nat
      BY DEF TierAssumption
    <3>2. \A r \in Regions : iterations'[r] \in 0..HotLoopThreshold
      BY <1>7
    <3>3. \A r \in Regions : iterations'[r] \in Nat
      BY <3>1, <3>2
    <3> QED
      BY <1>6, <3>3
  <2> QED
    BY <1>2, <1>5, <1>6, <1>8, <2>1, <2>2, <2>3 DEF TierInv, TierTypes
<1>10. FallbacksCounted'
  <2>1. \A r \in Regions : /\ consecutiveFallbacks[r] \in Nat
                           /\ consecutiveFallbacks[r] < FallbackInvalidationThreshold
                           /\ r \notin failed => streak[r] <= consecutiveFallbacks[r]
    BY DEF TierInv, TierTypes, FallbacksCounted
  <2> QED
    BY <1>2, <1>6, <2>1 DEF FallbacksCounted
<1>11. ProfileTells'
  BY <1>7 DEF ProfileTells
<1>12. InstalledAreHot'
  <2> SUFFICES ASSUME NEW r \in installed' \cap Loops
               PROVE  iterations'[r] >= HotLoopThreshold
    BY DEF InstalledAreHot
  <2>1. r \in plan(merged)
    BY <1>5 DEF Executable
  <2>2. Loops \cap Dense = {}
    BY DEF TierAssumption
  <2>3. merged[r].iterations >= HotLoopThreshold
    BY <2>1, <2>2 DEF plan
  <2> QED
    BY <1>1, <1>7, <2>3 DEF Regions
<1>13. \A r \in Loops :
          /\ r \in failed' <=> r \in retraining'
          /\ r \in told' <=> r \in reported'
          /\ r \in reported' => r \in retraining'
          /\ r \in failed' /\ r \in plan(merged) => r \in told'
          /\ r \in failed /\ r \in installed' => merged[r].seen = "good"
          /\ <<"RetrainingRejected", r>> \in events' /\ r \in failed => r \notin told
  BY <1>1, <1>2, Promotes
<1>14. FailuresTold'
  BY <1>1, <1>13 DEF FailuresTold, plan
<1>15. \A r \in Loops : r \in failed' /\ r \in plan(profile') => r \in told'
  BY <1>1, <1>13 DEF plan
<1>16. \A r \in Loops : r \in failed /\ r \in installed' => observed'[r] = {"good"}
  BY <1>1, <1>7, <1>13 DEF Regions, SeenTells
<1> QED
  BY <1>9, <1>10, <1>11, <1>12, <1>13, <1>14, <1>15, <1>16 DEF TierInv
-----------------------------------------------------------------------------
(***************************************************************************)
(* An invocation of the typed tier.                                        *)
(***************************************************************************)
\* What is neither executed nor fallen back from keeps its count, the rest is
\* counted, and a count that reaches the limit is taken back to zero.
LEMMA CountsStayBelow ==
  ASSUME TierAssumption, TierInv, NEW outcomes \in [installed -> Outcomes],
         processTypedExecutions(outcomes), NEW r \in Regions
  PROVE  /\ consecutiveFallbacks'[r] \in Nat
         /\ consecutiveFallbacks'[r] < FallbackInvalidationThreshold
         /\ streak'[r] \in Nat
         /\ r \notin failed /\ r \notin TooMany(CountFallbacks(outcomes), outcomes)
               => streak'[r] <= consecutiveFallbacks'[r]
<1> DEFINE counts == CountFallbacks(outcomes)
           tooMany == TooMany(counts, outcomes)
<1>1. consecutiveFallbacks'[r] = IF r \in tooMany THEN 0 ELSE counts[r]
  BY DEF processTypedExecutions
<1>2. streak'[r] = IF r \in installed THEN Trailing(streak[r], outcomes[r]) ELSE streak[r]
  BY DEF processTypedExecutions
<1>3. /\ consecutiveFallbacks[r] \in Nat /\ streak[r] \in Nat
      /\ consecutiveFallbacks[r] < FallbackInvalidationThreshold
      /\ r \notin failed => streak[r] <= consecutiveFallbacks[r]
      /\ FallbackInvalidationThreshold \in Nat \ {0}
  BY DEF TierInv, TierTypes, FallbacksCounted, TierAssumption
<1>4. CASE r \in installed
  <2> DEFINE o == outcomes[r]
  <2>1. o \in Outcomes
    BY <1>4
  <2>2. counts[r] = (IF Executed(o) THEN 0 ELSE consecutiveFallbacks[r]) + Fallbacks(o)
    BY <1>4 DEF CountFallbacks
  <2>3. r \in tooMany <=> Fallbacks(o) > 0 /\ counts[r] >= FallbackInvalidationThreshold
    BY <1>4 DEF TooMany
  <2>4. Fallbacks(o) \in Nat
    BY <2>1, FallbacksCount
  <2>5. /\ Trailing(streak[r], o) \in Nat
        /\ Trailing(streak[r], o) <= (IF Executed(o) THEN 0 ELSE streak[r]) + Fallbacks(o)
    BY <1>3, <2>1, TrailingIsCounted
  <2>6. r \notin failed
    BY <1>4 DEF TierInv, FallbacksCounted
  <2>7. streak'[r] = Trailing(streak[r], o)
    BY <1>2, <1>4
  <2> HIDE DEF o, counts, tooMany
  <2>8. CASE Executed(o)
    BY <1>1, <1>3, <2>2, <2>3, <2>4, <2>5, <2>7, <2>8 DEF tooMany, counts
  <2>9. CASE ~Executed(o)
    BY <1>1, <1>3, <2>2, <2>3, <2>4, <2>5, <2>6, <2>7, <2>9 DEF tooMany, counts
  <2> QED
    BY <2>8, <2>9
<1>5. CASE r \notin installed
  <2>1. counts[r] = consecutiveFallbacks[r] /\ r \notin tooMany
    BY <1>5 DEF CountFallbacks, TooMany
  <2> QED
    BY <1>1, <1>2, <1>3, <1>5, <2>1
<1> QED
  BY <1>4, <1>5

LEMMA TypedKeeps ==
  ASSUME TierAssumption, TierInv, TypedRun
  PROVE  /\ TierInv'
         /\ \A r \in Loops : <<"RetrainingRejected", r>> \notin events'
<1>1. PICK outcomes \in [installed -> Outcomes] : processTypedExecutions(outcomes)
  BY DEF TypedRun
<1> DEFINE tooMany == TooMany(CountFallbacks(outcomes), outcomes)
<1>2. /\ consecutiveFallbacks' = [r \in Regions |->
                                     IF r \in tooMany THEN 0 ELSE CountFallbacks(outcomes)[r]]
      /\ streak' = [r \in Regions |->
                       IF r \in installed THEN Trailing(streak[r], outcomes[r]) ELSE streak[r]]
      /\ events' = TypedEvents(outcomes) \cup TierEvents("Invalidation", tooMany)
  BY <1>1 DEF processTypedExecutions
<1>3. tooMany \subseteq installed /\ installed \subseteq Regions /\ failed \subseteq Regions
  BY DEF TooMany, TierInv, TierTypes
<1>4. \A r \in Loops : <<"RetrainingRejected", r>> \notin events'
  BY <1>2 DEF TypedEvents, TierEvents
<1>5. \A r \in Regions :
         /\ consecutiveFallbacks'[r] \in Nat
         /\ consecutiveFallbacks'[r] < FallbackInvalidationThreshold
         /\ streak'[r] \in Nat
         /\ r \notin failed /\ r \notin tooMany => streak'[r] <= consecutiveFallbacks'[r]
  BY <1>1, CountsStayBelow
<1>6. /\ consecutiveFallbacks' \in [Regions -> Nat]
      /\ streak' \in [Regions -> Nat]
  BY <1>2, <1>5
<1> HIDE DEF tooMany
<1>7. CASE tooMany = {}
  <2>1. UNCHANGED <<profile, installed, invalidationCount, retraining, reported,
                    failed, told, observed, iterations>>
    BY <1>1, <1>7 DEF processTypedExecutions, tooMany
  <2>2. TierTypes'
    BY <1>6, <2>1 DEF TierInv, TierTypes
  <2>3. FallbacksCounted'
    BY <1>5, <1>7, <2>1 DEF TierInv, FallbacksCounted
  <2>4. ProfileTells' /\ InstalledAreHot' /\ FailuresTold'
    BY <2>1 DEF TierInv, ProfileTells, InstalledAreHot, FailuresTold, plan
  <2> QED
    BY <1>4, <2>2, <2>3, <2>4 DEF TierInv
<1>8. CASE tooMany # {}
  <2>1. /\ installed' = {} /\ retraining' = retraining \cup tooMany
        /\ reported' = reported \ tooMany /\ profile' = Initial.profile
        /\ failed' = failed \cup tooMany /\ told' = told \ tooMany
        /\ observed' = [r \in Regions |-> {}] /\ iterations' = [r \in Regions |-> 0]
    BY <1>1, <1>8 DEF processTypedExecutions, invalidate, tooMany
  <2>2. profile' = [r \in Regions |-> Empty]
    BY <2>1 DEF Initial
  <2>3. TierTypes'
    <3>1. Empty \in [iterations : 0..HotLoopThreshold, seen : Seen]
      BY DEF Empty, Seen, TierAssumption
    <3> HIDE DEF Empty
    <3> QED
      BY <1>3, <1>6, <2>1, <2>2, <3>1 DEF TierTypes
  <2>4. FallbacksCounted'
    BY <1>5, <2>1 DEF FallbacksCounted
  <2>5. ProfileTells' /\ InstalledAreHot'
    BY <2>1, <2>2 DEF ProfileTells, InstalledAreHot, SeenTells, Empty
  <2>6. FailuresTold'
    <3> SUFFICES ASSUME NEW r \in Loops
                 PROVE  /\ r \in failed' <=> r \in retraining'
                        /\ r \in told' <=> r \in reported'
                        /\ r \in reported' => r \in retraining'
                        /\ r \notin plan(profile')
      BY DEF FailuresTold, plan
    <3>1. r \notin Dense /\ r \in Regions /\ HotLoopThreshold \in Nat \ {0}
      BY DEF TierAssumption, Regions
    <3>2. profile'[r].iterations = 0
      BY <2>2, <3>1 DEF Empty
    <3>3. r \notin plan(profile')
      BY <3>1, <3>2 DEF plan
    <3>4. /\ r \in failed <=> r \in retraining
          /\ r \in told <=> r \in reported
          /\ r \in reported => r \in retraining
      BY DEF TierInv, FailuresTold
    <3> QED
      BY <2>1, <3>3, <3>4
  <2> QED
    BY <1>4, <2>3, <2>4, <2>5, <2>6 DEF TierInv
<1> QED
  BY <1>7, <1>8
-----------------------------------------------------------------------------
LEMMA ResetKeeps ==
  ASSUME TierAssumption, reset
  PROVE  TierInv' /\ events' = {} /\ failed' = {} /\ installed' = {}
<1>1. TierTypes'
  BY DEF reset, TierTypes, TierAssumption, Initial, Empty, Seen
<1>2. FallbacksCounted'
  BY DEF reset, FallbacksCounted, TierAssumption, Initial
<1>3. ProfileTells'
  BY DEF reset, ProfileTells, SeenTells, Initial, Empty
<1>4. InstalledAreHot' /\ FailuresTold'
  BY DEF reset, InstalledAreHot, FailuresTold
<1> QED
  BY <1>1, <1>2, <1>3, <1>4 DEF TierInv, reset

LEMMA StandsStill ==
  ASSUME TierInv,
         UNCHANGED <<profile, installed, consecutiveFallbacks, retraining, reported, history>>
  PROVE  TierInv'
BY DEF TierInv, TierTypes, FallbacksCounted, ProfileTells, InstalledAreHot, FailuresTold,
       plan, history

LEMMA TierStepKeeps ==
  ASSUME TierAssumption, TierInv, [TierNext]_tierVars
  PROVE  TierInv'
<1>1. CASE ProfilingRun
  BY <1>1, ProfilingKeeps
<1>2. CASE FailedProfilingRun
  BY <1>2, StandsStill DEF FailedProfilingRun
<1>3. CASE TypedRun
  BY <1>3, TypedKeeps
<1>4. CASE reset
  BY <1>4, ResetKeeps
<1>5. CASE UNCHANGED tierVars
  BY <1>5, StandsStill DEF tierVars, session
<1> QED
  BY <1>1, <1>2, <1>3, <1>4, <1>5 DEF TierNext

\* Every state an adaptive session reaches keeps counts below the limit, a
\* profile that tells what ran, and failures told as they are.
THEOREM TierInvariance == TierAssumption => (TierSpec => []TierInv)
<1> SUFFICES ASSUME TierAssumption
             PROVE  TierSpec => []TierInv
  OBVIOUS
<1>1. TierInit => TierInv
  BY StartsRight
<1>2. TierInv /\ [TierNext]_tierVars => TierInv'
  BY TierStepKeeps
<1> QED
  BY <1>1, <1>2, PTL DEF TierSpec

\* What is installed has fallen back less often than the limit since it last
\* executed: processTypedExecutions invalidates in time, whatever happened.
THEOREM FallbacksInvalidate == TierAssumption => (TierSpec => []RepeatedFallbackInvalidates)
<1> SUFFICES ASSUME TierAssumption
             PROVE  TierSpec => []RepeatedFallbackInvalidates
  OBVIOUS
<1>1. TierInv => RepeatedFallbackInvalidates
  <2> SUFFICES ASSUME TierInv, NEW r \in installed
               PROVE  streak[r] < FallbackInvalidationThreshold
    BY DEF RepeatedFallbackInvalidates
  <2>1. r \in Regions /\ r \notin failed
    BY DEF TierInv, TierTypes, FallbacksCounted
  <2>2. /\ streak[r] <= consecutiveFallbacks[r]
        /\ consecutiveFallbacks[r] < FallbackInvalidationThreshold
        /\ streak[r] \in Nat /\ consecutiveFallbacks[r] \in Nat
        /\ FallbackInvalidationThreshold \in Nat
    BY <2>1 DEF TierInv, TierTypes, FallbacksCounted, TierAssumption
  <2> QED
    BY <2>2
<1>2. TierSpec => []TierInv
  BY TierInvariance
<1> QED
  BY <1>1, <1>2, PTL

LoopsStayProved ==
    \A r \in installed' \cap Loops :
        /\ iterations'[r] >= HotLoopThreshold
        /\ r \in failed => observed'[r] = {"good"}

\* A loop that is installed became hot since the last invalidation, and one
\* that failed was seen to work on stable scalars only: the promotion uses the
\* profile alone, and the profile is the history.
THEOREM LoopsAreProved == TierAssumption => (TierSpec => LoopsProveThemselves)
<1> SUFFICES ASSUME TierAssumption
             PROVE  TierSpec => LoopsProveThemselves
  OBVIOUS
<1>1. TierInv /\ [TierNext]_tierVars => [LoopsStayProved]_tierVars
  <2> SUFFICES ASSUME TierInv, TierNext
               PROVE  LoopsStayProved
    OBVIOUS
  <2>1. TierInv'
    BY TierStepKeeps
  <2>2. \A r \in installed' \cap Loops : iterations'[r] >= HotLoopThreshold
    BY <2>1 DEF TierInv, InstalledAreHot
  <2>3. \A r \in installed' \cap Loops : r \in failed => observed'[r] = {"good"}
    <3>1. CASE ProfilingRun
      BY <3>1, ProfilingKeeps
    <3>2. CASE FailedProfilingRun
      BY <3>2 DEF FailedProfilingRun
    <3>3. CASE TypedRun
      <4>1. installed' \subseteq installed
        BY <3>3 DEF TypedRun, processTypedExecutions, invalidate
      <4> QED
        BY <4>1 DEF TierInv, FallbacksCounted
    <3>4. CASE reset
      BY <3>4 DEF reset
    <3> QED
      BY <3>1, <3>2, <3>3, <3>4 DEF TierNext
  <2> QED
    BY <2>2, <2>3 DEF LoopsStayProved
<1>2. TierSpec => []TierInv
  BY TierInvariance
<1> QED
  BY <1>1, <1>2, PTL DEF TierSpec, LoopsProveThemselves, LoopsStayProved

FailedLoopsAreTold ==
    \A r \in failed \cap Loops :
        /\ <<"RetrainingRejected", r>> \in events' => r \notin told
        /\ events' # events /\ <<"Promotion", r>> \notin events'
           /\ r \in failed' \cap plan(profile') /\ installed = {}
           => r \in told'

\* The rejection of a failed loop is reported the first time it is hot and
\* turned down, and not again before it fails anew.
THEOREM RejectionsAreToldOnce == TierAssumption => (TierSpec => RejectionsToldOnce)
<1> SUFFICES ASSUME TierAssumption
             PROVE  TierSpec => RejectionsToldOnce
  OBVIOUS
<1>1. TierInv /\ [TierNext]_tierVars => [FailedLoopsAreTold]_tierVars
  <2> SUFFICES ASSUME TierInv, TierNext, NEW r \in failed \cap Loops
               PROVE  /\ <<"RetrainingRejected", r>> \in events' => r \notin told
                      /\ r \in failed' \cap plan(profile') /\ installed = {} => r \in told'
    BY DEF FailedLoopsAreTold
  <2>1. CASE ProfilingRun
    BY <2>1, ProfilingKeeps
  <2>2. CASE FailedProfilingRun
    BY <2>2 DEF FailedProfilingRun, TierInv, FailuresTold, plan, history
  <2>3. CASE TypedRun
    BY <2>3, TypedKeeps DEF TypedRun
  <2>4. CASE reset
    BY <2>4, ResetKeeps
  <2> QED
    BY <2>1, <2>2, <2>3, <2>4 DEF TierNext
<1>2. TierSpec => []TierInv
  BY TierInvariance
<1> QED
  BY <1>1, <1>2, PTL DEF TierSpec, RejectionsToldOnce, FailedLoopsAreTold

=============================================================================
