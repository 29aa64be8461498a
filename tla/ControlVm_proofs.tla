----------------------- MODULE ControlVm_proofs -----------------------
(***************************************************************************)
(* The control machine runs every accepted program as the verifier found.  *)
(***************************************************************************)
EXTENDS ControlVm, TLAPS, WellFoundedInduction, FiniteSetTheorems, SequenceTheorems

-----------------------------------------------------------------------------
(* Lists picked by their positions.                                         *)
Increasing(s) == \A i, j \in DOMAIN s : i < j => s[i] < s[j]
Values(s) == {s[i] : i \in DOMAIN s}

Scan(set, n, f) ==
  f = [i \in 0 .. n |-> IF i = 0 THEN <<>>
                        ELSE IF i \in set THEN Append(f[i - 1], i) ELSE f[i - 1]]

LEMMA LeastNumber ==
  ASSUME NEW S \in SUBSET Nat, S # {}
  PROVE  \E n \in S : \A m \in S : n <= m
<1>1. IsWellFoundedOn(OpToRel(<, Nat), Nat)
  BY NatLessThanWellFounded, Zenon
<1>2. PICK n \in S : \A m \in S : ~(<<m, n>> \in OpToRel(<, Nat))
  <2> DEFINE R == OpToRel(<, Nat)
  <2> HIDE DEF R
  <2>1. IsWellFoundedOn(R, Nat)
    BY <1>1, Zenon DEF R
  <2>2. \E n \in S : \A m \in S : ~(<<m, n>> \in R)
    BY <2>1, WFMin
  <2> QED BY <2>2, Zenon DEF R
<1>3. \A m \in S : n <= m
  <2> SUFFICES ASSUME NEW m \in S, m < n PROVE FALSE
    <3>1. n \in Nat /\ \A m \in S : m \in Nat
      BY <1>2
    <3> QED BY <3>1
  <2>1. <<m, n>> \in OpToRel(<, Nat)
    BY <1>2, Zenon DEF OpToRel
  <2> QED BY <1>2, <2>1, Zenon
<1> QED BY <1>2, <1>3

LEMMA ScanExists == ASSUME NEW set PROVE \A n \in Nat : \E f : Scan(set, n, f)
<1> DEFINE Lacking == {n \in Nat : ~ \E f : Scan(set, n, f)}
<1> SUFFICES ASSUME Lacking # {} PROVE FALSE
  OBVIOUS
<1> HIDE DEF Lacking
<1>1. PICK n \in Lacking : \A m \in Lacking : n <= m
  <2>1. Lacking \in SUBSET Nat
    BY DEF Lacking
  <2> QED BY <2>1, LeastNumber
<1>2. n \in Nat /\ ~ \E f : Scan(set, n, f)
  BY <1>1 DEF Lacking
<1>3. CASE n = 0
  <2>1. Scan(set, 0, [i \in 0 .. 0 |-> <<>>])
    BY DEF Scan
  <2> QED BY <1>2, <1>3, <2>1
<1>4. CASE n # 0
  <2>1. n - 1 \in Nat /\ n - 1 \notin Lacking
    BY <1>1, <1>2, <1>4
  <2>2. PICK f : Scan(set, n - 1, f)
    BY <2>1 DEF Lacking
  <2> DEFINE g == [i \in 0 .. n |-> IF i = n THEN IF n \in set THEN Append(f[n - 1], n) ELSE f[n - 1]
                                    ELSE f[i]]
  <2>3. \A i \in 0 .. n - 1 : f[i] = IF i = 0 THEN <<>>
                                     ELSE IF i \in set THEN Append(f[i - 1], i) ELSE f[i - 1]
    BY <2>2, <1>2, <2>1 DEF Scan
  <2>4. \A i \in 0 .. n - 1 : g[i] = f[i]
    BY <1>2
  <2>5. g[n] = IF n \in set THEN Append(g[n - 1], n) ELSE g[n - 1]
    BY <1>2, <1>4, <2>4
  <2>6. \A i \in 0 .. n : g[i] = IF i = 0 THEN <<>>
                                 ELSE IF i \in set THEN Append(g[i - 1], i) ELSE g[i - 1]
    BY <2>3, <2>4, <2>5, <1>2, <1>4
  <2>7. g = [i \in 0 .. n |-> g[i]]
    OBVIOUS
  <2> HIDE DEF g
  <2>8. Scan(set, n, g)
    BY <2>6, <2>7 DEF Scan
  <2> QED BY <1>2, <2>8
<1> QED BY <1>3, <1>4

LEMMA AppendLonger ==
  ASSUME NEW n \in Nat, NEW p \in Seq(1 .. n), NEW i \in 1 .. n, \A j \in DOMAIN p : p[j] < i,
         Increasing(p)
  PROVE  /\ Append(p, i) \in Seq(1 .. n)
         /\ Increasing(Append(p, i))
         /\ Values(Append(p, i)) = Values(p) \cup {i}
<1> DEFINE q == Append(p, i)
           m == Len(p)
<1>1. /\ q \in Seq(1 .. n) /\ q[m + 1] = i
      /\ \A j \in 1 .. m : q[j] = p[j]
      /\ DOMAIN p = 1 .. m /\ DOMAIN q = 1 .. m + 1 /\ m \in Nat
      /\ \A j \in 1 .. m : p[j] \in 1 .. n
  OBVIOUS
<1> HIDE DEF q, m
<1>2. \A j \in 1 .. m + 1 : j \in 1 .. m \/ j = m + 1
  BY <1>1
<1>3. \A j, k \in 1 .. m + 1 : j < k => j \in 1 .. m
  BY <1>1
<1>4. \A j, k \in 1 .. m + 1 : j < k => q[j] < q[k]
  BY <1>1, <1>2, <1>3 DEF Increasing
<1>5. Values(q) = Values(p) \cup {i}
  <2>1. \A v : (\E j \in 1 .. m + 1 : q[j] = v) <=> (\E j \in 1 .. m : p[j] = v) \/ v = i
    <3> TAKE v
    <3>1. m + 1 \in 1 .. m + 1 /\ \A j \in 1 .. m : j \in 1 .. m + 1
      BY <1>1
    <3> QED BY <1>1, <1>2, <3>1, Zenon
  <2> QED BY <2>1, <1>1 DEF Values
<1> QED BY <1>1, <1>4, <1>5 DEF Increasing, q

(* The three facts everything else uses of Ascending.                         *)
LEMMA AscendingProperties ==
  ASSUME NEW n \in Nat, NEW set \in SUBSET (1 .. n)
  PROVE  /\ Ascending(set, n) \in Seq(1 .. n)
         /\ Increasing(Ascending(set, n))
         /\ Values(Ascending(set, n)) = set
<1> DEFINE f == CHOOSE f : Scan(set, n, f)
<1>1. Scan(set, n, f)
  BY ScanExists
<1>2. Ascending(set, n) = f[n]
  BY DEF Ascending, Scan
<1> HIDE DEF f
<1>3. \A i \in 0 .. n : f[i] = IF i = 0 THEN <<>>
                               ELSE IF i \in set THEN Append(f[i - 1], i) ELSE f[i - 1]
  BY <1>1 DEF Scan
<1>0. \A k \in set : k \in 1 .. n /\ k \in Int
  OBVIOUS
<1> DEFINE Right(i) == /\ f[i] \in Seq(1 .. n)
                       /\ Increasing(f[i])
                       /\ Values(f[i]) = {k \in set : k <= i}
           Wrong == {i \in 0 .. n : ~Right(i)}
<1>4. Wrong = {}
  <2> SUFFICES ASSUME Wrong # {} PROVE FALSE
    OBVIOUS
  <2>1. PICK i \in Wrong : \A m \in Wrong : i <= m
    <3>1. Wrong \in SUBSET Nat
      OBVIOUS
    <3> HIDE DEF Wrong
    <3> QED BY <3>1, LeastNumber
  <2>2. i \in 0 .. n /\ ~Right(i)
    BY <2>1
  <2>3. CASE i = 0
    <3>1. f[0] = <<>>
      BY <1>3
    <3>3. \A k \in set : ~(k <= 0)
      BY <1>0
    <3>2. {k \in set : k <= 0} = {}
      BY <3>3
    <3>4. <<>> \in Seq(1 .. n) /\ Increasing(<<>>) /\ Values(<<>>) = {}
      BY DEF Increasing, Values
    <3>5. f[i] = <<>>
      BY <3>1, <2>3
    <3>6. Right(i)
      BY <3>2, <3>4, <3>5, <2>3
    <3> QED BY <3>6, <2>2
  <2>4. CASE i # 0
    <3>1. i - 1 \in 0 .. n /\ i - 1 \notin Wrong
      <4>1. i \in Nat /\ i - 1 \in 0 .. n /\ ~(i <= i - 1)
        BY <2>2, <2>4
      <4> HIDE DEF Wrong
      <4> QED BY <4>1, <2>1
    <3>5. Right(i - 1)
      BY <3>1
    <3> DEFINE p == f[i - 1]
    <3>2. p \in Seq(1 .. n) /\ Increasing(p) /\ Values(p) = {k \in set : k <= i - 1}
      BY <3>5
    <3> HIDE DEF p
    <3>3. CASE i \notin set
      <4>1. f[i] = p
        BY <1>3, <2>2, <2>4, <3>3 DEF p
      <4>2. \A k \in set : k <= i - 1 <=> k <= i
        BY <1>0, <2>2, <3>3
      <4>3. {k \in set : k <= i - 1} = {k \in set : k <= i}
        BY <4>2
      <4> QED BY <2>2, <3>2, <4>1, <4>3
    <3>4. CASE i \in set
      <4>1. f[i] = Append(p, i)
        BY <1>3, <2>2, <2>4, <3>4 DEF p
      <4>2. \A j \in DOMAIN p : p[j] \in Values(p)
        BY DEF Values
      <4>3. \A j \in DOMAIN p : p[j] < i
        BY <3>2, <4>2, <2>2
      <4>4. {k \in set : k <= i} = {k \in set : k <= i - 1} \cup {i}
        <5>1. \A k \in set : k <= i <=> k <= i - 1 \/ k = i
          BY <1>0, <2>2
        <5> QED BY <5>1, <3>4
      <4>5. /\ Append(p, i) \in Seq(1 .. n) /\ Increasing(Append(p, i))
            /\ Values(Append(p, i)) = Values(p) \cup {i}
        BY <3>2, <3>4, <4>3, AppendLonger
      <4> QED BY <2>2, <3>2, <4>1, <4>4, <4>5
    <3> QED BY <3>3, <3>4
  <2> QED BY <2>3, <2>4
<1>5. Right(n)
  BY <1>4
<1>6. {k \in set : k <= n} = set
  <2>1. \A k \in set : k <= n
    BY <1>0
  <2> QED BY <2>1
<1> QED BY <1>2, <1>5, <1>6

LEMMA GreatestNumber ==
  ASSUME NEW n \in Nat, NEW S \in SUBSET (0 .. n), S # {}
  PROVE  \E k \in S : \A m \in S : m <= k
<1> DEFINE D == {n - k : k \in S}
<1>1. D \in SUBSET Nat /\ D # {}
  <2>1. \A k \in S : k \in 0 .. n /\ n - k \in Nat
    OBVIOUS
  <2>2. \E k \in S : n - k \in D
    OBVIOUS
  <2>3. \A d \in D : d \in Nat
    BY <2>1
  <2> QED BY <2>2, <2>3
<1>2. \A k \in S : n - k \in D /\ k \in Int
  OBVIOUS
<1>3. \A d \in D : n - d \in S
  <2>1. \A k \in S : n - (n - k) = k
    OBVIOUS
  <2> QED BY <2>1
<1> HIDE DEF D
<1>4. PICK d \in D : \A m \in D : d <= m
  BY <1>1, LeastNumber
<1>5. \A m \in S : m <= n - d
  <2> TAKE m \in S
  <2>1. d <= n - m /\ m \in Int /\ d \in Nat
    BY <1>1, <1>2, <1>4
  <2> QED BY <2>1
<1> QED BY <1>3, <1>4, <1>5

LEMMA EarliestOf ==
  ASSUME NEW S \in SUBSET Nat, S # {}
  PROVE  Earliest(S) \in S /\ \A m \in S : Earliest(S) <= m
BY LeastNumber DEF Earliest

LEMMA LatestOf ==
  ASSUME NEW n \in Nat, NEW S \in SUBSET (0 .. n), S # {}
  PROVE  Latest(S) \in S /\ \A m \in S : m <= Latest(S)
<1>1. \E k \in S : \A m \in S : k >= m
  <2>1. PICK k \in S : \A m \in S : m <= k
    BY GreatestNumber
  <2>2. \A m \in S : k >= m
    BY <2>1
  <2> QED BY <2>2
<1>2. Latest(S) \in S /\ \A m \in S : Latest(S) >= m
  BY <1>1 DEF Latest
<1> QED BY <1>2

(* Some elements of an ascending list, in order.                              *)
LEMMA PickedOf ==
  ASSUME NEW s \in Seq(Nat), Increasing(s), NEW indices \in SUBSET DOMAIN s
  PROVE  /\ Picked(s, indices) \in Seq(Nat)
         /\ Increasing(Picked(s, indices))
         /\ Values(Picked(s, indices)) = {s[i] : i \in indices}
<1> DEFINE order == Ascending(indices, Len(s))
<1>1. Len(s) \in Nat /\ DOMAIN s = 1 .. Len(s)
  OBVIOUS
<1>2. order \in Seq(1 .. Len(s)) /\ Values(order) = indices /\ Increasing(order)
  BY <1>1, AscendingProperties
<1>3. Picked(s, indices) = [k \in DOMAIN order |-> s[order[k]]]
  BY DEF Picked
<1> HIDE DEF order
<1>4. Len(order) \in Nat /\ DOMAIN order = 1 .. Len(order) /\ \A k \in DOMAIN order : order[k] \in DOMAIN s
  BY <1>1, <1>2
<1> DEFINE p == Picked(s, indices)
<1>5. DOMAIN p = DOMAIN order /\ \A k \in DOMAIN order : p[k] = s[order[k]]
  BY <1>3
<1>6. p \in Seq(Nat)
  BY <1>3, <1>4
<1> HIDE DEF p
<1>7. Values(p) = {s[i] : i \in indices}
  <2>1. \A k \in DOMAIN order : order[k] \in indices
    BY <1>2 DEF Values
  <2>2. \A i \in indices : \E k \in DOMAIN order : order[k] = i
    BY <1>2 DEF Values
  <2> QED BY <2>1, <2>2, <1>5 DEF Values
<1>8. Increasing(p)
  <2> SUFFICES ASSUME NEW k \in DOMAIN order, NEW m \in DOMAIN order, k < m PROVE p[k] < p[m]
    BY <1>5 DEF Increasing
  <2>1. order[k] < order[m]
    BY <1>2 DEF Increasing
  <2> QED BY <2>1, <1>4, <1>5 DEF Increasing
<1> QED BY <1>6, <1>7, <1>8 DEF p

(* An ascending list up to a bound is where a longer one begins.              *)
Begun(s, t) == Len(s) <= Len(t) /\ \A i \in DOMAIN s : s[i] = t[i]

Under(s, t, b) == Values(s) = {v \in Values(t) : v < b}

LEMMA BegunWith ==
  ASSUME NEW s \in Seq(Nat), NEW t \in Seq(Nat), Increasing(s), Increasing(t), NEW b \in Nat,
         Under(s, t, b)
  PROVE  Begun(s, t)
<1>1. /\ DOMAIN s = 1 .. Len(s) /\ DOMAIN t = 1 .. Len(t) /\ Len(s) \in Nat /\ Len(t) \in Nat
      /\ \A i \in DOMAIN s : s[i] \in Nat
      /\ \A i \in DOMAIN t : t[i] \in Nat
  OBVIOUS
<1>2. /\ \A i \in DOMAIN s : s[i] < b /\ \E j \in DOMAIN t : t[j] = s[i]
      /\ \A j \in DOMAIN t : t[j] < b => \E i \in DOMAIN s : s[i] = t[j]
  <2>1. \A i \in DOMAIN s : s[i] \in Values(s)
    BY DEF Values
  <2>2. \A j \in DOMAIN t : t[j] < b => t[j] \in Values(s)
    BY DEF Values, Under
  <2>3. \A v \in Values(s) : v < b /\ v \in Values(t)
    BY DEF Under
  <2>4. \A i \in DOMAIN s : s[i] < b /\ \E j \in DOMAIN t : t[j] = s[i]
    <3> TAKE i \in DOMAIN s
    <3>1. s[i] < b /\ s[i] \in Values(t)
      BY <2>1, <2>3
    <3> QED BY <3>1 DEF Values
  <2>5. \A j \in DOMAIN t : t[j] < b => \E i \in DOMAIN s : s[i] = t[j]
    BY <2>2 DEF Values
  <2> QED BY <2>4, <2>5
<1> DEFINE Apart == {i \in DOMAIN s : i \notin DOMAIN t \/ s[i] # t[i]}
<1>3. Apart = {}
  <2> SUFFICES ASSUME Apart # {} PROVE FALSE
    OBVIOUS
  <2>0. Apart \in SUBSET Nat
    BY <1>1
  <2>1. PICK i \in Apart : \A m \in Apart : i <= m
    <3> HIDE DEF Apart
    <3> QED BY <2>0, LeastNumber
  <2>a. i \in DOMAIN s /\ i \in Nat /\ i >= 1 /\ (i \notin DOMAIN t \/ s[i] # t[i])
    BY <1>1
  <2>2. ASSUME NEW k \in 1 .. i - 1 PROVE k \in DOMAIN s /\ k \in DOMAIN t /\ s[k] = t[k]
    <3>1. k \in DOMAIN s /\ ~(i <= k)
      BY <2>a, <1>1
    <3>2. k \notin Apart
      BY <3>1, <2>1
    <3> QED BY <3>1, <3>2
  <2> HIDE DEF Apart
  <2>3. PICK j \in DOMAIN t : t[j] = s[i]
    BY <1>2, <2>a
  <2>4. ~(j < i)
    <3> SUFFICES ASSUME j < i PROVE FALSE
      OBVIOUS
    <3>1. j \in 1 .. i - 1
      BY <1>1, <2>a
    <3>2. s[j] = s[i] /\ j \in DOMAIN s
      BY <2>2, <2>3, <3>1
    <3>3. s[j] < s[i]
      BY <3>2, <2>a DEF Increasing
    <3> QED BY <3>2, <3>3, <1>1
  <2>5. i \in DOMAIN t /\ i < j
    <3>1. i # j
      BY <2>a, <2>3
    <3> QED BY <3>1, <1>1, <2>a, <2>4
  <2>6. t[i] < s[i]
    BY <2>3, <2>5 DEF Increasing
  <2>7. PICK k \in DOMAIN s : s[k] = t[i]
    <3>1. s[i] < b /\ s[i] \in Nat /\ t[i] \in Nat
      BY <1>1, <1>2, <2>a, <2>5
    <3>2. b \in Nat
      OBVIOUS
    <3>3. t[i] < b
      BY <3>1, <3>2, <2>6
    <3>4. \A k \in DOMAIN t : t[k] < b => \E l \in DOMAIN s : s[l] = t[k]
      BY <1>2
    <3>5. i \in DOMAIN t
      BY <2>5
    <3> QED BY <3>3, <3>4, <3>5, Zenon
  <2>8. k < i
    <3>1. s[k] < s[i]
      BY <2>6, <2>7
    <3>2. ~(i < k) /\ i # k
      BY <3>1, <1>1, <2>a DEF Increasing
    <3> QED BY <3>2, <1>1, <2>a
  <2>9. t[k] = t[i] /\ k \in DOMAIN t
    <3>1. k \in 1 .. i - 1
      BY <1>1, <2>a, <2>8
    <3> QED BY <2>2, <2>7, <3>1
  <2>10. t[k] < t[i]
    BY <2>8, <2>9, <2>5 DEF Increasing
  <2> QED BY <2>9, <2>10, <1>1
<1>4. \A i \in DOMAIN s : i \in DOMAIN t /\ s[i] = t[i]
  BY <1>3
<1> HIDE DEF Apart
<1>5. Len(s) <= Len(t)
  <2>1. CASE Len(s) = 0
    BY <2>1, <1>1
  <2>2. CASE Len(s) # 0
    <3>1. Len(s) \in DOMAIN s
      BY <2>2, <1>1
    <3>2. Len(s) \in 1 .. Len(t)
      BY <3>1, <1>1, <1>4
    <3> QED BY <3>2, <1>1
  <2> QED BY <2>1, <2>2
<1> QED BY <1>4, <1>5 DEF Begun

-----------------------------------------------------------------------------
(* Brackets.  One opened before a place is open at all places up to its      *)
(* closer and at none behind it.                                             *)
Lexed(code, lex) ==
  /\ Len(code) \in Nat /\ DOMAIN code = 1 .. Len(code)
  /\ BracketsFound(code, lex)
  /\ \A f \in Families : lex[Len(code) + 1][f] = <<>>

OpenAt(lex, f, o, pc) == o \in Values(lex[pc][f])

LEMMA FamilyOps ==
  /\ Families = {"boundary", "for", "switch", "try"}
  /\ \A f \in Families : Openers[f] \cap Closers[f] = {}
<1>1. Families = {"boundary", "for", "switch", "try"}
  BY DEF Families, Closers
<1>2. Leaves = {"LeaveModule", "LeaveFunction", "LeaveArgumentDefault"}
  BY DEF Leaves, MatchingEnter
<1>3. Enters = {"EnterModule", "EnterFunction", "EnterArgumentDefault"}
  BY <1>2 DEF Enters, MatchingEnter
<1>4. Openers["boundary"] = Enters /\ Closers["boundary"] = Leaves
  BY DEF Openers, Closers
<1>5. Openers["boundary"] \cap Closers["boundary"] = {}
  BY <1>2, <1>3, <1>4
<1>6. /\ Openers["for"] \cap Closers["for"] = {}
      /\ Openers["switch"] \cap Closers["switch"] = {}
      /\ Openers["try"] \cap Closers["try"] = {}
  BY DEF Openers, Closers
<1> QED BY <1>1, <1>5, <1>6

LEMMA AppendedAscends ==
  ASSUME NEW s \in Seq(Nat), NEW e \in Nat, Increasing(s), \A i \in DOMAIN s : s[i] < e
  PROVE  /\ Append(s, e) \in Seq(Nat) /\ Increasing(Append(s, e))
         /\ Values(Append(s, e)) = Values(s) \cup {e}
<1> DEFINE t == Append(s, e)
           n == Len(s)
<1>1. /\ n \in Nat /\ DOMAIN s = 1 .. n /\ DOMAIN t = 1 .. n + 1 /\ t[n + 1] = e
      /\ \A i \in 1 .. n : t[i] = s[i] /\ s[i] \in Nat
      /\ t \in Seq(Nat)
  OBVIOUS
<1> HIDE DEF t, n
<1>2. \A i : i \in 1 .. n + 1 <=> i \in 1 .. n \/ i = n + 1
  BY <1>1
<1>3. Values(t) = Values(s) \cup {e}
  BY <1>1, <1>2 DEF Values
<1>4. Increasing(t)
  <2> SUFFICES ASSUME NEW i \in 1 .. n + 1, NEW j \in 1 .. n + 1, i < j PROVE t[i] < t[j]
    BY <1>1 DEF Increasing
  <2>1. i \in 1 .. n
    BY <1>1
  <2> QED BY <1>1, <1>2, <2>1 DEF Increasing
<1> QED BY <1>1, <1>3, <1>4 DEF t

LEMMA FrontAscends ==
  ASSUME NEW s \in Seq(Nat), Increasing(s), s # <<>>
  PROVE  /\ Front(s) \in Seq(Nat) /\ Increasing(Front(s))
         /\ Last(s) \in Nat /\ Last(s) \in Values(s)
         /\ Values(Front(s)) = Values(s) \ {Last(s)}
<1> DEFINE t == Front(s)
           n == Len(s)
<1>1. /\ n \in Nat /\ n >= 1 /\ DOMAIN s = 1 .. n
      /\ \A i \in 1 .. n : s[i] \in Nat
      /\ Last(s) = s[n]
  BY DEF Last
<1>2. /\ t \in Seq(Nat) /\ DOMAIN t = 1 .. n - 1
      /\ \A i \in 1 .. n - 1 : t[i] = s[i]
  BY <1>1 DEF Front
<1> HIDE DEF t, n
<1>3. \A i : i \in 1 .. n <=> i \in 1 .. n - 1 \/ i = n
  BY <1>1
<1>4. \A i \in 1 .. n - 1 : s[i] < s[n] /\ i \in 1 .. n
  <2> TAKE i \in 1 .. n - 1
  <2>1. i \in 1 .. n /\ n \in 1 .. n /\ i < n
    BY <1>1
  <2> QED BY <1>1, <2>1 DEF Increasing
<1>5. Values(t) = Values(s) \ {s[n]}
  <2>1. \A v \in Values(t) : v \in Values(s) /\ v # s[n]
    <3> TAKE v \in Values(t)
    <3>1. PICK i \in 1 .. n - 1 : v = s[i]
      BY <1>2 DEF Values
    <3>2. i \in 1 .. n /\ s[i] < s[n] /\ s[i] \in Nat
      BY <1>1, <1>4
    <3> QED BY <3>1, <3>2, <1>1 DEF Values
  <2>2. \A v \in Values(s) : v # s[n] => v \in Values(t)
    BY <1>1, <1>2, <1>3 DEF Values
  <2> QED BY <2>1, <2>2
<1>6. Increasing(t)
  BY <1>1, <1>2, <1>3 DEF Increasing
<1>7. s[n] \in Values(s)
  <2>1. n \in 1 .. n
    BY <1>1
  <2> QED BY <2>1, <1>1 DEF Values
<1> QED BY <1>1, <1>2, <1>5, <1>6, <1>7 DEF t

(* One instruction opens its own bracket, or closes the innermost.            *)
LEMMA BracketStep ==
  ASSUME NEW open \in Seq(Nat), Increasing(open), NEW pc \in Nat, pc >= 1,
         \A v \in Values(open) : v >= 1 /\ v < pc,
         NEW f \in Families, NEW op,
         NEW next, next = Bracket(open, f, op, pc)
  PROVE  /\ next \in Seq(Nat) /\ Increasing(next)
         /\ \A v \in Values(next) : v >= 1 /\ v < pc + 1
         /\ \A v \in Values(next) : v \in Values(open) \/ v = pc
         /\ \A v \in Values(open) :
              v \notin Values(next) <=> op \in Closers[f] /\ Innermost(open) = v
<1>0. \A i \in DOMAIN open : open[i] \in Values(open)
  BY DEF Values
<1>1. CASE op \in Openers[f]
  <2>2. op \notin Closers[f]
    BY <1>1, FamilyOps
  <2>1. next = Append(open, pc)
    BY <1>1, <2>2 DEF Bracket
  <2>3. \A i \in DOMAIN open : open[i] < pc
    BY <1>0
  <2>4. next \in Seq(Nat) /\ Increasing(next) /\ Values(next) = Values(open) \cup {pc}
    BY <2>1, <2>3, AppendedAscends
  <2>5. \A v \in Values(open) : v \in Nat
    BY DEF Values
  <2>6. \A v \in Values(next) : v \in Values(open) \/ v = pc
    BY <2>4
  <2> QED BY <2>2, <2>4, <2>5, <2>6
<1>2. CASE op \notin Openers[f] /\ op \in Closers[f] /\ open # <<>>
  <2>1. next = Front(open) /\ Innermost(open) = Last(open)
    BY <1>2 DEF Bracket, Innermost
  <2>2. /\ next \in Seq(Nat) /\ Increasing(next) /\ Last(open) \in Nat
        /\ Values(next) = Values(open) \ {Last(open)}
    BY <1>2, <2>1, FrontAscends
  <2>3. \A v \in Values(next) : v \in Values(open)
    BY <2>2
  <2>4. \A v \in Values(open) : v \in Nat
    BY DEF Values
  <2>5. \A v \in Values(next) : v >= 1 /\ v < pc + 1
    BY <2>3, <2>4
  <2>6. \A v \in Values(open) : v \notin Values(next) <=> Innermost(open) = v
    BY <2>1, <2>2
  <2> QED BY <1>2, <2>2, <2>3, <2>5, <2>6
<1>3. CASE op \notin Openers[f] /\ ~(op \in Closers[f] /\ open # <<>>)
  <2>1. next = open
    BY <1>3 DEF Bracket
  <2>2. \A v \in Values(open) : v \in Nat
    BY DEF Values
  <2>3. \A v \in Values(open) : open # <<>>
    BY DEF Values
  <2> QED BY <1>3, <2>1, <2>2, <2>3
<1> QED BY <1>1, <1>2, <1>3

LEMMA OpenAscending ==
  ASSUME NEW code, NEW lex, Lexed(code, lex), NEW f \in Families
  PROVE  \A pc \in 1 .. Len(code) + 1 :
           /\ lex[pc][f] \in Seq(Nat) /\ Increasing(lex[pc][f])
           /\ \A v \in Values(lex[pc][f]) : v >= 1 /\ v < pc
<1> DEFINE n == Len(code)
           Right(pc) == /\ lex[pc][f] \in Seq(Nat) /\ Increasing(lex[pc][f])
                        /\ \A v \in Values(lex[pc][f]) : v >= 1 /\ v < pc
           Wrong == {pc \in 1 .. n + 1 : ~Right(pc)}
<1>1. /\ n \in Nat /\ DOMAIN code = 1 .. n /\ lex[1][f] = <<>>
      /\ \A pc \in 1 .. n : lex[pc + 1][f] = Bracket(lex[pc][f], f, code[pc].op, pc)
  BY DEF Lexed, BracketsFound
<1> SUFFICES ASSUME Wrong # {} PROVE FALSE
  OBVIOUS
<1>2. PICK pc \in Wrong : \A m \in Wrong : pc <= m
  <2>1. Wrong \in SUBSET Nat
    OBVIOUS
  <2> HIDE DEF Wrong
  <2> QED BY <2>1, LeastNumber
<1>3. pc \in 1 .. n + 1 /\ ~Right(pc)
  BY <1>2
<1>4. pc # 1
  <2>1. Right(1)
    BY <1>1 DEF Increasing, Values
  <2> QED BY <2>1, <1>3
<1> DEFINE q == pc - 1
<1>5. q \in 1 .. n /\ q + 1 = pc /\ q \in Nat /\ q >= 1
  BY <1>1, <1>3, <1>4
<1>6. q \notin Wrong
  <2>1. ~(pc <= q)
    BY <1>3
  <2> HIDE DEF Wrong
  <2> QED BY <2>1, <1>2
<1>7. Right(q)
  BY <1>5, <1>6
<1> HIDE DEF q, Wrong
<1>8. lex[pc][f] = Bracket(lex[q][f], f, code[q].op, q)
  BY <1>1, <1>5
<1>9. Right(q + 1)
  BY <1>5, <1>7, <1>8, BracketStep
<1> QED BY <1>3, <1>5, <1>9

(* What the lemma before says of two places in a row.                         *)
LEMMA OpenStep ==
  ASSUME NEW code, NEW lex, Lexed(code, lex), NEW f \in Families, NEW pc \in 1 .. Len(code)
  PROVE  /\ \A v : OpenAt(lex, f, v, pc + 1) => OpenAt(lex, f, v, pc) \/ v = pc
         /\ \A v : OpenAt(lex, f, v, pc) =>
              (~OpenAt(lex, f, v, pc + 1) <=>
                 code[pc].op \in Closers[f] /\ Innermost(lex[pc][f]) = v)
<1> DEFINE open == lex[pc][f]
           next == lex[pc + 1][f]
<1>1. Len(code) \in Nat
  BY DEF Lexed
<1>2. pc \in 1 .. Len(code) + 1 /\ pc \in Nat /\ pc >= 1
  BY <1>1
<1>3. /\ open \in Seq(Nat) /\ Increasing(open)
      /\ \A v \in Values(open) : v >= 1 /\ v < pc
  BY <1>2, OpenAscending
<1>4. next = Bracket(open, f, code[pc].op, pc)
  BY DEF Lexed, BracketsFound
<1> HIDE DEF open, next
<1>5. /\ \A v \in Values(next) : v \in Values(open) \/ v = pc
      /\ \A v \in Values(open) :
           v \notin Values(next) <=> code[pc].op \in Closers[f] /\ Innermost(open) = v
  BY <1>2, <1>3, <1>4, BracketStep
<1> QED BY <1>5 DEF OpenAt, open, next

LEMMA OpenBetween ==
  ASSUME NEW code, NEW lex, Lexed(code, lex), NEW f \in Families,
         NEW q \in 1 .. Len(code) + 1, NEW o \in Nat, OpenAt(lex, f, o, q),
         NEW r \in Nat, o < r, r <= q
  PROVE  OpenAt(lex, f, o, r)
<1> SUFFICES ASSUME ~OpenAt(lex, f, o, r) PROVE FALSE
  OBVIOUS
<1>1. Len(code) \in Nat
  BY DEF Lexed
<1> DEFINE Shut == {k \in 0 .. q : o < k /\ ~OpenAt(lex, f, o, k)}
<1>2. PICK k \in Shut : \A m \in Shut : m <= k
  <2>1. r \in Shut
    BY <1>1
  <2>2. q \in Nat
    BY <1>1
  <2> HIDE DEF Shut
  <2>3. Shut \in SUBSET (0 .. q)
    BY DEF Shut
  <2> QED BY <2>1, <2>2, <2>3, GreatestNumber
<1>3. k \in 0 .. q /\ o < k /\ ~OpenAt(lex, f, o, k) /\ k # q
  BY <1>2
<1>4. k \in 1 .. Len(code) /\ k + 1 \in 0 .. q /\ o < k + 1 /\ ~(k + 1 <= k)
  BY <1>1, <1>3
<1>5. OpenAt(lex, f, o, k + 1)
  BY <1>2, <1>4
<1>6. OpenAt(lex, f, o, k) \/ o = k
  BY <1>4, <1>5, OpenStep
<1> QED BY <1>3, <1>6

Ends(code, lex, f, o) ==
  {pc \in o + 1 .. Len(code) :
     code[pc].op \in Closers[f] /\ Innermost(lex[pc][f]) = o}

LEMMA ClosedByEnds ==
  ASSUME NEW code, NEW lex, Lexed(code, lex), NEW f, NEW o \in Nat
  PROVE  /\ ClosedBy(code, lex, f, o) =
              IF Ends(code, lex, f, o) = {} THEN NoPc ELSE Earliest(Ends(code, lex, f, o))
         /\ Ends(code, lex, f, o) # {} =>
              /\ ClosedBy(code, lex, f, o) \in Ends(code, lex, f, o)
              /\ \A pc \in Ends(code, lex, f, o) : ClosedBy(code, lex, f, o) <= pc
         /\ ClosedBy(code, lex, f, o) \in 0 .. Len(code)
<1>1. Len(code) \in Nat
  BY DEF Lexed
<1>2. ClosedBy(code, lex, f, o) =
        IF Ends(code, lex, f, o) = {} THEN NoPc ELSE Earliest(Ends(code, lex, f, o))
  BY DEF ClosedBy, Ends
<1>3. Ends(code, lex, f, o) \in SUBSET Nat /\ \A pc \in Ends(code, lex, f, o) : pc \in 0 .. Len(code)
  BY <1>1 DEF Ends
<1>4. CASE Ends(code, lex, f, o) = {}
  BY <1>1, <1>2, <1>4 DEF NoPc
<1>5. CASE Ends(code, lex, f, o) # {}
  <2>1. /\ Earliest(Ends(code, lex, f, o)) \in Ends(code, lex, f, o)
        /\ \A m \in Ends(code, lex, f, o) : Earliest(Ends(code, lex, f, o)) <= m
    BY <1>3, <1>5, EarliestOf
  <2> QED BY <1>2, <1>3, <1>5, <2>1
<1> QED BY <1>4, <1>5

LEMMA OpenUntil ==
  ASSUME NEW code, NEW lex, Lexed(code, lex), NEW f \in Families,
         NEW q \in 1 .. Len(code) + 1, NEW o \in Nat, OpenAt(lex, f, o, q)
  PROVE  q <= ClosedBy(code, lex, f, o) /\ o < q
<1>1. Len(code) \in Nat /\ DOMAIN code = 1 .. Len(code) /\ q \in Nat
  BY DEF Lexed
<1>0. o < q
  BY OpenAscending DEF OpenAt
<1> DEFINE n == Len(code)
           Held == {k \in 0 .. n + 1 : q <= k /\ OpenAt(lex, f, o, k)}
<1>2. PICK k \in Held : \A m \in Held : m <= k
  <2>1. q \in Held
    BY <1>1
  <2>2. n + 1 \in Nat
    BY <1>1
  <2>3. Held \in SUBSET (0 .. n + 1)
    OBVIOUS
  <2> HIDE DEF Held, n
  <2> QED BY <2>1, <2>2, <2>3, GreatestNumber
<1>3. k \in 0 .. n + 1 /\ q <= k /\ OpenAt(lex, f, o, k)
  BY <1>2
<1>4. k # n + 1
  <2>1. lex[n + 1][f] = <<>>
    BY DEF Lexed
  <2>2. ~OpenAt(lex, f, o, n + 1)
    BY <2>1 DEF OpenAt, Values
  <2> QED BY <2>2, <1>3
<1>5. k \in 1 .. n /\ k + 1 \in 0 .. n + 1 /\ q <= k + 1 /\ ~(k + 1 <= k) /\ k \in o + 1 .. n
  BY <1>0, <1>1, <1>3, <1>4
<1>6. ~OpenAt(lex, f, o, k + 1)
  BY <1>2, <1>5
<1>7. code[k].op \in Closers[f] /\ Innermost(lex[k][f]) = o
  BY <1>3, <1>5, <1>6, OpenStep
<1>8. k \in Ends(code, lex, f, o)
  BY <1>5, <1>7 DEF Ends
<1> DEFINE c == ClosedBy(code, lex, f, o)
<1>9. c \in Ends(code, lex, f, o)
  BY <1>8, ClosedByEnds
<1> HIDE DEF c
<1>10. c \in o + 1 .. n /\ code[c].op \in Closers[f] /\ Innermost(lex[c][f]) = o
  BY <1>9 DEF Ends
<1> HIDE DEF n, Held
<1>11. ~(c < q)
  <2> SUFFICES ASSUME c < q PROVE FALSE
    OBVIOUS
  <2>1. c \in Nat /\ o < c /\ c <= q /\ c + 1 \in Nat /\ o < c + 1 /\ c + 1 <= q /\ c \in 1 .. n
    BY <1>1, <1>10 DEF n
  <2>2. OpenAt(lex, f, o, c) /\ OpenAt(lex, f, o, c + 1)
    BY <2>1, OpenBetween
  <2> QED BY <2>1, <2>2, <1>10, OpenStep DEF n
<1>12. q <= c
  BY <1>1, <1>10, <1>11 DEF n
<1> QED BY <1>0, <1>12 DEF c

LEMMA OpenTill ==
  ASSUME NEW code, NEW lex, Lexed(code, lex), NEW f \in Families,
         NEW o \in Nat, OpenAt(lex, f, o, o + 1), NEW q \in Nat, o < q,
         q <= ClosedBy(code, lex, f, o)
  PROVE  OpenAt(lex, f, o, q)
<1>1. Len(code) \in Nat
  BY DEF Lexed
<1>2. ClosedBy(code, lex, f, o) \in 0 .. Len(code)
  BY ClosedByEnds
<1>3. q \in 1 .. Len(code)
  BY <1>1, <1>2
<1> SUFFICES ASSUME ~OpenAt(lex, f, o, q) PROVE FALSE
  OBVIOUS
<1> DEFINE Shut == {k \in Nat : o < k /\ ~OpenAt(lex, f, o, k)}
<1>4. PICK k \in Shut : \A m \in Shut : k <= m
  <2>1. q \in Shut /\ Shut \in SUBSET Nat
    OBVIOUS
  <2> HIDE DEF Shut
  <2> QED BY <2>1, LeastNumber
<1>5. k \in Nat /\ o < k /\ ~OpenAt(lex, f, o, k) /\ k # o + 1 /\ k <= q
  BY <1>4
<1> DEFINE p == k - 1
<1>6. p \in 1 .. Len(code) /\ p + 1 = k /\ p \in o + 1 .. Len(code) /\ o < p /\ p \in Nat /\ ~(k <= p)
  BY <1>1, <1>3, <1>5
<1>7. OpenAt(lex, f, o, p)
  BY <1>4, <1>6
<1> HIDE DEF p, Shut
<1>8. code[p].op \in Closers[f] /\ Innermost(lex[p][f]) = o
  <2>1. ~OpenAt(lex, f, o, p + 1)
    BY <1>5, <1>6
  <2> QED BY <1>6, <1>7, <2>1, OpenStep
<1>9. p \in Ends(code, lex, f, o)
  BY <1>6, <1>8 DEF Ends
<1>10. ClosedBy(code, lex, f, o) <= p
  BY <1>9, ClosedByEnds
<1> QED BY <1>2, <1>3, <1>5, <1>6, <1>10

-----------------------------------------------------------------------------
(* What the verifier found of a program, in the form the proofs use it.      *)
Prepared(P) == Verified(P.code, P.lex, P.flow) /\ Made(P.code, P.flow)

IsRange(P, R) == R \in DOMAIN P.flow

(* The state St of a range at `target`, where some step leads.               *)
St(depth, for, switch, try, contexts) ==
  [depth |-> depth, for |-> for, switch |-> switch, try |-> try, contexts |-> contexts]

Reaches(P, R, target, state) ==
  target \in R.begin .. R.end /\ P.flow[R][target] = state

Known(P, R, pc) == pc \in R.begin .. R.end - 1 /\ P.flow[R][pc] # None

LEMMA PreparedLexed ==
  ASSUME NEW P, Prepared(P)
  PROVE  Lexed(P.code, P.lex) /\ P.code \in Seq(Instructions)
<1>1. BracketsFound(P.code, P.lex) /\ StructuredRangesOk(P.code, P.lex) /\ P.code \in Seq(Instructions)
  BY Zenon DEF Prepared, Verified, Made
<1>2. \A f \in Families : P.lex[Len(P.code) + 1][f] = <<>>
  BY <1>1, Zenon DEF StructuredRangesOk
<1>3. Len(P.code) \in Nat /\ DOMAIN P.code = 1 .. Len(P.code)
  BY <1>1
<1> QED BY <1>1, <1>2, <1>3 DEF Lexed

LEMMA PreparedCode ==
  ASSUME NEW P, Prepared(P)
  PROVE  /\ Len(P.code) \in Nat /\ DOMAIN P.code = 1 .. Len(P.code)
         /\ \A pc \in DOMAIN P.code :
              /\ P.code[pc] \in Instructions
              /\ InstructionMade(P.code, pc)
              /\ P.code[pc].op = "EnterFunction" => FunctionMade(P.code, pc)
              /\ P.code[pc].op \in Targeted =>
                   /\ P.code[pc].target \in 1 .. Len(P.code) + 1
                   /\ TargetFits(P.code, P.lex, pc)
<1>1. P.code \in Seq(Instructions) /\ TargetsOk(P.code, P.lex)
  BY Zenon DEF Prepared, Verified, Made
<1>2. /\ \A pc \in DOMAIN P.code : InstructionMade(P.code, pc)
      /\ \A pc \in DOMAIN P.code : P.code[pc].op = "EnterFunction" => FunctionMade(P.code, pc)
  BY Zenon DEF Prepared, Made
<1>3. \A pc \in DOMAIN P.code :
        P.code[pc].op \in Targeted =>
          /\ P.code[pc].target \in 1 .. Len(P.code) + 1
          /\ TargetFits(P.code, P.lex, pc)
  BY <1>1, Zenon DEF TargetsOk
<1>4. Len(P.code) \in Nat /\ DOMAIN P.code = 1 .. Len(P.code) /\ \A pc \in DOMAIN P.code : P.code[pc] \in Instructions
  BY <1>1
<1> QED BY <1>2, <1>3, <1>4, Zenon

LEMMA ClosedByNumber ==
  ASSUME NEW P, Prepared(P), NEW f, NEW o \in Nat
  PROVE  ClosedBy(P.code, P.lex, f, o) \in 0 .. Len(P.code)
BY PreparedLexed, ClosedByEnds

LEMMA RangeBounds ==
  ASSUME NEW P, Prepared(P), NEW R, IsRange(P, R)
  PROVE  /\ R = Range0(R.begin, R.end, R.depth)
         /\ R.begin \in Nat /\ R.end \in Nat /\ R.depth \in {0, 1}
         /\ 1 <= R.begin /\ R.begin < R.end /\ R.end <= Len(P.code) + 1
         /\ \A pc \in R.begin .. R.end - 1 : pc \in DOMAIN P.code
<1>1. R \in ExecutionRanges(P.code, P.lex) /\ R.begin < R.end
  BY Zenon DEF Prepared, Verified, Made, IsRange
<1>2. Len(P.code) \in Nat /\ DOMAIN P.code = 1 .. Len(P.code)
  BY PreparedCode
<1>3. \E begin, end, depth :
        /\ R = Range0(begin, end, depth) /\ begin \in Nat /\ end \in Nat /\ depth \in {0, 1}
        /\ 1 <= begin /\ end <= Len(P.code) + 1
  <2>1. CASE R \in {Range0(1, Len(P.code) + 1, 0)}
    <3>1. R = Range0(1, Len(P.code) + 1, 0)
      BY <2>1
    <3> QED BY <3>1, <1>2
  <2>2. CASE \E pc \in DOMAIN P.code : R = Range0(pc + 1, ClosedBy(P.code, P.lex, "boundary", pc), 0)
    <3>1. PICK pc \in DOMAIN P.code : R = Range0(pc + 1, ClosedBy(P.code, P.lex, "boundary", pc), 0)
      BY <2>2
    <3>0. pc \in Nat
      BY <1>2
    <3>2. pc \in Nat /\ ClosedBy(P.code, P.lex, "boundary", pc) \in 0 .. Len(P.code)
      BY <3>0, ClosedByNumber, Zenon
    <3> QED BY <3>1, <3>2, <1>2
  <2>3. CASE \E pc \in DOMAIN P.code : R = Range0(pc + 1, ClosedBy(P.code, P.lex, "boundary", pc), 1)
    <3>1. PICK pc \in DOMAIN P.code : R = Range0(pc + 1, ClosedBy(P.code, P.lex, "boundary", pc), 1)
      BY <2>3
    <3>0. pc \in Nat
      BY <1>2
    <3>2. pc \in Nat /\ ClosedBy(P.code, P.lex, "boundary", pc) \in 0 .. Len(P.code)
      BY <3>0, ClosedByNumber, Zenon
    <3> QED BY <3>1, <3>2, <1>2
  <2>4. CASE \E pc \in AnonymousOwners(P.code) : R = Range0(pc + 1, P.code[pc].target, 1)
    <3>1. PICK pc \in AnonymousOwners(P.code) : R = Range0(pc + 1, P.code[pc].target, 1)
      BY <2>4
    <3>2. pc \in DOMAIN P.code /\ P.code[pc].op = "MakeFunctionHandle" /\ P.code[pc].target <= Len(P.code) + 1
      BY <3>1 DEF AnonymousOwners
    <3>3. "MakeFunctionHandle" \in Targeted
      BY DEF Targeted
    <3>4. P.code[pc].target \in 1 .. Len(P.code) + 1
      BY <3>2, <3>3, PreparedCode
    <3> QED BY <3>1, <3>2, <3>4, <1>2
  <2>5. \/ R \in {Range0(1, Len(P.code) + 1, 0)}
        \/ \E pc \in DOMAIN P.code : R = Range0(pc + 1, ClosedBy(P.code, P.lex, "boundary", pc), 0)
        \/ \E pc \in DOMAIN P.code : R = Range0(pc + 1, ClosedBy(P.code, P.lex, "boundary", pc), 1)
        \/ \E pc \in AnonymousOwners(P.code) : R = Range0(pc + 1, P.code[pc].target, 1)
    BY <1>1, Zenon DEF ExecutionRanges
  <2> QED BY <2>1, <2>2, <2>3, <2>4, <2>5
<1>4. PICK begin, end, depth :
        /\ R = Range0(begin, end, depth) /\ begin \in Nat /\ end \in Nat /\ depth \in {0, 1}
        /\ 1 <= begin /\ end <= Len(P.code) + 1
  BY <1>3
<1>5. R.begin = begin /\ R.end = end /\ R.depth = depth
  BY <1>4 DEF Range0
<1>6. \A pc \in R.begin .. R.end - 1 : pc \in DOMAIN P.code
  BY <1>2, <1>4, <1>5
<1> QED BY <1>1, <1>4, <1>5, <1>6

LEMMA ExpectedOf ==
  ASSUME NEW P, Prepared(P), NEW R, IsRange(P, R), NEW f \in Families,
         NEW target \in R.begin .. R.end - 1
  PROVE  LET E == ExpectedWithin(P.lex, f, target, R)
         IN /\ E \in Seq(Nat) /\ Increasing(E)
            /\ \A o : o \in Values(E) <=>
                        OpenAt(P.lex, f, o, target) /\ R.begin <= o /\ o < R.end
<1> DEFINE open == P.lex[target][f]
           E == ExpectedWithin(P.lex, f, target, R)
           inside == {i \in DOMAIN open : R.begin <= open[i] /\ open[i] < R.end}
<1>1. R.begin \in Nat /\ R.end \in Nat /\ target \in DOMAIN P.code /\ target < R.end
  BY RangeBounds
<1>2. open \in Seq(Nat) /\ Increasing(open)
  <2>1. target \in 1 .. Len(P.code) + 1
    BY <1>1, PreparedCode
  <2> QED BY <2>1, PreparedLexed, OpenAscending
<1>3. E = Picked(open, inside)
  BY <1>1 DEF ExpectedWithin
<1>4. inside \in SUBSET DOMAIN open
  OBVIOUS
<1>5. \A o : (\E i \in inside : open[i] = o) <=> o \in Values(open) /\ R.begin <= o /\ o < R.end
  BY DEF Values
<1> HIDE DEF inside
<1>6. /\ Picked(open, inside) \in Seq(Nat) /\ Increasing(Picked(open, inside))
      /\ Values(Picked(open, inside)) = {open[i] : i \in inside}
  <2> HIDE DEF open
  <2> QED BY <1>2, <1>4, PickedOf
<1>7. \A o : o \in Values(E) <=> o \in Values(open) /\ R.begin <= o /\ o < R.end
  <2> HIDE DEF open, E
  <2>1. \A o : o \in {open[i] : i \in inside} <=> \E i \in inside : open[i] = o
    OBVIOUS
  <2> QED BY <1>3, <1>5, <1>6, <2>1, Zenon
<1> QED BY <1>3, <1>6, <1>7 DEF OpenAt

Bracketed == {"for", "switch", "try"}

(* The state at a place of a range that the flow reaches.                     *)
LEMMA FlowAt ==
  ASSUME NEW P, Prepared(P), NEW R, IsRange(P, R), NEW pc \in R.begin .. R.end,
         P.flow[R][pc] # None
  PROVE  /\ P.flow[R][pc] \in FlowStates
         /\ \A f \in Bracketed : P.flow[R][pc][f] = ExpectedWithin(P.lex, f, pc, R)
         /\ pc < R.end => Settled(P.code, P.lex, R, P.flow[R], pc)
         /\ pc = R.end => P.flow[R][pc] = St(R.depth, <<>>, <<>>, <<>>, NoContexts)
<1>1. FlowFound(P.code, P.lex, R, P.flow[R])
  BY Zenon DEF Prepared, Verified, IsRange
<1>2. pc \in DOMAIN P.flow[R] /\ ExitOk(R, P.flow[R])
  BY <1>1, Zenon DEF FlowFound
<1>3. /\ P.flow[R][pc] \in FlowStates
      /\ MatchesStructured(P.lex, P.flow[R][pc], pc, R)
      /\ pc < R.end => Settled(P.code, P.lex, R, P.flow[R], pc)
  BY <1>1, <1>2, Zenon DEF FlowFound
<1>4. \A f \in Bracketed : P.flow[R][pc][f] = ExpectedWithin(P.lex, f, pc, R)
  BY <1>3, Zenon DEF MatchesStructured, Bracketed
<1>5. pc = R.end => P.flow[R][pc] = St(R.depth, <<>>, <<>>, <<>>, NoContexts)
  <2>1. pc = R.end => P.flow[R][pc] = [EntryState EXCEPT !.depth = R.depth]
    BY <1>2, Zenon DEF ExitOk
  <2>2. [EntryState EXCEPT !.depth = R.depth] = St(R.depth, <<>>, <<>>, <<>>, NoContexts)
    BY DEF EntryState, St
  <2> QED BY <2>1, <2>2, Zenon
<1> QED BY <1>3, <1>4, <1>5, Zenon

LEMMA FlowBegins ==
  ASSUME NEW P, Prepared(P), NEW R, IsRange(P, R)
  PROVE  P.flow[R][R.begin] = St(0, <<>>, <<>>, <<>>, NoContexts)
<1>1. FlowFound(P.code, P.lex, R, P.flow[R])
  BY Zenon DEF Prepared, Verified, IsRange
<1>2. R.begin < R.end
  BY RangeBounds
<1>3. P.flow[R][R.begin] = EntryState
  BY <1>1, <1>2, Zenon DEF FlowFound
<1> QED BY <1>3, Zenon DEF EntryState, St

(* Its brackets are those open there that were opened in the range.           *)
LEMMA FlowBrackets ==
  ASSUME NEW P, Prepared(P), NEW R, IsRange(P, R), NEW pc, Known(P, R, pc), NEW f \in Bracketed
  PROVE  /\ P.flow[R][pc][f] \in Seq(Nat) /\ Increasing(P.flow[R][pc][f])
         /\ \A o : o \in Values(P.flow[R][pc][f]) <=>
                     OpenAt(P.lex, f, o, pc) /\ R.begin <= o /\ o < R.end
<1>1. pc \in R.begin .. R.end - 1 /\ pc \in R.begin .. R.end /\ P.flow[R][pc] # None
  BY RangeBounds DEF Known
<1>2. f \in Families
  BY FamilyOps DEF Bracketed
<1>0. \A g \in Bracketed : P.flow[R][pc][g] = ExpectedWithin(P.lex, g, pc, R)
  BY <1>1, FlowAt
<1>3. P.flow[R][pc][f] = ExpectedWithin(P.lex, f, pc, R)
  BY <1>0
<1> QED BY <1>1, <1>2, <1>3, ExpectedOf

-----------------------------------------------------------------------------
(* What the flow says of the step of each instruction.                        *)
(* States written out by their fields.                                        *)
LEMMA Fields ==
  ASSUME NEW e \in FlowStates
  PROVE  /\ e = St(e.depth, e.for, e.switch, e.try, e.contexts)
         /\ e.depth \in Nat /\ e.for \in Seq(Nat) /\ e.switch \in Seq(Nat) /\ e.try \in Seq(Nat)
         /\ e.contexts \in [idxs : Seq(Indexes), lvals : Seq(Places)]
<1>1. e = St(e.depth, e.for, e.switch, e.try, e.contexts)
  BY DEF FlowStates, St
<1>2. /\ e.depth \in Nat /\ e.for \in Seq(Nat) /\ e.switch \in Seq(Nat) /\ e.try \in Seq(Nat)
      /\ e.contexts \in [idxs : Seq(Indexes), lvals : Seq(Places)]
  BY DEF FlowStates
<1> QED BY <1>1, <1>2, Zenon

LEMMA StFields ==
  ASSUME NEW d, NEW fo, NEW sw, NEW tr, NEW c
  PROVE  /\ St(d, fo, sw, tr, c).depth = d /\ St(d, fo, sw, tr, c).for = fo
         /\ St(d, fo, sw, tr, c).switch = sw /\ St(d, fo, sw, tr, c).try = tr
         /\ St(d, fo, sw, tr, c).contexts = c
         /\ St(d, fo, sw, tr, c)["for"] = fo
         /\ St(d, fo, sw, tr, c)["switch"] = sw
         /\ St(d, fo, sw, tr, c)["try"] = tr
BY DEF St

LEMMA StKnown ==
  ASSUME NEW d, NEW fo, NEW sw, NEW tr, NEW c
  PROVE  St(d, fo, sw, tr, c) # None
<1>1. DOMAIN St(d, fo, sw, tr, c) = {"depth", "for", "switch", "try", "contexts"}
  BY DEF St
<1>2. DOMAIN None = {"none"}
  BY DEF None
<1>3. "none" \notin {"depth", "for", "switch", "try", "contexts"}
  OBVIOUS
<1> QED BY <1>1, <1>2, <1>3

Edge(P, R, flow) ==
  flow.ok /\ \A i \in DOMAIN flow.edges : Reaches(P, R, flow.edges[i][1], flow.edges[i][2])

LEMMA OneEdge ==
  ASSUME NEW P, NEW R, NEW target, NEW state,
         Edge(P, R, Flows(<<<<target, state>>>>))
  PROVE  Reaches(P, R, target, state)
<1> DEFINE edges == <<<<target, state>>>>
<1>1. Flows(edges).edges = edges
  BY DEF Flows
<1>2. 1 \in DOMAIN edges /\ edges[1][1] = target /\ edges[1][2] = state
  OBVIOUS
<1> HIDE DEF edges
<1>3. Reaches(P, R, edges[1][1], edges[1][2])
  BY <1>1, <1>2, Zenon DEF Edge, edges
<1> QED BY <1>2, <1>3, Zenon

LEMMA TwoEdges ==
  ASSUME NEW P, NEW R, NEW a, NEW s, NEW b, NEW t,
         Edge(P, R, Flows(<<<<a, s>>, <<b, t>>>>))
  PROVE  Reaches(P, R, a, s) /\ Reaches(P, R, b, t)
<1> DEFINE edges == <<<<a, s>>, <<b, t>>>>
<1>1. Flows(edges).edges = edges
  BY DEF Flows
<1>2. /\ 1 \in DOMAIN edges /\ edges[1][1] = a /\ edges[1][2] = s
      /\ 2 \in DOMAIN edges /\ edges[2][1] = b /\ edges[2][2] = t
  OBVIOUS
<1> HIDE DEF edges
<1>3. Reaches(P, R, edges[1][1], edges[1][2]) /\ Reaches(P, R, edges[2][1], edges[2][2])
  BY <1>1, <1>2, Zenon DEF Edge, edges
<1> QED BY <1>2, <1>3, Zenon

LEMMA NotRejected ==
  ASSUME NEW P, NEW R, NEW condition, NEW edges, Edge(P, R, FlowsIf(condition, edges))
  PROVE  condition /\ Edge(P, R, Flows(edges))
<1>1. FlowsIf(condition, edges) = IF condition THEN Flows(edges) ELSE Rejected
  BY DEF FlowsIf
<1>2. condition
  <2> SUFFICES ASSUME ~condition PROVE FALSE
    OBVIOUS
  <2>1. FlowsIf(condition, edges) = Rejected
    BY <1>1
  <2>2. Rejected.ok = FALSE
    BY DEF Rejected
  <2> QED BY <2>1, <2>2, Zenon DEF Edge
<1> QED BY <1>1, <1>2, Zenon

(* What an outward jump leaves of the brackets of a family.                   *)
Cut(P, R, open, f, target) == Shorten(open, Len(ExpectedWithin(P.lex, f, target, R)))

LEMMA UnwoundOf ==
  ASSUME NEW P, NEW R, NEW target, NEW d, NEW fo, NEW sw, NEW tr, NEW c
  PROVE  UnwindFor(P.lex, St(d, fo, sw, tr, c), target, R) =
           St(d, fo, Cut(P, R, sw, "switch", target), Cut(P, R, tr, "try", target), c)
<1> DEFINE a == Cut(P, R, sw, "switch", target)
           b == Cut(P, R, tr, "try", target)
<1>1. UnwindFor(P.lex, St(d, fo, sw, tr, c), target, R) =
        [St(d, fo, sw, tr, c) EXCEPT !.switch = a, !.try = b]
  <2>1. St(d, fo, sw, tr, c).switch = sw /\ St(d, fo, sw, tr, c).try = tr
    BY StFields
  <2> QED BY <2>1, Zenon DEF UnwindFor, Cut
<1> HIDE DEF a, b
<1>2. [St(d, fo, sw, tr, c) EXCEPT !.switch = a] = St(d, fo, a, tr, c)
  BY DEF St
<1>3. [St(d, fo, a, tr, c) EXCEPT !.try = b] = St(d, fo, a, b, c)
  BY DEF St
<1> QED BY <1>1, <1>2, <1>3, Zenon DEF a, b

(* State e, but with its operands at depth d.                                 *)
Kept(e, d) == St(d, e.for, e.switch, e.try, e.contexts)

LEMMA ForPushed ==
  ASSUME NEW e, NEW d, NEW pc
  PROVE  [Kept(e, d) EXCEPT !.for = Append(@, pc)] =
           St(d, Append(e.for, pc), e.switch, e.try, e.contexts)
BY DEF Kept, St

LEMMA SwitchPushed ==
  ASSUME NEW e, NEW d, NEW pc
  PROVE  [Kept(e, d) EXCEPT !.switch = Append(@, pc)] =
           St(d, e.for, Append(e.switch, pc), e.try, e.contexts)
BY DEF Kept, St

Entering == {"EnterFunction", "EnterArgumentDefault"}

LEMMA FlowEdges ==
  ASSUME NEW P, Prepared(P), NEW R, IsRange(P, R), NEW pc, Known(P, R, pc)
  PROVE  /\ Edge(P, R, Edges(P.code, P.lex, R, pc, P.flow[R][pc]))
         /\ P.flow[R][pc] \in FlowStates
<1>1. pc \in R.begin .. R.end /\ pc < R.end /\ P.flow[R][pc] # None
  BY RangeBounds DEF Known
<1>2. Settled(P.code, P.lex, R, P.flow[R], pc) /\ P.flow[R][pc] \in FlowStates
  BY <1>1, FlowAt
<1> QED BY <1>2, Zenon DEF Settled, Edge, Reaches

(* An instruction that is not refused has its operands and its contexts, and  *)
(* hands on what is left of them.                                             *)
LEMMA Admitted ==
  ASSUME NEW P, Prepared(P), NEW R, IsRange(P, R), NEW pc, Known(P, R, pc),
         P.code[pc].op \notin Entering
  PROVE  LET i == P.code[pc]
             e == P.flow[R][pc]
             c == StepContexts(e.contexts, i, pc)
         IN /\ e \in FlowStates
            /\ ~(e.depth < StackEffect(i).requires)
            /\ c # None
            /\ i.op = "BeginLvalueIndexContext" => c.lvals # <<>>
            /\ Edge(P, R, Transfers(P.code, P.lex, R, pc,
                       St(e.depth + StackEffect(i).delta, e.for, e.switch, e.try, c)))
<1> DEFINE i == P.code[pc]
           e == P.flow[R][pc]
           c == StepContexts(e.contexts, i, pc)
           refused == \/ e.depth < StackEffect(i).requires
                      \/ c = None
                      \/ i.op = "BeginLvalueIndexContext" /\ c.lvals = <<>>
           out == [e EXCEPT !.depth = @ + StackEffect(i).delta, !.contexts = c]
<1>1. Edge(P, R, Edges(P.code, P.lex, R, pc, e)) /\ e \in FlowStates
  BY FlowEdges, Zenon
<1>2. Edges(P.code, P.lex, R, pc, e) =
        IF refused THEN Rejected ELSE Transfers(P.code, P.lex, R, pc, out)
  BY Zenon DEF Edges, Entering
<1>3. ~refused
  <2> SUFFICES ASSUME refused PROVE FALSE
    OBVIOUS
  <2>1. Rejected.ok = FALSE
    BY DEF Rejected
  <2> QED BY <1>1, <1>2, <2>1, Zenon DEF Edge
<1>4. out = St(e.depth + StackEffect(i).delta, e.for, e.switch, e.try, c)
  <2> DEFINE x == e.depth + StackEffect(i).delta
  <2>1. e = St(e.depth, e.for, e.switch, e.try, e.contexts)
    BY <1>1, Fields, Zenon
  <2>2. [e EXCEPT !.depth = x] = St(x, e.for, e.switch, e.try, e.contexts)
    <3> HIDE DEF x, e
    <3>1. [St(e.depth, e.for, e.switch, e.try, e.contexts) EXCEPT !.depth = x] =
             St(x, e.for, e.switch, e.try, e.contexts)
      BY DEF St
    <3> QED BY <2>1, <3>1, Zenon
  <2>3. [St(x, e.for, e.switch, e.try, e.contexts) EXCEPT !.contexts = c] = St(x, e.for, e.switch, e.try, c)
    <3> HIDE DEF x, e, c
    <3> QED BY DEF St
  <2> QED BY <2>2, <2>3, Zenon
<1> QED BY <1>1, <1>2, <1>3, <1>4, Zenon

-----------------------------------------------------------------------------
(* What each instruction needs and changes.                                   *)
LEMMA Effects ==
  ASSUME NEW i
  PROVE  /\ i.op = "LoadName" => StackEffect(i) = [requires |-> 0, delta |-> i.results]
         /\ i.op = "MakeFunctionHandle" => StackEffect(i) = [requires |-> 0, delta |-> 1]
         /\ i.op \in {"StoreName", "JumpIfFalse", "ForBegin", "SwitchBegin", "SwitchCase"} =>
              StackEffect(i) = [requires |-> 1, delta |-> -1]
         /\ i.op = "BinaryOp" =>
              StackEffect(i) = [requires |-> i.operandCount, delta |-> 1 - i.operandCount]
         /\ i.op = "CallOrIndex" =>
              StackEffect(i) = [requires |-> i.operandCount + 1,
                                delta |-> i.results - i.operandCount - 1]
         /\ i.op = "LvalueDescendMember" =>
              StackEffect(i) = [requires |-> i.operandCount, delta |-> -i.operandCount]
         /\ i.op = "StorePathIndex" =>
              StackEffect(i) = [requires |-> i.operandCount + 1, delta |-> -i.operandCount - 1]
         /\ i.op = "BeginIndexContext" => StackEffect(i) = [requires |-> 1, delta |-> 0]
         /\ i.op \in {"Jump", "Return", "EnterModule", "LeaveModule", "ForNext", "Break",
                      "Continue", "SwitchOtherwise", "SwitchEnd", "TryBegin", "TryEnd",
                      "BeginIndexArgument", "BeginLvalue", "BeginLvalueIndexContext"} =>
              StackEffect(i) = [requires |-> 0, delta |-> 0]
BY DEF StackEffect

Contextual == {"BeginIndexContext", "BeginLvalueIndexContext", "BeginIndexArgument", "BeginLvalue",
               "LvalueDescendMember", "StorePathIndex", "CallOrIndex"}

LEMMA SameContexts ==
  ASSUME NEW i, NEW c, NEW pc,
         i.op \notin Contextual \/ (i.op = "CallOrIndex" /\ ~i.context)
  PROVE  StepContexts(c, i, pc) = c
BY Zenon DEF StepContexts, Contextual, ClosesIndex, ClosesLvalueIndex

Innermost2(P, pc, f, open) ==
  Innermost(open) # NoPc /\ Innermost(open) = Innermost(P.lex[pc][f])

-----------------------------------------------------------------------------
(* Where each instruction leads, and with which state.                        *)
Here(P, R, pc) == Prepared(P) /\ IsRange(P, R) /\ Known(P, R, pc)

LEMMA Plain ==
  ASSUME NEW P, NEW R, NEW pc, Here(P, R, pc), P.code[pc].op \notin Entering \cup Contextual,
         NEW requires \in Nat, NEW delta \in Int,
         StackEffect(P.code[pc]) = [requires |-> requires, delta |-> delta]
  PROVE  LET e == P.flow[R][pc]
         IN /\ e \in FlowStates /\ e.depth \in Nat /\ e.depth >= requires
            /\ Edge(P, R, Transfers(P.code, P.lex, R, pc, Kept(e, e.depth + delta)))
<1> DEFINE e == P.flow[R][pc]
           i == P.code[pc]
<1>1. i.op \notin Entering /\ i.op \notin Contextual
  OBVIOUS
<1>2. StepContexts(e.contexts, i, pc) = e.contexts
  BY <1>1, SameContexts
<1>3. /\ e \in FlowStates
      /\ ~(e.depth < StackEffect(i).requires)
      /\ Edge(P, R, Transfers(P.code, P.lex, R, pc,
                 St(e.depth + StackEffect(i).delta, e.for, e.switch, e.try, e.contexts)))
  BY <1>1, <1>2, Admitted, Zenon DEF Here
<1>4. e.depth \in Nat
  BY <1>3, Fields
<1>5. StackEffect(i).requires = requires /\ StackEffect(i).delta = delta
  OBVIOUS
<1>6. e.depth >= requires
  BY <1>3, <1>4, <1>5
<1> QED BY <1>3, <1>4, <1>5, <1>6, Zenon DEF Kept

LEMMA LoadNameLeads ==
  ASSUME NEW P, NEW R, NEW pc, Here(P, R, pc), P.code[pc].op = "LoadName",
         P.code[pc].results = 1
  PROVE  LET e == P.flow[R][pc]
             i == P.code[pc]
         IN /\ e \in FlowStates /\ e.depth >= 0
            /\ Reaches(P, R, pc + 1, Kept(e, e.depth + 1))
<1> DEFINE e == P.flow[R][pc]
           i == P.code[pc]
           o == Kept(e, e.depth + 1)
<1>1. e \in FlowStates /\ e.depth >= 0 /\ Edge(P, R, Transfers(P.code, P.lex, R, pc, o))
  <2>1. StackEffect(i) = [requires |-> 0, delta |-> 1]
    BY Effects
  <2>2. /\ e \in FlowStates /\ e.depth \in Nat /\ e.depth >= 0
        /\ Edge(P, R, Transfers(P.code, P.lex, R, pc, Kept(e, e.depth + (1))))
    BY <2>1, Plain DEF Entering, Contextual
  <2>3. e.depth + (1) = e.depth + 1
    BY <2>2
  <2> QED BY <2>2, <2>3, Zenon
<1>2. Edge(P, R, Flows(<<<<pc + 1, o>>>>))
  <2> HIDE DEF o
  <2> QED BY <1>1, Zenon DEF Transfers
<1> HIDE DEF o
<1>3. Reaches(P, R, pc + 1, o)
  BY <1>2, OneEdge
<1> QED BY <1>3, <1>1, Zenon DEF o

LEMMA StoreNameLeads ==
  ASSUME NEW P, NEW R, NEW pc, Here(P, R, pc), P.code[pc].op = "StoreName"
  PROVE  LET e == P.flow[R][pc]
             i == P.code[pc]
         IN /\ e \in FlowStates /\ e.depth >= 1
            /\ Reaches(P, R, pc + 1, Kept(e, e.depth - 1))
<1> DEFINE e == P.flow[R][pc]
           i == P.code[pc]
           o == Kept(e, e.depth - 1)
<1>1. e \in FlowStates /\ e.depth >= 1 /\ Edge(P, R, Transfers(P.code, P.lex, R, pc, o))
  <2>1. StackEffect(i) = [requires |-> 1, delta |-> -1]
    BY Effects
  <2>2. /\ e \in FlowStates /\ e.depth \in Nat /\ e.depth >= 1
        /\ Edge(P, R, Transfers(P.code, P.lex, R, pc, Kept(e, e.depth + (-1))))
    BY <2>1, Plain DEF Entering, Contextual
  <2>3. e.depth + (-1) = e.depth - 1
    BY <2>2
  <2> QED BY <2>2, <2>3, Zenon
<1>2. Edge(P, R, Flows(<<<<pc + 1, o>>>>))
  <2> HIDE DEF o
  <2> QED BY <1>1, Zenon DEF Transfers
<1> HIDE DEF o
<1>3. Reaches(P, R, pc + 1, o)
  BY <1>2, OneEdge
<1> QED BY <1>3, <1>1, Zenon DEF o

LEMMA BinaryOpLeads ==
  ASSUME NEW P, NEW R, NEW pc, Here(P, R, pc), P.code[pc].op = "BinaryOp",
         P.code[pc].operandCount = 2
  PROVE  LET e == P.flow[R][pc]
             i == P.code[pc]
         IN /\ e \in FlowStates /\ e.depth >= 2
            /\ Reaches(P, R, pc + 1, Kept(e, e.depth - 1))
<1> DEFINE e == P.flow[R][pc]
           i == P.code[pc]
           o == Kept(e, e.depth - 1)
<1>1. e \in FlowStates /\ e.depth >= 2 /\ Edge(P, R, Transfers(P.code, P.lex, R, pc, o))
  <2>1. StackEffect(i) = [requires |-> 2, delta |-> -1]
    BY Effects
  <2>2. /\ e \in FlowStates /\ e.depth \in Nat /\ e.depth >= 2
        /\ Edge(P, R, Transfers(P.code, P.lex, R, pc, Kept(e, e.depth + (-1))))
    BY <2>1, Plain DEF Entering, Contextual
  <2>3. e.depth + (-1) = e.depth - 1
    BY <2>2
  <2> QED BY <2>2, <2>3, Zenon
<1>2. Edge(P, R, Flows(<<<<pc + 1, o>>>>))
  <2> HIDE DEF o
  <2> QED BY <1>1, Zenon DEF Transfers
<1> HIDE DEF o
<1>3. Reaches(P, R, pc + 1, o)
  BY <1>2, OneEdge
<1> QED BY <1>3, <1>1, Zenon DEF o

LEMMA HandleLeads ==
  ASSUME NEW P, NEW R, NEW pc, Here(P, R, pc), P.code[pc].op = "MakeFunctionHandle"
  PROVE  LET e == P.flow[R][pc]
             i == P.code[pc]
         IN /\ e \in FlowStates /\ e.depth >= 0
            /\ Reaches(P, R, i.target, Kept(e, e.depth + 1))
<1> DEFINE e == P.flow[R][pc]
           i == P.code[pc]
           o == Kept(e, e.depth + 1)
<1>1. e \in FlowStates /\ e.depth >= 0 /\ Edge(P, R, Transfers(P.code, P.lex, R, pc, o))
  <2>1. StackEffect(i) = [requires |-> 0, delta |-> 1]
    BY Effects
  <2>2. /\ e \in FlowStates /\ e.depth \in Nat /\ e.depth >= 0
        /\ Edge(P, R, Transfers(P.code, P.lex, R, pc, Kept(e, e.depth + (1))))
    BY <2>1, Plain DEF Entering, Contextual
  <2>3. e.depth + (1) = e.depth + 1
    BY <2>2
  <2> QED BY <2>2, <2>3, Zenon
<1>2. Edge(P, R, Flows(<<<<i.target, o>>>>))
  <2> HIDE DEF o
  <2> QED BY <1>1, Zenon DEF Transfers
<1> HIDE DEF o
<1>3. Reaches(P, R, i.target, o)
  BY <1>2, OneEdge
<1> QED BY <1>3, <1>1, Zenon DEF o

LEMMA ForBeginLeads ==
  ASSUME NEW P, NEW R, NEW pc, Here(P, R, pc), P.code[pc].op = "ForBegin"
  PROVE  LET e == P.flow[R][pc]
             i == P.code[pc]
         IN /\ e \in FlowStates /\ e.depth >= 1
            /\ Reaches(P, R, pc + 1, St(e.depth - 1, Append(e.for, pc), e.switch, e.try, e.contexts))
            /\ Reaches(P, R, i.target, Kept(e, e.depth - 1))
<1> DEFINE e == P.flow[R][pc]
           i == P.code[pc]
           o == Kept(e, e.depth - 1)
<1>1. e \in FlowStates /\ e.depth >= 1 /\ Edge(P, R, Transfers(P.code, P.lex, R, pc, o))
  <2>1. StackEffect(i) = [requires |-> 1, delta |-> -1]
    BY Effects
  <2>2. /\ e \in FlowStates /\ e.depth \in Nat /\ e.depth >= 1
        /\ Edge(P, R, Transfers(P.code, P.lex, R, pc, Kept(e, e.depth + (-1))))
    BY <2>1, Plain DEF Entering, Contextual
  <2>3. e.depth + (-1) = e.depth - 1
    BY <2>2
  <2> QED BY <2>2, <2>3, Zenon
<1>2. Edge(P, R, Flows(<<<<pc + 1, [o EXCEPT !.for = Append(@, pc)]>>, <<i.target, o>>>>))
  <2> HIDE DEF o
  <2> QED BY <1>1, Zenon DEF Transfers
<1>3. [o EXCEPT !.for = Append(@, pc)] = St(e.depth - 1, Append(e.for, pc), e.switch, e.try, e.contexts)
  BY ForPushed, Zenon
<1>4. Reaches(P, R, pc + 1, [o EXCEPT !.for = Append(@, pc)]) /\ Reaches(P, R, i.target, o)
  <2> HIDE DEF o
  <2> QED BY <1>2, TwoEdges, Zenon
<1> QED BY <1>4, <1>1, <1>3, Zenon DEF Kept

LEMMA ForNextLeads ==
  ASSUME NEW P, NEW R, NEW pc, Here(P, R, pc), P.code[pc].op = "ForNext"
  PROVE  LET e == P.flow[R][pc]
             i == P.code[pc]
         IN /\ e \in FlowStates /\ e.depth >= 0
            /\ Innermost(e.for) # NoPc /\ Innermost(e.for) = Innermost(P.lex[pc].for)
            /\ Reaches(P, R, i.target, Kept(e, e.depth))
            /\ Reaches(P, R, pc + 1, St(e.depth, Front(e.for), e.switch, e.try, e.contexts))
<1> DEFINE e == P.flow[R][pc]
           i == P.code[pc]
           o == Kept(e, e.depth)
<1>1. e \in FlowStates /\ e.depth >= 0 /\ Edge(P, R, Transfers(P.code, P.lex, R, pc, o))
  <2>1. StackEffect(i) = [requires |-> 0, delta |-> 0]
    BY Effects
  <2>2. /\ e \in FlowStates /\ e.depth \in Nat /\ e.depth >= 0
        /\ Edge(P, R, Transfers(P.code, P.lex, R, pc, Kept(e, e.depth + (0))))
    BY <2>1, Plain DEF Entering, Contextual
  <2>3. e.depth + (0) = e.depth
    BY <2>2
  <2> QED BY <2>2, <2>3, Zenon
<1>2. Edge(P, R, FlowsIf(Innermost2(P, pc, "for", o["for"]),
                      <<<<i.target, o>>, <<pc + 1, [o EXCEPT !.for = Front(@)]>>>>))
  <2> HIDE DEF o
  <2> QED BY <1>1, Zenon DEF Transfers, Innermost2
<1>3. (Innermost2(P, pc, "for", o["for"])) /\ Edge(P, R, Flows(<<<<i.target, o>>, <<pc + 1, [o EXCEPT !.for = Front(@)]>>>>))
  <2> HIDE DEF o
  <2> QED BY <1>2, NotRejected, Zenon
<1>4. Innermost(e.for) # NoPc /\ Innermost(e.for) = Innermost(P.lex[pc].for)
  <2>1. o["for"] = e.for
    BY DEF Kept, St
  <2> QED BY <1>3, <2>1, Zenon DEF Innermost2
<1>5. [o EXCEPT !.for = Front(@)] = St(e.depth, Front(e.for), e.switch, e.try, e.contexts)
  <2> HIDE DEF e
  <2> QED BY DEF Kept, St
<1>6. Reaches(P, R, i.target, o) /\ Reaches(P, R, pc + 1, [o EXCEPT !.for = Front(@)])
  <2> HIDE DEF o
  <2> QED BY <1>3, TwoEdges, Zenon
<1> QED BY <1>6, <1>1, <1>4, <1>5, Zenon DEF Kept

LEMMA SwitchBeginLeads ==
  ASSUME NEW P, NEW R, NEW pc, Here(P, R, pc), P.code[pc].op = "SwitchBegin"
  PROVE  LET e == P.flow[R][pc]
             i == P.code[pc]
         IN /\ e \in FlowStates /\ e.depth >= 1
            /\ Reaches(P, R, pc + 1, St(e.depth - 1, e.for, Append(e.switch, pc), e.try, e.contexts))
<1> DEFINE e == P.flow[R][pc]
           i == P.code[pc]
           o == Kept(e, e.depth - 1)
<1>1. e \in FlowStates /\ e.depth >= 1 /\ Edge(P, R, Transfers(P.code, P.lex, R, pc, o))
  <2>1. StackEffect(i) = [requires |-> 1, delta |-> -1]
    BY Effects
  <2>2. /\ e \in FlowStates /\ e.depth \in Nat /\ e.depth >= 1
        /\ Edge(P, R, Transfers(P.code, P.lex, R, pc, Kept(e, e.depth + (-1))))
    BY <2>1, Plain DEF Entering, Contextual
  <2>3. e.depth + (-1) = e.depth - 1
    BY <2>2
  <2> QED BY <2>2, <2>3, Zenon
<1>2. Edge(P, R, Flows(<<<<pc + 1, [o EXCEPT !.switch = Append(@, pc)]>>>>))
  <2> HIDE DEF o
  <2> QED BY <1>1, Zenon DEF Transfers
<1>3. [o EXCEPT !.switch = Append(@, pc)] = St(e.depth - 1, e.for, Append(e.switch, pc), e.try, e.contexts)
  BY SwitchPushed, Zenon
<1>4. Reaches(P, R, pc + 1, [o EXCEPT !.switch = Append(@, pc)])
  <2> HIDE DEF o
  <2> QED BY <1>2, OneEdge, Zenon
<1> QED BY <1>4, <1>1, <1>3, Zenon DEF Kept

LEMMA SwitchCaseLeads ==
  ASSUME NEW P, NEW R, NEW pc, Here(P, R, pc), P.code[pc].op = "SwitchCase"
  PROVE  LET e == P.flow[R][pc]
             i == P.code[pc]
         IN /\ e \in FlowStates /\ e.depth >= 1
            /\ Innermost(e.switch) # NoPc /\ Innermost(e.switch) = Innermost(P.lex[pc].switch)
            /\ Reaches(P, R, pc + 1, Kept(e, e.depth - 1))
            /\ Reaches(P, R, i.target, Kept(e, e.depth - 1))
<1> DEFINE e == P.flow[R][pc]
           i == P.code[pc]
           o == Kept(e, e.depth - 1)
<1>1. e \in FlowStates /\ e.depth >= 1 /\ Edge(P, R, Transfers(P.code, P.lex, R, pc, o))
  <2>1. StackEffect(i) = [requires |-> 1, delta |-> -1]
    BY Effects
  <2>2. /\ e \in FlowStates /\ e.depth \in Nat /\ e.depth >= 1
        /\ Edge(P, R, Transfers(P.code, P.lex, R, pc, Kept(e, e.depth + (-1))))
    BY <2>1, Plain DEF Entering, Contextual
  <2>3. e.depth + (-1) = e.depth - 1
    BY <2>2
  <2> QED BY <2>2, <2>3, Zenon
<1>2. Edge(P, R, FlowsIf(Innermost2(P, pc, "switch", o["switch"]),
                      <<<<pc + 1, o>>, <<i.target, o>>>>))
  <2> HIDE DEF o
  <2> QED BY <1>1, Zenon DEF Transfers, Innermost2
<1>3. (Innermost2(P, pc, "switch", o["switch"])) /\ Edge(P, R, Flows(<<<<pc + 1, o>>, <<i.target, o>>>>))
  <2> HIDE DEF o
  <2> QED BY <1>2, NotRejected, Zenon
<1>4. Innermost(e.switch) # NoPc /\ Innermost(e.switch) = Innermost(P.lex[pc].switch)
  <2>1. o["switch"] = e.switch
    BY DEF Kept, St
  <2> QED BY <1>3, <2>1, Zenon DEF Innermost2
<1> HIDE DEF o
<1>5. Reaches(P, R, pc + 1, o) /\ Reaches(P, R, i.target, o)
  BY <1>3, TwoEdges
<1> QED BY <1>5, <1>1, <1>4, Zenon DEF o

LEMMA OtherwiseLeads ==
  ASSUME NEW P, NEW R, NEW pc, Here(P, R, pc), P.code[pc].op = "SwitchOtherwise"
  PROVE  LET e == P.flow[R][pc]
             i == P.code[pc]
         IN /\ e \in FlowStates /\ e.depth >= 0
            /\ Innermost(e.switch) # NoPc /\ Innermost(e.switch) = Innermost(P.lex[pc].switch)
            /\ Reaches(P, R, pc + 1, Kept(e, e.depth))
            /\ Reaches(P, R, i.target, Kept(e, e.depth))
<1> DEFINE e == P.flow[R][pc]
           i == P.code[pc]
           o == Kept(e, e.depth)
<1>1. e \in FlowStates /\ e.depth >= 0 /\ Edge(P, R, Transfers(P.code, P.lex, R, pc, o))
  <2>1. StackEffect(i) = [requires |-> 0, delta |-> 0]
    BY Effects
  <2>2. /\ e \in FlowStates /\ e.depth \in Nat /\ e.depth >= 0
        /\ Edge(P, R, Transfers(P.code, P.lex, R, pc, Kept(e, e.depth + (0))))
    BY <2>1, Plain DEF Entering, Contextual
  <2>3. e.depth + (0) = e.depth
    BY <2>2
  <2> QED BY <2>2, <2>3, Zenon
<1>2. Edge(P, R, FlowsIf(Innermost2(P, pc, "switch", o["switch"]),
                      <<<<pc + 1, o>>, <<i.target, o>>>>))
  <2> HIDE DEF o
  <2> QED BY <1>1, Zenon DEF Transfers, Innermost2
<1>3. (Innermost2(P, pc, "switch", o["switch"])) /\ Edge(P, R, Flows(<<<<pc + 1, o>>, <<i.target, o>>>>))
  <2> HIDE DEF o
  <2> QED BY <1>2, NotRejected, Zenon
<1>4. Innermost(e.switch) # NoPc /\ Innermost(e.switch) = Innermost(P.lex[pc].switch)
  <2>1. o["switch"] = e.switch
    BY DEF Kept, St
  <2> QED BY <1>3, <2>1, Zenon DEF Innermost2
<1> HIDE DEF o
<1>5. Reaches(P, R, pc + 1, o) /\ Reaches(P, R, i.target, o)
  BY <1>3, TwoEdges
<1> QED BY <1>5, <1>1, <1>4, Zenon DEF o

LEMMA SwitchEndLeads ==
  ASSUME NEW P, NEW R, NEW pc, Here(P, R, pc), P.code[pc].op = "SwitchEnd"
  PROVE  LET e == P.flow[R][pc]
             i == P.code[pc]
         IN /\ e \in FlowStates /\ e.depth >= 0
            /\ Innermost(e.switch) # NoPc /\ Innermost(e.switch) = Innermost(P.lex[pc].switch)
            /\ Reaches(P, R, pc + 1, St(e.depth, e.for, Front(e.switch), e.try, e.contexts))
<1> DEFINE e == P.flow[R][pc]
           i == P.code[pc]
           o == Kept(e, e.depth)
<1>1. e \in FlowStates /\ e.depth >= 0 /\ Edge(P, R, Transfers(P.code, P.lex, R, pc, o))
  <2>1. StackEffect(i) = [requires |-> 0, delta |-> 0]
    BY Effects
  <2>2. /\ e \in FlowStates /\ e.depth \in Nat /\ e.depth >= 0
        /\ Edge(P, R, Transfers(P.code, P.lex, R, pc, Kept(e, e.depth + (0))))
    BY <2>1, Plain DEF Entering, Contextual
  <2>3. e.depth + (0) = e.depth
    BY <2>2
  <2> QED BY <2>2, <2>3, Zenon
<1>2. Edge(P, R, FlowsIf(Innermost2(P, pc, "switch", o["switch"]),
                      <<<<pc + 1, [o EXCEPT !.switch = Front(@)]>>>>))
  <2> HIDE DEF o
  <2> QED BY <1>1, Zenon DEF Transfers, Innermost2
<1>3. (Innermost2(P, pc, "switch", o["switch"])) /\ Edge(P, R, Flows(<<<<pc + 1, [o EXCEPT !.switch = Front(@)]>>>>))
  <2> HIDE DEF o
  <2> QED BY <1>2, NotRejected, Zenon
<1>4. Innermost(e.switch) # NoPc /\ Innermost(e.switch) = Innermost(P.lex[pc].switch)
  <2>1. o["switch"] = e.switch
    BY DEF Kept, St
  <2> QED BY <1>3, <2>1, Zenon DEF Innermost2
<1>5. [o EXCEPT !.switch = Front(@)] = St(e.depth, e.for, Front(e.switch), e.try, e.contexts)
  <2> HIDE DEF e
  <2> QED BY DEF Kept, St
<1>6. Reaches(P, R, pc + 1, [o EXCEPT !.switch = Front(@)])
  <2> HIDE DEF o
  <2> QED BY <1>3, OneEdge, Zenon
<1> QED BY <1>6, <1>1, <1>4, <1>5, Zenon DEF Kept

LEMMA TryBeginLeads ==
  ASSUME NEW P, NEW R, NEW pc, Here(P, R, pc), P.code[pc].op = "TryBegin"
  PROVE  LET e == P.flow[R][pc]
             i == P.code[pc]
         IN /\ e \in FlowStates /\ e.depth >= 0
            /\ Reaches(P, R, pc + 1, St(e.depth, e.for, e.switch, Append(e.try, pc), e.contexts))
            /\ Reaches(P, R, i.target, Kept(e, e.depth))
<1> DEFINE e == P.flow[R][pc]
           i == P.code[pc]
           o == Kept(e, e.depth)
<1>1. e \in FlowStates /\ e.depth >= 0 /\ Edge(P, R, Transfers(P.code, P.lex, R, pc, o))
  <2>1. StackEffect(i) = [requires |-> 0, delta |-> 0]
    BY Effects
  <2>2. /\ e \in FlowStates /\ e.depth \in Nat /\ e.depth >= 0
        /\ Edge(P, R, Transfers(P.code, P.lex, R, pc, Kept(e, e.depth + (0))))
    BY <2>1, Plain DEF Entering, Contextual
  <2>3. e.depth + (0) = e.depth
    BY <2>2
  <2> QED BY <2>2, <2>3, Zenon
<1>2. Edge(P, R, Flows(<<<<pc + 1, [o EXCEPT !.try = Append(@, pc)]>>, <<i.target, o>>>>))
  <2> HIDE DEF o
  <2> QED BY <1>1, Zenon DEF Transfers
<1>3. [o EXCEPT !.try = Append(@, pc)] = St(e.depth, e.for, e.switch, Append(e.try, pc), e.contexts)
  <2> HIDE DEF e
  <2> QED BY SMTT(30) DEF Kept, St
<1>4. Reaches(P, R, pc + 1, [o EXCEPT !.try = Append(@, pc)]) /\ Reaches(P, R, i.target, o)
  <2> HIDE DEF o
  <2> QED BY <1>2, TwoEdges, Zenon
<1> QED BY <1>4, <1>1, <1>3, Zenon DEF Kept

LEMMA TryEndLeads ==
  ASSUME NEW P, NEW R, NEW pc, Here(P, R, pc), P.code[pc].op = "TryEnd"
  PROVE  LET e == P.flow[R][pc]
             i == P.code[pc]
         IN /\ e \in FlowStates /\ e.depth >= 0
            /\ Innermost(e.try) # NoPc /\ Innermost(e.try) = Innermost(P.lex[pc].try)
            /\ Reaches(P, R, i.target, St(e.depth, e.for, e.switch, Front(e.try), e.contexts))
<1> DEFINE e == P.flow[R][pc]
           i == P.code[pc]
           o == Kept(e, e.depth)
<1>1. e \in FlowStates /\ e.depth >= 0 /\ Edge(P, R, Transfers(P.code, P.lex, R, pc, o))
  <2>1. StackEffect(i) = [requires |-> 0, delta |-> 0]
    BY Effects
  <2>2. /\ e \in FlowStates /\ e.depth \in Nat /\ e.depth >= 0
        /\ Edge(P, R, Transfers(P.code, P.lex, R, pc, Kept(e, e.depth + (0))))
    BY <2>1, Plain DEF Entering, Contextual
  <2>3. e.depth + (0) = e.depth
    BY <2>2
  <2> QED BY <2>2, <2>3, Zenon
<1>2. Edge(P, R, FlowsIf(Innermost2(P, pc, "try", o["try"]),
                      <<<<i.target, [o EXCEPT !.try = Front(@)]>>>>))
  <2> HIDE DEF o
  <2> QED BY <1>1, Zenon DEF Transfers, Innermost2
<1>3. (Innermost2(P, pc, "try", o["try"])) /\ Edge(P, R, Flows(<<<<i.target, [o EXCEPT !.try = Front(@)]>>>>))
  <2> HIDE DEF o
  <2> QED BY <1>2, NotRejected, Zenon
<1>4. Innermost(e.try) # NoPc /\ Innermost(e.try) = Innermost(P.lex[pc].try)
  <2>1. o["try"] = e.try
    BY DEF Kept, St
  <2> QED BY <1>3, <2>1, Zenon DEF Innermost2
<1>5. [o EXCEPT !.try = Front(@)] = St(e.depth, e.for, e.switch, Front(e.try), e.contexts)
  <2> HIDE DEF e
  <2> QED BY DEF Kept, St
<1>6. Reaches(P, R, i.target, [o EXCEPT !.try = Front(@)])
  <2> HIDE DEF o
  <2> QED BY <1>3, OneEdge, Zenon
<1> QED BY <1>6, <1>1, <1>4, <1>5, Zenon DEF Kept

LEMMA JumpLeads ==
  ASSUME NEW P, NEW R, NEW pc, Here(P, R, pc), P.code[pc].op = "Jump"
  PROVE  LET e == P.flow[R][pc]
             i == P.code[pc]
         IN /\ e \in FlowStates /\ e.depth >= 0
            /\ Reaches(P, R, i.target, St(e.depth, e.for, Cut(P, R, e.switch, "switch", i.target),
                           Cut(P, R, e.try, "try", i.target), e.contexts))
<1> DEFINE e == P.flow[R][pc]
           i == P.code[pc]
           o == Kept(e, e.depth)
<1>1. e \in FlowStates /\ e.depth >= 0 /\ Edge(P, R, Transfers(P.code, P.lex, R, pc, o))
  <2>1. StackEffect(i) = [requires |-> 0, delta |-> 0]
    BY Effects
  <2>2. /\ e \in FlowStates /\ e.depth \in Nat /\ e.depth >= 0
        /\ Edge(P, R, Transfers(P.code, P.lex, R, pc, Kept(e, e.depth + (0))))
    BY <2>1, Plain DEF Entering, Contextual
  <2>3. e.depth + (0) = e.depth
    BY <2>2
  <2> QED BY <2>2, <2>3, Zenon
<1>2. Edge(P, R, Flows(<<<<i.target, UnwindFor(P.lex, o, i.target, R)>>>>))
  <2> HIDE DEF o
  <2> QED BY <1>1, Zenon DEF Transfers
<1>3. UnwindFor(P.lex, St(e.depth, e.for, e.switch, e.try, e.contexts), i.target, R) =
        St(e.depth, e.for, Cut(P, R, e.switch, "switch", i.target),
                           Cut(P, R, e.try, "try", i.target), e.contexts)
  BY UnwoundOf
<1>4. Reaches(P, R, i.target, UnwindFor(P.lex, o, i.target, R))
  <2> HIDE DEF o
  <2> QED BY <1>2, OneEdge, Zenon
<1> QED BY <1>4, <1>1, <1>3, Zenon DEF Kept

LEMMA JumpIfFalseLeads ==
  ASSUME NEW P, NEW R, NEW pc, Here(P, R, pc), P.code[pc].op = "JumpIfFalse"
  PROVE  LET e == P.flow[R][pc]
             i == P.code[pc]
         IN /\ e \in FlowStates /\ e.depth >= 1
            /\ Reaches(P, R, pc + 1, Kept(e, e.depth - 1))
            /\ Reaches(P, R, i.target, St(e.depth - 1, e.for, Cut(P, R, e.switch, "switch", i.target),
                           Cut(P, R, e.try, "try", i.target), e.contexts))
<1> DEFINE e == P.flow[R][pc]
           i == P.code[pc]
           o == Kept(e, e.depth - 1)
<1>1. e \in FlowStates /\ e.depth >= 1 /\ Edge(P, R, Transfers(P.code, P.lex, R, pc, o))
  <2>1. StackEffect(i) = [requires |-> 1, delta |-> -1]
    BY Effects
  <2>2. /\ e \in FlowStates /\ e.depth \in Nat /\ e.depth >= 1
        /\ Edge(P, R, Transfers(P.code, P.lex, R, pc, Kept(e, e.depth + (-1))))
    BY <2>1, Plain DEF Entering, Contextual
  <2>3. e.depth + (-1) = e.depth - 1
    BY <2>2
  <2> QED BY <2>2, <2>3, Zenon
<1>2. Edge(P, R, Flows(<<<<pc + 1, o>>, <<i.target, UnwindFor(P.lex, o, i.target, R)>>>>))
  <2> HIDE DEF o
  <2> QED BY <1>1, Zenon DEF Transfers
<1>3. UnwindFor(P.lex, St(e.depth - 1, e.for, e.switch, e.try, e.contexts), i.target, R) =
        St(e.depth - 1, e.for, Cut(P, R, e.switch, "switch", i.target),
                           Cut(P, R, e.try, "try", i.target), e.contexts)
  BY UnwoundOf
<1>4. Reaches(P, R, pc + 1, o) /\ Reaches(P, R, i.target, UnwindFor(P.lex, o, i.target, R))
  <2> HIDE DEF o
  <2> QED BY <1>2, TwoEdges, Zenon
<1> QED BY <1>4, <1>1, <1>3, Zenon DEF Kept

LEMMA BreakLeads ==
  ASSUME NEW P, NEW R, NEW pc, Here(P, R, pc), P.code[pc].op = "Break"
  PROVE  LET e == P.flow[R][pc]
             i == P.code[pc]
         IN /\ e \in FlowStates /\ e.depth >= 0
            /\ e.for # <<>>
            /\ Reaches(P, R, i.target, St(e.depth, Front(e.for), Cut(P, R, e.switch, "switch", i.target),
                           Cut(P, R, e.try, "try", i.target), e.contexts))
<1> DEFINE e == P.flow[R][pc]
           i == P.code[pc]
           o == Kept(e, e.depth)
<1>1. e \in FlowStates /\ e.depth >= 0 /\ Edge(P, R, Transfers(P.code, P.lex, R, pc, o))
  <2>1. StackEffect(i) = [requires |-> 0, delta |-> 0]
    BY Effects
  <2>2. /\ e \in FlowStates /\ e.depth \in Nat /\ e.depth >= 0
        /\ Edge(P, R, Transfers(P.code, P.lex, R, pc, Kept(e, e.depth + (0))))
    BY <2>1, Plain DEF Entering, Contextual
  <2>3. e.depth + (0) = e.depth
    BY <2>2
  <2> QED BY <2>2, <2>3, Zenon
<1>2. Edge(P, R, FlowsIf(o.for # <<>>,
                      <<<<i.target, UnwindFor(P.lex, [o EXCEPT !.for = Front(@)], i.target, R)>>>>))
  <2> HIDE DEF o
  <2> QED BY <1>1, Zenon DEF Transfers
<1>3. (o.for # <<>>) /\ Edge(P, R, Flows(<<<<i.target, UnwindFor(P.lex, [o EXCEPT !.for = Front(@)], i.target, R)>>>>))
  <2> HIDE DEF o
  <2> QED BY <1>2, NotRejected, Zenon
<1>4. e.for # <<>>
  <2>1. o.for = e.for
    BY DEF Kept, St
  <2> QED BY <1>3, <2>1, Zenon DEF Innermost2
<1>5. [o EXCEPT !.for = Front(@)] = St(e.depth, Front(e.for), e.switch, e.try, e.contexts)
  <2> HIDE DEF e
  <2> QED BY DEF Kept, St
<1>6. UnwindFor(P.lex, St(e.depth, Front(e.for), e.switch, e.try, e.contexts), i.target, R) =
        St(e.depth, Front(e.for), Cut(P, R, e.switch, "switch", i.target),
                           Cut(P, R, e.try, "try", i.target), e.contexts)
  BY UnwoundOf
<1>7. Reaches(P, R, i.target, UnwindFor(P.lex, [o EXCEPT !.for = Front(@)], i.target, R))
  <2> HIDE DEF o
  <2> QED BY <1>3, OneEdge, Zenon
<1> QED BY <1>7, <1>1, <1>4, <1>5, <1>6, Zenon DEF Kept

LEMMA ContinueLeads ==
  ASSUME NEW P, NEW R, NEW pc, Here(P, R, pc), P.code[pc].op = "Continue"
  PROVE  LET e == P.flow[R][pc]
             i == P.code[pc]
         IN /\ e \in FlowStates /\ e.depth >= 0
            /\ e.for # <<>>
            /\ Reaches(P, R, i.target, St(e.depth, e.for, Cut(P, R, e.switch, "switch", i.target),
                           Cut(P, R, e.try, "try", i.target), e.contexts))
<1> DEFINE e == P.flow[R][pc]
           i == P.code[pc]
           o == Kept(e, e.depth)
<1>1. e \in FlowStates /\ e.depth >= 0 /\ Edge(P, R, Transfers(P.code, P.lex, R, pc, o))
  <2>1. StackEffect(i) = [requires |-> 0, delta |-> 0]
    BY Effects
  <2>2. /\ e \in FlowStates /\ e.depth \in Nat /\ e.depth >= 0
        /\ Edge(P, R, Transfers(P.code, P.lex, R, pc, Kept(e, e.depth + (0))))
    BY <2>1, Plain DEF Entering, Contextual
  <2>3. e.depth + (0) = e.depth
    BY <2>2
  <2> QED BY <2>2, <2>3, Zenon
<1>2. Edge(P, R, FlowsIf(o.for # <<>> /\ i.target = ClosedBy(P.code, P.lex, "for", Last(o.for)),
                      <<<<i.target, UnwindFor(P.lex, o, i.target, R)>>>>))
  <2> HIDE DEF o
  <2> QED BY <1>1, Zenon DEF Transfers
<1>3. (o.for # <<>> /\ i.target = ClosedBy(P.code, P.lex, "for", Last(o.for))) /\ Edge(P, R, Flows(<<<<i.target, UnwindFor(P.lex, o, i.target, R)>>>>))
  <2> HIDE DEF o
  <2> QED BY <1>2, NotRejected, Zenon
<1>4. e.for # <<>>
  <2>1. o.for = e.for
    BY DEF Kept, St
  <2> QED BY <1>3, <2>1, Zenon DEF Innermost2
<1>5. UnwindFor(P.lex, St(e.depth, e.for, e.switch, e.try, e.contexts), i.target, R) =
        St(e.depth, e.for, Cut(P, R, e.switch, "switch", i.target),
                           Cut(P, R, e.try, "try", i.target), e.contexts)
  BY UnwoundOf
<1>6. Reaches(P, R, i.target, UnwindFor(P.lex, o, i.target, R))
  <2> HIDE DEF o
  <2> QED BY <1>3, OneEdge, Zenon
<1> QED BY <1>6, <1>1, <1>4, <1>5, Zenon DEF Kept

LEMMA ReturnLeads ==
  ASSUME NEW P, NEW R, NEW pc, Here(P, R, pc), P.code[pc].op = "Return"
  PROVE  LET e == P.flow[R][pc]
         IN e \in FlowStates /\ e.depth = R.depth /\ e.contexts = NoContexts
<1> DEFINE e == P.flow[R][pc]
           i == P.code[pc]
           o == Kept(e, e.depth)
<1>1. e \in FlowStates /\ Edge(P, R, Transfers(P.code, P.lex, R, pc, o))
  <2>1. StackEffect(i) = [requires |-> 0, delta |-> 0]
    BY Effects
  <2>2. /\ e \in FlowStates /\ e.depth \in Nat
        /\ Edge(P, R, Transfers(P.code, P.lex, R, pc, Kept(e, e.depth + 0)))
    BY <2>1, Plain DEF Entering, Contextual
  <2>3. e.depth + 0 = e.depth
    BY <2>2
  <2> QED BY <2>2, <2>3, Zenon
<1>2. Edge(P, R, FlowsIf(o.depth = R.depth /\ o.contexts = NoContexts, <<>>))
  <2> HIDE DEF o
  <2> QED BY <1>1, Zenon DEF Transfers
<1>3. o.depth = R.depth /\ o.contexts = NoContexts
  <2> HIDE DEF o
  <2> QED BY <1>2, NotRejected, Zenon
<1>4. o.depth = e.depth /\ o.contexts = e.contexts
  BY DEF Kept, St
<1> QED BY <1>1, <1>3, <1>4, Zenon

LEMMA BoundaryLeads ==
  ASSUME NEW P, NEW R, NEW pc, Here(P, R, pc)
  PROVE  LET e == P.flow[R][pc]
             i == P.code[pc]
         IN /\ e \in FlowStates
            /\ i.op = "EnterFunction" =>
                 Reaches(P, R, ClosedBy(P.code, P.lex, "boundary", pc) + 1, e)
            /\ i.op = "EnterArgumentDefault" => Reaches(P, R, i.target, e)
            /\ i.op \in {"EnterModule", "LeaveModule"} => Reaches(P, R, pc + 1, e)
<1> DEFINE e == P.flow[R][pc]
           i == P.code[pc]
<1>1. Edge(P, R, Edges(P.code, P.lex, R, pc, e)) /\ e \in FlowStates
  BY FlowEdges, Zenon DEF Here
<1>2. ASSUME i.op = "EnterFunction" PROVE Reaches(P, R, ClosedBy(P.code, P.lex, "boundary", pc) + 1, e)
  <2>1. Edges(P.code, P.lex, R, pc, e) = Flows(<<<<ClosedBy(P.code, P.lex, "boundary", pc) + 1, e>>>>)
    BY <1>2, Zenon DEF Edges
  <2> QED BY <1>1, <2>1, OneEdge
<1>3. ASSUME i.op = "EnterArgumentDefault" PROVE Reaches(P, R, i.target, e)
  <2>1. Edges(P.code, P.lex, R, pc, e) = Flows(<<<<i.target, e>>>>)
    BY <1>3, Zenon DEF Edges
  <2> QED BY <1>1, <2>1, OneEdge
<1>4. ASSUME i.op \in {"EnterModule", "LeaveModule"} PROVE Reaches(P, R, pc + 1, e)
  <2>1. StackEffect(i) = [requires |-> 0, delta |-> 0]
    BY <1>4, Effects
  <2>2. i.op \notin Entering \cup Contextual
    BY <1>4 DEF Entering, Contextual
  <2>3. e.depth \in Nat /\ Edge(P, R, Transfers(P.code, P.lex, R, pc, Kept(e, e.depth + 0)))
    BY <2>1, <2>2, Plain
  <2>4. Kept(e, e.depth + 0) = e
    <3>1. e.depth + 0 = e.depth
      BY <2>3
    <3> QED BY <3>1, <1>1, Fields, Zenon DEF Kept
  <2>5. Edge(P, R, Flows(<<<<pc + 1, e>>>>))
    BY <1>4, <2>3, <2>4, Zenon DEF Transfers
  <2> QED BY <2>5, OneEdge
<1> QED BY <1>1, <1>2, <1>3, <1>4, Zenon

(* The index and lvalue contexts that an instruction may run in, and leaves.  *)
ContextSet == [idxs : Seq(Indexes), lvals : Seq(Places)]

LEMMA TotalsOf ==
  ASSUME NEW s \in Seq(Indexes)
  PROVE  /\ Totals(s) \in Seq(Nat) /\ Len(Totals(s)) = Len(s)
         /\ \A i \in 1 .. Len(s) : Totals(s)[i] = s[i].total
         /\ \A x \in Indexes : Totals(Append(s, x)) = Append(Totals(s), x.total)
         /\ s # <<>> => /\ Front(s) \in Seq(Indexes) /\ Totals(Front(s)) = Front(Totals(s))
                        /\ Totals(s) # <<>>
                        /\ Last(s) \in Indexes
                        /\ \A x \in Indexes : x.total = Last(s).total => Totals(WithLast(s, x)) = Totals(s)
<1>1. Len(s) \in Nat /\ DOMAIN s = 1 .. Len(s) /\ \A i \in 1 .. Len(s) : s[i] \in Indexes
  OBVIOUS
<1>2. Totals(s) = [i \in 1 .. Len(s) |-> s[i].total]
  BY <1>1 DEF Totals
<1>3. \A i \in 1 .. Len(s) : s[i].total \in Nat
  BY <1>1 DEF Indexes
<1>4. Totals(s) \in Seq(Nat) /\ Len(Totals(s)) = Len(s)
  BY <1>1, <1>2, <1>3
<1>5. \A i \in 1 .. Len(s) : Totals(s)[i] = s[i].total
  BY <1>2
<1>6. ASSUME NEW x \in Indexes PROVE Totals(Append(s, x)) = Append(Totals(s), x.total)
  <2> DEFINE t == Append(s, x)
             u == Append(Totals(s), x.total)
  <2>1. x.total \in Nat
    BY DEF Indexes
  <2>2. DOMAIN t = 1 .. Len(s) + 1 /\ t[Len(s) + 1] = x /\ \A i \in 1 .. Len(s) : t[i] = s[i]
    BY <1>1
  <2>3. Totals(t) = [i \in 1 .. Len(s) + 1 |-> t[i].total]
    BY <2>2 DEF Totals
  <2>4. u \in Seq(Nat) /\ Len(u) = Len(s) + 1 /\ u[Len(s) + 1] = x.total
        /\ \A i \in 1 .. Len(s) : u[i] = s[i].total
    <3> HIDE DEF t
    <3> QED BY <1>1, <1>4, <1>5, <2>1
  <2>5. u = [i \in 1 .. Len(s) + 1 |-> u[i]]
    BY <2>4
  <2>6. \A i \in 1 .. Len(s) + 1 : t[i].total = u[i]
    <3> HIDE DEF t, u
    <3>1. \A i \in 1 .. Len(s) + 1 : i \in 1 .. Len(s) \/ i = Len(s) + 1
      BY <1>1
    <3> QED BY <2>2, <2>4, <3>1
  <2> HIDE DEF t, u
  <2> QED BY <2>3, <2>5, <2>6 DEF t, u
<1>7. ASSUME s # <<>>
      PROVE  /\ Front(s) \in Seq(Indexes) /\ Totals(Front(s)) = Front(Totals(s))
             /\ Totals(s) # <<>>
             /\ Last(s) \in Indexes
             /\ \A x \in Indexes : x.total = Last(s).total => Totals(WithLast(s, x)) = Totals(s)
  <2>1. Len(s) >= 1 /\ Len(s) \in 1 .. Len(s)
    BY <1>1, <1>7
  <2>2. Front(s) \in Seq(Indexes) /\ DOMAIN Front(s) = 1 .. Len(s) - 1
        /\ \A i \in 1 .. Len(s) - 1 : Front(s)[i] = s[i]
    BY <1>1, <2>1 DEF Front
  <2>3. Front(Totals(s)) = [i \in 1 .. Len(s) - 1 |-> s[i].total]
    <3> DEFINE t == Totals(s)
    <3>1. t \in Seq(Nat) /\ Len(t) = Len(s) /\ \A i \in 1 .. Len(s) : t[i] = s[i].total
      BY <1>4, <1>5
    <3> HIDE DEF t
    <3>2. SubSeq(t, 1, Len(t) - 1) = [i \in 1 .. Len(s) - 1 |-> t[i]]
      BY <3>1, <2>1, <1>1
    <3>3. \A i \in 1 .. Len(s) - 1 : t[i] = s[i].total
      BY <3>1, <1>1
    <3> QED BY <3>2, <3>3 DEF Front, t
  <2>4. Totals(Front(s)) = [i \in 1 .. Len(s) - 1 |-> s[i].total]
    BY <2>2 DEF Totals
  <2>5. Last(s) \in Indexes
    BY <1>1, <2>1 DEF Last
  <2>6. ASSUME NEW x \in Indexes, x.total = Last(s).total PROVE Totals(WithLast(s, x)) = Totals(s)
    <3> DEFINE t == WithLast(s, x)
    <3>1. DOMAIN t = 1 .. Len(s) /\ t[Len(s)] = x /\ \A i \in 1 .. Len(s) : i # Len(s) => t[i] = s[i]
      BY <1>1, <2>1 DEF WithLast
    <3> HIDE DEF t
    <3>2. \A i \in 1 .. Len(s) : t[i].total = s[i].total
      BY <3>1, <2>6 DEF Last
    <3>3. Totals(t) = [i \in 1 .. Len(s) |-> t[i].total]
      BY <3>1 DEF Totals
    <3> QED BY <3>2, <3>3, <1>2 DEF t
  <2>7. Totals(s) # <<>>
    BY <1>4, <2>1
  <2> QED BY <2>2, <2>3, <2>4, <2>5, <2>6, <2>7
<1> QED BY <1>4, <1>5, <1>6, <1>7

LEMMA ContextStep ==
  ASSUME NEW P, NEW R, NEW pc, Here(P, R, pc), P.code[pc].op \in Contextual,
         NEW requires \in Nat, NEW delta \in Int,
         StackEffect(P.code[pc]) = [requires |-> requires, delta |-> delta]
  PROVE  LET e == P.flow[R][pc]
             c == StepContexts(e.contexts, P.code[pc], pc)
         IN /\ e \in FlowStates /\ e.depth \in Nat /\ e.depth >= requires
            /\ c # None
            /\ P.code[pc].op = "BeginLvalueIndexContext" => c.lvals # <<>>
            /\ Reaches(P, R, pc + 1, St(e.depth + delta, e.for, e.switch, e.try, c))
<1> DEFINE e == P.flow[R][pc]
           i == P.code[pc]
           c == StepContexts(e.contexts, i, pc)
           o == St(e.depth + delta, e.for, e.switch, e.try, c)
<1>1. i.op \notin Entering
  BY DEF Contextual, Entering
<1>2. /\ e \in FlowStates
      /\ ~(e.depth < StackEffect(i).requires)
      /\ c # None
      /\ i.op = "BeginLvalueIndexContext" => c.lvals # <<>>
      /\ Edge(P, R, Transfers(P.code, P.lex, R, pc,
                 St(e.depth + StackEffect(i).delta, e.for, e.switch, e.try, c)))
  BY <1>1, Admitted, Zenon DEF Here
<1>3. StackEffect(i).requires = requires /\ StackEffect(i).delta = delta
  OBVIOUS
<1>4. e.depth \in Nat
  BY <1>2, Fields
<1>5. e.depth >= requires
  BY <1>2, <1>3, <1>4
<1>6. Edge(P, R, Transfers(P.code, P.lex, R, pc, o))
  BY <1>2, <1>3, Zenon
<1>7. Transfers(P.code, P.lex, R, pc, o) = Flows(<<<<pc + 1, o>>>>)
  <2> HIDE DEF o
  <2>1. i.op \notin {"Jump", "JumpIfFalse", "SwitchCase", "SwitchOtherwise", "ForBegin", "ForNext",
                     "Break", "Continue", "SwitchBegin", "SwitchEnd", "TryBegin", "TryEnd", "Return",
                     "MakeFunctionHandle"}
    BY DEF Contextual
  <2> QED BY <2>1, Zenon DEF Transfers
<1> HIDE DEF o
<1>8. Reaches(P, R, pc + 1, o)
  BY <1>6, <1>7, OneEdge
<1> QED BY <1>2, <1>4, <1>5, <1>8, Zenon DEF o

LEMMA ContextFields ==
  ASSUME NEW c \in ContextSet
  PROVE  /\ c = [idxs |-> c.idxs, lvals |-> c.lvals]
         /\ c.idxs \in Seq(Indexes) /\ c.lvals \in Seq(Places)
         /\ \A x : /\ [c EXCEPT !.idxs = x].idxs = x /\ [c EXCEPT !.idxs = x].lvals = c.lvals
                   /\ [c EXCEPT !.lvals = x].idxs = c.idxs /\ [c EXCEPT !.lvals = x].lvals = x
BY DEF ContextSet

LEMMA OpenedIndexes ==
  ASSUME NEW P, NEW R, NEW pc, Here(P, R, pc),
         P.code[pc].op \in {"BeginIndexContext", "BeginLvalueIndexContext"}
  PROVE  LET e == P.flow[R][pc]
             i == P.code[pc]
         IN /\ e \in FlowStates
            /\ i.op = "BeginIndexContext" => e.depth >= 1
            /\ i.op = "BeginLvalueIndexContext" => e.contexts.lvals # <<>>
            /\ \E c : /\ Reaches(P, R, pc + 1, St(e.depth, e.for, e.switch, e.try, c))
                      /\ Totals(c.idxs) = Append(Totals(e.contexts.idxs), i.operandCount)
                      /\ Len(c.lvals) = Len(e.contexts.lvals)
<1> DEFINE e == P.flow[R][pc]
           i == P.code[pc]
           c == StepContexts(e.contexts, i, pc)
           need == IF i.op = "BeginIndexContext" THEN 1 ELSE 0
           opened == [lvalue |-> i.op = "BeginLvalueIndexContext", pc |-> pc,
                      total |-> i.operandCount, next |-> 0]
<1>1. StackEffect(i) = [requires |-> need, delta |-> 0]
  BY Effects
<1>2. i.op \in Contextual /\ need \in Nat
  BY DEF Contextual
<1>3. /\ e \in FlowStates /\ e.depth \in Nat /\ e.depth >= need
      /\ i.op = "BeginLvalueIndexContext" => c.lvals # <<>>
      /\ Reaches(P, R, pc + 1, St(e.depth + 0, e.for, e.switch, e.try, c))
  <2> HIDE DEF need
  <2> QED BY <1>1, <1>2, ContextStep
<1>4. e.contexts \in ContextSet
  BY <1>3, Fields DEF ContextSet
<1>5. c = [e.contexts EXCEPT !.idxs = Append(@, opened)]
  <2>1. CASE i.op = "BeginIndexContext"
    BY <2>1, Zenon DEF StepContexts, ClosesIndex, ClosesLvalueIndex
  <2>2. CASE i.op = "BeginLvalueIndexContext"
    BY <2>2, Zenon DEF StepContexts, ClosesIndex, ClosesLvalueIndex
  <2> QED BY <2>1, <2>2
<1>6. c.idxs = Append(e.contexts.idxs, opened) /\ c.lvals = e.contexts.lvals
  BY <1>4, <1>5, ContextFields, Zenon
<1>7. opened \in Indexes /\ opened.total = i.operandCount
  <2>1. pc \in Nat /\ i \in Instructions
    <3>1. pc \in DOMAIN P.code /\ pc \in Nat
      BY RangeBounds DEF Here, Known
    <3> QED BY <3>1, PreparedCode DEF Here
  <2>2. i.operandCount \in Nat
    BY <2>1 DEF Instructions
  <2> QED BY <2>1, <2>2 DEF Indexes
<1>8. Totals(c.idxs) = Append(Totals(e.contexts.idxs), i.operandCount)
  <2> HIDE DEF opened, c
  <2>1. e.contexts.idxs \in Seq(Indexes)
    BY <1>4, ContextFields
  <2>2. Totals(Append(e.contexts.idxs, opened)) = Append(Totals(e.contexts.idxs), opened.total)
    BY <1>7, <2>1, TotalsOf
  <2> QED BY <1>6, <1>7, <2>2, Zenon
<1>9. e.depth + 0 = e.depth
  BY <1>3
<1>10. Reaches(P, R, pc + 1, St(e.depth, e.for, e.switch, e.try, c))
  BY <1>3, <1>9, Zenon
<1>11. i.op = "BeginIndexContext" => e.depth >= 1
  BY <1>3
<1>12. i.op = "BeginLvalueIndexContext" => e.contexts.lvals # <<>>
  BY <1>3, <1>6, Zenon
<1>13. Len(c.lvals) = Len(e.contexts.lvals)
  BY <1>6, Zenon
<1> HIDE DEF c
<1> QED BY <1>3, <1>8, <1>10, <1>11, <1>12, <1>13, Zenon

LEMMA FrontLength ==
  ASSUME NEW S, NEW s \in Seq(S), s # <<>>
  PROVE  /\ Len(s) \in Nat /\ Len(s) > 0
         /\ Front(s) \in Seq(S) /\ Len(Front(s)) = Len(s) - 1
         /\ \A i \in 1 .. Len(s) - 1 : Front(s)[i] = s[i]
<1>1. Len(s) \in Nat \ {0} /\ \A i \in 1 .. Len(s) : s[i] \in S
  BY EmptySeq, ElementOfSeq, LenProperties
<1> DEFINE n == Len(s) - 1
<1>2. n \in Nat /\ n + 1 = Len(s) /\ \A i \in 1 .. n : s[i] \in S
  BY <1>1
<1>3. Front(s) = SubSeq(s, 1, n)
  BY DEF Front
<1> HIDE DEF n
<1>4. /\ SubSeq(s, 1, n) \in Seq(S)
      /\ Len(SubSeq(s, 1, n)) = IF 1 <= n THEN n - 1 + 1 ELSE 0
      /\ \A i \in 1 .. n - 1 + 1 : SubSeq(s, 1, n)[i] = s[1 + i - 1]
  BY <1>2, SubSeqProperties
<1>5. Len(SubSeq(s, 1, n)) = n
  BY <1>2, <1>4
<1>6. \A i \in 1 .. n : SubSeq(s, 1, n)[i] = s[i]
  BY <1>2, <1>4
<1> QED BY <1>1, <1>2, <1>3, <1>4, <1>5, <1>6 DEF n

LEMMA IndexArgument ==
  ASSUME NEW P, NEW R, NEW pc, Here(P, R, pc), P.code[pc].op = "BeginIndexArgument"
  PROVE  LET e == P.flow[R][pc]
         IN /\ e \in FlowStates
            /\ Totals(e.contexts.idxs) # <<>>
            /\ \E c : /\ Reaches(P, R, pc + 1, St(e.depth, e.for, e.switch, e.try, c))
                      /\ Totals(c.idxs) = Totals(e.contexts.idxs)
                      /\ Len(c.lvals) = Len(e.contexts.lvals)
<1> DEFINE e == P.flow[R][pc]
           i == P.code[pc]
           s == e.contexts.idxs
           index == Last(s)
           further == [index EXCEPT !.next = @ + 1]
           c == StepContexts(e.contexts, i, pc)
<1>1. StackEffect(i) = [requires |-> 0, delta |-> 0] /\ i.op \in Contextual
  BY Effects DEF Contextual
<1>2. /\ e \in FlowStates /\ e.depth \in Nat /\ c # None
      /\ Reaches(P, R, pc + 1, St(e.depth + 0, e.for, e.switch, e.try, c))
  BY <1>1, ContextStep
<1>3. e.depth + 0 = e.depth
  BY <1>2
<1>4. e.contexts \in ContextSet
  BY <1>2, Fields DEF ContextSet
<1>5. s # <<>> /\ c = [e.contexts EXCEPT !.idxs = WithLast(@, further)]
  BY <1>2, Zenon DEF StepContexts, ClosesIndex, ClosesLvalueIndex
<1>6. c.idxs = WithLast(s, further) /\ c.lvals = e.contexts.lvals
  BY <1>4, <1>5, ContextFields, Zenon
<1>7. s \in Seq(Indexes)
  BY <1>4, ContextFields
<1>8. Totals(c.idxs) = Totals(s) /\ Totals(s) # <<>>
  <2> HIDE DEF s, c
  <2>1. Last(s) \in Indexes /\ Totals(s) # <<>>
    BY <1>5, <1>7, TotalsOf
  <2>2. further \in Indexes /\ further.total = Last(s).total
    BY <2>1 DEF Indexes
  <2> HIDE DEF further
  <2>3. Totals(WithLast(s, further)) = Totals(s)
    BY <1>5, <1>7, <2>2, TotalsOf
  <2> QED BY <1>6, <2>1, <2>3, Zenon
<1>9. Reaches(P, R, pc + 1, St(e.depth, e.for, e.switch, e.try, c)) /\ Len(c.lvals) = Len(e.contexts.lvals)
  BY <1>2, <1>3, <1>6, Zenon
<1> HIDE DEF c
<1> QED BY <1>2, <1>8, <1>9, Zenon

LEMMA CallLeads ==
  ASSUME NEW P, NEW R, NEW pc, Here(P, R, pc), P.code[pc].op = "CallOrIndex",
         P.code[pc].results = 1
  PROVE  LET e == P.flow[R][pc]
             i == P.code[pc]
         IN /\ e \in FlowStates /\ e.depth >= i.operandCount + 1
            /\ i.context => Totals(e.contexts.idxs) # <<>>
            /\ \E c : /\ Reaches(P, R, pc + 1,
                           St(e.depth - i.operandCount, e.for, e.switch, e.try, c))
                      /\ Totals(c.idxs) = IF i.context THEN Front(Totals(e.contexts.idxs))
                                                       ELSE Totals(e.contexts.idxs)
                      /\ Len(c.lvals) = Len(e.contexts.lvals)
<1> DEFINE e == P.flow[R][pc]
           i == P.code[pc]
           s == e.contexts.idxs
           n == i.operandCount
           c == StepContexts(e.contexts, i, pc)
<1>1. n \in Nat
  <2>1. pc \in DOMAIN P.code
    BY RangeBounds DEF Here, Known
  <2>2. i \in Instructions
    BY <2>1, PreparedCode DEF Here
  <2> QED BY <2>2 DEF Instructions
<1>2. StackEffect(i) = [requires |-> n + 1, delta |-> 1 - n - 1] /\ i.op \in Contextual
  BY Effects DEF Contextual
<1>3. n + 1 \in Nat /\ 1 - n - 1 \in Int /\ 1 - n - 1 = -n
  BY <1>1
<1>4. /\ e \in FlowStates /\ e.depth \in Nat /\ e.depth >= n + 1 /\ c # None
      /\ Reaches(P, R, pc + 1, St(e.depth + (-n), e.for, e.switch, e.try, c))
  <2> HIDE DEF n
  <2>1. StackEffect(i) = [requires |-> n + 1, delta |-> -n] /\ -n \in Int
    BY <1>2, <1>3
  <2> HIDE DEF c, e, i
  <2> QED BY <1>2, <1>3, <2>1, ContextStep DEF c, e, i
<1>5. e.depth + (-n) = e.depth - n
  BY <1>1, <1>4
<1>6. e.contexts \in ContextSet
  BY <1>4, Fields DEF ContextSet
<1>7. Reaches(P, R, pc + 1, St(e.depth - n, e.for, e.switch, e.try, c))
  BY <1>4, <1>5, Zenon
<1>8. CASE i.context
  <2>1. s # <<>> /\ c = [e.contexts EXCEPT !.idxs = Front(@)]
    BY <1>4, <1>8, Zenon DEF StepContexts, ClosesIndex, ClosesLvalueIndex, CompletedIndex
  <2>2. c.idxs = Front(s) /\ c.lvals = e.contexts.lvals
    BY <1>6, <2>1, ContextFields, Zenon
  <2>3. s \in Seq(Indexes)
    BY <1>6, ContextFields
  <2>4. Totals(c.idxs) = Front(Totals(s)) /\ Totals(s) # <<>> /\ Len(c.lvals) = Len(e.contexts.lvals)
    <3> HIDE DEF s, c
    <3>1. Totals(Front(s)) = Front(Totals(s)) /\ Totals(s) # <<>>
      BY <2>1, <2>3, TotalsOf
    <3> QED BY <2>2, <3>1, Zenon
  <2> HIDE DEF c
  <2> QED BY <1>4, <1>7, <1>8, <2>4, Zenon
<1>9. CASE ~i.context
  <2>1. c = e.contexts
    BY <1>9, SameContexts
  <2>2. Totals(c.idxs) = Totals(s) /\ Len(c.lvals) = Len(e.contexts.lvals)
    BY <2>1, Zenon
  <2> HIDE DEF c
  <2> QED BY <1>4, <1>7, <1>9, <2>2, Zenon
<1> QED BY <1>8, <1>9

LEMMA LvalueLeads ==
  ASSUME NEW P, NEW R, NEW pc, Here(P, R, pc), P.code[pc].op = "BeginLvalue"
  PROVE  LET e == P.flow[R][pc]
         IN /\ e \in FlowStates
            /\ \E c : /\ Reaches(P, R, pc + 1, St(e.depth, e.for, e.switch, e.try, c))
                      /\ Totals(c.idxs) = Totals(e.contexts.idxs)
                      /\ Len(c.lvals) = Len(e.contexts.lvals) + 1
<1> DEFINE e == P.flow[R][pc]
           i == P.code[pc]
           c == StepContexts(e.contexts, i, pc)
           place == [pc |-> pc, segments |-> i.operandCount, completed |-> 0]
<1>1. StackEffect(i) = [requires |-> 0, delta |-> 0] /\ i.op \in Contextual
  BY Effects DEF Contextual
<1>2. /\ e \in FlowStates /\ e.depth \in Nat /\ c # None
      /\ Reaches(P, R, pc + 1, St(e.depth + 0, e.for, e.switch, e.try, c))
  BY <1>1, ContextStep
<1>3. e.depth + 0 = e.depth
  BY <1>2
<1>4. e.contexts \in ContextSet
  BY <1>2, Fields DEF ContextSet
<1>5. e.contexts.lvals = <<>> /\ c = [e.contexts EXCEPT !.lvals = <<place>>]
  BY <1>2, Zenon DEF StepContexts, ClosesIndex, ClosesLvalueIndex
<1>6. c.idxs = e.contexts.idxs /\ c.lvals = <<place>>
  BY <1>4, <1>5, ContextFields, Zenon
<1>7. Len(<<place>>) = 1
  <2> HIDE DEF place
  <2> QED OBVIOUS
<1>8. Len(c.lvals) = Len(e.contexts.lvals) + 1
  <2> HIDE DEF place, c
  <2> QED BY <1>5, <1>6, <1>7
<1>9. Reaches(P, R, pc + 1, St(e.depth, e.for, e.switch, e.try, c)) /\ Totals(c.idxs) = Totals(e.contexts.idxs)
  BY <1>2, <1>3, <1>6, Zenon
<1> HIDE DEF c
<1> QED BY <1>2, <1>8, <1>9, Zenon

LEMMA LastLength ==
  ASSUME NEW S, NEW s \in Seq(S), s # <<>>, NEW x
  PROVE  Len(s) > 0 /\ Len(WithLast(s, x)) = Len(s)
<1> DEFINE T == S \cup {x}
           k == Len(s)
<1>1. k \in Nat /\ k > 0
  BY EmptySeq, LenProperties
<1>2. s \in Seq(T)
  <2>1. \A i \in 1 .. Len(s) : s[i] \in T
    BY ElementOfSeq
  <2> QED BY <2>1, LenProperties
<1>3. x \in T /\ k \in 1 .. k
  BY <1>1
<1> HIDE DEF T
<1>4. Len([s EXCEPT ![k] = x]) = k
  BY <1>2, <1>3, ExceptSeq
<1> QED BY <1>1, <1>4 DEF WithLast

LEMMA DescendLeads ==
  ASSUME NEW P, NEW R, NEW pc, Here(P, R, pc), P.code[pc].op = "LvalueDescendMember",
         P.code[pc].operandCount = 0
  PROVE  LET e == P.flow[R][pc]
         IN /\ e \in FlowStates
            /\ Len(e.contexts.lvals) > 0
            /\ \E c : /\ Reaches(P, R, pc + 1, St(e.depth, e.for, e.switch, e.try, c))
                      /\ Totals(c.idxs) = Totals(e.contexts.idxs)
                      /\ Len(c.lvals) = Len(e.contexts.lvals)
<1> DEFINE e == P.flow[R][pc]
           i == P.code[pc]
           v == e.contexts.lvals
           c == StepContexts(e.contexts, i, pc)
           deeper == [Last(v) EXCEPT !.completed = @ + 1]
<1>1. StackEffect(i) = [requires |-> 0, delta |-> 0] /\ i.op \in Contextual
  BY Effects DEF Contextual
<1>2. /\ e \in FlowStates /\ e.depth \in Nat /\ c # None
      /\ Reaches(P, R, pc + 1, St(e.depth + 0, e.for, e.switch, e.try, c))
  BY <1>1, ContextStep
<1>3. e.depth + 0 = e.depth
  BY <1>2
<1>4. e.contexts \in ContextSet
  BY <1>2, Fields DEF ContextSet
<1>5. v # <<>> /\ c = [e.contexts EXCEPT !.lvals = WithLast(@, deeper)]
  BY <1>2, Zenon DEF StepContexts, ClosesIndex, ClosesLvalueIndex
<1>6. c.idxs = e.contexts.idxs /\ c.lvals = WithLast(v, deeper)
  BY <1>4, <1>5, ContextFields, Zenon
<1>7. Len(v) > 0 /\ Len(c.lvals) = Len(v)
  <2>1. v \in Seq(Places)
    BY <1>4, ContextFields
  <2>2. v # <<>> /\ c.lvals = WithLast(v, deeper)
    BY <1>5, <1>6
  <2> HIDE DEF v, deeper, c
  <2>3. Len(v) > 0 /\ Len(WithLast(v, deeper)) = Len(v)
    BY ONLY <2>1, <2>2, LastLength
  <2> QED BY <2>2, <2>3, Zenon
<1>8. Reaches(P, R, pc + 1, St(e.depth, e.for, e.switch, e.try, c)) /\ Totals(c.idxs) = Totals(e.contexts.idxs)
  BY <1>2, <1>3, <1>6, Zenon
<1> HIDE DEF c
<1> QED BY <1>2, <1>7, <1>8, Zenon

LEMMA StoreLeads ==
  ASSUME NEW P, NEW R, NEW pc, Here(P, R, pc), P.code[pc].op = "StorePathIndex"
  PROVE  LET e == P.flow[R][pc]
             i == P.code[pc]
         IN /\ e \in FlowStates /\ e.depth >= i.operandCount + 1
            /\ Totals(e.contexts.idxs) # <<>>
            /\ Len(e.contexts.lvals) > 0
            /\ \E c : /\ Reaches(P, R, pc + 1,
                           St(e.depth - i.operandCount - 1, e.for, e.switch, e.try, c))
                      /\ Totals(c.idxs) = Front(Totals(e.contexts.idxs))
                      /\ Len(c.lvals) = Len(e.contexts.lvals) - 1
<1> DEFINE e == P.flow[R][pc]
           i == P.code[pc]
           s == e.contexts.idxs
           v == e.contexts.lvals
           n == i.operandCount
           c == StepContexts(e.contexts, i, pc)
<1>1. n \in Nat
  <2>1. pc \in DOMAIN P.code
    BY RangeBounds DEF Here, Known
  <2>2. i \in Instructions
    BY <2>1, PreparedCode DEF Here
  <2> QED BY <2>2 DEF Instructions
<1>2. StackEffect(i) = [requires |-> n + 1, delta |-> -n - 1] /\ i.op \in Contextual
  BY Effects DEF Contextual
<1>3. n + 1 \in Nat /\ -n - 1 \in Int
  BY <1>1
<1>4. /\ e \in FlowStates /\ e.depth \in Nat /\ e.depth >= n + 1 /\ c # None
      /\ Reaches(P, R, pc + 1, St(e.depth + (-n - 1), e.for, e.switch, e.try, c))
  <2> HIDE DEF n, c, e, i
  <2> QED BY <1>2, <1>3, ContextStep DEF c, e, i
<1>5. e.depth + (-n - 1) = e.depth - n - 1
  BY <1>1, <1>4
<1>6. e.contexts \in ContextSet
  BY <1>4, Fields DEF ContextSet
<1>7. s # <<>> /\ v # <<>> /\ c = [idxs |-> Front(s), lvals |-> Front(v)]
  BY <1>4, Zenon DEF StepContexts, ClosesIndex, ClosesLvalueIndex, CompletedIndex
<1>8. c.idxs = Front(s) /\ c.lvals = Front(v)
  <2> HIDE DEF s, v, c
  <2> QED BY <1>7
<1>9. s \in Seq(Indexes) /\ v \in Seq(Places)
  BY <1>6, ContextFields
<1>10. Totals(c.idxs) = Front(Totals(s)) /\ Totals(s) # <<>>
  <2> HIDE DEF s, c
  <2>1. Totals(Front(s)) = Front(Totals(s)) /\ Totals(s) # <<>>
    BY <1>7, <1>9, TotalsOf
  <2> QED BY <1>8, <2>1, Zenon
<1>11. Len(c.lvals) = Len(v) - 1 /\ Len(v) > 0
  <2>1. v # <<>> /\ c.lvals = Front(v) /\ v \in Seq(Places)
    BY <1>7, <1>8, <1>9, Zenon
  <2> HIDE DEF v, c
  <2>2. Len(v) > 0 /\ Len(Front(v)) = Len(v) - 1
    BY <2>1, FrontLength
  <2> QED BY <2>1, <2>2
<1>12. Reaches(P, R, pc + 1, St(e.depth - n - 1, e.for, e.switch, e.try, c))
  BY <1>4, <1>5, Zenon
<1> HIDE DEF c
<1> QED BY <1>4, <1>10, <1>11, <1>12, Zenon
-----------------------------------------------------------------------------
(* Frames and what changes them.                                              *)
Kinds == {"script", "function", "default", "anonymous"}
Loops == [left : Nat, begin : Nat]
Selections == [matched : BOOLEAN, begin : Nat, end : Nat]
Guards == [base : Nat, catch : Nat, stack : Nat, fors : Nat, idxs : Nat, lvals : Nat,
           switches : Nat, begin : Nat, end : Nat]
Frames == [kind : Kinds, pc : Nat, begin : Nat, end : Nat, base : Nat, fors : Seq(Loops),
           switches : Seq(Selections), tries : Seq(Guards), idxs : Seq(Nat),
           return : BOOLEAN, done : BOOLEAN]

(* g is f, but for its place, its contexts and how it ended.                  *)
Same(f, g) ==
  /\ g \in Frames
  /\ g.kind = f.kind /\ g.begin = f.begin /\ g.end = f.end /\ g.base = f.base

LEMMA NewPc ==
  ASSUME NEW f \in Frames, NEW v \in Nat, NEW g, g = [f EXCEPT !.pc = v]
  PROVE  /\ Same(f, g) /\ g.pc = v /\ g.return = f.return /\ g.done = f.done
         /\ g.fors = f.fors /\ g.switches = f.switches /\ g.tries = f.tries /\ g.idxs = f.idxs
BY DEF Frames, Same

LEMMA NewFors ==
  ASSUME NEW f \in Frames, NEW v \in Seq(Loops), NEW g, g = [f EXCEPT !.fors = v]
  PROVE  /\ Same(f, g) /\ g.pc = f.pc /\ g.return = f.return /\ g.done = f.done
         /\ g.fors = v /\ g.switches = f.switches /\ g.tries = f.tries /\ g.idxs = f.idxs
BY DEF Frames, Same

LEMMA NewSwitches ==
  ASSUME NEW f \in Frames, NEW v \in Seq(Selections), NEW g, g = [f EXCEPT !.switches = v]
  PROVE  /\ Same(f, g) /\ g.pc = f.pc /\ g.return = f.return /\ g.done = f.done
         /\ g.fors = f.fors /\ g.switches = v /\ g.tries = f.tries /\ g.idxs = f.idxs
BY DEF Frames, Same

LEMMA NewTries ==
  ASSUME NEW f \in Frames, NEW v \in Seq(Guards), NEW g, g = [f EXCEPT !.tries = v]
  PROVE  /\ Same(f, g) /\ g.pc = f.pc /\ g.return = f.return /\ g.done = f.done
         /\ g.fors = f.fors /\ g.switches = f.switches /\ g.tries = v /\ g.idxs = f.idxs
BY DEF Frames, Same

LEMMA NewIdxs ==
  ASSUME NEW f \in Frames, NEW v \in Seq(Nat), NEW g, g = [f EXCEPT !.idxs = v]
  PROVE  /\ Same(f, g) /\ g.pc = f.pc /\ g.return = f.return /\ g.done = f.done
         /\ g.fors = f.fors /\ g.switches = f.switches /\ g.tries = f.tries /\ g.idxs = v
BY DEF Frames, Same

LEMMA NewReturn ==
  ASSUME NEW f \in Frames, NEW g, g = [f EXCEPT !.return = TRUE]
  PROVE  /\ Same(f, g) /\ g.pc = f.pc /\ g.return = TRUE /\ g.done = f.done
         /\ g.fors = f.fors /\ g.switches = f.switches /\ g.tries = f.tries /\ g.idxs = f.idxs
BY DEF Frames, Same

LEMMA NewDone ==
  ASSUME NEW f \in Frames, NEW v \in BOOLEAN, NEW g, g = [f EXCEPT !.done = v]
  PROVE  /\ Same(f, g) /\ g.pc = f.pc /\ g.return = f.return /\ g.done = v
         /\ g.fors = f.fors /\ g.switches = f.switches /\ g.tries = f.tries /\ g.idxs = f.idxs
BY DEF Frames, Same
-----------------------------------------------------------------------------
(* How a frame stands in its range.                                           *)
RangeFor(f) == Range0(f.begin, f.end, RangeDepth(f))

FlowFor(P, f) == P.flow[RangeFor(f)]

(* Its loops, selections and tries are the brackets open at pc.               *)
Holds(P, f, pc) ==
  LET e == FlowFor(P, f)[pc]
  IN /\ pc \in f.begin .. f.end /\ e # None
     /\ Begins(f.fors) = e.for /\ Begins(f.tries) = e.try
     /\ pc < f.end => Begins(f.switches) = e.switch

(* What a try at b records in a frame whose lvalues lie above the first m.    *)
GuardAt(P, f, m, b) ==
  [base |-> 0, catch |-> P.code[b].target, stack |-> f.base,
   fors |-> Len(FlowFor(P, f)[b].for), idxs |-> 0, lvals |-> m,
   switches |-> Len(FlowFor(P, f)[b].switch), begin |-> b,
   end |-> ClosedBy(P.code, P.lex, "try", b)]

GuardOK(P, f, m, try) ==
  /\ Known(P, RangeFor(f), try.begin) /\ P.code[try.begin].op = "TryBegin"
  /\ try = GuardAt(P, f, m, try.begin)

SwitchOK(P, selection) ==
  selection.end = ClosedBy(P.code, P.lex, "switch", selection.begin)

Formed(P, f, m) ==
  /\ IsRange(P, RangeFor(f))
  /\ \A k \in DOMAIN f.switches : SwitchOK(P, f.switches[k])
  /\ \A k \in DOMAIN f.tries : GuardOK(P, f, m, f.tries[k])

Bounded(f) ==
  \A k \in DOMAIN f.tries :
    f.tries[k].fors <= Len(f.fors) /\ f.tries[k].switches <= Len(f.switches)

LEMMA SameRange ==
  ASSUME NEW P, NEW f, NEW g, Same(f, g)
  PROVE  /\ RangeFor(g) = RangeFor(f) /\ FlowFor(P, g) = FlowFor(P, f)
         /\ RangeDepth(g) = RangeDepth(f)
<1>1. RangeDepth(g) = RangeDepth(f)
  BY DEF Same, RangeDepth
<1>2. RangeFor(g) = RangeFor(f)
  BY <1>1 DEF Same, RangeFor
<1> QED BY <1>1, <1>2 DEF FlowFor

LEMMA RangeOfFrame ==
  ASSUME NEW f
  PROVE  RangeFor(f).begin = f.begin /\ RangeFor(f).end = f.end /\ RangeFor(f).depth = RangeDepth(f)
BY DEF RangeFor, Range0

LEMMA GuardFields ==
  ASSUME NEW P, NEW f, NEW m, NEW b
  PROVE  LET try == GuardAt(P, f, m, b)
         IN /\ try.base = 0 /\ try.catch = P.code[b].target /\ try.stack = f.base
            /\ try.fors = Len(FlowFor(P, f)[b].for) /\ try.idxs = 0 /\ try.lvals = m
            /\ try.switches = Len(FlowFor(P, f)[b].switch) /\ try.begin = b
            /\ try.end = ClosedBy(P.code, P.lex, "try", b)
BY DEF GuardAt

LEMMA SameFormed ==
  ASSUME NEW P, NEW f, NEW g, NEW m, Formed(P, f, m), Same(f, g),
         g.switches = f.switches, g.tries = f.tries
  PROVE  Formed(P, g, m)
<1>1. RangeFor(g) = RangeFor(f) /\ FlowFor(P, g) = FlowFor(P, f) /\ g.base = f.base
  BY SameRange DEF Same
<1>2. \A b : GuardAt(P, g, m, b) = GuardAt(P, f, m, b)
  BY <1>1, Zenon DEF GuardAt
<1>3. \A try : GuardOK(P, f, m, try) => GuardOK(P, g, m, try)
  BY <1>1, <1>2, Zenon DEF GuardOK
<1> QED BY <1>1, <1>3, Zenon DEF Formed

LEMMA SameHolds ==
  ASSUME NEW P, NEW f, NEW g, NEW pc, Holds(P, f, pc), Same(f, g),
         g.fors = f.fors, g.switches = f.switches, g.tries = f.tries
  PROVE  Holds(P, g, pc)
<1>1. FlowFor(P, g) = FlowFor(P, f) /\ g.begin = f.begin /\ g.end = f.end
  BY SameRange DEF Same
<1> QED BY <1>1, Zenon DEF Holds

LEMMA BeginsOf ==
  ASSUME NEW s, NEW t, Begins(s) = t, NEW S, s \in Seq(S), t \in Seq(Nat)
  PROVE  /\ Len(s) = Len(t) /\ Len(s) \in Nat /\ DOMAIN s = 1 .. Len(s)
         /\ \A i \in 1 .. Len(s) : t[i] = s[i].begin
<1>1. Len(s) \in Nat /\ DOMAIN s = 1 .. Len(s) /\ Len(t) \in Nat /\ DOMAIN t = 1 .. Len(t)
  BY LenProperties
<1>2. t = [i \in 1 .. Len(s) |-> s[i].begin]
  BY <1>1 DEF Begins
<1>3. DOMAIN t = 1 .. Len(s) /\ \A i \in 1 .. Len(s) : t[i] = s[i].begin
  BY <1>2
<1>4. Len(s) = Len(t)
  <2>1. 1 .. Len(s) = 1 .. Len(t)
    BY <1>1, <1>3
  <2>2. ASSUME NEW a \in Nat, NEW b \in Nat, 1 .. a = 1 .. b PROVE a <= b
    <3>1. a # 0 => a \in 1 .. a
      OBVIOUS
    <3>2. a # 0 => a \in 1 .. b
      BY <3>1, <2>2
    <3> QED BY <3>2
  <2>3. Len(s) <= Len(t) /\ Len(t) <= Len(s)
    <3> DEFINE a == Len(s)
               b == Len(t)
    <3>1. a \in Nat /\ b \in Nat /\ 1 .. a = 1 .. b
      BY <1>1, <2>1
    <3> HIDE DEF a, b
    <3>2. a <= b
      BY <3>1, <2>2
    <3>3. b <= a
      BY <3>1, <2>2
    <3> QED BY <3>2, <3>3 DEF a, b
  <2> DEFINE a == Len(s)
             b == Len(t)
  <2>4. a \in Nat /\ b \in Nat /\ a <= b /\ b <= a
    BY <1>1, <2>3
  <2> HIDE DEF a, b
  <2>5. a = b
    BY <2>4
  <2> QED BY <2>5 DEF a, b
<1> QED BY <1>1, <1>3, <1>4

LEMMA SameBrackets ==
  ASSUME NEW e, NEW d, NEW g, g = Kept(e, d), NEW f \in Bracketed
  PROVE  g[f] = e[f]
<1>1. g["for"] = e["for"] /\ g["switch"] = e["switch"] /\ g["try"] = e["try"]
  BY DEF Kept, St
<1>2. f = "for" \/ f = "switch" \/ f = "try"
  BY DEF Bracketed
<1> QED BY <1>1, <1>2

LEMMA NoBrackets ==
  ASSUME NEW c, NEW d, NEW g, g = St(d, <<>>, <<>>, <<>>, c), NEW f \in Bracketed
  PROVE  g[f] = <<>>
<1>1. g["for"] = <<>> /\ g["switch"] = <<>> /\ g["try"] = <<>>
  BY DEF St
<1>2. f = "for" \/ f = "switch" \/ f = "try"
  BY DEF Bracketed
<1> QED BY <1>1, <1>2

(* The catch of a try lies behind all places the try is open at.              *)
LEMMA CatchAt ==
  ASSUME NEW P, NEW R, NEW b, Here(P, R, b), P.code[b].op = "TryBegin"
  PROVE  /\ P.code[b].target = ClosedBy(P.code, P.lex, "try", b) + 1
         /\ ClosedBy(P.code, P.lex, "try", b) \in Nat
         /\ P.code[b].target \in R.begin .. R.end /\ P.flow[R][P.code[b].target] # None
         /\ P.flow[R][P.code[b].target] = Kept(P.flow[R][b], P.flow[R][b].depth)
<1>1. b \in DOMAIN P.code /\ b \in Nat
  BY RangeBounds DEF Here, Known
<1>2. P.code[b].op \in Targeted
  BY DEF Targeted
<1>3. TargetFits(P.code, P.lex, b)
  BY <1>1, <1>2, PreparedCode DEF Here
<1>4. P.code[b].target = ClosedBy(P.code, P.lex, "try", b) + 1
  BY <1>3, Zenon DEF TargetFits
<1>5. Reaches(P, R, P.code[b].target, Kept(P.flow[R][b], P.flow[R][b].depth))
  BY TryBeginLeads
<1>6. ClosedBy(P.code, P.lex, "try", b) \in Nat
  <2>1. ClosedBy(P.code, P.lex, "try", b) \in 0 .. Len(P.code)
    BY <1>1, ClosedByNumber, Zenon DEF Here
  <2>2. Len(P.code) \in Nat
    BY PreparedCode DEF Here
  <2> QED BY <2>1, <2>2
<1>7. Kept(P.flow[R][b], P.flow[R][b].depth) # None
  BY StKnown, Zenon DEF Kept
<1> QED BY <1>4, <1>5, <1>6, <1>7, Zenon DEF Reaches

(* All that was open when an active try began is open still.                  *)
LEMMA Nested ==
  ASSUME NEW P, NEW R, NEW pc, Here(P, R, pc), NEW b \in Nat, Here(P, R, b),
         P.code[b].op = "TryBegin", b \in Values(P.flow[R][pc]["try"]), NEW f \in Bracketed
  PROVE  /\ Under(P.flow[R][b][f], P.flow[R][pc][f], b)
         /\ Begun(P.flow[R][b][f], P.flow[R][pc][f])
<1> DEFINE catch == P.code[b].target
           before == P.flow[R][b][f]
           now == P.flow[R][pc][f]
<1>1. /\ R.begin \in Nat /\ R.end \in Nat /\ 1 <= R.begin /\ R.end <= Len(P.code) + 1
      /\ pc \in R.begin .. R.end - 1 /\ b \in R.begin .. R.end - 1 /\ Len(P.code) \in Nat
  BY RangeBounds, PreparedCode DEF Here, Known
<1>2. Lexed(P.code, P.lex) /\ f \in Families /\ "try" \in Families /\ "try" \in Bracketed
  BY PreparedLexed, FamilyOps DEF Here, Bracketed
<1>3. /\ catch = ClosedBy(P.code, P.lex, "try", b) + 1
      /\ ClosedBy(P.code, P.lex, "try", b) \in Nat
      /\ catch \in R.begin .. R.end /\ P.flow[R][catch] # None
      /\ P.flow[R][catch] = Kept(P.flow[R][b], P.flow[R][b].depth)
  BY CatchAt
<1>4. P.flow[R][catch][f] = before
  BY <1>3, SameBrackets
<1>5. OpenAt(P.lex, "try", b, pc)
  BY <1>2, FlowBrackets DEF Here
<1>6. b < pc /\ pc < catch
  <2>1. pc \in 1 .. Len(P.code) + 1
    BY <1>1
  <2>2. pc <= ClosedBy(P.code, P.lex, "try", b) /\ b < pc
    BY <1>2, <1>5, <2>1, OpenUntil
  <2> QED BY <1>1, <1>3, <2>2
<1>7. /\ before \in Seq(Nat) /\ Increasing(before)
      /\ \A o : o \in Values(before) <=> OpenAt(P.lex, f, o, b) /\ R.begin <= o /\ o < R.end
  BY FlowBrackets DEF Here
<1>8. /\ now \in Seq(Nat) /\ Increasing(now)
      /\ \A o : o \in Values(now) <=> OpenAt(P.lex, f, o, pc) /\ R.begin <= o /\ o < R.end
  BY FlowBrackets DEF Here
<1>9. \A o \in Values(before) : o \in Nat
  BY <1>7 DEF Values
<1>10. \A o \in Values(now) : o \in Nat
  BY <1>8 DEF Values
<1>11. ASSUME NEW o \in Values(before) PROVE o \in Values(now) /\ o < b
  <2>1. catch # R.end
    <3> SUFFICES ASSUME catch = R.end PROVE FALSE
      OBVIOUS
    <3>1. P.flow[R][catch] = St(R.depth, <<>>, <<>>, <<>>, NoContexts)
      BY <1>3, FlowAt DEF Here
    <3>2. P.flow[R][catch][f] = <<>>
      BY <3>1, NoBrackets
    <3>3. Values(<<>>) = {}
      BY DEF Values
    <3> QED BY <1>4, <1>11, <3>2, <3>3, Zenon
  <2>2. Known(P, R, catch)
    BY <1>1, <1>3, <2>1 DEF Known
  <2>3. \A p : p \in Values(P.flow[R][catch][f]) <=> OpenAt(P.lex, f, p, catch) /\ R.begin <= p /\ p < R.end
    <3> HIDE DEF catch
    <3> QED BY <2>2, FlowBrackets DEF Here
  <2>4. OpenAt(P.lex, f, o, catch) /\ OpenAt(P.lex, f, o, b) /\ R.begin <= o /\ o < R.end /\ o \in Nat
    BY <1>4, <1>7, <1>9, <1>11, <2>3, Zenon
  <2>5. o < b
    <3>1. b \in 1 .. Len(P.code) + 1
      BY <1>1
    <3>2. \A v \in Values(P.lex[b][f]) : v >= 1 /\ v < b
      BY <1>2, <3>1, OpenAscending
    <3> QED BY <2>4, <3>2 DEF OpenAt
  <2>6. OpenAt(P.lex, f, o, pc)
    <3>1. catch \in 1 .. Len(P.code) + 1 /\ pc \in Nat /\ o < pc /\ pc <= catch
      BY <1>1, <1>3, <1>6, <2>4, <2>5
    <3> HIDE DEF catch
    <3> QED BY <1>2, <2>4, <3>1, OpenBetween
  <2> QED BY <1>8, <2>4, <2>5, <2>6, Zenon
<1>12. ASSUME NEW o \in Values(now), o < b PROVE o \in Values(before)
  <2>1. OpenAt(P.lex, f, o, pc) /\ R.begin <= o /\ o < R.end /\ o \in Nat
    BY <1>8, <1>10, <1>12, Zenon
  <2>2. pc \in 1 .. Len(P.code) + 1 /\ b <= pc
    BY <1>1, <1>6
  <2>3. OpenAt(P.lex, f, o, b)
    BY <1>2, <1>12, <2>1, <2>2, OpenBetween
  <2> QED BY <1>7, <2>1, <2>3, Zenon
<1>13. Under(before, now, b)
  <2> HIDE DEF before, now
  <2> QED BY <1>11, <1>12 DEF Under
<1>14. Begun(before, now)
  <2> HIDE DEF before, now
  <2> QED BY <1>7, <1>8, <1>13, BegunWith
<1> QED BY <1>13, <1>14

(* The innermost try of a list is what the list has beyond those before it.   *)
LEMMA BelowLast ==
  ASSUME NEW s \in Seq(Nat), NEW t \in Seq(Nat), Increasing(s), Increasing(t), t # <<>>,
         Under(s, t, Last(t))
  PROVE  s = Front(t)
<1>1. /\ Front(t) \in Seq(Nat) /\ Increasing(Front(t))
      /\ Last(t) \in Nat /\ Last(t) \in Values(t)
      /\ Values(Front(t)) = Values(t) \ {Last(t)}
  BY FrontAscends
<1>2. \A v \in Values(t) : v \in Nat /\ v <= Last(t)
  <2>1. Len(t) \in Nat /\ DOMAIN t = 1 .. Len(t) /\ Len(t) \in DOMAIN t
    BY EmptySeq, LenProperties
  <2>2. Last(t) = t[Len(t)] /\ \A i \in DOMAIN t : t[i] \in Nat /\ (i < Len(t) => t[i] < t[Len(t)])
    <3>1. Last(t) = t[Len(t)]
      BY DEF Last
    <3>2. \A i \in DOMAIN t : t[i] \in Nat
      BY <2>1, ElementOfSeq
    <3>3. \A i \in DOMAIN t : i < Len(t) => t[i] < t[Len(t)]
      BY <2>1, Zenon DEF Increasing
    <3> QED BY <3>1, <3>2, <3>3
  <2> SUFFICES ASSUME NEW v \in Values(t) PROVE v \in Nat /\ v <= Last(t)
    OBVIOUS
  <2>3. PICK i \in DOMAIN t : v = t[i]
    BY DEF Values
  <2>4. i = Len(t) \/ i < Len(t)
    BY <2>1, <2>3
  <2> QED BY <2>1, <2>2, <2>3, <2>4
<1>3. Values(s) = Values(Front(t))
  BY <1>1, <1>2 DEF Under
<1>4. Under(s, Front(t), Last(t)) /\ Under(Front(t), s, Last(t))
  BY <1>1, <1>2, <1>3 DEF Under
<1>5. Begun(s, Front(t)) /\ Begun(Front(t), s)
  BY <1>1, <1>4, BegunWith
<1>6. Len(s) = Len(Front(t)) /\ \A i \in 1 .. Len(s) : s[i] = Front(t)[i]
  <2>1. Len(s) \in Nat /\ Len(Front(t)) \in Nat /\ DOMAIN s = 1 .. Len(s)
    BY <1>1, LenProperties
  <2> QED BY <1>5, <2>1, SMTT(30) DEF Begun
<1> QED BY <1>1, <1>6, SeqEqual

LEMMA Standing ==
  ASSUME NEW P, Prepared(P), NEW f \in Frames, NEW m, Formed(P, f, m), NEW q, Holds(P, f, q), q < f.end
  PROVE  LET e == FlowFor(P, f)[q]
         IN /\ Here(P, RangeFor(f), q)
            /\ e.for \in Seq(Nat) /\ e.switch \in Seq(Nat) /\ e.try \in Seq(Nat)
            /\ Len(f.fors) = Len(e.for) /\ Len(f.switches) = Len(e.switch) /\ Len(f.tries) = Len(e.try)
            /\ \A k \in 1 .. Len(f.fors) : e.for[k] = f.fors[k].begin
            /\ \A k \in 1 .. Len(f.switches) : e.switch[k] = f.switches[k].begin
            /\ \A k \in 1 .. Len(f.tries) : e.try[k] = f.tries[k].begin
<1> DEFINE R == RangeFor(f)
           e == FlowFor(P, f)[q]
<1>1. IsRange(P, R) /\ e = P.flow[R][q]
  BY DEF Formed, FlowFor
<1>2. /\ q \in f.begin .. f.end /\ e # None
      /\ Begins(f.fors) = e.for /\ Begins(f.tries) = e.try /\ Begins(f.switches) = e.switch
  BY Zenon DEF Holds
<1>3. f.begin \in Nat /\ f.end \in Nat /\ R.begin = f.begin /\ R.end = f.end
  BY RangeOfFrame DEF Frames
<1>4. Known(P, R, q)
  BY <1>1, <1>2, <1>3 DEF Known
<1>5. e.for \in Seq(Nat) /\ e.switch \in Seq(Nat) /\ e.try \in Seq(Nat)
  <2>1. "for" \in Bracketed /\ "switch" \in Bracketed /\ "try" \in Bracketed
    BY DEF Bracketed
  <2>2. \A x \in Bracketed : P.flow[R][q][x] \in Seq(Nat)
    BY <1>1, <1>4, FlowBrackets
  <2> QED BY <1>1, <2>1, <2>2, Zenon
<1>6. f.fors \in Seq(Loops) /\ f.switches \in Seq(Selections) /\ f.tries \in Seq(Guards)
  BY DEF Frames
<1>7. Len(f.fors) = Len(e.for) /\ \A k \in 1 .. Len(f.fors) : e.for[k] = f.fors[k].begin
  <2> HIDE DEF e
  <2> QED BY <1>2, <1>5, <1>6, BeginsOf
<1>8. Len(f.switches) = Len(e.switch) /\ \A k \in 1 .. Len(f.switches) : e.switch[k] = f.switches[k].begin
  <2> HIDE DEF e
  <2> QED BY <1>2, <1>5, <1>6, BeginsOf
<1>9. Len(f.tries) = Len(e.try) /\ \A k \in 1 .. Len(f.tries) : e.try[k] = f.tries[k].begin
  <2> HIDE DEF e
  <2> QED BY <1>2, <1>5, <1>6, BeginsOf
<1> QED BY <1>1, <1>4, <1>5, <1>7, <1>8, <1>9, Zenon DEF Here

LEMMA AtEnd ==
  ASSUME NEW P, Prepared(P), NEW f \in Frames, NEW m, Formed(P, f, m), Holds(P, f, f.end)
  PROVE  f.tries = <<>> /\ f.fors = <<>>
<1> DEFINE R == RangeFor(f)
<1>1. IsRange(P, R) /\ R.begin = f.begin /\ R.end = f.end /\ FlowFor(P, f) = P.flow[R]
  BY RangeOfFrame, Zenon DEF Formed, FlowFor
<1>2. /\ f.end \in R.begin .. R.end /\ P.flow[R][f.end] # None
      /\ Begins(f.tries) = P.flow[R][f.end].try /\ Begins(f.fors) = P.flow[R][f.end].for
  BY <1>1, Zenon DEF Holds
<1>3. P.flow[R][f.end] = St(R.depth, <<>>, <<>>, <<>>, NoContexts)
  <2> HIDE DEF R
  <2> QED BY <1>1, <1>2, FlowAt
<1>4. Begins(f.tries) = <<>> /\ Begins(f.fors) = <<>>
  <2>1. P.flow[R][f.end].try = <<>> /\ P.flow[R][f.end].for = <<>>
    <3> HIDE DEF R
    <3> QED BY <1>3 DEF St
  <2> QED BY <1>2, <2>1, Zenon
<1>5. ASSUME NEW S, NEW s \in Seq(S), Begins(s) = <<>> PROVE s = <<>>
  <2>1. <<>> \in Seq(Nat) /\ Len(<<>>) = 0
    OBVIOUS
  <2>2. Len(s) = 0
    BY <1>5, <2>1, BeginsOf
  <2> QED BY <2>2, EmptySeq
<1>6. f.tries \in Seq(Guards) /\ f.fors \in Seq(Loops)
  BY DEF Frames
<1> QED BY <1>4, <1>5, <1>6

(* The handler of an active try finds a longer list where it saw a shorter.   *)
LEMMA TriesNest ==
  ASSUME NEW P, Prepared(P), NEW f \in Frames, NEW m, Formed(P, f, m), NEW q, Holds(P, f, q),
         q < f.end, NEW k \in DOMAIN f.tries, NEW x \in Bracketed
  PROVE  LET R == RangeFor(f)
             b == f.tries[k].begin
         IN /\ b \in Nat /\ Here(P, R, b) /\ P.code[b].op = "TryBegin"
            /\ f.tries[k] = GuardAt(P, f, m, b)
            /\ Under(P.flow[R][b][x], P.flow[R][q][x], b)
            /\ Begun(P.flow[R][b][x], P.flow[R][q][x])
<1> DEFINE R == RangeFor(f)
           b == f.tries[k].begin
<1>1. GuardOK(P, f, m, f.tries[k]) /\ IsRange(P, R)
  BY Zenon DEF Formed
<1>2. Here(P, R, b) /\ P.code[b].op = "TryBegin" /\ f.tries[k] = GuardAt(P, f, m, b)
  BY <1>1, Zenon DEF GuardOK, Here
<1>3. b \in Nat
  <2>1. f.tries \in Seq(Guards)
    BY DEF Frames
  <2>2. f.tries[k] \in Guards
    BY <2>1
  <2> QED BY <2>2 DEF Guards
<1>4. /\ Here(P, R, q) /\ FlowFor(P, f)[q].try \in Seq(Nat)
      /\ Len(f.tries) = Len(FlowFor(P, f)[q].try)
      /\ \A j \in 1 .. Len(f.tries) : FlowFor(P, f)[q].try[j] = f.tries[j].begin
  BY Standing
<1>5. b \in Values(P.flow[R][q]["try"])
  <2>1. DOMAIN f.tries = 1 .. Len(f.tries)
    <3>1. f.tries \in Seq(Guards)
      BY DEF Frames
    <3> QED BY <3>1
  <2>2. DOMAIN FlowFor(P, f)[q].try = 1 .. Len(f.tries)
    BY <1>4
  <2> QED BY <1>4, <2>1, <2>2 DEF Values, FlowFor
<1> HIDE DEF R, b
<1>6. /\ Under(P.flow[R][b][x], P.flow[R][q][x], b)
      /\ Begun(P.flow[R][b][x], P.flow[R][q][x])
  BY <1>2, <1>3, <1>4, <1>5, Nested DEF R
<1> QED BY <1>2, <1>3, <1>6 DEF R, b

LEMMA BoundsOf ==
  ASSUME NEW P, Prepared(P), NEW f \in Frames, NEW m, Formed(P, f, m), NEW q, Holds(P, f, q)
  PROVE  Bounded(f)
<1> SUFFICES ASSUME NEW k \in DOMAIN f.tries
             PROVE  f.tries[k].fors <= Len(f.fors) /\ f.tries[k].switches <= Len(f.switches)
  BY DEF Bounded
<1> DEFINE R == RangeFor(f)
           b == f.tries[k].begin
<1>1. q < f.end
  <2>1. q \in f.begin .. f.end /\ f.begin \in Nat /\ f.end \in Nat
    BY DEF Holds, Frames
  <2>2. q # f.end
    <3> SUFFICES ASSUME q = f.end PROVE FALSE
      OBVIOUS
    <3>1. f.tries = <<>>
      BY AtEnd
    <3> QED BY <3>1
  <2> QED BY <2>1, <2>2
<1>2. "for" \in Bracketed /\ "switch" \in Bracketed
  BY DEF Bracketed
<1>3. /\ f.tries[k] = GuardAt(P, f, m, b)
      /\ Begun(P.flow[R][b]["for"], P.flow[R][q]["for"])
      /\ Begun(P.flow[R][b]["switch"], P.flow[R][q]["switch"])
  BY <1>1, <1>2, TriesNest
<1>4. /\ Len(f.fors) = Len(FlowFor(P, f)[q].for)
      /\ Len(f.switches) = Len(FlowFor(P, f)[q].switch)
  BY <1>1, Standing
<1>5. /\ f.tries[k].fors = Len(FlowFor(P, f)[b].for)
      /\ f.tries[k].switches = Len(FlowFor(P, f)[b].switch)
  <2>1. f.tries[k] = GuardAt(P, f, m, b)
    BY <1>3, Zenon
  <2> HIDE DEF b
  <2> QED BY <2>1 DEF GuardAt
<1> QED BY <1>3, <1>4, <1>5 DEF Begun, FlowFor

LEMMA BeginsIs ==
  ASSUME NEW S, NEW r \in Seq(S), NEW u \in Seq(Nat), Len(r) = Len(u),
         \A i \in 1 .. Len(r) : u[i] = r[i].begin
  PROVE  Begins(r) = u
<1>1. DOMAIN r = 1 .. Len(r) /\ DOMAIN u = 1 .. Len(r)
  BY LenProperties
<1>2. u = [i \in 1 .. Len(r) |-> u[i]]
  BY <1>1, LenProperties
<1>3. Begins(r) = [i \in 1 .. Len(r) |-> r[i].begin]
  BY <1>1 DEF Begins
<1> QED BY <1>2, <1>3

LEMMA ResizeCuts ==
  ASSUME NEW S, NEW s \in Seq(S), NEW n \in Nat, n <= Len(s), NEW filler
  PROVE  /\ Resize(s, n, filler) \in Seq(S) /\ Len(Resize(s, n, filler)) = n
         /\ \A i \in 1 .. n : Resize(s, n, filler)[i] = s[i]
<1> DEFINE r == Resize(s, n, filler)
<1>1. Len(s) \in Nat /\ \A i \in 1 .. Len(s) : s[i] \in S
  BY LenProperties, ElementOfSeq
<1>2. r = [i \in 1 .. n |-> IF i <= Len(s) THEN s[i] ELSE filler]
  BY DEF Resize
<1>3. DOMAIN r = 1 .. n /\ \A i \in 1 .. n : r[i] = s[i] /\ r[i] \in S
  BY <1>1, <1>2
<1>4. r = [i \in 1 .. n |-> r[i]]
  BY <1>2
<1> HIDE DEF r
<1>5. r \in Seq(S)
  BY <1>3, <1>4, IsASeq
<1>6. Len(r) = n
  <2>1. DOMAIN r = 1 .. n
    BY <1>3
  <2> QED BY <2>1, <1>5
<1> QED BY <1>3, <1>5, <1>6 DEF r

(* The contexts s are those of the brackets t.                                *)
Beginning(s, t) == Len(s) = Len(t) /\ \A i \in 1 .. Len(s) : t[i] = s[i].begin

LEMMA CutTo ==
  ASSUME NEW S, NEW s \in Seq(S), NEW t \in Seq(Nat), Beginning(s, t),
         NEW u \in Seq(Nat), Begun(u, t), NEW filler
  PROVE  /\ Resize(s, Len(u), filler) \in Seq(S)
         /\ Begins(Resize(s, Len(u), filler)) = u
         /\ \A i \in DOMAIN Resize(s, Len(u), filler) : \E j \in DOMAIN s : Resize(s, Len(u), filler)[i] = s[j]
<1> DEFINE r == Resize(s, Len(u), filler)
<1>1. /\ Len(u) \in Nat /\ Len(u) <= Len(s) /\ Len(s) \in Nat /\ DOMAIN s = 1 .. Len(s)
      /\ \A i \in 1 .. Len(u) : u[i] = t[i]
      /\ Len(s) = Len(t) /\ \A i \in 1 .. Len(s) : t[i] = s[i].begin
  BY LenProperties DEF Begun, Beginning
<1>2. r \in Seq(S) /\ Len(r) = Len(u) /\ \A i \in 1 .. Len(u) : r[i] = s[i]
  BY <1>1, ResizeCuts
<1> HIDE DEF r
<1>3. \A i \in 1 .. Len(r) : u[i] = r[i].begin
  <2> SUFFICES ASSUME NEW i \in 1 .. Len(r) PROVE u[i] = r[i].begin
    OBVIOUS
  <2>1. i \in 1 .. Len(u) /\ i \in 1 .. Len(s)
    BY <1>1, <1>2
  <2> QED BY <1>1, <1>2, <2>1
<1>4. Begins(r) = u
  BY <1>2, <1>3, BeginsIs
<1>5. \A i \in DOMAIN r : \E j \in DOMAIN s : r[i] = s[j]
  <2>1. DOMAIN r = 1 .. Len(r)
    BY <1>2, LenProperties
  <2> QED BY <1>1, <1>2, <2>1
<1> QED BY <1>2, <1>4, <1>5 DEF r

(* A frame that goes on at its handler stands there as the flow says.         *)
Recovered(f) ==
  LET try == Last(f.tries)
  IN [f EXCEPT !.pc = try.catch, !.tries = Front(@),
               !.fors = Resize(@, try.fors, [left |-> 0, begin |-> NoPc]),
               !.idxs = Resize(@, try.idxs, 0),
               !.switches = Resize(@, try.switches,
                              [matched |-> FALSE, begin |-> NoPc, end |-> NoPc])]

CutBack(P, f, m, b, fo, sw, tr) ==
  /\ Last(f.tries) = GuardAt(P, f, m, b)
  /\ fo = Resize(f.fors, Len(FlowFor(P, f)[b].for), [left |-> 0, begin |-> NoPc])
  /\ sw = Resize(f.switches, Len(FlowFor(P, f)[b].switch),
                 [matched |-> FALSE, begin |-> NoPc, end |-> NoPc])
  /\ tr = Front(f.tries)

LEMMA RecoveredFields ==
  ASSUME NEW f \in Frames, NEW m \in Nat, NEW P, NEW b,
         P.code[b].target \in Nat, NEW fo \in Seq(Loops), NEW sw \in Seq(Selections),
         NEW tr \in Seq(Guards), CutBack(P, f, m, b, fo, sw, tr)
  PROVE  LET g == Recovered(f)
         IN /\ Same(f, g) /\ g.pc = P.code[b].target /\ g.return = f.return /\ g.done = f.done
            /\ g.fors = fo /\ g.switches = sw /\ g.tries = tr /\ g.idxs = <<>>
<1> DEFINE try == Last(f.tries)
           pc == P.code[b].target
           ix == Resize(f.idxs, 0, 0)
<1>1. /\ try.catch = pc /\ try.fors = Len(FlowFor(P, f)[b].for)
      /\ try.switches = Len(FlowFor(P, f)[b].switch) /\ try.idxs = 0
  <2> HIDE DEF try
  <2>1. try = GuardAt(P, f, m, b)
    BY Zenon DEF try, CutBack
  <2> QED BY <2>1 DEF GuardAt
<1>2. Recovered(f) = [f EXCEPT !.pc = pc, !.tries = tr, !.fors = fo, !.idxs = ix, !.switches = sw]
  BY <1>1, Zenon DEF Recovered, CutBack
<1>3. ix \in Seq(Nat) /\ ix = <<>>
  <2>1. f.idxs \in Seq(Nat)
    BY DEF Frames
  <2>2. Len(f.idxs) >= 0
    BY <2>1
  <2>3. ix \in Seq(Nat) /\ Len(ix) = 0
    BY <2>1, <2>2, ResizeCuts
  <2> HIDE DEF ix
  <2> QED BY <2>3, EmptySeq
<1> DEFINE f1 == [f EXCEPT !.pc = pc]
           f2 == [f1 EXCEPT !.tries = tr]
           f3 == [f2 EXCEPT !.fors = fo]
           f4 == [f3 EXCEPT !.idxs = ix]
           f5 == [f4 EXCEPT !.switches = sw]
<1> HIDE DEF ix, pc, try
<1>4. Recovered(f) = f5
  BY <1>2, Zenon
<1> HIDE DEF f1, f2, f3, f4, f5
<1>5. /\ Same(f, f1) /\ f1.pc = pc /\ f1.return = f.return /\ f1.done = f.done
  BY NewPc DEF f1, pc
<1>6. /\ Same(f1, f2) /\ f2.pc = f1.pc /\ f2.return = f1.return /\ f2.done = f1.done /\ f2.tries = tr
  BY <1>5, NewTries DEF f2, Same
<1>7. /\ Same(f2, f3) /\ f3.pc = f2.pc /\ f3.return = f2.return /\ f3.done = f2.done
      /\ f3.tries = f2.tries /\ f3.fors = fo
  BY <1>6, NewFors DEF f3, Same
<1>8. /\ Same(f3, f4) /\ f4.pc = f3.pc /\ f4.return = f3.return /\ f4.done = f3.done
      /\ f4.tries = f3.tries /\ f4.fors = f3.fors /\ f4.idxs = ix
  <2>1. ix \in Seq(Nat) /\ f3 \in Frames
    BY <1>3, <1>7, Zenon DEF Same
  <2> QED BY <2>1, NewIdxs DEF f4
<1>9. /\ Same(f4, f5) /\ f5.pc = f4.pc /\ f5.return = f4.return /\ f5.done = f4.done
      /\ f5.tries = f4.tries /\ f5.fors = f4.fors /\ f5.idxs = f4.idxs /\ f5.switches = sw
  BY <1>8, NewSwitches DEF f5, Same
<1>10. Same(f, f5)
  BY <1>5, <1>6, <1>7, <1>8, <1>9 DEF Same
<1> QED BY <1>3, <1>4, <1>5, <1>6, <1>7, <1>8, <1>9, <1>10, Zenon DEF pc

LEMMA TryIsStatement ==
  ASSUME NEW P, NEW R, NEW b, Here(P, R, b), P.code[b].op = "TryBegin"
  PROVE  P.flow[R][b].depth = 0 /\ P.flow[R][b].contexts = NoContexts
<1>1. DOMAIN P.flow[R] = R.begin .. R.end
  <2>1. FlowFound(P.code, P.lex, R, P.flow[R])
    BY Zenon DEF Here, Prepared, Verified, IsRange
  <2> QED BY <2>1, Zenon DEF FlowFound
<1>2. b \in DOMAIN P.flow[R] \ {R.end} /\ P.flow[R][b] # None
  BY <1>1, RangeBounds DEF Here, Known
<1>3. R \in DOMAIN P.flow /\ Made(P.code, P.flow)
  BY Zenon DEF Here, Prepared, IsRange
<1> QED BY <1>2, <1>3, Zenon DEF Made

LEMMA SubFormed ==
  ASSUME NEW P, NEW f \in Frames, NEW g, NEW m, Formed(P, f, m), Same(f, g),
         \A i \in DOMAIN g.switches : \E j \in DOMAIN f.switches : g.switches[i] = f.switches[j],
         \A i \in DOMAIN g.tries : \E j \in DOMAIN f.tries : g.tries[i] = f.tries[j]
  PROVE  Formed(P, g, m)
<1>1. RangeFor(g) = RangeFor(f) /\ FlowFor(P, g) = FlowFor(P, f) /\ g.base = f.base
  BY SameRange DEF Same
<1>2. \A b : GuardAt(P, g, m, b) = GuardAt(P, f, m, b)
  BY <1>1, Zenon DEF GuardAt
<1>3. \A try : GuardOK(P, f, m, try) => GuardOK(P, g, m, try)
  BY <1>1, <1>2, Zenon DEF GuardOK
<1>4. \A i \in DOMAIN g.switches : SwitchOK(P, g.switches[i])
  BY Zenon DEF Formed
<1>5. \A i \in DOMAIN g.tries : GuardOK(P, g, m, g.tries[i])
  BY <1>3, Zenon DEF Formed
<1> QED BY <1>1, <1>4, <1>5, Zenon DEF Formed

LEMMA RecoveredStands ==
  ASSUME NEW P, Prepared(P), NEW f \in Frames, NEW m \in Nat, Formed(P, f, m), NEW q,
         Holds(P, f, q), q < f.end, f.tries # <<>>
  PROVE  LET g == Recovered(f)
             try == Last(f.tries)
         IN /\ Same(f, g) /\ g.return = f.return /\ g.done = f.done
            /\ try.base = 0 /\ try.stack = f.base /\ try.lvals = m
            /\ Formed(P, g, m) /\ Holds(P, g, g.pc)
            /\ g.idxs = Totals(FlowFor(P, g)[g.pc].contexts.idxs)
            /\ FlowFor(P, g)[g.pc].depth = 0 /\ FlowFor(P, g)[g.pc].contexts.lvals = <<>>
<1> DEFINE R == RangeFor(f)
           try == Last(f.tries)
           b == try.begin
           before == P.flow[R][b]
           now == P.flow[R][q]
           catch == P.code[b].target
           fo == Resize(f.fors, Len(before.for), [left |-> 0, begin |-> NoPc])
           sw == Resize(f.switches, Len(before.switch), [matched |-> FALSE, begin |-> NoPc, end |-> NoPc])
           tr == Front(f.tries)
           g == Recovered(f)
<1>1. /\ f.tries \in Seq(Guards) /\ f.fors \in Seq(Loops) /\ f.switches \in Seq(Selections)
      /\ f.begin \in Nat /\ f.end \in Nat
  BY DEF Frames
<1>2. Len(f.tries) \in Nat /\ Len(f.tries) \in DOMAIN f.tries /\ try = f.tries[Len(f.tries)]
      /\ DOMAIN f.tries = 1 .. Len(f.tries)
  BY <1>1, EmptySeq, LenProperties DEF Last
<1>3. \A x \in Bracketed :
        /\ b \in Nat /\ Here(P, R, b) /\ P.code[b].op = "TryBegin"
        /\ try = GuardAt(P, f, m, b)
        /\ Under(P.flow[R][b][x], P.flow[R][q][x], b)
        /\ Begun(P.flow[R][b][x], P.flow[R][q][x])
  <2> DEFINE k == Len(f.tries)
             d == f.tries[k].begin
             S == RangeFor(f)
  <2>1. /\ Prepared(P) /\ f \in Frames /\ m \in Nat /\ Formed(P, f, m) /\ Holds(P, f, q) /\ q < f.end
        /\ k \in DOMAIN f.tries
    BY <1>2
  <2> HIDE DEF k
  <2>2. \A x \in Bracketed :
          /\ d \in Nat /\ Here(P, S, d) /\ P.code[d].op = "TryBegin"
          /\ f.tries[k] = GuardAt(P, f, m, d)
          /\ Under(P.flow[S][d][x], P.flow[S][q][x], d)
          /\ Begun(P.flow[S][d][x], P.flow[S][q][x])
    BY ONLY <2>1, TriesNest
  <2>3. d = b /\ f.tries[k] = try
    BY <1>2 DEF k
  <2> HIDE DEF d, b, try
  <2> QED BY <2>2, <2>3, Zenon
<1>4. "for" \in Bracketed /\ "switch" \in Bracketed /\ "try" \in Bracketed
  BY DEF Bracketed
<1>5. /\ b \in Nat /\ Here(P, R, b) /\ P.code[b].op = "TryBegin" /\ try = GuardAt(P, f, m, b)
      /\ Begun(before.for, now.for) /\ Begun(before.switch, now.switch)
      /\ Under(before.try, now.try, b)
  BY <1>3, <1>4, Zenon
<1>6. /\ Here(P, R, q)
      /\ now.for \in Seq(Nat) /\ now.switch \in Seq(Nat) /\ now.try \in Seq(Nat)
      /\ Len(f.fors) = Len(now.for) /\ Len(f.switches) = Len(now.switch) /\ Len(f.tries) = Len(now.try)
      /\ \A k \in 1 .. Len(f.fors) : now.for[k] = f.fors[k].begin
      /\ \A k \in 1 .. Len(f.switches) : now.switch[k] = f.switches[k].begin
      /\ \A k \in 1 .. Len(f.tries) : now.try[k] = f.tries[k].begin
  <2>1. now = FlowFor(P, f)[q]
    BY DEF FlowFor
  <2>2. /\ Prepared(P) /\ f \in Frames /\ Formed(P, f, m) /\ Holds(P, f, q) /\ q < f.end
        /\ R = RangeFor(f)
    OBVIOUS
  <2> DEFINE w == FlowFor(P, f)[q]
             rf == RangeFor(f)
  <2>3. /\ Here(P, rf, q)
        /\ w.for \in Seq(Nat) /\ w.switch \in Seq(Nat) /\ w.try \in Seq(Nat)
        /\ Len(f.fors) = Len(w.for) /\ Len(f.switches) = Len(w.switch) /\ Len(f.tries) = Len(w.try)
        /\ \A k \in 1 .. Len(f.fors) : w.for[k] = f.fors[k].begin
        /\ \A k \in 1 .. Len(f.switches) : w.switch[k] = f.switches[k].begin
        /\ \A k \in 1 .. Len(f.tries) : w.try[k] = f.tries[k].begin
    BY ONLY <2>2, Standing
  <2> HIDE DEF now, w
  <2> QED BY <2>1, <2>3, Zenon DEF w
<1>7. /\ before.for \in Seq(Nat) /\ before.switch \in Seq(Nat)
      /\ before.try \in Seq(Nat) /\ Increasing(before.try) /\ Increasing(now.try)
  <2>1. \A x \in Bracketed : before[x] \in Seq(Nat) /\ Increasing(before[x]) /\ Increasing(now[x])
    <3> HIDE DEF R, b
    <3> QED BY <1>5, <1>6, FlowBrackets DEF Here
  <2> QED BY <1>4, <2>1, Zenon
<1>8. /\ catch = ClosedBy(P.code, P.lex, "try", b) + 1
      /\ catch \in R.begin .. R.end /\ P.flow[R][catch] # None
      /\ P.flow[R][catch] = Kept(before, before.depth)
  <2> HIDE DEF R, b
  <2>1. Prepared(P) /\ Here(P, R, b) /\ P.code[b].op = "TryBegin"
    BY <1>5
  <2>2. /\ P.code[b].target = ClosedBy(P.code, P.lex, "try", b) + 1
        /\ P.code[b].target \in R.begin .. R.end /\ P.flow[R][P.code[b].target] # None
        /\ P.flow[R][P.code[b].target] = Kept(P.flow[R][b], P.flow[R][b].depth)
    BY ONLY <2>1, CatchAt
  <2> QED BY <2>2, Zenon
<1>9. before.depth = 0 /\ before.contexts = NoContexts
  <2> HIDE DEF R, b
  <2> QED BY <1>5, TryIsStatement
<1>10. R.begin = f.begin /\ R.end = f.end /\ catch \in Nat
  BY <1>1, <1>8, RangeOfFrame
<1>11. /\ fo \in Seq(Loops) /\ Begins(fo) = before.for
  <2> DEFINE s == f.fors
             t == now.for
             u == before.for
  <2>1. /\ s \in Seq(Loops) /\ t \in Seq(Nat) /\ u \in Seq(Nat) /\ Begun(u, t)
        /\ Beginning(s, t)
    BY <1>1, <1>5, <1>6, <1>7, Zenon DEF Beginning
  <2> DEFINE filler == [left |-> 0, begin |-> NoPc]
             r == Resize(s, Len(u), filler)
  <2>2. fo = r
    OBVIOUS
  <2> HIDE DEF s, t, u, filler
  <2>3. /\ r \in Seq(Loops) /\ Begins(r) = u
        /\ \A i \in DOMAIN r : \E j \in DOMAIN s : r[i] = s[j]
    BY <2>1, CutTo
  <2> HIDE DEF r, fo
  <2> QED BY <2>2, <2>3 DEF s, u
<1>12. /\ sw \in Seq(Selections) /\ Begins(sw) = before.switch
       /\ \A i \in DOMAIN sw : \E j \in DOMAIN f.switches : sw[i] = f.switches[j]
  <2> DEFINE s == f.switches
             t == now.switch
             u == before.switch
  <2>1. /\ s \in Seq(Selections) /\ t \in Seq(Nat) /\ u \in Seq(Nat) /\ Begun(u, t)
        /\ Beginning(s, t)
    BY <1>1, <1>5, <1>6, <1>7, Zenon DEF Beginning
  <2> DEFINE filler == [matched |-> FALSE, begin |-> NoPc, end |-> NoPc]
             r == Resize(s, Len(u), filler)
  <2>2. sw = r
    OBVIOUS
  <2> HIDE DEF s, t, u, filler
  <2>3. /\ r \in Seq(Selections) /\ Begins(r) = u
        /\ \A i \in DOMAIN r : \E j \in DOMAIN s : r[i] = s[j]
    BY <2>1, CutTo
  <2> HIDE DEF r, sw
  <2> QED BY <2>2, <2>3 DEF s, u
<1>13. /\ tr \in Seq(Guards) /\ Begins(tr) = before.try
       /\ \A i \in DOMAIN tr : \E j \in DOMAIN f.tries : tr[i] = f.tries[j]
  <2> HIDE DEF before, now
  <2>1. /\ tr \in Seq(Guards) /\ Len(tr) = Len(f.tries) - 1 /\ Len(f.tries) > 0
        /\ \A i \in 1 .. Len(f.tries) - 1 : tr[i] = f.tries[i]
    BY <1>1, FrontLength
  <2>0. now.try \in Seq(Nat) /\ Len(now.try) = Len(f.tries) /\ now.try[Len(f.tries)] = b
    BY <1>2, <1>6, Zenon
  <2>2. now.try # <<>> /\ Last(now.try) = b
    <3> DEFINE t == now.try
    <3>1. t \in Seq(Nat) /\ Len(t) = Len(f.tries) /\ t[Len(f.tries)] = b /\ Len(f.tries) > 0
      BY <2>0, <2>1, Zenon
    <3> HIDE DEF t, b
    <3> QED BY <3>1, EmptySeq DEF Last, t
  <2>3. before.try = Front(now.try)
    BY <1>5, <1>6, <1>7, <2>2, BelowLast
  <2>4. /\ Len(before.try) = Len(now.try) - 1
        /\ \A i \in 1 .. Len(now.try) - 1 : before.try[i] = now.try[i]
    <3> DEFINE t == now.try
               u == before.try
    <3>1. t \in Seq(Nat) /\ t # <<>> /\ u = Front(t)
      BY <2>0, <2>2, <2>3, Zenon
    <3> HIDE DEF t, u
    <3> QED BY <3>1, FrontLength DEF t, u
  <2> HIDE DEF tr
  <2>5. Begins(tr) = before.try
    <3>1. Len(tr) = Len(before.try)
      BY <1>6, <2>1, <2>4
    <3>2. \A i \in 1 .. Len(tr) : before.try[i] = tr[i].begin
      <4> SUFFICES ASSUME NEW i \in 1 .. Len(tr) PROVE before.try[i] = tr[i].begin
        OBVIOUS
      <4>1. i \in 1 .. Len(f.tries) - 1 /\ i \in 1 .. Len(f.tries) /\ i \in 1 .. Len(now.try) - 1
        BY <1>2, <1>6, <2>1
      <4>2. before.try[i] = now.try[i] /\ tr[i] = f.tries[i] /\ now.try[i] = f.tries[i].begin
        BY <1>6, <2>1, <2>4, <4>1, Zenon
      <4> QED BY <4>2
    <3>3. tr \in Seq(Guards)
      BY <2>1
    <3> DEFINE u == before.try
    <3>4. u \in Seq(Nat) /\ Len(tr) = Len(u) /\ \A i \in 1 .. Len(tr) : u[i] = tr[i].begin
      BY <1>7, <3>1, <3>2
    <3> HIDE DEF u
    <3>5. Begins(tr) = u
      BY ONLY <3>3, <3>4, BeginsIs
    <3> QED BY <3>5, Zenon DEF u
  <2>6. \A i \in DOMAIN tr : \E j \in DOMAIN f.tries : tr[i] = f.tries[j]
    <3>1. DOMAIN tr = 1 .. Len(f.tries) - 1
      BY <1>2, <2>1, LenProperties
    <3>2. \A i \in 1 .. Len(f.tries) - 1 : i \in 1 .. Len(f.tries)
      BY <1>2
    <3> QED BY <1>2, <2>1, <3>1, <3>2, Zenon
  <2> QED BY <2>1, <2>5, <2>6
<1> HIDE DEF fo, sw, tr
<1>14. /\ Same(f, g) /\ g.pc = catch /\ g.return = f.return /\ g.done = f.done
       /\ g.fors = fo /\ g.switches = sw /\ g.tries = tr /\ g.idxs = <<>>
  <2>1. FlowFor(P, f)[b] = before
    BY DEF FlowFor
  <2>2. fo = Resize(f.fors, Len(FlowFor(P, f)[b].for), [left |-> 0, begin |-> NoPc])
    BY <2>1, Zenon DEF fo
  <2>3. sw = Resize(f.switches, Len(FlowFor(P, f)[b].switch),
                    [matched |-> FALSE, begin |-> NoPc, end |-> NoPc])
    BY <2>1, Zenon DEF sw
  <2>4. Last(f.tries) = GuardAt(P, f, m, b) /\ tr = Front(f.tries)
    BY <1>5, Zenon DEF tr
  <2>5. catch \in Nat /\ fo \in Seq(Loops) /\ sw \in Seq(Selections) /\ tr \in Seq(Guards)
    BY <1>10, <1>11, <1>12, <1>13, Zenon
  <2>6. /\ Same(f, g) /\ g.pc = P.code[b].target /\ g.return = f.return /\ g.done = f.done
        /\ g.fors = fo /\ g.switches = sw /\ g.tries = tr /\ g.idxs = <<>>
    <3>1. CutBack(P, f, m, b, fo, sw, tr)
      BY <2>2, <2>3, <2>4, Zenon DEF CutBack
    <3> HIDE DEF b, before
    <3> QED BY <2>5, <3>1, RecoveredFields
  <2> QED BY <2>6
<1>15. try.base = 0 /\ try.stack = f.base /\ try.lvals = m
  <2>1. try = GuardAt(P, f, m, b)
    BY <1>5, Zenon
  <2> HIDE DEF try, b
  <2> QED BY <2>1 DEF GuardAt
<1>16. Formed(P, g, m)
  <2> HIDE DEF g
  <2> QED BY <1>12, <1>13, <1>14, SubFormed
<1>17. FlowFor(P, g)[g.pc] = St(0, before.for, before.switch, before.try, NoContexts)
  <2>1. FlowFor(P, g) = P.flow[R]
    <3> HIDE DEF g
    <3> QED BY <1>14, SameRange DEF FlowFor
  <2> QED BY <1>8, <1>9, <1>14, <2>1, Zenon DEF Kept
<1>18. Holds(P, g, g.pc)
  <2> DEFINE e == FlowFor(P, g)[g.pc]
  <2>1. e.for = before.for /\ e.switch = before.switch /\ e.try = before.try /\ e # None
    <3> HIDE DEF before
    <3> QED BY <1>17, StFields, StKnown
  <2>2. g.pc \in g.begin .. g.end
    BY <1>8, <1>10, <1>14 DEF Same
  <2> HIDE DEF before, g
  <2> QED BY <1>11, <1>12, <1>13, <1>14, <2>1, <2>2, Zenon DEF Holds
<1>19. /\ g.idxs = Totals(FlowFor(P, g)[g.pc].contexts.idxs)
       /\ FlowFor(P, g)[g.pc].depth = 0 /\ FlowFor(P, g)[g.pc].contexts.lvals = <<>>
  <2> DEFINE e == FlowFor(P, g)[g.pc]
  <2>1. e.contexts = NoContexts /\ e.depth = 0
    <3> HIDE DEF before
    <3> QED BY <1>17, StFields
  <2>2. NoContexts.idxs = <<>> /\ NoContexts.lvals = <<>>
    BY DEF NoContexts
  <2>3. Totals(<<>>) = <<>>
    BY DEF Totals
  <2> HIDE DEF e, g
  <2> QED BY <1>14, <2>1, <2>2, <2>3 DEF e
<1> QED BY <1>14, <1>15, <1>16, <1>18, <1>19, Zenon
-----------------------------------------------------------------------------
(* A jump keeps the switches and tries around its target.                     *)
Around(s, target) == {i \in DOMAIN s : s[i].begin < target /\ target <= s[i].end}

KeptCount(s, target) == IF Around(s, target) = {} THEN 0 ELSE Latest(Around(s, target))

KeptOf(s, target) == SubSeq(s, 1, KeptCount(s, target))

LEMMA Prefix ==
  ASSUME NEW S, NEW s \in Seq(S), NEW n \in 0 .. Len(s)
  PROVE  /\ SubSeq(s, 1, n) \in Seq(S) /\ Len(SubSeq(s, 1, n)) = n
         /\ \A i \in 1 .. n : SubSeq(s, 1, n)[i] = s[i]
<1>1. Len(s) \in Nat /\ n \in Nat /\ \A i \in 1 .. n : s[i] \in S
  BY LenProperties, ElementOfSeq
<1>2. /\ SubSeq(s, 1, n) \in Seq(S)
      /\ Len(SubSeq(s, 1, n)) = IF 1 <= n THEN n - 1 + 1 ELSE 0
      /\ \A i \in 1 .. n - 1 + 1 : SubSeq(s, 1, n)[i] = s[1 + i - 1]
  BY <1>1, SubSeqProperties
<1>3. Len(SubSeq(s, 1, n)) = n
  BY <1>1, <1>2
<1>4. \A i \in 1 .. n : SubSeq(s, 1, n)[i] = s[i]
  BY <1>1, <1>2
<1> QED BY <1>2, <1>3, <1>4

LEMMA KeptPrefix ==
  ASSUME NEW S, NEW s \in Seq(S), NEW target
  PROVE  /\ KeptCount(s, target) \in 0 .. Len(s) /\ KeptOf(s, target) \in Seq(S)
         /\ \A i \in DOMAIN KeptOf(s, target) : \E j \in DOMAIN s : KeptOf(s, target)[i] = s[j]
<1> DEFINE n == KeptCount(s, target)
           r == KeptOf(s, target)
<1>1. Len(s) \in Nat /\ DOMAIN s = 1 .. Len(s)
  BY LenProperties
<1>2. n \in 0 .. Len(s)
  <2>1. Around(s, target) \in SUBSET (0 .. Len(s))
    BY <1>1 DEF Around
  <2>2. CASE Around(s, target) = {}
    BY <1>1, <2>2 DEF KeptCount
  <2>3. CASE Around(s, target) # {}
    <3>1. Latest(Around(s, target)) \in Around(s, target)
      BY <1>1, <2>1, <2>3, LatestOf
    <3> QED BY <2>1, <2>3, <3>1 DEF KeptCount
  <2> QED BY <2>2, <2>3
<1>3. r = SubSeq(s, 1, n)
  BY DEF KeptOf
<1> HIDE DEF n, r
<1>4. r \in Seq(S) /\ Len(r) = n /\ \A i \in 1 .. n : r[i] = s[i]
  BY <1>2, <1>3, Prefix
<1>5. \A i \in DOMAIN r : \E j \in DOMAIN s : r[i] = s[j]
  <2>1. DOMAIN r = 1 .. n /\ \A i \in 1 .. n : i \in DOMAIN s
    BY <1>1, <1>2, <1>4, LenProperties
  <2> QED BY <1>4, <2>1
<1> QED BY <1>2, <1>4, <1>5 DEF n, r

ClosedRight(P, s, f) ==
  \A k \in 1 .. Len(s) : s[k].end = ClosedBy(P.code, P.lex, f, s[k].begin)

(* They are the brackets open at the target.                                  *)
LEMMA KeptInside ==
  ASSUME NEW P, NEW R, NEW pc, Here(P, R, pc), NEW f \in Bracketed,
         NEW target \in R.begin .. R.end - 1, P.flow[R][target] # None,
         P.flow[R][target][f] = Cut(P, R, P.flow[R][pc][f], f, target),
         NEW S, NEW s \in Seq(S), Beginning(s, P.flow[R][pc][f]), ClosedRight(P, s, f)
  PROVE  Begins(KeptOf(s, target)) = P.flow[R][target][f]
<1> DEFINE E == P.flow[R][target][f]
           open == P.flow[R][pc][f]
           n == Len(E)
<1>1. /\ R.begin \in Nat /\ R.end \in Nat /\ 1 <= R.begin /\ R.end <= Len(P.code) + 1
      /\ Len(P.code) \in Nat /\ pc \in R.begin .. R.end - 1
  BY RangeBounds, PreparedCode DEF Here, Known
<1>2. Lexed(P.code, P.lex) /\ f \in Families
  BY PreparedLexed, FamilyOps DEF Here, Bracketed
<1>3. Known(P, R, target)
  BY <1>1 DEF Known
<1>4. /\ open \in Seq(Nat) /\ Increasing(open)
      /\ \A o : o \in Values(open) <=> OpenAt(P.lex, f, o, pc) /\ R.begin <= o /\ o < R.end
  BY FlowBrackets DEF Here
<1>5. /\ E \in Seq(Nat)
      /\ \A o : o \in Values(E) <=> OpenAt(P.lex, f, o, target) /\ R.begin <= o /\ o < R.end
  BY <1>3, FlowBrackets DEF Here
<1>6. E = ExpectedWithin(P.lex, f, target, R)
  <2>1. target \in R.begin .. R.end
    BY <1>1
  <2>2. \A x \in Bracketed : P.flow[R][target][x] = ExpectedWithin(P.lex, x, target, R)
    BY <2>1, FlowAt DEF Here
  <2> QED BY <2>2
<1>7. E = Shorten(open, n)
  BY <1>6, Zenon DEF Cut
<1>8. Len(open) \in Nat /\ n \in 0 .. Len(open) /\ \A i \in 1 .. n : E[i] = open[i]
  <2> HIDE DEF E, open
  <2>1. Len(open) \in Nat /\ Len(E) \in Nat
    BY <1>4, <1>5, LenProperties
  <2>2. CASE n < Len(open)
    <3>1. E = SubSeq(open, 1, n)
      BY <1>7, <2>2 DEF Shorten
    <3>2. n \in 0 .. Len(open)
      BY <2>1, <2>2
    <3> HIDE DEF n
    <3>3. \A i \in 1 .. n : SubSeq(open, 1, n)[i] = open[i]
      BY <1>4, <3>2, Prefix
    <3> QED BY <2>1, <3>1, <3>2, <3>3
  <2>3. CASE ~(n < Len(open))
    <3> DEFINE m == Len(open)
    <3>1. E = SubSeq(open, 1, m)
      BY <1>7, <2>3 DEF Shorten
    <3>2. m \in 0 .. Len(open)
      BY <2>1
    <3> HIDE DEF m
    <3>3. Len(SubSeq(open, 1, m)) = m /\ \A i \in 1 .. m : SubSeq(open, 1, m)[i] = open[i]
      BY <1>4, <3>2, Prefix
    <3>4. n = m
      BY <3>1, <3>3
    <3> QED BY <2>1, <3>1, <3>2, <3>3, <3>4
  <2> QED BY <2>2, <2>3
<1>9. /\ Len(s) = Len(open) /\ DOMAIN s = 1 .. Len(open) /\ DOMAIN open = 1 .. Len(open)
      /\ \A i \in 1 .. Len(open) : open[i] = s[i].begin /\ open[i] \in Nat
      /\ \A i \in 1 .. Len(open) : s[i].end = ClosedBy(P.code, P.lex, f, open[i])
  <2> HIDE DEF open
  <2>1. Len(s) = Len(open) /\ \A i \in 1 .. Len(s) : open[i] = s[i].begin
    BY Zenon DEF Beginning, open
  <2>2. DOMAIN s = 1 .. Len(s) /\ DOMAIN open = 1 .. Len(open) /\ \A i \in 1 .. Len(open) : open[i] \in Nat
    BY <1>4, LenProperties, ElementOfSeq
  <2>3. \A i \in 1 .. Len(s) : s[i].end = ClosedBy(P.code, P.lex, f, s[i].begin)
    BY Zenon DEF ClosedRight
  <2> QED BY <2>1, <2>2, <2>3
<1>10. DOMAIN E = 1 .. n /\ Values(E) = {E[i] : i \in 1 .. n}
  <2> HIDE DEF E
  <2>1. DOMAIN E = 1 .. n
    BY <1>5, LenProperties
  <2> QED BY <2>1 DEF Values
<1>11. ASSUME NEW i \in 1 .. Len(open) PROVE i \in Around(s, target) <=> open[i] \in Values(E)
  <2> DEFINE o == open[i]
             closer == ClosedBy(P.code, P.lex, f, o)
  <2>1. o \in Nat /\ OpenAt(P.lex, f, o, pc) /\ R.begin <= o /\ o < R.end
    <3>1. o \in Values(open)
      BY <1>9, <1>11 DEF Values
    <3> QED BY <1>4, <1>9, <1>11, <3>1
  <2>2. pc \in 1 .. Len(P.code) + 1 /\ target \in 1 .. Len(P.code) + 1 /\ target \in Nat
    BY <1>1
  <2>3. i \in Around(s, target) <=> o < target /\ target <= closer
    BY <1>9, <1>11 DEF Around
  <2> HIDE DEF o, E
  <2>4. o < pc
    BY <1>2, <2>1, <2>2, OpenUntil
  <2>5. OpenAt(P.lex, f, o, o + 1)
    <3>1. o + 1 \in Nat /\ o < o + 1 /\ o + 1 <= pc
      BY <2>1, <2>2, <2>4
    <3> QED BY <1>2, <2>1, <2>2, <3>1, OpenBetween
  <2>6. ASSUME o < target /\ target <= closer PROVE OpenAt(P.lex, f, o, target)
    BY <1>2, <2>1, <2>2, <2>5, <2>6, OpenTill
  <2>7. ASSUME OpenAt(P.lex, f, o, target) PROVE o < target /\ target <= closer
    BY <1>2, <2>1, <2>2, <2>7, OpenUntil
  <2>8. o \in Values(E) <=> OpenAt(P.lex, f, o, target)
    BY <1>5, <2>1
  <2> QED BY <2>3, <2>6, <2>7, <2>8, Zenon DEF o
<1>12. ASSUME NEW i \in 1 .. Len(open) PROVE open[i] \in Values(E) <=> i <= n
  <2> HIDE DEF E, open, n
  <2>1. ASSUME i <= n PROVE open[i] \in Values(E)
    <3>1. i \in 1 .. n
      BY <1>8, <1>12, <2>1
    <3> QED BY <1>8, <1>10, <3>1
  <2>2. ASSUME open[i] \in Values(E) PROVE i <= n
    <3>1. PICK j \in 1 .. n : E[j] = open[i]
      BY <1>10, <2>2
    <3>2. j \in 1 .. Len(open) /\ open[j] = open[i]
      BY <1>8, <3>1
    <3>3. ~(i < j) /\ ~(j < i)
      BY <1>4, <1>9, <1>12, <3>2, SMTT(30) DEF Increasing
    <3>4. i \in Nat /\ j \in Nat /\ j <= n
      BY <1>8, <1>12, <3>1
    <3> QED BY <1>8, <3>3, <3>4
  <2> QED BY <2>1, <2>2
<1>13. KeptCount(s, target) = n
  <2> HIDE DEF E, open, n
  <2>1. Around(s, target) = 1 .. n
    <3>1. \A i \in 1 .. Len(open) : i \in Around(s, target) <=> i <= n
      BY <1>11, <1>12, Zenon
    <3>2. Around(s, target) \subseteq 1 .. Len(open)
      BY <1>9 DEF Around
    <3>3. n \in Nat /\ n <= Len(open) /\ Len(open) \in Nat
      BY <1>8
    <3>4. ASSUME NEW i \in Around(s, target) PROVE i \in 1 .. n
      BY <3>1, <3>2, <3>3, <3>4
    <3>5. ASSUME NEW i \in 1 .. n PROVE i \in Around(s, target)
      <4>1. i \in 1 .. Len(open) /\ i <= n
        BY <3>3, <3>5
      <4> QED BY <3>1, <4>1
    <3> QED BY <3>4, <3>5, Zenon
  <2>2. CASE n = 0
    BY <2>1, <2>2 DEF KeptCount
  <2>3. CASE n # 0
    <3>1. 1 .. n \in SUBSET (0 .. n) /\ n \in 1 .. n /\ n \in Nat /\ 1 .. n # {}
      BY <1>8, <2>3
    <3> DEFINE T == 1 .. n
    <3>2. T \in SUBSET (0 .. n) /\ n \in T /\ T # {}
      BY <3>1
    <3>3. Latest(T) \in T /\ \A k \in T : k <= Latest(T)
      <4> HIDE DEF T
      <4> QED BY <3>1, <3>2, LatestOf
    <3>4. n <= Latest(T) /\ Latest(T) \in 1 .. n
      BY <3>2, <3>3
    <3>5. Latest(T) = n
      <4> HIDE DEF T
      <4> QED BY <3>1, <3>4
    <3> QED BY <2>1, <3>1, <3>5 DEF KeptCount
  <2> QED BY <2>2, <2>3
<1> DEFINE r == SubSeq(s, 1, n)
<1> HIDE DEF E, open, n
<1>14. r \in Seq(S) /\ Len(r) = n /\ \A i \in 1 .. n : r[i] = s[i]
  <2>1. n \in 0 .. Len(s)
    BY <1>8, <1>9
  <2> QED BY <2>1, Prefix
<1>15. Begins(r) = E
  <2> HIDE DEF r
  <2>1. Len(r) = Len(E)
    BY <1>14 DEF n
  <2>2. \A i \in 1 .. Len(r) : E[i] = r[i].begin
    <3> SUFFICES ASSUME NEW i \in 1 .. Len(r) PROVE E[i] = r[i].begin
      OBVIOUS
    <3>1. i \in 1 .. n /\ i \in 1 .. Len(open)
      BY <1>8, <1>14
    <3> QED BY <1>8, <1>9, <1>14, <3>1
  <2> QED BY <1>5, <1>14, <2>1, <2>2, BeginsIs
<1>16. KeptOf(s, target) = r
  BY <1>13, Zenon DEF KeptOf
<1> QED BY <1>15, <1>16, Zenon DEF E

LEMMA ContextsClosed ==
  ASSUME NEW P, NEW f \in Frames, NEW m, Formed(P, f, m)
  PROVE  ClosedRight(P, f.tries, "try") /\ ClosedRight(P, f.switches, "switch")
<1>1. /\ DOMAIN f.tries = 1 .. Len(f.tries) /\ DOMAIN f.switches = 1 .. Len(f.switches)
  BY DEF Frames
<1>2. \A k \in 1 .. Len(f.tries) : f.tries[k].end = ClosedBy(P.code, P.lex, "try", f.tries[k].begin)
  <2> SUFFICES ASSUME NEW k \in 1 .. Len(f.tries)
               PROVE  f.tries[k].end = ClosedBy(P.code, P.lex, "try", f.tries[k].begin)
    OBVIOUS
  <2> DEFINE b == f.tries[k].begin
  <2>1. GuardOK(P, f, m, f.tries[k])
    BY <1>1, Zenon DEF Formed
  <2>2. f.tries[k] = GuardAt(P, f, m, b)
    BY <2>1, Zenon DEF GuardOK
  <2> HIDE DEF b
  <2>3. f.tries[k].end = ClosedBy(P.code, P.lex, "try", b)
    BY <2>2 DEF GuardAt
  <2> QED BY <2>3 DEF b
<1>3. \A k \in 1 .. Len(f.switches) :
        f.switches[k].end = ClosedBy(P.code, P.lex, "switch", f.switches[k].begin)
  BY <1>1, Zenon DEF Formed, SwitchOK
<1> QED BY <1>2, <1>3, Zenon DEF ClosedRight

LEMMA TriesOver ==
  ASSUME NEW P, Prepared(P), NEW f \in Frames, NEW m, Formed(P, f, m)
  PROVE  KeptOf(f.tries, f.end) = <<>>
<1> DEFINE R == RangeFor(f)
<1>1. /\ f.tries \in Seq(Guards) /\ f.end \in Nat /\ R.end = f.end
  BY RangeOfFrame DEF Frames
<1>2. ASSUME NEW k \in DOMAIN f.tries PROVE ~(f.end <= f.tries[k].end)
  <2> DEFINE b == f.tries[k].begin
  <2>1. GuardOK(P, f, m, f.tries[k]) /\ IsRange(P, R)
    BY Zenon DEF Formed
  <2>2. Here(P, R, b) /\ P.code[b].op = "TryBegin"
    BY <2>1, Zenon DEF GuardOK, Here
  <2>3. /\ P.code[b].target = ClosedBy(P.code, P.lex, "try", b) + 1
        /\ ClosedBy(P.code, P.lex, "try", b) \in Nat
        /\ P.code[b].target \in R.begin .. R.end
    <3> HIDE DEF R, b
    <3> QED BY <2>2, CatchAt
  <2>4. f.tries[k].end = ClosedBy(P.code, P.lex, "try", b)
    <3>1. k \in 1 .. Len(f.tries)
      BY <1>1
    <3> QED BY <3>1, ContextsClosed, Zenon DEF ClosedRight
  <2> HIDE DEF R, b
  <2> QED BY <1>1, <2>3, <2>4
<1>3. Around(f.tries, f.end) = {}
  BY <1>2 DEF Around
<1>4. KeptOf(f.tries, f.end) = SubSeq(f.tries, 1, 0)
  BY <1>3, Zenon DEF KeptOf, KeptCount
<1>5. Len(SubSeq(f.tries, 1, 0)) = 0 /\ SubSeq(f.tries, 1, 0) \in Seq(Guards)
  <2>1. 0 \in 0 .. Len(f.tries)
    BY <1>1
  <2> QED BY <1>1, <2>1, Prefix
<1> QED BY <1>4, <1>5, EmptySeq

LEMMA UnwindKeeps ==
  ASSUME NEW f \in Frames, NEW target
  PROVE  LET g == Unwind(f, target)
         IN /\ Same(f, g) /\ g.pc = f.pc /\ g.return = f.return /\ g.done = f.done
            /\ g.fors = f.fors /\ g.idxs = f.idxs
            /\ g.switches = KeptOf(f.switches, target) /\ g.tries = KeptOf(f.tries, target)
<1> DEFINE sw == KeptOf(f.switches, target)
           tr == KeptOf(f.tries, target)
           f1 == [f EXCEPT !.switches = sw]
           f2 == [f1 EXCEPT !.tries = tr]
<1>1. f.tries \in Seq(Guards) /\ f.switches \in Seq(Selections)
  BY DEF Frames
<1>2. sw \in Seq(Selections) /\ tr \in Seq(Guards)
  <2>1. sw \in Seq(Selections)
    BY <1>1, KeptPrefix
  <2>2. tr \in Seq(Guards)
    BY <1>1, KeptPrefix
  <2> QED BY <2>1, <2>2
<1>3. Unwind(f, target) = [f EXCEPT !.switches = sw, !.tries = tr]
  BY Zenon DEF Unwind, KeptOf, KeptCount, Around
<1> HIDE DEF sw, tr
<1>4. Unwind(f, target) = f2
  BY <1>3, Zenon
<1> HIDE DEF f1, f2
<1>5. /\ Same(f, f1) /\ f1.pc = f.pc /\ f1.return = f.return /\ f1.done = f.done
      /\ f1.fors = f.fors /\ f1.switches = sw /\ f1.idxs = f.idxs
  BY <1>2, NewSwitches DEF f1
<1>6. /\ Same(f1, f2) /\ f2.pc = f1.pc /\ f2.return = f1.return /\ f2.done = f1.done
      /\ f2.fors = f1.fors /\ f2.switches = f1.switches /\ f2.tries = tr /\ f2.idxs = f1.idxs
  BY <1>2, <1>5, NewTries DEF f2, Same
<1>7. Same(f, f2)
  BY <1>5, <1>6 DEF Same
<1> QED BY <1>4, <1>5, <1>6, <1>7, Zenon DEF sw, tr

Leaving(P, R, pc, target, d, fo, c) ==
  LET e == P.flow[R][pc]
  IN Reaches(P, R, target, St(d, fo, Cut(P, R, e.switch, "switch", target),
                              Cut(P, R, e.try, "try", target), c))

LEMMA Unwound ==
  ASSUME NEW P, NEW f \in Frames, NEW m, Formed(P, f, m), NEW pc, Here(P, RangeFor(f), pc),
         Beginning(f.switches, FlowFor(P, f)[pc].switch),
         Beginning(f.tries, FlowFor(P, f)[pc].try),
         NEW target, NEW d, NEW c, Leaving(P, RangeFor(f), pc, target, d, Begins(f.fors), c)
  PROVE  LET g == Unwind(f, target)
         IN Formed(P, g, m) /\ Holds(P, g, target)
<1> DEFINE R == RangeFor(f)
           e == P.flow[R][pc]
           g == Unwind(f, target)
           sw == Cut(P, R, e.switch, "switch", target)
           tr == Cut(P, R, e.try, "try", target)
           t == P.flow[R][target]
<1>1. /\ Same(f, g) /\ g.fors = f.fors
      /\ g.switches = KeptOf(f.switches, target) /\ g.tries = KeptOf(f.tries, target)
  BY UnwindKeeps
<1>2. /\ f.tries \in Seq(Guards) /\ f.switches \in Seq(Selections) /\ f.begin \in Nat /\ f.end \in Nat
      /\ R.begin = f.begin /\ R.end = f.end
  BY RangeOfFrame DEF Frames
<1>3. Formed(P, g, m)
  <2>1. \A i \in DOMAIN g.switches : \E j \in DOMAIN f.switches : g.switches[i] = f.switches[j]
    <3>1. \A i \in DOMAIN KeptOf(f.switches, target) :
            \E j \in DOMAIN f.switches : KeptOf(f.switches, target)[i] = f.switches[j]
      BY <1>2, KeptPrefix
    <3> QED BY <1>1, <3>1, Zenon
  <2>2. \A i \in DOMAIN g.tries : \E j \in DOMAIN f.tries : g.tries[i] = f.tries[j]
    <3>1. \A i \in DOMAIN KeptOf(f.tries, target) :
            \E j \in DOMAIN f.tries : KeptOf(f.tries, target)[i] = f.tries[j]
      BY <1>2, KeptPrefix
    <3> QED BY <1>1, <3>1, Zenon
  <2> HIDE DEF g
  <2> QED BY <1>1, <2>1, <2>2, SubFormed
<1>4. target \in R.begin .. R.end /\ t = St(d, Begins(f.fors), sw, tr, c)
  BY Zenon DEF Leaving, Reaches
<1>5. t # None /\ t.for = Begins(f.fors) /\ t["switch"] = sw /\ t["try"] = tr
  <2> HIDE DEF t, sw, tr
  <2>1. St(d, Begins(f.fors), sw, tr, c) # None
    BY StKnown
  <2>2. t.for = Begins(f.fors) /\ t["switch"] = sw /\ t["try"] = tr
    BY <1>4 DEF St
  <2> QED BY <1>4, <2>1, <2>2, Zenon
<1>6. FlowFor(P, f) = P.flow[R] /\ FlowFor(P, g) = P.flow[R]
  <2> HIDE DEF g
  <2> QED BY <1>1, SameRange DEF FlowFor
<1>7. ClosedRight(P, f.tries, "try") /\ ClosedRight(P, f.switches, "switch")
  BY ContextsClosed
<1>8. CASE target < f.end
  <2>1. target \in R.begin .. R.end - 1
    BY <1>2, <1>4, <1>8
  <2>2. "switch" \in Bracketed /\ "try" \in Bracketed
    BY DEF Bracketed
  <2>3. Begins(KeptOf(f.switches, target)) = t["switch"]
    <3>1. t["switch"] = Cut(P, R, e["switch"], "switch", target) /\ Beginning(f.switches, e["switch"])
      BY <1>5, <1>6, Zenon
    <3> HIDE DEF R
    <3> QED BY <1>2, <1>5, <1>7, <2>1, <2>2, <3>1, KeptInside DEF R
  <2>4. Begins(KeptOf(f.tries, target)) = t["try"]
    <3>1. t["try"] = Cut(P, R, e["try"], "try", target) /\ Beginning(f.tries, e["try"])
      BY <1>5, <1>6, Zenon
    <3> HIDE DEF R
    <3> QED BY <1>2, <1>5, <1>7, <2>1, <2>2, <3>1, KeptInside DEF R
  <2>5. Holds(P, g, target)
    <3> HIDE DEF g, t, R
    <3> QED BY <1>1, <1>2, <1>4, <1>5, <1>6, <2>3, <2>4, Zenon DEF Holds, Same, t
  <2> QED BY <1>3, <2>5
<1>9. CASE ~(target < f.end)
  <2>1. target = f.end
    BY <1>2, <1>4, <1>9
  <2>2. KeptOf(f.tries, target) = <<>>
    BY <2>1, TriesOver DEF Here
  <2>3. t = St(R.depth, <<>>, <<>>, <<>>, NoContexts)
    <3>1. target = R.end /\ Prepared(P) /\ IsRange(P, R)
      BY <1>2, <2>1, Zenon DEF Here
    <3> HIDE DEF R
    <3>2. P.flow[R][target] = St(R.depth, <<>>, <<>>, <<>>, NoContexts)
      BY <1>4, <1>5, <3>1, FlowAt
    <3> QED BY <3>2
  <2>4. t["try"] = <<>> /\ t.for = Begins(f.fors)
    <3> HIDE DEF t, R
    <3>1. t["try"] = <<>>
      BY <2>3 DEF St
    <3> QED BY <1>5, <3>1
  <2>5. Begins(<<>>) = <<>>
    BY DEF Begins
  <2>6. g.end = f.end /\ g.begin = f.begin
    BY <1>1, Zenon DEF Same
  <2>7. Holds(P, g, target)
    <3> HIDE DEF g, t, R
    <3>1. ~(target < g.end) /\ target \in g.begin .. g.end
      BY <1>2, <1>4, <1>9, <2>6
    <3> QED BY <1>1, <1>5, <1>6, <2>2, <2>4, <2>5, <3>1, Zenon DEF Holds, t
  <2> QED BY <1>3, <2>7
<1> QED BY <1>8, <1>9
-----------------------------------------------------------------------------
(* The invariant.  A frame stands where the flow says, its callers wait at    *)
(* their calls, and the lvalues of each frame lie above those of its callers. *)
Sources == {d \in Seq(Nat) \X STRING : d[1] # <<>>} \cup {StopDiag}

(* The lvalues of the frames below depth d are the first m.                   *)
Mark(l, d, m) == m \in 0 .. Len(l) /\ \A i \in DOMAIN l : l[i] < d <=> i <= m

FrameOK(P, f, m) == Formed(P, f, m) /\ Bounded(f) /\ f.pc \in f.begin .. f.end

Stands(P, f, pc) ==
  Holds(P, f, pc) /\ f.idxs = Totals(FlowFor(P, f)[pc].contexts.idxs)

Calls(P, f, g) ==
  IF g.kind = "default" THEN f.pc = f.begin /\ g.base = f.base
  ELSE /\ P.code[f.pc].op = "CallOrIndex" /\ (P.code[f.pc].context <=> g.kind = "anonymous")
       /\ g.base + P.code[f.pc].operandCount + 1 = f.base + FlowFor(P, f)[f.pc].depth

Waits(P, f, g, m, n) ==
  /\ ~f.done /\ ~f.return /\ f.pc < f.end /\ Stands(P, f, f.pc)
  /\ n = m + Len(FlowFor(P, f)[f.pc].contexts.lvals)
  /\ Calls(P, f, g)

Chain(P, fs, l, M) ==
  /\ M \in Seq(Nat) /\ Len(M) = Len(fs)
  /\ \A d \in 1 .. Len(fs) : /\ fs[d].kind = "script" <=> d = 1
                             /\ Mark(l, d, M[d]) /\ FrameOK(P, fs[d], M[d])
  /\ \A d \in 1 .. Len(fs) - 1 : Waits(P, fs[d], fs[d + 1], M[d], M[d + 1])

(* The operands and lvalues are those of the state the flow has at pc.        *)
Arrives(P, f, pc, s, l, m) ==
  /\ Stands(P, f, pc)
  /\ Len(s) = f.base + FlowFor(P, f)[pc].depth
  /\ Len(l) = m + Len(FlowFor(P, f)[pc].contexts.lvals)

Returned(f, s, l, m) == Len(s) = f.base + RangeDepth(f) /\ Len(l) = m

Ready(P, f, s, l, m) ==
  IF f.done THEN f.return /\ Returned(f, s, l, m)
            ELSE ~f.return /\ Arrives(P, f, f.pc, s, l, m)

Uppermost(fs) == fs[Len(fs)]

Sound(P, fs, s, l, ds, ex, stop) ==
  /\ fs \in Seq(Frames) /\ fs # <<>> /\ s \in Seq(Nat) /\ l \in Seq(Nat)
  /\ ds \in Seq(Sources) /\ ex \in Sources \cup {NoDiag} /\ stop \in BOOLEAN
  /\ stop => ds # <<>>
  /\ Uppermost(fs).base <= Len(s)
  /\ ds # <<>> => Uppermost(fs).done
  /\ \E M \in Seq(Nat) :
       /\ Chain(P, fs, l, M)
       /\ ds = <<>> => /\ Mark(l, Len(fs) + 1, Len(l))
                       /\ Ready(P, Uppermost(fs), s, l, M[Len(fs)])

-----------------------------------------------------------------------------
(* A step of the uppermost frame.                                             *)
LEMMA TopSeq ==
  ASSUME NEW S, NEW fs \in Seq(S), fs # <<>>, NEW g \in S
  PROVE  LET gs == Append(Front(fs), g)
         IN /\ Len(fs) \in Nat /\ Len(fs) >= 1 /\ Uppermost(fs) \in S /\ Last(fs) = Uppermost(fs)
            /\ gs \in Seq(S) /\ gs # <<>> /\ Len(gs) = Len(fs) /\ Uppermost(gs) = g
            /\ gs[Len(fs)] = g
            /\ \A i \in 1 .. Len(fs) - 1 : gs[i] = fs[i]
<1> DEFINE r == Front(fs)
           gs == Append(r, g)
           n == Len(fs)
<1>1. /\ n \in Nat /\ n > 0 /\ r \in Seq(S) /\ Len(r) = n - 1
      /\ \A i \in 1 .. n - 1 : r[i] = fs[i]
  BY FrontLength
<1> HIDE DEF r
<1>2. /\ gs \in Seq(S) /\ Len(gs) = Len(r) + 1
      /\ \A i \in 1 .. Len(r) : gs[i] = r[i]
      /\ gs[Len(r) + 1] = g
  BY <1>1, AppendProperties
<1> HIDE DEF gs
<1>3. Len(gs) = n /\ gs[n] = g /\ \A i \in 1 .. n - 1 : gs[i] = fs[i]
  BY <1>1, <1>2
<1>4. gs # <<>>
  BY <1>1, <1>3, EmptySeq
<1>5. fs[n] \in S
  BY <1>1, ElementOfSeq
<1> QED BY <1>1, <1>2, <1>3, <1>4, <1>5 DEF Uppermost, Last, gs, r

(* The lvalues l2 are those of l up to m, and above the frame's own.          *)
Keeps(l, l2, m, n) ==
  /\ l2 \in Seq(Nat) /\ m <= Len(l2)
  /\ \A i \in 1 .. m : l2[i] = l[i]
  /\ \A i \in 1 .. Len(l2) : i > m => l2[i] >= n

LEMMA MarksKept ==
  ASSUME NEW l \in Seq(Nat), NEW l2, NEW m, NEW n \in Nat, Keeps(l, l2, m, n), Mark(l, n, m),
         NEW d \in 1 .. n, NEW k, Mark(l, d, k)
  PROVE  Mark(l2, d, k)
<1>1. /\ Len(l) \in Nat /\ DOMAIN l = 1 .. Len(l) /\ m \in 0 .. Len(l) /\ k \in 0 .. Len(l)
      /\ \A i \in 1 .. Len(l) : l[i] \in Nat /\ (l[i] < n <=> i <= m) /\ (l[i] < d <=> i <= k)
  BY LenProperties, ElementOfSeq DEF Mark
<1>2. /\ Len(l2) \in Nat /\ DOMAIN l2 = 1 .. Len(l2) /\ \A i \in 1 .. Len(l2) : l2[i] \in Nat
      /\ m <= Len(l2) /\ \A i \in 1 .. m : l2[i] = l[i]
      /\ \A i \in 1 .. Len(l2) : i > m => l2[i] >= n
  BY LenProperties, ElementOfSeq DEF Keeps
<1>3. k <= m
  <2>1. CASE k = 0
    BY <1>1, <2>1
  <2>2. CASE k # 0
    <3>1. k \in 1 .. Len(l)
      BY <1>1, <2>2
    <3>2. l[k] \in Nat /\ l[k] < d
      BY <1>1, <3>1
    <3>3. l[k] < n
      BY <3>2
    <3>4. k <= m
      BY <1>1, <3>1, <3>3
    <3> QED BY <3>4
  <2> QED BY <2>1, <2>2
<1>4. ASSUME NEW i \in 1 .. Len(l2) PROVE l2[i] < d <=> i <= k
  <2>1. CASE i <= m
    <3>1. i \in 1 .. m /\ i \in 1 .. Len(l)
      BY <1>1, <1>2, <2>1
    <3> QED BY <1>1, <1>2, <3>1
  <2>2. CASE i > m
    <3>1. l2[i] >= n /\ l2[i] \in Nat
      BY <1>2, <2>2
    <3> QED BY <1>1, <1>3, <2>2, <3>1
  <2>3. i <= m \/ i > m
    BY <1>1
  <2> QED BY <2>1, <2>2, <2>3
<1>5. k \in 0 .. Len(l2)
  BY <1>1, <1>2, <1>3
<1> QED BY <1>2, <1>4, <1>5 DEF Mark

LEMMA SameCall ==
  ASSUME NEW P, NEW e, NEW f, NEW g, NEW m, NEW n, Waits(P, e, f, m, n), Same(f, g)
  PROVE  Waits(P, e, g, m, n)
<1>1. g.kind = f.kind /\ g.base = f.base
  BY DEF Same
<1>2. Calls(P, e, g)
  BY <1>1, Zenon DEF Calls, Waits
<1> QED BY <1>2, Zenon DEF Waits

LEMMA TopReplaced ==
  ASSUME NEW P, NEW fs \in Seq(Frames), fs # <<>>, NEW l \in Seq(Nat), NEW M, Chain(P, fs, l, M),
         NEW g, Same(Uppermost(fs), g), FrameOK(P, g, M[Len(fs)]),
         NEW l2, Keeps(l, l2, M[Len(fs)], Len(fs))
  PROVE  Chain(P, Append(Front(fs), g), l2, M)
<1> DEFINE n == Len(fs)
           gs == Append(Front(fs), g)
<1>1. g \in Frames
  BY DEF Same
<1>2. /\ n \in Nat /\ n >= 1 /\ Len(gs) = n /\ gs[n] = g
      /\ \A i \in 1 .. n - 1 : gs[i] = fs[i]
  BY <1>1, TopSeq
<1> HIDE DEF gs
<1>3. /\ M \in Seq(Nat) /\ Len(M) = n
      /\ \A d \in 1 .. n : /\ fs[d].kind = "script" <=> d = 1
                           /\ Mark(l, d, M[d]) /\ FrameOK(P, fs[d], M[d])
      /\ \A d \in 1 .. n - 1 : Waits(P, fs[d], fs[d + 1], M[d], M[d + 1])
  BY Zenon DEF Chain
<1>4. g.kind = fs[n].kind /\ Same(fs[n], g)
  BY DEF Same, Uppermost
<1> HIDE DEF n
<1>5. ASSUME NEW d \in 1 .. n
      PROVE  (gs[d].kind = "script" <=> d = 1) /\ Mark(l2, d, M[d]) /\ FrameOK(P, gs[d], M[d])
  <2>1. Mark(l2, d, M[d])
    <3>1. Mark(l, n, M[n]) /\ Mark(l, d, M[d])
      BY <1>2, <1>3, SMTT(30)
    <3> QED BY <1>2, <3>1, MarksKept DEF n
  <2>2. CASE d = n
    BY <1>2, <1>3, <1>4, <2>1, <2>2 DEF n
  <2>3. CASE d # n
    <3>1. d \in 1 .. n - 1
      BY <1>2, <2>3
    <3> QED BY <1>2, <1>3, <2>1, <3>1
  <2> QED BY <2>2, <2>3
<1>6. ASSUME NEW d \in 1 .. n - 1 PROVE Waits(P, gs[d], gs[d + 1], M[d], M[d + 1])
  <2>1. gs[d] = fs[d] /\ Waits(P, fs[d], fs[d + 1], M[d], M[d + 1])
    BY <1>2, <1>3
  <2>2. CASE d + 1 = n
    <3>1. Waits(P, fs[d], g, M[d], M[d + 1])
      BY <1>4, <2>1, <2>2, SameCall
    <3> QED BY <1>2, <2>1, <2>2, <3>1, Zenon
  <2>3. CASE d + 1 # n
    <3>1. d + 1 \in 1 .. n - 1
      BY <1>2, <2>3
    <3> QED BY <1>2, <2>1, <3>1
  <2> QED BY <2>2, <2>3
<1> QED BY <1>2, <1>3, <1>5, <1>6, Zenon DEF Chain, gs

LEMMA TopFrames ==
  ASSUME NEW fs \in Seq(Frames), fs # <<>>, NEW g \in Frames, NEW gs, gs = Append(Front(fs), g)
  PROVE  gs \in Seq(Frames) /\ gs # <<>> /\ Len(gs) = Len(fs) /\ Uppermost(gs) = g
<1>1. gs \in Seq(Frames)
  BY TopSeq
<1>2. gs # <<>>
  BY TopSeq
<1>3. Len(gs) = Len(fs)
  BY TopSeq
<1>4. Uppermost(gs) = g
  BY TopSeq
<1> QED BY <1>1, <1>2, <1>3, <1>4

LEMMA ReplacedSound ==
  ASSUME NEW P, NEW fs \in Seq(Frames), fs # <<>>, NEW l \in Seq(Nat), NEW M, Chain(P, fs, l, M),
         NEW g, Same(Uppermost(fs), g), FrameOK(P, g, M[Len(fs)]),
         NEW l2, Keeps(l, l2, M[Len(fs)], Len(fs)),
         NEW s2 \in Seq(Nat), g.base <= Len(s2), NEW ds2 \in Seq(Sources),
         NEW ex2 \in Sources \cup {NoDiag}, NEW stop2 \in BOOLEAN, stop2 => ds2 # <<>>,
         ds2 # <<>> => g.done,
         ds2 = <<>> => Mark(l2, Len(fs) + 1, Len(l2)) /\ Ready(P, g, s2, l2, M[Len(fs)])
  PROVE  Sound(P, Append(Front(fs), g), s2, l2, ds2, ex2, stop2)
<1> DEFINE gs == Append(Front(fs), g)
<1>1. g \in Frames /\ l2 \in Seq(Nat) /\ M \in Seq(Nat)
  BY Zenon DEF Same, Keeps, Chain
<1>2. gs \in Seq(Frames) /\ gs # <<>> /\ Len(gs) = Len(fs) /\ Uppermost(gs) = g
  BY <1>1, TopFrames
<1>3. Chain(P, gs, l2, M)
  BY TopReplaced
<1> HIDE DEF gs
<1> QED BY <1>1, <1>2, <1>3, Zenon DEF Sound, gs

(* What a step makes of the uppermost frame f before its diagnostics are      *)
(* looked at: g, which stands at q in its contexts.                           *)
Stepped(P, f, g, m, q) ==
  /\ Same(f, g) /\ ~g.done /\ g.pc = f.pc /\ f.pc \in f.begin .. f.end
  /\ Formed(P, g, m) /\ Holds(P, g, q)

Leaves2(P, g, next, q, s, l, m, ds) ==
  IF ds = <<>>
  THEN IF g.return THEN Returned(g, s, l, m) ELSE Arrives(P, g, next, s, l, m)
  ELSE ~g.return /\ q < g.end

LEMMA SettledSound ==
  ASSUME NEW P, Prepared(P), NEW fs \in Seq(Frames), fs # <<>>, NEW l \in Seq(Nat), NEW M, Chain(P, fs, l, M),
         NEW g, NEW q, Stepped(P, Uppermost(fs), g, M[Len(fs)], q), NEW next,
         NEW l2, Keeps(l, l2, M[Len(fs)], Len(fs)),
         NEW s2 \in Seq(Nat), g.base <= Len(s2), NEW ds2 \in Seq(Sources),
         exception \in Sources \cup {NoDiag}, stopped \in BOOLEAN, stopped => ds2 # <<>>,
         ds2 = <<>> => Mark(l2, Len(fs) + 1, Len(l2)),
         Leaves2(P, g, next, q, s2, l2, M[Len(fs)], ds2),
         AfterInstruction(Front(fs), g, next, s2, l2, ds2)
  PROVE  Sound(P, frames', stack', lvals', diags', exception', stopped')
<1> DEFINE n == Len(fs)
           m == M[n]
           f == Uppermost(fs)
           rest == Front(fs)
<1>1. n \in Nat /\ n >= 1 /\ f \in Frames /\ g \in Frames
  <2>1. g \in Frames
    BY Zenon DEF Stepped, Same
  <2> QED BY <2>1, TopSeq
<1>2. m \in Nat /\ Mark(l, n, m) /\ m \in 0 .. Len(l)
  <2>1. \A d \in 1 .. n : Mark(l, d, M[d])
    BY Zenon DEF Chain
  <2>2. Mark(l, n, m)
    <3>1. n \in 1 .. n
      BY <1>1
    <3> QED BY <2>1, <3>1
  <2>3. Len(l) \in Nat /\ m \in 0 .. Len(l)
    BY <2>2, LenProperties DEF Mark
  <2> QED BY <2>2, <2>3
<1>3. /\ Same(f, g) /\ ~g.done /\ g.pc = f.pc /\ Formed(P, g, m) /\ Holds(P, g, q) /\ Bounded(g)
      /\ g.pc \in g.begin .. g.end /\ g.begin \in Nat /\ g.end \in Nat
  <2>1. /\ Same(f, g) /\ ~g.done /\ g.pc = f.pc /\ Formed(P, g, m) /\ Holds(P, g, q)
        /\ f.pc \in f.begin .. f.end
    BY Zenon DEF Stepped
  <2>2. Bounded(g)
    BY <1>1, <2>1, BoundsOf
  <2>3. g.pc \in g.begin .. g.end
    BY <2>1, Zenon DEF Same
  <2> QED BY <1>1, <2>1, <2>2, <2>3 DEF Frames
<1> HIDE DEF n, m, f, rest
<1>4. ASSUME NEW h, Same(f, h), FrameOK(P, h, m),
             NEW l3, Keeps(l, l3, m, n), NEW s3 \in Seq(Nat), h.base <= Len(s3), NEW ds3 \in Seq(Sources),
             NEW ex3 \in Sources \cup {NoDiag}, NEW stop3 \in BOOLEAN, stop3 => ds3 # <<>>,
             ds3 # <<>> => h.done,
             ds3 = <<>> => Mark(l3, n + 1, Len(l3)) /\ Ready(P, h, s3, l3, m)
      PROVE  Sound(P, Append(rest, h), s3, l3, ds3, ex3, stop3)
  BY <1>4, ReplacedSound DEF n, m, f, rest
<1> DEFINE h == [g EXCEPT !.done = TRUE]
<1>5. /\ Same(g, h) /\ h.pc = g.pc /\ h.return = g.return /\ h.done = TRUE
      /\ h.fors = g.fors /\ h.switches = g.switches /\ h.tries = g.tries
  <2> DEFINE v == TRUE
  <2>1. g \in Frames /\ v \in BOOLEAN /\ h = [g EXCEPT !.done = v]
    BY <1>1
  <2> HIDE DEF h, v
  <2>2. /\ Same(g, h) /\ h.pc = g.pc /\ h.return = g.return /\ h.done = v
        /\ h.fors = g.fors /\ h.switches = g.switches /\ h.tries = g.tries
    BY ONLY <2>1, NewDone
  <2> QED BY <2>2, Zenon DEF v
<1> HIDE DEF h
<1>6. Same(f, h) /\ FrameOK(P, h, m) /\ h.base = g.base /\ RangeDepth(h) = RangeDepth(g)
  <2>1. Same(f, h) /\ h.base = g.base /\ h.begin = g.begin /\ h.end = g.end
    BY <1>3, <1>5 DEF Same
  <2>2. Formed(P, h, m)
    BY <1>3, <1>5, SameFormed
  <2>3. Bounded(h)
    BY <1>3, <1>5, Zenon DEF Bounded
  <2>4. RangeDepth(h) = RangeDepth(g)
    BY <1>5, SameRange
  <2> QED BY <1>3, <1>5, <2>1, <2>2, <2>3, <2>4, Zenon DEF FrameOK
<1>7. CASE StopAfter(rest, g, s2, l2, ds2)
  <2>1. /\ frames' = Append(rest, h) /\ stack' = s2 /\ lvals' = l2 /\ diags' = Append(ds2, StopDiag)
        /\ exception' = exception /\ stopped' = TRUE
    BY <1>7, Zenon DEF StopAfter, h
  <2> DEFINE ds3 == Append(ds2, StopDiag)
  <2>2. ds3 \in Seq(Sources) /\ ds3 # <<>>
    <3>1. StopDiag \in Sources
      BY Zenon DEF Sources
    <3> QED BY <3>1, AppendProperties, SMTT(30)
  <2> HIDE DEF ds3
  <2>3. Sound(P, Append(rest, h), s2, l2, ds3, exception, TRUE)
    BY <1>4, <1>5, <1>6, <2>2 DEF n, m
  <2> QED BY <2>1, <2>3, Zenon DEF ds3
<1>8. CASE Settle(rest, g, next, s2, l2, ds2) /\ stopped' = stopped
  <2>1. CASE ds2 # <<>> /\ ~stopped /\ g.tries # <<>>
    <3> DEFINE try == Last(g.tries)
               r == Recovered(g)
               s3 == Resize(s2, try.stack, 0)
               l3 == Resize(l2, try.lvals, 0)
    <3>1. Recover(rest, g, s2, l2, ds2)
      BY <1>8, <2>1, Zenon DEF Settle
    <3>2. /\ frames' = Append(rest, r) /\ stack' = s3 /\ lvals' = l3
          /\ diags' = SubSeq(ds2, 1, try.base) /\ exception' = Last(ds2)
      BY <3>1, Zenon DEF Recover, Recovered
    <3>3. ~g.return /\ q < g.end
      BY <2>1, Zenon DEF Leaves2
    <3>4. /\ Same(g, r) /\ r.return = g.return /\ r.done = g.done
          /\ try.base = 0 /\ try.stack = g.base /\ try.lvals = m
          /\ Formed(P, r, m) /\ Holds(P, r, r.pc)
          /\ r.idxs = Totals(FlowFor(P, r)[r.pc].contexts.idxs)
          /\ FlowFor(P, r)[r.pc].depth = 0 /\ FlowFor(P, r)[r.pc].contexts.lvals = <<>>
      BY <1>1, <1>2, <1>3, <2>1, <3>3, RecoveredStands
    <3>5. r \in Frames /\ r.base = g.base /\ Same(f, r)
      BY <1>3, <3>4 DEF Same
    <3>6. s3 \in Seq(Nat) /\ Len(s3) = g.base
      <4>1. g.base \in Nat /\ g.base <= Len(s2)
        BY <1>1 DEF Frames
      <4>2. s3 = Resize(s2, g.base, 0)
        BY <3>4, Zenon
      <4> HIDE DEF s3
      <4> QED BY <4>1, <4>2, ResizeCuts
    <3>7. l3 \in Seq(Nat) /\ Len(l3) = m /\ \A i \in 1 .. m : l3[i] = l[i]
      <4>1. l2 \in Seq(Nat) /\ m <= Len(l2) /\ \A i \in 1 .. m : l2[i] = l[i]
        BY Zenon DEF Keeps, n, m
      <4>2. l3 = Resize(l2, m, 0)
        BY <3>4, Zenon
      <4> HIDE DEF l3
      <4>3. l3 \in Seq(Nat) /\ Len(l3) = m /\ \A i \in 1 .. m : l3[i] = l2[i]
        <5>1. m \in Nat
          BY <1>2
        <5> QED BY ONLY <4>1, <4>2, <5>1, ResizeCuts
      <4> QED BY <4>1, <4>3
    <3> DEFINE ds3 == SubSeq(ds2, 1, try.base)
    <3>8. ds3 = <<>>
      <4>1. 0 \in 0 .. Len(ds2)
        BY LenProperties
      <4>2. SubSeq(ds2, 1, 0) \in Seq(Sources) /\ Len(SubSeq(ds2, 1, 0)) = 0
        BY <4>1, Prefix
      <4>3. SubSeq(ds2, 1, 0) = <<>>
        BY <4>2, EmptySeq
      <4> QED BY <3>4, <4>3, Zenon
    <3>9. Last(ds2) \in Sources
      <4>1. Len(ds2) \in 1 .. Len(ds2)
        BY <2>1, EmptySeq
      <4> QED BY <4>1, ElementOfSeq DEF Last
    <3> HIDE DEF r, s3, l3, ds3, try
    <3>10. FrameOK(P, r, m)
      <4>1. Bounded(r)
        BY <3>4, <3>5, BoundsOf
      <4>2. r.pc \in r.begin .. r.end
        BY <3>4, Zenon DEF Holds
      <4> QED BY <3>4, <4>1, <4>2, Zenon DEF FrameOK
    <3>11. Keeps(l, l3, m, n)
      BY <1>1, <1>2, <3>7 DEF Keeps
    <3>12. Mark(l3, n + 1, Len(l3))
      <4>1. DOMAIN l3 = 1 .. m /\ Len(l3) \in 0 .. Len(l3)
        BY <1>2, <3>7, LenProperties
      <4>2. \A i \in 1 .. m : l[i] < n + 1
        <5>1. \A i \in 1 .. m : i \in DOMAIN l /\ l[i] \in Nat
          BY <1>2, LenProperties, ElementOfSeq
        <5>2. \A i \in 1 .. m : l[i] < n
          BY <1>2, <5>1 DEF Mark
        <5> QED BY <1>1, <5>1, <5>2
      <4>3. Len(l3) = m /\ m \in Nat
        BY <1>2, <3>7
      <4>4. ASSUME NEW i \in 1 .. m PROVE l3[i] < n + 1 <=> i <= m
        <5>1. l3[i] = l[i] /\ l[i] < n + 1 /\ i <= m
          BY <3>7, <4>2, <4>3
        <5> QED BY <5>1, Zenon
      <4>5. \A i \in DOMAIN l3 : l3[i] < n + 1 <=> i <= Len(l3)
        BY <4>1, <4>3, <4>4, Zenon
      <4> QED BY <4>1, <4>5, Zenon DEF Mark
    <3>13. Ready(P, r, s3, l3, m)
      <4>1. Len(s3) = r.base + FlowFor(P, r)[r.pc].depth
        <5>1. g.base + 0 = g.base
          BY <1>1 DEF Frames
        <5> QED BY <3>4, <3>5, <3>6, <5>1, Zenon
      <4>2. Len(l3) = m + Len(FlowFor(P, r)[r.pc].contexts.lvals)
        <5>1. m + 0 = m /\ Len(<<>>) = 0
          BY <1>2
        <5> QED BY <3>4, <3>7, <5>1, Zenon
      <4> QED BY <1>3, <3>3, <3>4, <4>1, <4>2, Zenon DEF Ready, Arrives, Stands
    <3>14. r.base <= Len(s3)
      BY <1>1, <3>5, <3>6 DEF Frames
    <3>15. Sound(P, Append(rest, r), s3, l3, ds3, Last(ds2), stopped)
      <4>1. ds3 \in Seq(Sources) /\ Last(ds2) \in Sources \cup {NoDiag}
        BY <3>8, <3>9, EmptySeq
      <4> QED BY <1>4, <2>1, <3>5, <3>6, <3>8, <3>10, <3>11, <3>12, <3>13, <3>14, <4>1
    <3> QED BY <1>8, <3>2, <3>15, Zenon DEF r, s3, l3, ds3
  <2>2. CASE ~(ds2 # <<>> /\ ~stopped /\ g.tries # <<>>)
    <3>1. /\ frames' = Append(rest, IF ds2 # <<>> \/ g.return THEN h ELSE [g EXCEPT !.pc = next])
          /\ stack' = s2 /\ lvals' = l2 /\ diags' = ds2 /\ exception' = exception
      BY <1>8, <2>2, Zenon DEF Settle, h
    <3>2. CASE ds2 # <<>> \/ g.return
      <4>1. frames' = Append(rest, h)
        BY <3>1, <3>2, Zenon
      <4>2. ds2 = <<>> => Ready(P, h, s2, l2, m)
        <5> SUFFICES ASSUME ds2 = <<>> PROVE Ready(P, h, s2, l2, m)
          OBVIOUS
        <5>1. g.return /\ Returned(g, s2, l2, m)
          BY <3>2, Zenon DEF Leaves2, m, n
        <5> QED BY <1>5, <1>6, <5>1, Zenon DEF Ready, Returned
      <4>3. Sound(P, Append(rest, h), s2, l2, ds2, exception, stopped)
        BY <1>4, <1>5, <1>6, <4>2 DEF n, m
      <4> QED BY <1>8, <3>1, <4>1, <4>3, Zenon
    <3>3. CASE ~(ds2 # <<>> \/ g.return)
      <4> DEFINE r == [g EXCEPT !.pc = next]
      <4>1. frames' = Append(rest, r)
        BY <3>1, <3>3, Zenon
      <4>2. ds2 = <<>> /\ ~g.return /\ Arrives(P, g, next, s2, l2, m)
        BY <3>3, Zenon DEF Leaves2, m, n
      <4>3. Holds(P, g, next) /\ next \in g.begin .. g.end /\ next \in Nat
        <5>1. Holds(P, g, next) /\ next \in g.begin .. g.end
          BY <4>2, Zenon DEF Arrives, Stands, Holds
        <5> QED BY <1>3, <5>1
      <4>4. /\ Same(g, r) /\ r.pc = next /\ r.return = g.return /\ r.done = g.done
            /\ r.fors = g.fors /\ r.switches = g.switches /\ r.tries = g.tries /\ r.idxs = g.idxs
        BY <1>1, <4>3, NewPc
      <4> HIDE DEF r
      <4>5. Same(f, r) /\ r.base = g.base /\ r.begin = g.begin /\ r.end = g.end /\ FlowFor(P, r) = FlowFor(P, g)
        <5>1. FlowFor(P, r) = FlowFor(P, g)
          BY <4>4, SameRange
        <5> QED BY <1>3, <4>4, <5>1 DEF Same
      <4>6. FrameOK(P, r, m)
        <5>1. Formed(P, r, m)
          BY <1>3, <4>4, SameFormed
        <5>2. Bounded(r)
          BY <1>3, <4>4, Zenon DEF Bounded
        <5> QED BY <4>3, <4>4, <4>5, <5>1, <5>2, Zenon DEF FrameOK
      <4>7. Ready(P, r, s2, l2, m)
        <5>1. Holds(P, r, r.pc)
          BY <4>3, <4>4, SameHolds
        <5> QED BY <1>3, <4>2, <4>4, <4>5, <5>1, Zenon DEF Ready, Arrives, Stands
      <4>8. Sound(P, Append(rest, r), s2, l2, ds2, exception, stopped)
        BY <1>4, <4>2, <4>5, <4>6, <4>7 DEF n, m
      <4> QED BY <1>8, <3>1, <4>1, <4>8, Zenon
    <3> QED BY <3>2, <3>3
  <2> QED BY <2>1, <2>2
<1> QED BY <1>7, <1>8, Zenon DEF AfterInstruction, rest
-----------------------------------------------------------------------------
(* The invariant, and what it says while the uppermost frame is running.      *)
Text == Programs[program]

VmInv ==
  /\ program \in DOMAIN Programs /\ Text.accepted
  /\ Sound(Text, frames, stack, lvals, diags, exception, stopped)

Active(P, M, n, m, f) ==
  /\ P = Text /\ Prepared(P) /\ Chain(P, frames, lvals, M)
  /\ n = Len(frames) /\ n \in Nat /\ n >= 1 /\ m = M[n] /\ m \in Nat
  /\ f = Uppermost(frames) /\ Top = f /\ f \in Frames
  /\ frames \in Seq(Frames) /\ frames # <<>> /\ stack \in Seq(Nat) /\ lvals \in Seq(Nat)
  /\ diags = <<>> /\ stopped = FALSE /\ exception \in Sources \cup {NoDiag}
  /\ Mark(lvals, n, m) /\ Mark(lvals, n + 1, Len(lvals))
  /\ ~f.done /\ ~f.return /\ f.pc \in f.begin .. f.end /\ f.pc < f.end
  /\ Formed(P, f, m) /\ Arrives(P, f, f.pc, stack, lvals, m)
  /\ Here(P, RangeFor(f), f.pc)

LEMMA TextPrepared ==
  ASSUME program \in DOMAIN Programs, Text.accepted
  PROVE  Prepared(Text)
  BY ControlVmAssumption, Zenon DEF Prepared, Text

LEMMA FramesTop ==
  ASSUME NEW fs \in Seq(Frames), fs # <<>>
  PROVE  /\ Len(fs) \in Nat /\ Len(fs) >= 1 /\ Uppermost(fs) \in Frames
         /\ Last(fs) = Uppermost(fs)
<1>1. Len(fs) \in Nat /\ Len(fs) > 0
  BY FrontLength
<1>2. Len(fs) \in 1 .. Len(fs)
  BY <1>1
<1>3. fs[Len(fs)] \in Frames
  BY <1>2, ElementOfSeq
<1> QED BY <1>1, <1>3 DEF Uppermost, Last

LEMMA RunningTop ==
  ASSUME VmInv, Running
  PROVE  \E P, M, n, m, f : Active(P, M, n, m, f)
<1> DEFINE P == Text
           n == Len(frames)
           f == Uppermost(frames)
<1>1. /\ frames \in Seq(Frames) /\ frames # <<>> /\ stack \in Seq(Nat) /\ lvals \in Seq(Nat)
      /\ exception \in Sources \cup {NoDiag} /\ stopped \in BOOLEAN
      /\ stopped => diags # <<>>
      /\ diags # <<>> => f.done
  BY Zenon DEF VmInv, Sound
<1>2. n \in Nat /\ n >= 1 /\ f \in Frames /\ Top = f
  BY <1>1, FramesTop, Zenon DEF Top
<1>3. ~f.done /\ f.pc < f.end
  BY <1>2, Zenon DEF Running
<1>4. diags = <<>> /\ stopped = FALSE
  BY <1>1, <1>3
<1>5. PICK M \in Seq(Nat) : /\ Chain(P, frames, lvals, M)
                            /\ diags = <<>> => /\ Mark(lvals, Len(frames) + 1, Len(lvals))
                                               /\ Ready(P, Uppermost(frames), stack, lvals, M[Len(frames)])
  BY Zenon DEF VmInv, Sound
<1> DEFINE m == M[n]
<1>6. Prepared(P)
  BY TextPrepared, Zenon DEF VmInv
<1>7. ~f.return /\ Arrives(P, f, f.pc, stack, lvals, m)
  BY <1>3, <1>4, <1>5, Zenon DEF Ready
<1>8. /\ Mark(lvals, n, m) /\ FrameOK(P, f, m) /\ m \in Nat
  <2>1. /\ Len(M) = n
        /\ \A d \in 1 .. n : Mark(lvals, d, M[d]) /\ FrameOK(P, frames[d], M[d])
    BY <1>5, Zenon DEF Chain
  <2>2. n \in 1 .. n
    BY <1>2
  <2>3. m \in Nat
    BY <2>1, <2>2, ElementOfSeq
  <2> QED BY <2>1, <2>2, <2>3, Zenon DEF Uppermost
<1>9. Formed(P, f, m) /\ f.pc \in f.begin .. f.end
  BY <1>8, Zenon DEF FrameOK
<1> HIDE DEF P, n, f, m
<1>10. Here(P, RangeFor(f), f.pc)
  <2>1. Holds(P, f, f.pc)
    BY <1>7, Zenon DEF Arrives, Stands
  <2> QED BY <1>2, <1>3, <1>6, <1>9, <2>1, Standing
<1>11. Active(P, M, n, m, f)
  <2>1. Mark(lvals, n + 1, Len(lvals)) /\ Chain(P, frames, lvals, M)
    BY <1>4, <1>5, Zenon DEF n, P
  <2> QED BY <1>1, <1>2, <1>3, <1>4, <1>6, <1>7, <1>8, <1>9, <1>10, <2>1, Zenon DEF Active, P, n, f, m
<1> QED BY <1>11

(* The operands and contexts of the running frame.                            *)
LEMMA ActiveFacts ==
  ASSUME NEW P, NEW M, NEW n, NEW m, NEW f, Active(P, M, n, m, f)
  PROVE  LET e == FlowFor(P, f)[f.pc]
         IN /\ Instruction = P.code[f.pc] /\ f.pc \in Nat /\ f.pc \in DOMAIN P.code
            /\ P.flow[RangeFor(f)][f.pc] = e
            /\ Depth \in Nat /\ f.base \in Nat /\ e.depth \in Nat /\ Depth = f.base + e.depth
            /\ Len(lvals) = m + Len(e.contexts.lvals)
            /\ f.idxs = Totals(e.contexts.idxs)
            /\ Begins(f.fors) = e.for /\ Begins(f.switches) = e.switch /\ Begins(f.tries) = e.try
            /\ Beginning(f.fors, e.for) /\ Beginning(f.switches, e.switch)
            /\ Beginning(f.tries, e.try)
<1> DEFINE R == RangeFor(f)
           e == FlowFor(P, f)[f.pc]
<1>1. /\ P = Text /\ Prepared(P) /\ f \in Frames /\ Top = f /\ stack \in Seq(Nat)
      /\ Formed(P, f, m) /\ Arrives(P, f, f.pc, stack, lvals, m)
      /\ Here(P, R, f.pc) /\ f.pc < f.end
  BY Zenon DEF Active
<1>2. Instruction = P.code[f.pc]
  BY <1>1, Zenon DEF Instruction, Code, Text
<1>3. f.pc \in Nat /\ f.base \in Nat
  BY <1>1 DEF Frames
<1>4. P.flow[R][f.pc] = e
  BY Zenon DEF FlowFor
<1>5. /\ Holds(P, f, f.pc) /\ f.idxs = Totals(e.contexts.idxs)
      /\ Len(stack) = f.base + e.depth
      /\ Len(lvals) = m + Len(e.contexts.lvals)
  BY <1>1, Zenon DEF Arrives, Stands
<1>6. Begins(f.fors) = e.for /\ Begins(f.switches) = e.switch /\ Begins(f.tries) = e.try
  BY <1>1, <1>5, Zenon DEF Holds
<1>7. e \in FlowStates /\ f.pc \in DOMAIN P.code
  <2>1. e \in FlowStates
    BY <1>1, <1>4, FlowEdges, Zenon DEF Here
  <2>2. \A pc \in R.begin .. R.end - 1 : pc \in DOMAIN P.code
    BY <1>1, RangeBounds, Zenon DEF Here
  <2>3. f.pc \in R.begin .. R.end - 1
    BY <1>1, Zenon DEF Here, Known
  <2> QED BY <2>1, <2>2, <2>3
<1> HIDE DEF e, R
<1>8. e.depth \in Nat
  BY <1>7, Fields
<1>9. Depth \in Nat /\ Depth = f.base + e.depth
  BY <1>1, <1>5, LenProperties DEF Depth
<1>10. /\ Len(f.fors) = Len(e.for) /\ Len(f.switches) = Len(e.switch) /\ Len(f.tries) = Len(e.try)
       /\ \A k \in 1 .. Len(f.fors) : e.for[k] = f.fors[k].begin
       /\ \A k \in 1 .. Len(f.switches) : e.switch[k] = f.switches[k].begin
       /\ \A k \in 1 .. Len(f.tries) : e.try[k] = f.tries[k].begin
  <2>1. /\ Prepared(P) /\ f \in Frames /\ Formed(P, f, m) /\ Holds(P, f, f.pc) /\ f.pc < f.end
    BY <1>1, <1>5
  <2> QED BY ONLY <2>1, Standing DEF e
<1>11. /\ Beginning(f.fors, e.for) /\ Beginning(f.switches, e.switch) /\ Beginning(f.tries, e.try)
  BY <1>10, Zenon DEF Beginning
<1> QED BY <1>2, <1>3, <1>4, <1>5, <1>6, <1>7, <1>8, <1>9, <1>11, Zenon DEF e, R

LEMMA LvalsKept ==
  ASSUME NEW P, NEW M, NEW n, NEW m, NEW f, Active(P, M, n, m, f)
  PROVE  Keeps(lvals, lvals, m, n)
<1>1. /\ lvals \in Seq(Nat) /\ Mark(lvals, n, m) /\ n \in Nat
  BY Zenon DEF Active
<1>2. /\ Len(lvals) \in Nat /\ m \in 0 .. Len(lvals)
      /\ \A i \in 1 .. Len(lvals) : lvals[i] \in Nat /\ (lvals[i] < n <=> i <= m)
  BY <1>1, LenProperties, ElementOfSeq DEF Mark
<1>3. ASSUME NEW i \in 1 .. Len(lvals), i > m PROVE lvals[i] >= n
  <2>1. ~(i <= m) /\ lvals[i] \in Nat /\ (lvals[i] < n <=> i <= m)
    BY <1>2, <1>3
  <2> QED BY <1>1, <2>1
<1> QED BY <1>1, <1>2, <1>3 DEF Keeps

(* The frame goes on as g at next, where the flow leads with the same state.  *)
LEMMA HoldsFrom ==
  ASSUME NEW P, NEW f, NEW g, Same(f, g), NEW next, NEW d, NEW c,
         Reaches(P, RangeFor(f), next, St(d, Begins(g.fors), Begins(g.switches), Begins(g.tries), c))
  PROVE  Holds(P, g, next)
<1> DEFINE e == St(d, Begins(g.fors), Begins(g.switches), Begins(g.tries), c)
<1>1. /\ next \in RangeFor(f).begin .. RangeFor(f).end /\ P.flow[RangeFor(f)][next] = e
  BY Zenon DEF Reaches
<1>2. FlowFor(P, g) = P.flow[RangeFor(f)]
  BY SameRange, Zenon DEF FlowFor
<1>3. /\ e.for = Begins(g.fors) /\ e.switch = Begins(g.switches) /\ e.try = Begins(g.tries)
      /\ e # None
  BY StFields, StKnown
<1>4. next \in g.begin .. g.end
  <2>1. RangeFor(f).begin = f.begin /\ RangeFor(f).end = f.end
    BY RangeOfFrame
  <2> QED BY <1>1, <2>1, Zenon DEF Same
<1> HIDE DEF e
<1> QED BY <1>1, <1>2, <1>3, <1>4, Zenon DEF Holds

LEMMA GoneOn ==
  ASSUME VmInv, NEW P, NEW M, NEW n, NEW m, NEW f, Active(P, M, n, m, f),
         NEW g, Same(f, g), g.pc = f.pc, ~g.return, ~g.done, Formed(P, g, m),
         NEW next, Holds(P, g, next), NEW d \in Nat, NEW fo, NEW sw, NEW tr, NEW c,
         Reaches(P, RangeFor(f), next, St(d, fo, sw, tr, c)), g.idxs = Totals(c.idxs),
         NEW s2 \in Seq(Nat), Len(s2) = f.base + d,
         NEW l2, Keeps(lvals, l2, m, n), Mark(l2, n + 1, Len(l2)), Len(l2) = m + Len(c.lvals),
         Complete(g, next, s2, l2)
  PROVE  VmInv'
<1>1. /\ P = Text /\ Prepared(P) /\ Chain(P, frames, lvals, M)
      /\ n = Len(frames) /\ m = M[n] /\ f = Uppermost(frames) /\ f \in Frames
      /\ frames \in Seq(Frames) /\ frames # <<>> /\ lvals \in Seq(Nat)
      /\ diags = <<>> /\ stopped = FALSE /\ exception \in Sources \cup {NoDiag}
      /\ f.pc \in f.begin .. f.end
  BY Zenon DEF Active
<1>2. AfterInstruction(Front(frames), g, next, s2, l2, diags)
  BY Zenon DEF Complete
<1>3. Stepped(P, f, g, m, next)
  BY <1>1, Zenon DEF Stepped
<1>4. g.base <= Len(s2)
  <2>1. f.base \in Nat /\ g.base = f.base
    BY <1>1 DEF Frames, Same
  <2> QED BY <2>1
<1>5. Leaves2(P, g, next, next, s2, l2, m, diags)
  <2>1. FlowFor(P, g)[next] = St(d, fo, sw, tr, c)
    BY SameRange, Zenon DEF FlowFor, Reaches
  <2>2. FlowFor(P, g)[next].depth = d /\ FlowFor(P, g)[next].contexts = c
    BY <2>1, StFields
  <2>3. g.base = f.base
    BY Zenon DEF Same
  <2> QED BY <1>1, <2>2, <2>3, Zenon DEF Leaves2, Arrives, Stands
<1>6. diags \in Seq(Sources)
  BY <1>1, EmptySeq
<1>7. Sound(P, frames', stack', lvals', diags', exception', stopped')
  BY <1>1, <1>2, <1>3, <1>4, <1>5, <1>6, SettledSound
<1>8. program' = program
  BY <1>2, Zenon DEF AfterInstruction
<1> QED BY <1>1, <1>7, <1>8, Zenon DEF VmInv, Text

LEMMA ActiveContexts ==
  ASSUME NEW P, NEW M, NEW n, NEW m, NEW f, Active(P, M, n, m, f)
  PROVE  /\ f.idxs = Totals(FlowFor(P, f)[f.pc].contexts.idxs)
         /\ Len(lvals) = m + Len(FlowFor(P, f)[f.pc].contexts.lvals)
         /\ Begins(f.fors) = FlowFor(P, f)[f.pc].for
         /\ Begins(f.switches) = FlowFor(P, f)[f.pc].switch
         /\ Begins(f.tries) = FlowFor(P, f)[f.pc].try
  BY ActiveFacts

LEMMA FailedSound ==
  ASSUME VmInv, NEW P, NEW M, NEW n, NEW m, NEW f, Active(P, M, n, m, f),
         NEW g, Same(f, g), g.pc = f.pc, ~g.return, ~g.done, Formed(P, g, m),
         Holds(P, g, f.pc),
         NEW s2 \in Seq(Nat), g.base <= Len(s2),
         NEW l2, Keeps(lvals, l2, m, n), NEW diag \in Sources, Fail(diag, g, s2, l2)
  PROVE  VmInv'
<1>1. /\ P = Text /\ Prepared(P) /\ Chain(P, frames, lvals, M)
      /\ n = Len(frames) /\ m = M[n] /\ f = Uppermost(frames) /\ f \in Frames
      /\ frames \in Seq(Frames) /\ frames # <<>> /\ lvals \in Seq(Nat)
      /\ diags = <<>> /\ stopped = FALSE /\ exception \in Sources \cup {NoDiag}
      /\ f.pc \in f.begin .. f.end /\ f.pc < f.end
  BY Zenon DEF Active
<1> DEFINE ds2 == Append(diags, diag)
<1>2. AfterInstruction(Front(frames), g, g.pc + 1, s2, l2, ds2)
  BY Zenon DEF Fail
<1>3. Stepped(P, f, g, m, f.pc)
  BY <1>1, Zenon DEF Stepped
<1>4. ds2 \in Seq(Sources) /\ ds2 # <<>>
  <2>1. diags \in Seq(Sources)
    BY <1>1, EmptySeq
  <2> QED BY <2>1, AppendProperties
<1> HIDE DEF ds2
<1>5. f.pc < g.end
  BY <1>1, Zenon DEF Same
<1>6. Leaves2(P, g, g.pc + 1, f.pc, s2, l2, m, ds2)
  BY <1>4, <1>5, Zenon DEF Leaves2
<1>7. Sound(P, frames', stack', lvals', diags', exception', stopped')
  BY <1>1, <1>2, <1>3, <1>4, <1>6, SettledSound
<1>8. program' = program
  BY <1>2, Zenon DEF AfterInstruction
<1> QED BY <1>1, <1>7, <1>8, Zenon DEF VmInv, Text

(* Steps that keep the index and lvalue contexts.                             *)
LEMMA GoesAs ==
  ASSUME VmInv, NEW P, NEW M, NEW n, NEW m, NEW f, Active(P, M, n, m, f),
         NEW g, Same(f, g), g.pc = f.pc, g.return = f.return, g.done = f.done, g.idxs = f.idxs,
         Formed(P, g, m), NEW next, Holds(P, g, next), NEW d \in Nat, NEW fo, NEW sw, NEW tr,
         Reaches(P, RangeFor(f), next, St(d, fo, sw, tr, FlowFor(P, f)[f.pc].contexts)),
         NEW s2 \in Seq(Nat), Len(s2) = f.base + d, Complete(g, next, s2, lvals)
  PROVE  VmInv'
<1> DEFINE c == FlowFor(P, f)[f.pc].contexts
<1>1. ~f.return /\ ~f.done /\ Mark(lvals, n + 1, Len(lvals)) /\ lvals \in Seq(Nat)
  BY Zenon DEF Active
<1>2. f.idxs = Totals(c.idxs) /\ Len(lvals) = m + Len(c.lvals)
  BY ActiveContexts
<1>3. Keeps(lvals, lvals, m, n)
  BY LvalsKept, Zenon
<1>4. g.idxs = Totals(c.idxs) /\ ~g.return /\ ~g.done
  BY <1>1, <1>2, Zenon
<1>5. Reaches(P, RangeFor(f), next, St(d, fo, sw, tr, c))
  OBVIOUS
<1> HIDE DEF c
<1> QED BY <1>1, <1>2, <1>3, <1>4, <1>5, GoneOn

LEMMA GoesTo ==
  ASSUME VmInv, NEW P, NEW M, NEW n, NEW m, NEW f, Active(P, M, n, m, f),
         NEW next, NEW d \in Nat,
         Reaches(P, RangeFor(f), next, Kept(FlowFor(P, f)[f.pc], d)),
         NEW s2 \in Seq(Nat), Len(s2) = f.base + d, Complete(f, next, s2, lvals)
  PROVE  VmInv'
<1> DEFINE e == FlowFor(P, f)[f.pc]
<1>1. f \in Frames /\ Formed(P, f, m)
  BY Zenon DEF Active
<1>2. Same(f, f)
  BY <1>1, Zenon DEF Same
<1>3. Begins(f.fors) = e.for /\ Begins(f.switches) = e.switch /\ Begins(f.tries) = e.try
  BY ActiveContexts
<1>4. Reaches(P, RangeFor(f), next, St(d, Begins(f.fors), Begins(f.switches), Begins(f.tries), e.contexts))
  BY <1>3, Zenon DEF Kept
<1>5. Holds(P, f, next)
  BY <1>2, <1>4, HoldsFrom
<1> HIDE DEF e
<1> QED BY <1>1, <1>2, <1>4, <1>5, GoesAs DEF e

(* A jump out of what its target is outside of.                               *)
LEMMA GoesOut ==
  ASSUME VmInv, NEW P, NEW M, NEW n, NEW m, NEW f, Active(P, M, n, m, f),
         NEW h, Same(f, h), h.pc = f.pc, h.return = f.return, h.done = f.done, h.idxs = f.idxs,
         h.switches = f.switches, h.tries = f.tries,
         NEW target, NEW d \in Nat,
         Leaving(P, RangeFor(f), f.pc, target, d, Begins(h.fors), FlowFor(P, f)[f.pc].contexts),
         NEW s2 \in Seq(Nat), Len(s2) = f.base + d, Complete(Unwind(h, target), target, s2, lvals)
  PROVE  VmInv'
<1> DEFINE e == FlowFor(P, f)[f.pc]
           g == Unwind(h, target)
           fo == Begins(h.fors)
           sw == Cut(P, RangeFor(f), P.flow[RangeFor(f)][f.pc].switch, "switch", target)
           tr == Cut(P, RangeFor(f), P.flow[RangeFor(f)][f.pc].try, "try", target)
<1>1. f \in Frames /\ Formed(P, f, m) /\ h \in Frames /\ Here(P, RangeFor(f), f.pc)
  BY Zenon DEF Active, Same
<1>2. /\ Same(h, g) /\ g.pc = h.pc /\ g.return = h.return /\ g.done = h.done /\ g.idxs = h.idxs
  BY <1>1, UnwindKeeps
<1>3. Formed(P, h, m)
  BY <1>1, SameFormed
<1>4. RangeFor(h) = RangeFor(f) /\ FlowFor(P, h) = FlowFor(P, f)
  BY SameRange
<1>5. Beginning(f.switches, e.switch) /\ Beginning(f.tries, e.try)
  BY ActiveFacts, Zenon
<1>6. Formed(P, g, m) /\ Holds(P, g, target)
  <2>1. Here(P, RangeFor(h), f.pc)
    BY <1>1, <1>4, Zenon
  <2>2. /\ Beginning(h.switches, FlowFor(P, h)[f.pc].switch)
        /\ Beginning(h.tries, FlowFor(P, h)[f.pc].try)
    BY <1>4, <1>5, Zenon
  <2>3. Leaving(P, RangeFor(h), f.pc, target, d, Begins(h.fors), e.contexts)
    BY <1>4, Zenon
  <2> HIDE DEF e
  <2> QED BY <1>1, <1>3, <2>1, <2>2, <2>3, Unwound
<1>7. Reaches(P, RangeFor(f), target, St(d, fo, sw, tr, e.contexts))
  BY Zenon DEF Leaving
<1>8. /\ Same(f, g) /\ g.pc = f.pc /\ g.return = f.return /\ g.done = f.done /\ g.idxs = f.idxs
  BY <1>2, Zenon DEF Same
<1> HIDE DEF g, fo, sw, tr
<1> QED BY <1>6, <1>7, <1>8, GoesAs DEF g

(* Operands.                                                                  *)
LEMMA PoppedOf ==
  ASSUME stack \in Seq(Nat), NEW k \in Nat, k <= Depth
  PROVE  Popped(k) \in Seq(Nat) /\ Len(Popped(k)) = Depth - k
<1>1. Depth \in Nat /\ Depth = Len(stack)
  BY LenProperties DEF Depth
<1>2. Depth - k \in 0 .. Len(stack)
  BY <1>1
<1> QED BY <1>2, Prefix DEF Popped

LEMMA StackTop ==
  ASSUME stack \in Seq(Nat), NEW k \in Nat, k < Depth
  PROVE  stack[Depth - k] \in Nat
<1>1. Depth \in Nat /\ Depth = Len(stack)
  BY LenProperties DEF Depth
<1>2. Depth - k \in 1 .. Len(stack)
  BY <1>1
<1> QED BY <1>2, ElementOfSeq
-----------------------------------------------------------------------------
(* One lemma per action.                                                      *)
LEMMA ActiveNow ==
  ASSUME NEW P, NEW M, NEW n, NEW m, NEW f, Active(P, M, n, m, f)
  PROVE  /\ Instruction = P.code[f.pc] /\ Top = f /\ stack \in Seq(Nat) /\ f \in Frames
         /\ Here(P, RangeFor(f), f.pc) /\ f.pc \in Nat /\ f.base \in Nat /\ Depth \in Nat
         /\ FlowFor(P, f)[f.pc].depth \in Nat /\ Depth = f.base + FlowFor(P, f)[f.pc].depth
         /\ P.flow[RangeFor(f)][f.pc] = FlowFor(P, f)[f.pc]
<1>1. Top = f /\ stack \in Seq(Nat) /\ f \in Frames /\ Here(P, RangeFor(f), f.pc)
  BY Zenon DEF Active
<1>2. /\ Instruction = P.code[f.pc] /\ f.pc \in Nat /\ f.base \in Nat /\ Depth \in Nat
      /\ FlowFor(P, f)[f.pc].depth \in Nat /\ Depth = f.base + FlowFor(P, f)[f.pc].depth
      /\ P.flow[RangeFor(f)][f.pc] = FlowFor(P, f)[f.pc]
  BY ActiveFacts
<1> QED BY <1>1, <1>2, Zenon

LEMMA ActiveMade ==
  ASSUME NEW P, NEW M, NEW n, NEW m, NEW f, Active(P, M, n, m, f)
  PROVE  /\ Instruction \in Instructions /\ InstructionMade(P.code, f.pc)
         /\ P.code[f.pc] = Instruction
<1>1. f.pc \in DOMAIN P.code /\ Instruction = P.code[f.pc]
  BY ActiveFacts
<1>2. Prepared(P)
  BY Zenon DEF Active
<1> QED BY <1>1, <1>2, PreparedCode, Zenon

LEMMA Product == ASSUME NEW a \in Nat, NEW b \in Nat PROVE a * b \in Nat
  OBVIOUS

LEMMA OutcomeOf ==
  ASSUME NEW event, NEW out \in Outcomes(event)
  PROVE  out \in Nat \/ (out = Raise /\ event[2] \in Raising)
<1> DEFINE part == event[2]
<1>1. \/ part \in {"cond", "case", "left", "right"} /\ out \in {0, 1}
      \/ out \in 0 .. MaxIterations
      \/ out \in {1}
      \/ part \in Raising /\ out = Raise
  BY Zenon DEF Outcomes
<1>2. MaxIterations \in Nat
  BY ControlVmAssumption
<1> HIDE DEF part
<1>3. out \in {0, 1} \/ out \in 0 .. MaxIterations \/ out = 1 => out \in Nat
  BY <1>2
<1> QED BY <1>1, <1>3, Zenon DEF part

LEMMA EventSource ==
  ASSUME NEW i \in Instructions, i.event[1] # <<>>
  PROVE  i.event \in Sources
<1>1. i.event \in Seq(Nat) \X STRING
  BY Zenon DEF Instructions
<1> QED BY <1>1, Zenon DEF Sources

LEMMA StoreNameKeeps ==
  ASSUME VmInv, NEW P, NEW M, NEW n, NEW m, NEW f, Active(P, M, n, m, f), StoreName
  PROVE  VmInv'
<1> DEFINE e == FlowFor(P, f)[f.pc]
<1>1. /\ Instruction = P.code[f.pc] /\ Top = f /\ stack \in Seq(Nat)
      /\ Here(P, RangeFor(f), f.pc) /\ f.base \in Nat /\ Depth \in Nat
      /\ e.depth \in Nat /\ Depth = f.base + e.depth /\ P.flow[RangeFor(f)][f.pc] = e
  BY ActiveNow
<1>2. P.code[f.pc].op = "StoreName" /\ Pops(1, Continue(Popped(1)))
  BY <1>1, Zenon DEF StoreName, At
<1> HIDE DEF e
<1>3. e.depth >= 1 /\ Reaches(P, RangeFor(f), f.pc + 1, Kept(e, e.depth - 1))
  BY <1>1, <1>2, StoreNameLeads
<1>4. ~(Depth < 1) /\ e.depth - 1 \in Nat
  BY <1>1, <1>3
<1>5. Complete(f, f.pc + 1, Popped(1), lvals)
  BY <1>1, <1>2, <1>4, Zenon DEF Pops, Continue
<1>6. Popped(1) \in Seq(Nat) /\ Len(Popped(1)) = f.base + (e.depth - 1)
  <2>1. 1 <= Depth
    BY <1>1, <1>4
  <2>2. Popped(1) \in Seq(Nat) /\ Len(Popped(1)) = Depth - 1
    BY <1>1, <2>1, PoppedOf
  <2> QED BY <1>1, <2>2
<1> QED BY <1>3, <1>4, <1>5, <1>6, GoesTo DEF e

LEMMA BinaryOpKeeps ==
  ASSUME VmInv, NEW P, NEW M, NEW n, NEW m, NEW f, Active(P, M, n, m, f), BinaryOp
  PROVE  VmInv'
<1> DEFINE e == FlowFor(P, f)[f.pc]
           v == stack[Depth] * stack[Depth - 1]
<1>1. /\ Instruction = P.code[f.pc] /\ Top = f /\ stack \in Seq(Nat)
      /\ Here(P, RangeFor(f), f.pc) /\ f.base \in Nat /\ Depth \in Nat
      /\ e.depth \in Nat /\ Depth = f.base + e.depth /\ P.flow[RangeFor(f)][f.pc] = e
  BY ActiveNow
<1>2. P.code[f.pc].op = "BinaryOp" /\ Pops(2, Continue(Append(Popped(2), v)))
  BY <1>1, Zenon DEF BinaryOp, At
<1>3. P.code[f.pc].operandCount = 2
  BY <1>2, ActiveMade, Zenon DEF InstructionMade
<1> HIDE DEF e, v
<1>4. e.depth >= 2 /\ Reaches(P, RangeFor(f), f.pc + 1, Kept(e, e.depth - 1))
  BY <1>1, <1>2, <1>3, BinaryOpLeads
<1>5. ~(Depth < 2) /\ e.depth - 1 \in Nat
  BY <1>1, <1>4
<1>6. Complete(f, f.pc + 1, Append(Popped(2), v), lvals)
  BY <1>1, <1>2, <1>5, Zenon DEF Pops, Continue
<1>7. v \in Nat
  <2>1. stack[Depth - 0] \in Nat /\ stack[Depth - 1] \in Nat
    BY <1>1, <1>5, StackTop, SMTT(30)
  <2>2. Depth - 0 = Depth
    BY <1>1
  <2>3. stack[Depth] \in Nat
    BY <2>1, <2>2, Zenon
  <2> QED BY <2>1, <2>3, Product, Zenon DEF v
<1>8. Append(Popped(2), v) \in Seq(Nat) /\ Len(Append(Popped(2), v)) = f.base + (e.depth - 1)
  <2>1. 2 <= Depth
    BY <1>1, <1>5
  <2>2. Popped(2) \in Seq(Nat) /\ Len(Popped(2)) = Depth - 2
    BY <1>1, <2>1, PoppedOf
  <2>3. Append(Popped(2), v) \in Seq(Nat) /\ Len(Append(Popped(2), v)) = Len(Popped(2)) + 1
    BY <1>7, <2>2, AppendProperties
  <2> QED BY <1>1, <2>2, <2>3
<1> QED BY <1>4, <1>5, <1>6, <1>8, GoesTo DEF e

LEMMA MakeFunctionHandleKeeps ==
  ASSUME VmInv, NEW P, NEW M, NEW n, NEW m, NEW f, Active(P, M, n, m, f), MakeFunctionHandle
  PROVE  VmInv'
<1> DEFINE e == FlowFor(P, f)[f.pc]
<1>1. /\ Instruction = P.code[f.pc] /\ Top = f /\ stack \in Seq(Nat) /\ f.pc \in Nat
      /\ Here(P, RangeFor(f), f.pc) /\ f.base \in Nat /\ Depth \in Nat
      /\ e.depth \in Nat /\ Depth = f.base + e.depth /\ P.flow[RangeFor(f)][f.pc] = e
  BY ActiveNow
<1> DEFINE target == P.code[f.pc].target
<1>2. /\ P.code[f.pc].op = "MakeFunctionHandle"
      /\ Complete(f, target, Append(stack, f.pc), lvals)
  BY <1>1, Zenon DEF MakeFunctionHandle, At
<1> HIDE DEF e
<1>3. Reaches(P, RangeFor(f), target, Kept(e, e.depth + 1))
  BY <1>1, <1>2, HandleLeads
<1>4. Append(stack, f.pc) \in Seq(Nat) /\ Len(Append(stack, f.pc)) = f.base + (e.depth + 1)
  <2>1. Append(stack, f.pc) \in Seq(Nat) /\ Len(Append(stack, f.pc)) = Len(stack) + 1
    BY <1>1, AppendProperties
  <2> QED BY <1>1, <2>1, SMTT(30) DEF Depth
<1>5. e.depth + 1 \in Nat
  BY <1>1
<1> HIDE DEF target
<1> QED BY <1>2, <1>3, <1>4, <1>5, GoesTo DEF e

LEMMA LoadNameKeeps ==
  ASSUME VmInv, NEW P, NEW M, NEW n, NEW m, NEW f, Active(P, M, n, m, f), NEW out, LoadName(out)
  PROVE  VmInv'
<1> DEFINE e == FlowFor(P, f)[f.pc]
<1>1. /\ Instruction = P.code[f.pc] /\ Top = f /\ stack \in Seq(Nat) /\ f \in Frames
      /\ Here(P, RangeFor(f), f.pc) /\ f.base \in Nat /\ Depth \in Nat
      /\ e.depth \in Nat /\ Depth = f.base + e.depth /\ P.flow[RangeFor(f)][f.pc] = e
  BY ActiveNow
<1>2. /\ P.code[f.pc].op = "LoadName" /\ out \in Outcomes(Instruction.event)
      /\ IF out = Raise THEN Fail(Instruction.event, f, stack, lvals)
                        ELSE Continue(Append(stack, out))
  BY <1>1, Zenon DEF LoadName, At
<1>3. P.code[f.pc].results = 1 /\ Instruction \in Instructions
      /\ (Instruction.event[2] \in Raising => Instruction.event[1] # <<>>)
  BY <1>2, ActiveMade, Zenon DEF InstructionMade
<1>4. out \in Nat \/ (out = Raise /\ Instruction.event[2] \in Raising)
  BY <1>2, OutcomeOf
<1> HIDE DEF e
<1>5. CASE out = Raise
  <2>1. out \notin Nat
    BY <1>5 DEF Raise
  <2>2. Instruction.event \in Sources
    BY <1>3, <1>4, <2>1, EventSource, Zenon
  <2>3. Fail(Instruction.event, f, stack, lvals)
    BY <1>2, <1>5, Zenon
  <2>4. /\ Formed(P, f, m) /\ ~f.return /\ ~f.done /\ Holds(P, f, f.pc) /\ Same(f, f)
    BY <1>1, Zenon DEF Active, Arrives, Stands, Same
  <2>5. Keeps(lvals, lvals, m, n)
    BY LvalsKept
  <2>6. f.base <= Len(stack)
    BY <1>1 DEF Depth
  <2> QED BY <1>1, <2>2, <2>3, <2>4, <2>5, <2>6, FailedSound
<1>6. CASE out # Raise
  <2>1. out \in Nat
    BY <1>4, <1>6
  <2>2. Complete(f, f.pc + 1, Append(stack, out), lvals)
    BY <1>1, <1>2, <1>6, Zenon DEF Continue
  <2>3. Reaches(P, RangeFor(f), f.pc + 1, Kept(e, e.depth + 1))
    BY <1>1, <1>2, <1>3, LoadNameLeads
  <2>4. Append(stack, out) \in Seq(Nat) /\ Len(Append(stack, out)) = f.base + (e.depth + 1)
    <3>1. Append(stack, out) \in Seq(Nat) /\ Len(Append(stack, out)) = Len(stack) + 1
      BY <1>1, <2>1, AppendProperties
    <3> QED BY <1>1, <3>1 DEF Depth
  <2>5. e.depth + 1 \in Nat
    BY <1>1
  <2> QED BY <2>2, <2>3, <2>4, <2>5, GoesTo DEF e
<1> QED BY <1>5, <1>6

LEMMA JumpKeeps ==
  ASSUME VmInv, NEW P, NEW M, NEW n, NEW m, NEW f, Active(P, M, n, m, f),
         Jump \/ ContinueLoop
  PROVE  VmInv'
<1> DEFINE e == FlowFor(P, f)[f.pc]
           target == P.code[f.pc].target
<1>1. /\ Instruction = P.code[f.pc] /\ Top = f /\ stack \in Seq(Nat) /\ f \in Frames
      /\ Here(P, RangeFor(f), f.pc) /\ f.base \in Nat
      /\ e.depth \in Nat /\ Depth = f.base + e.depth /\ P.flow[RangeFor(f)][f.pc] = e
  BY ActiveNow
<1>2. /\ P.code[f.pc].op = "Jump" \/ P.code[f.pc].op = "Continue"
      /\ Complete(Unwind(f, target), target, stack, lvals)
  BY <1>1, Zenon DEF Jump, ContinueLoop, At, Goto
<1>3. Begins(f.fors) = e.for
  BY ActiveContexts
<1> HIDE DEF e, target
<1>4. Leaving(P, RangeFor(f), f.pc, target, e.depth, Begins(f.fors), e.contexts)
  <2>1. Reaches(P, RangeFor(f), target,
                St(e.depth, e.for, Cut(P, RangeFor(f), e.switch, "switch", target),
                   Cut(P, RangeFor(f), e.try, "try", target), e.contexts))
    <3>1. CASE P.code[f.pc].op = "Jump"
      BY <1>1, <3>1, JumpLeads DEF target
    <3>2. CASE P.code[f.pc].op = "Continue"
      BY <1>1, <3>2, ContinueLeads DEF target
    <3> QED BY <1>2, <3>1, <3>2
  <2> QED BY <1>1, <1>3, <2>1, Zenon DEF Leaving
<1>5. Same(f, f)
  BY <1>1, Zenon DEF Same
<1>6. Len(stack) = f.base + e.depth
  BY <1>1 DEF Depth
<1> QED BY <1>1, <1>2, <1>4, <1>5, <1>6, GoesOut DEF e

LEMMA JumpIfFalseKeeps ==
  ASSUME VmInv, NEW P, NEW M, NEW n, NEW m, NEW f, Active(P, M, n, m, f), JumpIfFalse
  PROVE  VmInv'
<1> DEFINE e == FlowFor(P, f)[f.pc]
           target == P.code[f.pc].target
<1>1. /\ Instruction = P.code[f.pc] /\ Top = f /\ stack \in Seq(Nat) /\ f \in Frames
      /\ Here(P, RangeFor(f), f.pc) /\ f.base \in Nat /\ Depth \in Nat
      /\ e.depth \in Nat /\ Depth = f.base + e.depth /\ P.flow[RangeFor(f)][f.pc] = e
  BY ActiveNow
<1>2. /\ P.code[f.pc].op = "JumpIfFalse"
      /\ Pops(1, IF stack[Depth] = 0
                 THEN Complete(Unwind(f, target), target, Popped(1), lvals)
                 ELSE Continue(Popped(1)))
  BY <1>1, Zenon DEF JumpIfFalse, At
<1>3. Begins(f.fors) = e.for
  BY ActiveContexts
<1> HIDE DEF e, target
<1>4. /\ e.depth >= 1 /\ Reaches(P, RangeFor(f), f.pc + 1, Kept(e, e.depth - 1))
      /\ Reaches(P, RangeFor(f), target,
                 St(e.depth - 1, e.for, Cut(P, RangeFor(f), e.switch, "switch", target),
                    Cut(P, RangeFor(f), e.try, "try", target), e.contexts))
  BY <1>1, <1>2, JumpIfFalseLeads DEF target
<1>5. ~(Depth < 1) /\ e.depth - 1 \in Nat
  BY <1>1, <1>4
<1>6. Popped(1) \in Seq(Nat) /\ Len(Popped(1)) = f.base + (e.depth - 1)
  <2>1. 1 <= Depth
    BY <1>1, <1>5
  <2>2. Popped(1) \in Seq(Nat) /\ Len(Popped(1)) = Depth - 1
    BY <1>1, <2>1, PoppedOf
  <2> QED BY <1>1, <2>2
<1>7. CASE stack[Depth] = 0
  <2>1. Complete(Unwind(f, target), target, Popped(1), lvals)
    BY <1>2, <1>5, <1>7, Zenon DEF Pops
  <2>2. Leaving(P, RangeFor(f), f.pc, target, e.depth - 1, Begins(f.fors), e.contexts)
    BY <1>1, <1>3, <1>4, Zenon DEF Leaving
  <2>3. Same(f, f)
    BY <1>1, Zenon DEF Same
  <2> QED BY <1>5, <1>6, <2>1, <2>2, <2>3, GoesOut DEF e
<1>8. CASE stack[Depth] # 0
  <2>1. Complete(f, f.pc + 1, Popped(1), lvals)
    BY <1>1, <1>2, <1>5, <1>8, Zenon DEF Pops, Continue
  <2> QED BY <1>4, <1>5, <1>6, <2>1, GoesTo DEF e
<1> QED BY <1>7, <1>8

LEMMA ReturnKeeps ==
  ASSUME VmInv, NEW P, NEW M, NEW n, NEW m, NEW f, Active(P, M, n, m, f), Return
  PROVE  VmInv'
<1> DEFINE e == FlowFor(P, f)[f.pc]
           g == [f EXCEPT !.return = TRUE]
<1>1. /\ Instruction = P.code[f.pc] /\ Top = f /\ stack \in Seq(Nat) /\ f \in Frames
      /\ Here(P, RangeFor(f), f.pc) /\ f.base \in Nat
      /\ e.depth \in Nat /\ Depth = f.base + e.depth /\ P.flow[RangeFor(f)][f.pc] = e
  BY ActiveNow
<1>2. P.code[f.pc].op = "Return" /\ Complete(g, f.pc + 1, stack, lvals)
  BY <1>1, Zenon DEF Return, At, Goto
<1>3. /\ P = Text /\ Prepared(P) /\ Chain(P, frames, lvals, M)
      /\ n = Len(frames) /\ m = M[n] /\ m \in Nat /\ f = Uppermost(frames)
      /\ frames \in Seq(Frames) /\ frames # <<>> /\ lvals \in Seq(Nat)
      /\ diags = <<>> /\ stopped = FALSE /\ exception \in Sources \cup {NoDiag}
      /\ Mark(lvals, n + 1, Len(lvals)) /\ ~f.done
      /\ f.pc \in f.begin .. f.end /\ Formed(P, f, m) /\ Arrives(P, f, f.pc, stack, lvals, m)
  BY Zenon DEF Active
<1>4. /\ Same(f, g) /\ g.pc = f.pc /\ g.return = TRUE /\ g.done = f.done /\ g.fors = f.fors
      /\ g.switches = f.switches /\ g.tries = f.tries
  BY <1>1, NewReturn
<1>5. Len(lvals) = m + Len(e.contexts.lvals)
  BY ActiveContexts
<1> HIDE DEF e, g
<1>6. e.depth = RangeDepth(f) /\ e.contexts = NoContexts
  <2>1. e.depth = RangeFor(f).depth /\ e.contexts = NoContexts
    BY <1>1, <1>2, ReturnLeads
  <2> QED BY <2>1, RangeOfFrame, Zenon
<1>7. Len(e.contexts.lvals) = 0
  <2>1. e.contexts.lvals = <<>>
    BY <1>6 DEF NoContexts
  <2> QED BY <2>1
<1>8. Stepped(P, f, g, m, f.pc)
  <2>1. Formed(P, g, m)
    BY <1>3, <1>4, SameFormed
  <2>2. Holds(P, f, f.pc)
    BY <1>3, Zenon DEF Arrives, Stands
  <2>3. Holds(P, g, f.pc)
    BY <1>4, <2>2, SameHolds
  <2> QED BY <1>3, <1>4, <2>1, <2>3, Zenon DEF Stepped
<1>9. Returned(g, stack, lvals, m)
  <2>1. g.base = f.base /\ RangeDepth(g) = RangeDepth(f)
    BY <1>4, SameRange DEF Same
  <2>2. Len(lvals) = m
    BY <1>3, <1>5, <1>7
  <2> QED BY <1>1, <1>6, <2>1, <2>2, Zenon DEF Returned, Depth
<1>10. Leaves2(P, g, f.pc + 1, f.pc, stack, lvals, m, diags)
  BY <1>3, <1>4, <1>9, Zenon DEF Leaves2
<1>11. g.base <= Len(stack)
  BY <1>1, <1>4 DEF Same, Depth
<1>12. Keeps(lvals, lvals, m, n)
  BY LvalsKept
<1>13. AfterInstruction(Front(frames), g, f.pc + 1, stack, lvals, diags)
  BY <1>2, Zenon DEF Complete
<1>14. diags \in Seq(Sources)
  BY <1>3, EmptySeq
<1>15. Sound(P, frames', stack', lvals', diags', exception', stopped')
  BY <1>1, <1>3, <1>8, <1>10, <1>11, <1>12, <1>13, <1>14, SettledSound
<1>16. program' = program
  BY <1>13, Zenon DEF AfterInstruction
<1> QED BY <1>3, <1>15, <1>16, Zenon DEF VmInv, Text

LEMMA SkipBoundaryKeeps ==
  ASSUME VmInv, NEW P, NEW M, NEW n, NEW m, NEW f, Active(P, M, n, m, f), SkipBoundary
  PROVE  VmInv'
<1> DEFINE e == FlowFor(P, f)[f.pc]
           i == P.code[f.pc]
<1>1. /\ Instruction = i /\ Top = f /\ stack \in Seq(Nat)
      /\ Here(P, RangeFor(f), f.pc) /\ f.base \in Nat
      /\ e.depth \in Nat /\ Depth = f.base + e.depth /\ P.flow[RangeFor(f)][f.pc] = e
  BY ActiveNow
<1>2. \/ /\ i.op = "EnterFunction"
         /\ Complete(f, ClosedBy(P.code, P.lex, "boundary", f.pc) + 1, stack, lvals)
      \/ i.op = "EnterArgumentDefault" /\ Complete(f, i.target, stack, lvals)
      \/ /\ i.op = "EnterModule" \/ i.op = "LeaveModule"
         /\ Complete(f, f.pc + 1, stack, lvals)
  <2>1. P = Programs[program] /\ Code = P.code
    BY Zenon DEF Active, Text, Code
  <2> QED BY <1>1, <2>1, Zenon DEF SkipBoundary, At, Goto, EndOf
<1> HIDE DEF e
<1>3. /\ e \in FlowStates
      /\ i.op = "EnterFunction" =>
           Reaches(P, RangeFor(f), ClosedBy(P.code, P.lex, "boundary", f.pc) + 1, e)
      /\ i.op = "EnterArgumentDefault" => Reaches(P, RangeFor(f), i.target, e)
      /\ i.op \in {"EnterModule", "LeaveModule"} => Reaches(P, RangeFor(f), f.pc + 1, e)
  BY <1>1, BoundaryLeads
<1>4. Kept(e, e.depth) = e
  BY <1>3, Fields, Zenon DEF Kept
<1>5. Len(stack) = f.base + e.depth
  BY <1>1 DEF Depth
<1>6. ASSUME NEW next, Reaches(P, RangeFor(f), next, e), Complete(f, next, stack, lvals)
      PROVE  VmInv'
  <2>1. Reaches(P, RangeFor(f), next, Kept(e, e.depth))
    BY <1>4, <1>6
  <2> QED BY <1>1, <1>5, <1>6, <2>1, GoesTo DEF e
<1> QED BY <1>2, <1>3, <1>6, Zenon
-----------------------------------------------------------------------------
(* A context opened, closed or changed.                                       *)
LEMMA GoesBy ==
  ASSUME VmInv, NEW P, NEW M, NEW n, NEW m, NEW f, Active(P, M, n, m, f),
         NEW g, Same(f, g), g.pc = f.pc, g.return = f.return, g.done = f.done, g.idxs = f.idxs,
         Formed(P, g, m), NEW next, NEW d \in Nat,
         Reaches(P, RangeFor(f), next, St(d, Begins(g.fors), Begins(g.switches), Begins(g.tries),
                                          FlowFor(P, f)[f.pc].contexts)),
         NEW s2 \in Seq(Nat), Len(s2) = f.base + d, Complete(g, next, s2, lvals)
  PROVE  VmInv'
<1>1. Holds(P, g, next)
  BY HoldsFrom
<1> QED BY <1>1, GoesAs

LEMMA BeginsAppend ==
  ASSUME NEW S, NEW s \in Seq(S), NEW t \in Seq(Nat), Beginning(s, t), NEW x \in S, x.begin \in Nat
  PROVE  Begins(Append(s, x)) = Append(t, x.begin)
<1> DEFINE r == Append(s, x)
           u == Append(t, x.begin)
<1>1. /\ Len(s) = Len(t) /\ Len(s) \in Nat /\ \A i \in 1 .. Len(s) : t[i] = s[i].begin
  BY LenProperties, Zenon DEF Beginning
<1>2. /\ r \in Seq(S) /\ Len(r) = Len(s) + 1 /\ r[Len(s) + 1] = x
      /\ \A i \in 1 .. Len(s) : r[i] = s[i]
  BY AppendProperties
<1>3. /\ u \in Seq(Nat) /\ Len(u) = Len(t) + 1 /\ u[Len(t) + 1] = x.begin
      /\ \A i \in 1 .. Len(t) : u[i] = t[i]
  BY AppendProperties
<1> HIDE DEF r, u
<1>4. ASSUME NEW i \in 1 .. Len(r) PROVE u[i] = r[i].begin
  <2>1. i \in 1 .. Len(s) \/ i = Len(s) + 1
    BY <1>1, <1>2
  <2>2. CASE i \in 1 .. Len(s)
    BY <1>1, <1>2, <1>3, <2>2
  <2>3. CASE i = Len(s) + 1
    BY <1>1, <1>2, <1>3, <2>3
  <2> QED BY <2>1, <2>2, <2>3
<1>5. Len(r) = Len(u)
  BY <1>1, <1>2, <1>3
<1>6. Begins(r) = u
  BY <1>2, <1>3, <1>4, <1>5, BeginsIs
<1> QED BY <1>6 DEF r, u

LEMMA BeginsFront ==
  ASSUME NEW S, NEW s \in Seq(S), NEW t \in Seq(Nat), Beginning(s, t), s # <<>>
  PROVE  Front(s) \in Seq(S) /\ Begins(Front(s)) = Front(t) /\ t # <<>>
<1> DEFINE r == Front(s)
           u == Front(t)
<1>1. /\ Len(s) = Len(t) /\ Len(s) \in Nat /\ \A i \in 1 .. Len(s) : t[i] = s[i].begin
  BY LenProperties, Zenon DEF Beginning
<1>2. /\ Len(s) > 0 /\ r \in Seq(S) /\ Len(r) = Len(s) - 1
      /\ \A i \in 1 .. Len(s) - 1 : r[i] = s[i]
  BY FrontLength
<1>3. t # <<>>
  BY <1>1, <1>2, EmptySeq
<1>4. /\ u \in Seq(Nat) /\ Len(u) = Len(t) - 1
      /\ \A i \in 1 .. Len(t) - 1 : u[i] = t[i]
  BY <1>3, FrontLength
<1> HIDE DEF r, u
<1>5. Len(r) = Len(u)
  BY <1>1, <1>2, <1>4
<1>7. ASSUME NEW i \in 1 .. Len(r) PROVE u[i] = r[i].begin
  <2>1. i \in 1 .. Len(s) - 1 /\ i \in 1 .. Len(s) /\ i \in 1 .. Len(t) - 1
    BY <1>1, <1>2
  <2>2. u[i] = t[i] /\ r[i] = s[i] /\ t[i] = s[i].begin
    BY <1>1, <1>2, <1>4, <2>1
  <2> QED BY <2>2, Zenon
<1>6. Begins(r) = u
  BY <1>2, <1>4, <1>5, <1>7, BeginsIs
<1> QED BY <1>2, <1>3, <1>6 DEF r, u

LEMMA BeginsLast ==
  ASSUME NEW S, NEW s \in Seq(S), NEW t \in Seq(Nat), Beginning(s, t), s # <<>>,
         NEW x \in S, x.begin = Last(s).begin
  PROVE  /\ WithLast(s, x) \in Seq(S) /\ Begins(WithLast(s, x)) = t
         /\ Len(WithLast(s, x)) = Len(s)
         /\ \A i \in 1 .. Len(s) : WithLast(s, x)[i] = IF i = Len(s) THEN x ELSE s[i]
<1> DEFINE r == WithLast(s, x)
<1>1. /\ Len(s) = Len(t) /\ Len(s) \in Nat /\ \A i \in 1 .. Len(s) : t[i] = s[i].begin
  BY LenProperties, Zenon DEF Beginning
<1>2. Len(s) > 0
  BY FrontLength
<1>3. /\ r \in Seq(S) /\ Len(r) = Len(s)
      /\ \A i \in 1 .. Len(s) : r[i] = IF i = Len(s) THEN x ELSE s[i]
  <2>1. Len(s) \in 1 .. Len(s)
    BY <1>1, <1>2
  <2> QED BY <2>1, ExceptSeq, LenProperties DEF WithLast
<1> HIDE DEF r
<1>4. ASSUME NEW i \in 1 .. Len(r) PROVE t[i] = r[i].begin
  BY <1>1, <1>3 DEF Last
<1>5. Begins(r) = t
  BY <1>1, <1>3, <1>4, BeginsIs
<1> QED BY <1>3, <1>5 DEF r

(* The contexts of the running frame and the state it has.                    *)
LEMMA ActiveContextLists ==
  ASSUME NEW P, NEW M, NEW n, NEW m, NEW f, Active(P, M, n, m, f)
  PROVE  /\ f.fors \in Seq(Loops) /\ f.switches \in Seq(Selections) /\ f.tries \in Seq(Guards)
         /\ f.idxs \in Seq(Nat)
         /\ FlowFor(P, f)[f.pc].for \in Seq(Nat) /\ FlowFor(P, f)[f.pc].switch \in Seq(Nat)
         /\ FlowFor(P, f)[f.pc].try \in Seq(Nat)
         /\ Beginning(f.fors, FlowFor(P, f)[f.pc].for)
         /\ Beginning(f.switches, FlowFor(P, f)[f.pc].switch)
         /\ Beginning(f.tries, FlowFor(P, f)[f.pc].try)
<1>1. f \in Frames /\ Formed(P, f, m) /\ Prepared(P) /\ Holds(P, f, f.pc) /\ f.pc < f.end
  BY Zenon DEF Active, Arrives, Stands
<1>2. /\ f.fors \in Seq(Loops) /\ f.switches \in Seq(Selections) /\ f.tries \in Seq(Guards)
      /\ f.idxs \in Seq(Nat)
  BY <1>1 DEF Frames
<1>3. /\ FlowFor(P, f)[f.pc].for \in Seq(Nat) /\ FlowFor(P, f)[f.pc].switch \in Seq(Nat)
      /\ FlowFor(P, f)[f.pc].try \in Seq(Nat)
  BY ONLY <1>1, Standing
<1>4. /\ Beginning(f.fors, FlowFor(P, f)[f.pc].for)
      /\ Beginning(f.switches, FlowFor(P, f)[f.pc].switch)
      /\ Beginning(f.tries, FlowFor(P, f)[f.pc].try)
  BY ActiveFacts
<1> QED BY <1>2, <1>3, <1>4

LEMMA OpenMeans ==
  ASSUME NEW s, NEW t \in Seq(Nat), Beginning(s, t), NEW S, s \in Seq(S),
         Innermost(t) # NoPc \/ t # <<>>
  PROVE  s # <<>>
<1>1. t # <<>>
  BY Zenon DEF Innermost
<1>2. Len(t) # 0
  BY <1>1, EmptySeq
<1> QED BY <1>2, EmptySeq DEF Beginning

LEMMA BeginForKeeps ==
  ASSUME VmInv, NEW P, NEW M, NEW n, NEW m, NEW f, Active(P, M, n, m, f), BeginFor
  PROVE  VmInv'
<1> DEFINE e == FlowFor(P, f)[f.pc]
           target == P.code[f.pc].target
           loop == [left |-> stack[Depth] - 1, begin |-> f.pc]
           fo == Append(f.fors, loop)
           g == [f EXCEPT !.fors = fo]
<1>1. /\ Instruction = P.code[f.pc] /\ Top = f /\ stack \in Seq(Nat) /\ f \in Frames /\ f.pc \in Nat
      /\ Here(P, RangeFor(f), f.pc) /\ f.base \in Nat /\ Depth \in Nat
      /\ e.depth \in Nat /\ Depth = f.base + e.depth /\ P.flow[RangeFor(f)][f.pc] = e
  BY ActiveNow
<1>2. /\ P.code[f.pc].op = "ForBegin"
      /\ Pops(1, IF stack[Depth] = 0 THEN Complete(f, target, Popped(1), lvals)
                 ELSE Complete(g, f.pc + 1, Popped(1), lvals))
  BY <1>1, Zenon DEF BeginFor, At
<1>3. /\ Begins(f.switches) = e.switch /\ Begins(f.tries) = e.try
  BY ActiveContexts
<1>4. /\ f.fors \in Seq(Loops) /\ e.for \in Seq(Nat) /\ Beginning(f.fors, e.for)
  BY ActiveContextLists
<1> HIDE DEF e, target, g, fo, loop
<1>5. /\ e.depth >= 1 /\ Reaches(P, RangeFor(f), target, Kept(e, e.depth - 1))
      /\ Reaches(P, RangeFor(f), f.pc + 1,
                 St(e.depth - 1, Append(e.for, f.pc), e.switch, e.try, e.contexts))
  BY <1>1, <1>2, ForBeginLeads DEF target
<1>6. ~(Depth < 1) /\ e.depth - 1 \in Nat
  BY <1>1, <1>5
<1>7. Popped(1) \in Seq(Nat) /\ Len(Popped(1)) = f.base + (e.depth - 1)
  <2>1. 1 <= Depth
    BY <1>1, <1>6
  <2>2. Popped(1) \in Seq(Nat) /\ Len(Popped(1)) = Depth - 1
    BY <1>1, <2>1, PoppedOf
  <2> QED BY <1>1, <2>2
<1>8. CASE stack[Depth] = 0
  <2>1. Complete(f, target, Popped(1), lvals)
    BY <1>2, <1>6, <1>8, Zenon DEF Pops
  <2> QED BY <1>5, <1>6, <1>7, <2>1, GoesTo DEF e
<1>9. CASE stack[Depth] # 0
  <2>1. Complete(g, f.pc + 1, Popped(1), lvals)
    BY <1>2, <1>6, <1>9, Zenon DEF Pops
  <2>2. loop \in Loops /\ loop.begin = f.pc
    <3>1. stack[Depth - 0] \in Nat
      BY <1>1, <1>6, StackTop
    <3>2. Depth - 0 = Depth
      BY <1>1
    <3>3. stack[Depth] - 1 \in Nat
      BY <1>9, <3>1, <3>2
    <3> QED BY <1>1, <3>3 DEF Loops, loop
  <2>3. fo \in Seq(Loops)
    BY <1>4, <2>2, AppendProperties DEF fo
  <2>4. Begins(fo) = Append(e.for, f.pc)
    <3>1. loop.begin \in Nat
      BY <1>1, <2>2
    <3>2. Begins(Append(f.fors, loop)) = Append(e.for, loop.begin)
      BY <1>4, <2>2, <3>1, BeginsAppend
    <3> QED BY <2>2, <3>2, Zenon DEF fo
  <2>5. /\ Same(f, g) /\ g.pc = f.pc /\ g.return = f.return /\ g.done = f.done
        /\ g.fors = fo /\ g.switches = f.switches /\ g.tries = f.tries /\ g.idxs = f.idxs
    BY <1>1, <2>3, NewFors DEF g
  <2>6. Formed(P, g, m)
    BY <2>5, SameFormed, Zenon DEF Active
  <2>7. Reaches(P, RangeFor(f), f.pc + 1,
                St(e.depth - 1, Begins(g.fors), Begins(g.switches), Begins(g.tries), e.contexts))
    BY <1>3, <1>5, <2>4, <2>5, Zenon
  <2> QED BY <1>6, <1>7, <2>1, <2>5, <2>6, <2>7, GoesBy DEF e
<1> QED BY <1>8, <1>9

LEMMA NextForKeeps ==
  ASSUME VmInv, NEW P, NEW M, NEW n, NEW m, NEW f, Active(P, M, n, m, f), NextFor
  PROVE  VmInv'
<1> DEFINE e == FlowFor(P, f)[f.pc]
           target == P.code[f.pc].target
           loop == [Last(f.fors) EXCEPT !.left = @ - 1]
           fo == Iterated(f.fors)
           g == [f EXCEPT !.fors = fo]
           shorter == Front(f.fors)
           h == [f EXCEPT !.fors = shorter]
<1>1. /\ Instruction = P.code[f.pc] /\ Top = f /\ stack \in Seq(Nat) /\ f \in Frames
      /\ Here(P, RangeFor(f), f.pc) /\ f.base \in Nat
      /\ e.depth \in Nat /\ Depth = f.base + e.depth /\ P.flow[RangeFor(f)][f.pc] = e
  BY ActiveNow
<1>2. /\ P.code[f.pc].op = "ForNext"
      /\ Needs(f.fors, IF Last(f.fors).left = 0 THEN Complete(h, f.pc + 1, stack, lvals)
                       ELSE Complete(g, target, stack, lvals))
  BY <1>1, Zenon DEF NextFor, At, Goto
<1>3. /\ Begins(f.switches) = e.switch /\ Begins(f.tries) = e.try
  BY ActiveContexts
<1>4. /\ f.fors \in Seq(Loops) /\ e.for \in Seq(Nat) /\ Beginning(f.fors, e.for)
  BY ActiveContextLists
<1> HIDE DEF e, target, g, fo, loop, h, shorter
<1>5. /\ Innermost(e.for) # NoPc /\ Reaches(P, RangeFor(f), target, Kept(e, e.depth))
      /\ Reaches(P, RangeFor(f), f.pc + 1,
                 St(e.depth, Front(e.for), e.switch, e.try, e.contexts))
  BY <1>1, <1>2, ForNextLeads DEF target
<1>6. f.fors # <<>>
  BY <1>4, <1>5, OpenMeans
<1>7. Len(stack) = f.base + e.depth
  BY <1>1 DEF Depth
<1>8. CASE Last(f.fors).left = 0
  <2>1. Complete(h, f.pc + 1, stack, lvals)
    BY <1>2, <1>6, <1>8, Zenon DEF Needs
  <2>2. shorter \in Seq(Loops) /\ Begins(shorter) = Front(e.for)
    BY <1>4, <1>6, BeginsFront DEF shorter
  <2>3. /\ Same(f, h) /\ h.pc = f.pc /\ h.return = f.return /\ h.done = f.done
        /\ h.fors = shorter /\ h.switches = f.switches /\ h.tries = f.tries /\ h.idxs = f.idxs
    BY <1>1, <2>2, NewFors DEF h
  <2>4. Formed(P, h, m)
    BY <2>3, SameFormed, Zenon DEF Active
  <2>5. Reaches(P, RangeFor(f), f.pc + 1,
                St(e.depth, Begins(h.fors), Begins(h.switches), Begins(h.tries), e.contexts))
    BY <1>3, <1>5, <2>2, <2>3, Zenon
  <2> QED BY <1>1, <1>7, <2>1, <2>3, <2>4, <2>5, GoesBy DEF e
<1>9. CASE Last(f.fors).left # 0
  <2>1. Complete(g, target, stack, lvals)
    BY <1>2, <1>6, <1>9, Zenon DEF Needs
  <2>2. loop \in Loops /\ loop.begin = Last(f.fors).begin
    <3>1. Last(f.fors) \in Loops
      <4>1. Len(f.fors) \in 1 .. Len(f.fors)
        BY <1>4, <1>6, FrontLength
      <4> QED BY <1>4, <4>1, ElementOfSeq DEF Last
    <3> DEFINE last == Last(f.fors)
    <3> HIDE DEF last
    <3>2. last \in Loops /\ last.left # 0 /\ loop = [last EXCEPT !.left = @ - 1]
      BY <1>9, <3>1, Zenon DEF last, loop
    <3>3. loop \in Loops /\ loop.begin = last.begin
      BY <3>2 DEF Loops
    <3> QED BY <3>3 DEF last
  <2>3. fo \in Seq(Loops) /\ Begins(fo) = e.for
    <3>1. fo = WithLast(f.fors, loop)
      BY Zenon DEF fo, loop, Iterated
    <3> QED BY <1>4, <1>6, <2>2, <3>1, BeginsLast
  <2>4. /\ Same(f, g) /\ g.pc = f.pc /\ g.return = f.return /\ g.done = f.done
        /\ g.fors = fo /\ g.switches = f.switches /\ g.tries = f.tries /\ g.idxs = f.idxs
    BY <1>1, <2>3, NewFors DEF g
  <2>5. Formed(P, g, m)
    BY <2>4, SameFormed, Zenon DEF Active
  <2>6. Reaches(P, RangeFor(f), target,
                St(e.depth, Begins(g.fors), Begins(g.switches), Begins(g.tries), e.contexts))
    BY <1>3, <1>5, <2>3, <2>4, Zenon DEF Kept
  <2> QED BY <1>1, <1>7, <2>1, <2>4, <2>5, <2>6, GoesBy DEF e
<1> QED BY <1>8, <1>9

LEMMA BreakLoopKeeps ==
  ASSUME VmInv, NEW P, NEW M, NEW n, NEW m, NEW f, Active(P, M, n, m, f), BreakLoop
  PROVE  VmInv'
<1> DEFINE e == FlowFor(P, f)[f.pc]
           target == P.code[f.pc].target
           shorter == Front(f.fors)
           h == [f EXCEPT !.fors = shorter]
<1>1. /\ Instruction = P.code[f.pc] /\ Top = f /\ stack \in Seq(Nat) /\ f \in Frames
      /\ Here(P, RangeFor(f), f.pc) /\ f.base \in Nat
      /\ e.depth \in Nat /\ Depth = f.base + e.depth /\ P.flow[RangeFor(f)][f.pc] = e
  BY ActiveNow
<1>2. /\ P.code[f.pc].op = "Break"
      /\ Needs(f.fors, Complete(Unwind(h, target), target, stack, lvals))
  BY <1>1, Zenon DEF BreakLoop, At, Goto
<1>3. /\ f.fors \in Seq(Loops) /\ e.for \in Seq(Nat) /\ Beginning(f.fors, e.for)
  BY ActiveContextLists
<1> HIDE DEF e, target, h, shorter
<1>4. /\ e.for # <<>>
      /\ Reaches(P, RangeFor(f), target,
                 St(e.depth, Front(e.for), Cut(P, RangeFor(f), e.switch, "switch", target),
                    Cut(P, RangeFor(f), e.try, "try", target), e.contexts))
  BY <1>1, <1>2, BreakLeads DEF target
<1>5. f.fors # <<>>
  BY <1>3, <1>4, OpenMeans
<1>6. Len(stack) = f.base + e.depth
  BY <1>1 DEF Depth
<1>7. Complete(Unwind(h, target), target, stack, lvals)
  BY <1>2, <1>5, Zenon DEF Needs
<1>8. shorter \in Seq(Loops) /\ Begins(shorter) = Front(e.for)
  BY <1>3, <1>5, BeginsFront DEF shorter
<1>9. /\ Same(f, h) /\ h.pc = f.pc /\ h.return = f.return /\ h.done = f.done
      /\ h.fors = shorter /\ h.switches = f.switches /\ h.tries = f.tries /\ h.idxs = f.idxs
  BY <1>1, <1>8, NewFors DEF h
<1>10. Leaving(P, RangeFor(f), f.pc, target, e.depth, Begins(h.fors), e.contexts)
  BY <1>1, <1>4, <1>8, <1>9, Zenon DEF Leaving
<1> QED BY <1>1, <1>6, <1>7, <1>9, <1>10, GoesOut DEF e

LEMMA FormedSwitches ==
  ASSUME NEW P, NEW f, NEW g, NEW m, Formed(P, f, m), Same(f, g), g.tries = f.tries,
         \A k \in DOMAIN g.switches : SwitchOK(P, g.switches[k])
  PROVE  Formed(P, g, m)
<1>1. RangeFor(g) = RangeFor(f) /\ FlowFor(P, g) = FlowFor(P, f) /\ g.base = f.base
  BY SameRange DEF Same
<1>2. ASSUME NEW k \in DOMAIN g.tries PROVE GuardOK(P, g, m, g.tries[k])
  <2>1. GuardOK(P, f, m, g.tries[k])
    BY Zenon DEF Formed
  <2>2. GuardAt(P, g, m, g.tries[k].begin) = GuardAt(P, f, m, g.tries[k].begin)
    BY <1>1, Zenon DEF GuardAt
  <2> QED BY <1>1, <2>1, <2>2, Zenon DEF GuardOK
<1> QED BY <1>1, <1>2, Zenon DEF Formed

LEMMA FormedTries ==
  ASSUME NEW P, NEW f, NEW g, NEW m, Formed(P, f, m), Same(f, g), g.switches = f.switches,
         \A k \in DOMAIN g.tries : GuardOK(P, g, m, g.tries[k])
  PROVE  Formed(P, g, m)
<1>1. RangeFor(g) = RangeFor(f)
  BY SameRange
<1> QED BY <1>1, Zenon DEF Formed

LEMMA ClosedByText ==
  ASSUME NEW P, NEW M, NEW n, NEW m, NEW f, Active(P, M, n, m, f), NEW family, NEW begin \in Nat
  PROVE  EndOf(family, begin) = ClosedBy(P.code, P.lex, family, begin) /\ EndOf(family, begin) \in Nat
<1>1. P = Text /\ Prepared(P)
  BY Zenon DEF Active
<1>2. EndOf(family, begin) = ClosedBy(P.code, P.lex, family, begin)
  BY <1>1, Zenon DEF EndOf, Text, Code
<1>3. ClosedBy(P.code, P.lex, family, begin) \in 0 .. Len(P.code)
  BY <1>1, ClosedByNumber
<1> QED BY <1>2, <1>3

LEMMA SwitchBeginKeeps ==
  ASSUME VmInv, NEW P, NEW M, NEW n, NEW m, NEW f, Active(P, M, n, m, f), SwitchBegin
  PROVE  VmInv'
<1> DEFINE e == FlowFor(P, f)[f.pc]
           selection == [matched |-> FALSE, begin |-> f.pc, end |-> EndOf("switch", f.pc)]
           sw == Append(f.switches, selection)
           g == [f EXCEPT !.switches = sw]
<1>1. /\ Instruction = P.code[f.pc] /\ Top = f /\ stack \in Seq(Nat) /\ f \in Frames /\ f.pc \in Nat
      /\ Here(P, RangeFor(f), f.pc) /\ f.base \in Nat /\ Depth \in Nat
      /\ e.depth \in Nat /\ Depth = f.base + e.depth /\ P.flow[RangeFor(f)][f.pc] = e
  BY ActiveNow
<1>2. /\ P.code[f.pc].op = "SwitchBegin" /\ Pops(1, Complete(g, f.pc + 1, Popped(1), lvals))
  BY <1>1, Zenon DEF SwitchBegin, At
<1>3. /\ Begins(f.fors) = e.for /\ Begins(f.tries) = e.try
  BY ActiveContexts
<1>4. /\ f.switches \in Seq(Selections) /\ e.switch \in Seq(Nat) /\ Beginning(f.switches, e.switch)
  BY ActiveContextLists
<1>5. /\ EndOf("switch", f.pc) = ClosedBy(P.code, P.lex, "switch", f.pc)
      /\ EndOf("switch", f.pc) \in Nat
  BY <1>1, ClosedByText
<1>6. selection \in Selections /\ selection.begin = f.pc /\ SwitchOK(P, selection)
  <2> DEFINE end == EndOf("switch", f.pc)
  <2>1. end \in Nat /\ end = ClosedBy(P.code, P.lex, "switch", f.pc)
    BY <1>5
  <2> HIDE DEF end
  <2>2. /\ [matched |-> FALSE, begin |-> f.pc, end |-> end] \in Selections
        /\ [matched |-> FALSE, begin |-> f.pc, end |-> end].begin = f.pc
        /\ [matched |-> FALSE, begin |-> f.pc, end |-> end].end = end
    BY <1>1, <2>1 DEF Selections
  <2> QED BY <2>1, <2>2, Zenon DEF end, SwitchOK
<1> HIDE DEF e, g, sw, selection
<1>7. /\ e.depth >= 1
      /\ Reaches(P, RangeFor(f), f.pc + 1,
                 St(e.depth - 1, e.for, Append(e.switch, f.pc), e.try, e.contexts))
  BY <1>1, <1>2, SwitchBeginLeads
<1>8. ~(Depth < 1) /\ e.depth - 1 \in Nat
  BY <1>1, <1>7
<1>9. Popped(1) \in Seq(Nat) /\ Len(Popped(1)) = f.base + (e.depth - 1)
  <2>1. 1 <= Depth
    BY <1>1, <1>8
  <2>2. Popped(1) \in Seq(Nat) /\ Len(Popped(1)) = Depth - 1
    BY <1>1, <2>1, PoppedOf
  <2> QED BY <1>1, <2>2
<1>10. Complete(g, f.pc + 1, Popped(1), lvals)
  BY <1>2, <1>8, Zenon DEF Pops
<1>11. /\ sw \in Seq(Selections) /\ Len(sw) = Len(f.switches) + 1 /\ sw[Len(f.switches) + 1] = selection
       /\ \A k \in 1 .. Len(f.switches) : sw[k] = f.switches[k]
  BY <1>4, <1>6, AppendProperties DEF sw
<1>12. Begins(sw) = Append(e.switch, f.pc)
  <2>1. Begins(Append(f.switches, selection)) = Append(e.switch, selection.begin)
    <3> DEFINE s == f.switches
               t == e.switch
    <3>1. /\ s \in Seq(Selections) /\ t \in Seq(Nat) /\ Beginning(s, t)
          /\ selection \in Selections /\ selection.begin \in Nat
      BY <1>1, <1>4, <1>6
    <3> HIDE DEF s, t
    <3>2. Begins(Append(s, selection)) = Append(t, selection.begin)
      BY ONLY <3>1, BeginsAppend
    <3> QED BY <3>2, Zenon DEF s, t
  <2> QED BY <1>6, <2>1, Zenon DEF sw
<1>13. /\ Same(f, g) /\ g.pc = f.pc /\ g.return = f.return /\ g.done = f.done
       /\ g.fors = f.fors /\ g.switches = sw /\ g.tries = f.tries /\ g.idxs = f.idxs
  BY <1>1, <1>11, NewSwitches DEF g
<1>14. Formed(P, g, m)
  <2>1. Formed(P, f, m) /\ \A k \in DOMAIN f.switches : SwitchOK(P, f.switches[k])
    BY Zenon DEF Active, Formed
  <2>2. DOMAIN sw = 1 .. Len(f.switches) + 1 /\ DOMAIN f.switches = 1 .. Len(f.switches)
        /\ Len(f.switches) \in Nat
    BY <1>4, <1>11, LenProperties
  <2>3. ASSUME NEW k \in DOMAIN sw PROVE SwitchOK(P, sw[k])
    <3>1. k \in 1 .. Len(f.switches) \/ k = Len(f.switches) + 1
      BY <2>2
    <3>2. CASE k \in 1 .. Len(f.switches)
      BY <1>11, <2>1, <2>2, <3>2
    <3>3. CASE k = Len(f.switches) + 1
      BY <1>6, <1>11, <3>3
    <3> QED BY <3>1, <3>2, <3>3
  <2> QED BY <1>13, <2>1, <2>3, FormedSwitches
<1>15. Reaches(P, RangeFor(f), f.pc + 1,
               St(e.depth - 1, Begins(g.fors), Begins(g.switches), Begins(g.tries), e.contexts))
  BY <1>3, <1>7, <1>12, <1>13, Zenon
<1> QED BY <1>8, <1>9, <1>10, <1>13, <1>14, <1>15, GoesBy DEF e

(* The innermost switch has found its case.                                   *)
LEMMA MatchedFields ==
  ASSUME NEW P, NEW M, NEW n, NEW m, NEW f, Active(P, M, n, m, f), f.switches # <<>>
  PROVE  LET g == Matched(f)
         IN /\ Same(f, g) /\ g.pc = f.pc /\ g.return = f.return /\ g.done = f.done
            /\ g.fors = f.fors /\ Begins(g.switches) = Begins(f.switches) /\ g.tries = f.tries
            /\ g.idxs = f.idxs /\ Formed(P, g, m)
<1> DEFINE e == FlowFor(P, f)[f.pc]
           last == Last(f.switches)
           selection == [last EXCEPT !.matched = TRUE]
           sw == WithLast(f.switches, selection)
           g == Matched(f)
<1>1. /\ f \in Frames /\ Formed(P, f, m) /\ \A k \in DOMAIN f.switches : SwitchOK(P, f.switches[k])
  BY Zenon DEF Active, Formed
<1>2. Begins(f.switches) = e.switch
  BY ActiveContexts
<1>3. /\ f.switches \in Seq(Selections) /\ e.switch \in Seq(Nat) /\ Beginning(f.switches, e.switch)
  BY ActiveContextLists
<1>4. g = [f EXCEPT !.switches = sw]
  BY Zenon DEF Matched
<1>5. last \in Selections /\ SwitchOK(P, last)
  <2>1. Len(f.switches) \in 1 .. Len(f.switches) /\ DOMAIN f.switches = 1 .. Len(f.switches)
    BY <1>3, FrontLength, LenProperties
  <2> QED BY <1>1, <1>3, <2>1, ElementOfSeq DEF Last
<1> HIDE DEF e, g, sw, last
<1>6. selection \in Selections /\ selection.begin = last.begin /\ selection.end = last.end
  BY <1>5 DEF Selections
<1>7. SwitchOK(P, selection)
  BY <1>5, <1>6, Zenon DEF SwitchOK
<1> HIDE DEF selection
<1>8. /\ sw \in Seq(Selections) /\ Begins(sw) = e.switch /\ Len(sw) = Len(f.switches)
      /\ \A i \in 1 .. Len(f.switches) : sw[i] = IF i = Len(f.switches) THEN selection ELSE f.switches[i]
  BY <1>3, <1>6, BeginsLast DEF sw, last
<1>9. /\ Same(f, g) /\ g.pc = f.pc /\ g.return = f.return /\ g.done = f.done
      /\ g.fors = f.fors /\ g.switches = sw /\ g.tries = f.tries /\ g.idxs = f.idxs
  BY <1>1, <1>4, <1>8, NewSwitches
<1>10. Formed(P, g, m)
  <2>1. DOMAIN sw = 1 .. Len(f.switches) /\ DOMAIN f.switches = 1 .. Len(f.switches)
    BY <1>3, <1>8, LenProperties
  <2>2. ASSUME NEW k \in DOMAIN sw PROVE SwitchOK(P, sw[k])
    <3>1. CASE k = Len(f.switches)
      BY <1>7, <1>8, <2>1, <3>1
    <3>2. CASE k # Len(f.switches)
      BY <1>1, <1>8, <2>1, <3>2
    <3> QED BY <3>1, <3>2
  <2> QED BY <1>1, <1>9, <2>2, FormedSwitches
<1> QED BY <1>2, <1>8, <1>9, <1>10, Zenon DEF g

LEMMA SwitchCaseKeeps ==
  ASSUME VmInv, NEW P, NEW M, NEW n, NEW m, NEW f, Active(P, M, n, m, f), SwitchCase
  PROVE  VmInv'
<1> DEFINE e == FlowFor(P, f)[f.pc]
           target == P.code[f.pc].target
           passed == Last(f.switches).matched \/ stack[Depth] = 0
           g == Matched(f)
<1>1. /\ Instruction = P.code[f.pc] /\ Top = f /\ stack \in Seq(Nat)
      /\ Here(P, RangeFor(f), f.pc) /\ f.base \in Nat /\ Depth \in Nat
      /\ e.depth \in Nat /\ Depth = f.base + e.depth /\ P.flow[RangeFor(f)][f.pc] = e
  BY ActiveNow
<1>2. /\ P.code[f.pc].op = "SwitchCase"
      /\ Pops(1, Needs(f.switches,
           IF passed THEN Complete(f, target, Popped(1), lvals)
                     ELSE Complete(g, f.pc + 1, Popped(1), lvals)))
  BY <1>1, Zenon DEF SwitchCase, At
<1>3. Begins(f.fors) = e.for /\ Begins(f.switches) = e.switch /\ Begins(f.tries) = e.try
  BY ActiveContexts
<1>4. /\ f.switches \in Seq(Selections) /\ e.switch \in Seq(Nat) /\ Beginning(f.switches, e.switch)
  BY ActiveContextLists
<1> HIDE DEF e, target, g, passed
<1>5. /\ e.depth >= 1 /\ Innermost(e.switch) # NoPc
      /\ Reaches(P, RangeFor(f), f.pc + 1, Kept(e, e.depth - 1))
      /\ Reaches(P, RangeFor(f), target, Kept(e, e.depth - 1))
  BY <1>1, <1>2, SwitchCaseLeads DEF target
<1>6. f.switches # <<>>
  BY <1>4, <1>5, OpenMeans
<1>7. ~(Depth < 1) /\ e.depth - 1 \in Nat
  BY <1>1, <1>5
<1>8. Popped(1) \in Seq(Nat) /\ Len(Popped(1)) = f.base + (e.depth - 1)
  <2>1. 1 <= Depth
    BY <1>1, <1>7
  <2>2. Popped(1) \in Seq(Nat) /\ Len(Popped(1)) = Depth - 1
    BY <1>1, <2>1, PoppedOf
  <2> QED BY <1>1, <2>2
<1>9. IF passed THEN Complete(f, target, Popped(1), lvals)
                ELSE Complete(g, f.pc + 1, Popped(1), lvals)
  BY <1>2, <1>6, <1>7, Zenon DEF Pops, Needs
<1>10. CASE passed
  <2>1. Complete(f, target, Popped(1), lvals)
    BY <1>9, <1>10, Zenon
  <2> QED BY <1>5, <1>7, <1>8, <2>1, GoesTo DEF e
<1>11. CASE ~passed
  <2>1. Complete(g, f.pc + 1, Popped(1), lvals)
    BY <1>9, <1>11, Zenon
  <2>2. /\ Same(f, g) /\ g.pc = f.pc /\ g.return = f.return /\ g.done = f.done
        /\ g.fors = f.fors /\ Begins(g.switches) = Begins(f.switches) /\ g.tries = f.tries
        /\ g.idxs = f.idxs /\ Formed(P, g, m)
    BY <1>6, MatchedFields DEF g
  <2>3. Reaches(P, RangeFor(f), f.pc + 1,
                St(e.depth - 1, Begins(g.fors), Begins(g.switches), Begins(g.tries), e.contexts))
    BY <1>3, <1>5, <2>2, Zenon DEF Kept
  <2> QED BY <1>7, <1>8, <2>1, <2>2, <2>3, GoesBy DEF e
<1> QED BY <1>10, <1>11

LEMMA SwitchOtherwiseKeeps ==
  ASSUME VmInv, NEW P, NEW M, NEW n, NEW m, NEW f, Active(P, M, n, m, f), SwitchOtherwise
  PROVE  VmInv'
<1> DEFINE e == FlowFor(P, f)[f.pc]
           target == P.code[f.pc].target
           passed == Last(f.switches).matched
           g == Matched(f)
<1>1. /\ Instruction = P.code[f.pc] /\ Top = f /\ stack \in Seq(Nat)
      /\ Here(P, RangeFor(f), f.pc) /\ f.base \in Nat
      /\ e.depth \in Nat /\ Depth = f.base + e.depth /\ P.flow[RangeFor(f)][f.pc] = e
  BY ActiveNow
<1>2. /\ P.code[f.pc].op = "SwitchOtherwise"
      /\ Needs(f.switches,
           IF passed THEN Complete(f, target, stack, lvals)
                     ELSE Complete(g, f.pc + 1, stack, lvals))
  BY <1>1, Zenon DEF SwitchOtherwise, At, Goto
<1>3. Begins(f.fors) = e.for /\ Begins(f.switches) = e.switch /\ Begins(f.tries) = e.try
  BY ActiveContexts
<1>4. /\ f.switches \in Seq(Selections) /\ e.switch \in Seq(Nat) /\ Beginning(f.switches, e.switch)
  BY ActiveContextLists
<1> HIDE DEF e, target, g, passed
<1>5. /\ Innermost(e.switch) # NoPc
      /\ Reaches(P, RangeFor(f), f.pc + 1, Kept(e, e.depth))
      /\ Reaches(P, RangeFor(f), target, Kept(e, e.depth))
  BY <1>1, <1>2, OtherwiseLeads DEF target
<1>6. f.switches # <<>>
  BY <1>4, <1>5, OpenMeans
<1>7. Len(stack) = f.base + e.depth
  BY <1>1 DEF Depth
<1>8. IF passed THEN Complete(f, target, stack, lvals) ELSE Complete(g, f.pc + 1, stack, lvals)
  BY <1>2, <1>6, Zenon DEF Needs
<1>9. CASE passed
  <2>1. Complete(f, target, stack, lvals)
    BY <1>8, <1>9, Zenon
  <2> QED BY <1>1, <1>5, <1>7, <2>1, GoesTo DEF e
<1>10. CASE ~passed
  <2>1. Complete(g, f.pc + 1, stack, lvals)
    BY <1>8, <1>10, Zenon
  <2>2. /\ Same(f, g) /\ g.pc = f.pc /\ g.return = f.return /\ g.done = f.done
        /\ g.fors = f.fors /\ Begins(g.switches) = Begins(f.switches) /\ g.tries = f.tries
        /\ g.idxs = f.idxs /\ Formed(P, g, m)
    BY <1>6, MatchedFields DEF g
  <2>3. Reaches(P, RangeFor(f), f.pc + 1,
                St(e.depth, Begins(g.fors), Begins(g.switches), Begins(g.tries), e.contexts))
    BY <1>3, <1>5, <2>2, Zenon DEF Kept
  <2> QED BY <1>1, <1>7, <2>1, <2>2, <2>3, GoesBy DEF e
<1> QED BY <1>9, <1>10

LEMMA FrontFormed ==
  ASSUME NEW P, NEW f \in Frames, NEW m, Formed(P, f, m), NEW g, Same(f, g),
         \/ g.switches = f.switches /\ f.tries # <<>> /\ g.tries = Front(f.tries)
         \/ g.tries = f.tries /\ f.switches # <<>> /\ g.switches = Front(f.switches)
  PROVE  Formed(P, g, m)
<1>1. f.switches \in Seq(Selections) /\ f.tries \in Seq(Guards)
  BY DEF Frames
<1>2. CASE g.switches = f.switches /\ f.tries # <<>> /\ g.tries = Front(f.tries)
  <2>1. /\ Len(f.tries) \in Nat /\ Front(f.tries) \in Seq(Guards) /\ Len(Front(f.tries)) = Len(f.tries) - 1
        /\ \A i \in 1 .. Len(f.tries) - 1 : Front(f.tries)[i] = f.tries[i]
    BY <1>1, <1>2, FrontLength
  <2>2. DOMAIN g.tries = 1 .. Len(f.tries) - 1 /\ DOMAIN f.tries = 1 .. Len(f.tries)
    BY <1>1, <1>2, <2>1, LenProperties
  <2>3. \A i \in DOMAIN g.tries : \E j \in DOMAIN f.tries : g.tries[i] = f.tries[j]
    <3> TAKE i \in DOMAIN g.tries
    <3>1. i \in DOMAIN f.tries /\ g.tries[i] = f.tries[i]
      BY <1>2, <2>1, <2>2
    <3> QED BY <3>1
  <2> QED BY <1>2, <2>3, SubFormed
<1>3. CASE g.tries = f.tries /\ f.switches # <<>> /\ g.switches = Front(f.switches)
  <2>1. /\ Len(f.switches) \in Nat /\ Front(f.switches) \in Seq(Selections)
        /\ Len(Front(f.switches)) = Len(f.switches) - 1
        /\ \A i \in 1 .. Len(f.switches) - 1 : Front(f.switches)[i] = f.switches[i]
    BY <1>1, <1>3, FrontLength
  <2>2. DOMAIN g.switches = 1 .. Len(f.switches) - 1 /\ DOMAIN f.switches = 1 .. Len(f.switches)
    BY <1>1, <1>3, <2>1, LenProperties
  <2>3. \A i \in DOMAIN g.switches : \E j \in DOMAIN f.switches : g.switches[i] = f.switches[j]
    <3> TAKE i \in DOMAIN g.switches
    <3>1. i \in DOMAIN f.switches /\ g.switches[i] = f.switches[i]
      BY <1>3, <2>1, <2>2
    <3> QED BY <3>1
  <2> QED BY <1>3, <2>3, SubFormed
<1> QED BY <1>2, <1>3

LEMMA SwitchEndKeeps ==
  ASSUME VmInv, NEW P, NEW M, NEW n, NEW m, NEW f, Active(P, M, n, m, f), SwitchEnd
  PROVE  VmInv'
<1> DEFINE e == FlowFor(P, f)[f.pc]
           shorter == Front(f.switches)
           g == [f EXCEPT !.switches = shorter]
<1>1. /\ Instruction = P.code[f.pc] /\ Top = f /\ stack \in Seq(Nat) /\ f \in Frames
      /\ Here(P, RangeFor(f), f.pc) /\ f.base \in Nat
      /\ e.depth \in Nat /\ Depth = f.base + e.depth /\ P.flow[RangeFor(f)][f.pc] = e
  BY ActiveNow
<1>2. P.code[f.pc].op = "SwitchEnd" /\ Needs(f.switches, Complete(g, f.pc + 1, stack, lvals))
  BY <1>1, Zenon DEF SwitchEnd, At, Goto
<1>3. Begins(f.fors) = e.for /\ Begins(f.tries) = e.try
  BY ActiveContexts
<1>4. /\ f.switches \in Seq(Selections) /\ e.switch \in Seq(Nat) /\ Beginning(f.switches, e.switch)
  BY ActiveContextLists
<1> HIDE DEF e, g, shorter
<1>5. /\ Innermost(e.switch) # NoPc
      /\ Reaches(P, RangeFor(f), f.pc + 1, St(e.depth, e.for, Front(e.switch), e.try, e.contexts))
  BY <1>1, <1>2, SwitchEndLeads
<1>6. f.switches # <<>>
  BY <1>4, <1>5, OpenMeans
<1>7. Len(stack) = f.base + e.depth
  BY <1>1 DEF Depth
<1>8. Complete(g, f.pc + 1, stack, lvals)
  BY <1>2, <1>6, Zenon DEF Needs
<1>9. shorter \in Seq(Selections) /\ Begins(shorter) = Front(e.switch)
  BY <1>4, <1>6, BeginsFront DEF shorter
<1>10. /\ Same(f, g) /\ g.pc = f.pc /\ g.return = f.return /\ g.done = f.done
       /\ g.fors = f.fors /\ g.switches = shorter /\ g.tries = f.tries /\ g.idxs = f.idxs
  BY <1>1, <1>9, NewSwitches DEF g
<1>11. Formed(P, g, m)
  <2>1. Formed(P, f, m)
    BY Zenon DEF Active
  <2> QED BY <1>1, <1>6, <1>10, <2>1, FrontFormed DEF shorter
<1>12. Reaches(P, RangeFor(f), f.pc + 1,
               St(e.depth, Begins(g.fors), Begins(g.switches), Begins(g.tries), e.contexts))
  BY <1>3, <1>5, <1>9, <1>10, Zenon
<1> QED BY <1>1, <1>7, <1>8, <1>10, <1>11, <1>12, GoesBy DEF e

LEMMA TryBeginKeeps ==
  ASSUME VmInv, NEW P, NEW M, NEW n, NEW m, NEW f, Active(P, M, n, m, f), TryBegin
  PROVE  VmInv'
<1> DEFINE e == FlowFor(P, f)[f.pc]
           try == [base |-> Len(diags), catch |-> P.code[f.pc].target,
                   stack |-> Depth, fors |-> Len(f.fors), idxs |-> Len(f.idxs),
                   lvals |-> Len(lvals), switches |-> Len(f.switches),
                   begin |-> f.pc, end |-> EndOf("try", f.pc)]
           tr == Append(f.tries, try)
           g == [f EXCEPT !.tries = tr]
<1>1. /\ Instruction = P.code[f.pc] /\ Top = f /\ stack \in Seq(Nat) /\ f \in Frames /\ f.pc \in Nat
      /\ Here(P, RangeFor(f), f.pc) /\ f.base \in Nat
      /\ e.depth \in Nat /\ Depth = f.base + e.depth /\ P.flow[RangeFor(f)][f.pc] = e
  BY ActiveNow
<1>2. /\ P.code[f.pc].op = "TryBegin" /\ Complete(g, f.pc + 1, stack, lvals)
  BY <1>1, Zenon DEF TryBegin, At, Goto
<1>3. /\ Begins(f.fors) = e.for /\ Begins(f.switches) = e.switch
      /\ f.idxs = Totals(e.contexts.idxs) /\ Len(lvals) = m + Len(e.contexts.lvals)
  BY ActiveContexts
<1>4. /\ f.tries \in Seq(Guards) /\ e.try \in Seq(Nat) /\ Beginning(f.tries, e.try)
      /\ Beginning(f.fors, e.for) /\ Beginning(f.switches, e.switch)
  BY ActiveContextLists
<1>5. diags = <<>> /\ m \in Nat /\ Prepared(P)
  BY Zenon DEF Active
<1> DEFINE end == EndOf("try", f.pc)
<1>6. end = ClosedBy(P.code, P.lex, "try", f.pc) /\ end \in Nat
  BY <1>1, ClosedByText
<1> HIDE DEF e, g, tr, try, end
<1>7. /\ Reaches(P, RangeFor(f), f.pc + 1,
                 St(e.depth, e.for, e.switch, Append(e.try, f.pc), e.contexts))
      /\ Reaches(P, RangeFor(f), P.code[f.pc].target, Kept(e, e.depth))
  BY <1>1, <1>2, TryBeginLeads
<1>8. e.depth = 0 /\ e.contexts = NoContexts
  BY <1>1, <1>2, TryIsStatement
<1>9. try = GuardAt(P, f, m, f.pc)
  <2>1. Len(diags) = 0
    BY <1>5
  <2>2. Depth = f.base
    BY <1>1, <1>8
  <2>3. Len(f.fors) = Len(e.for) /\ Len(f.switches) = Len(e.switch)
    BY <1>4, Zenon DEF Beginning
  <2>4. e.contexts.idxs = <<>> /\ e.contexts.lvals = <<>>
    BY <1>8 DEF NoContexts
  <2>5. Len(f.idxs) = 0
    <3>1. Len(Totals(<<>>)) = Len(<<>>)
      <4>1. <<>> \in Seq(Indexes)
        BY EmptySeq
      <4> QED BY <4>1, TotalsOf
    <3> QED BY <1>3, <2>4, <3>1
  <2>6. Len(lvals) = m
    BY <1>3, <1>5, <2>4
  <2> QED BY <1>6, <2>1, <2>2, <2>3, <2>5, <2>6, Zenon DEF try, GuardAt, e, end
<1>10. try.begin = f.pc
  BY <1>9, GuardFields
<1>11. try \in Guards
  <2>1. P.code[f.pc].target \in Nat
    <3>1. P.code[f.pc].target \in RangeFor(f).begin .. RangeFor(f).end
      BY <1>7, Zenon DEF Reaches
    <3>2. RangeFor(f).begin \in Nat /\ RangeFor(f).end \in Nat
      BY <1>1, RangeBounds, Zenon DEF Here
    <3> QED BY <3>1, <3>2
  <2>2. Len(diags) \in Nat /\ Depth \in Nat /\ Len(f.fors) \in Nat /\ Len(f.idxs) \in Nat
        /\ Len(lvals) \in Nat /\ Len(f.switches) \in Nat
    <3>1. /\ f.fors \in Seq(Loops) /\ f.idxs \in Seq(Nat) /\ f.switches \in Seq(Selections)
      BY <1>1 DEF Frames
    <3>2. lvals \in Seq(Nat)
      BY Zenon DEF Active
    <3>3. Len(f.fors) \in Nat
      BY <3>1, LenProperties
    <3>4. Len(f.idxs) \in Nat
      BY <3>1, LenProperties
    <3>5. Len(f.switches) \in Nat
      BY <3>1, LenProperties
    <3>6. Len(lvals) \in Nat
      BY <3>2, LenProperties
    <3>7. Len(diags) \in Nat /\ Depth \in Nat
      BY <1>1, <1>5
    <3> QED BY <3>3, <3>4, <3>5, <3>6, <3>7
  <2> QED BY <1>1, <1>6, <2>1, <2>2, Zenon DEF try, Guards, end
<1>12. /\ tr \in Seq(Guards) /\ Len(tr) = Len(f.tries) + 1 /\ tr[Len(f.tries) + 1] = try
       /\ \A k \in 1 .. Len(f.tries) : tr[k] = f.tries[k]
  BY <1>4, <1>11, AppendProperties DEF tr
<1>13. Begins(tr) = Append(e.try, f.pc)
  <2>1. Begins(Append(f.tries, try)) = Append(e.try, try.begin)
    BY <1>1, <1>4, <1>10, <1>11, BeginsAppend, SMTT(30)
  <2> QED BY <1>10, <2>1, Zenon DEF tr
<1>14. /\ Same(f, g) /\ g.pc = f.pc /\ g.return = f.return /\ g.done = f.done
       /\ g.fors = f.fors /\ g.switches = f.switches /\ g.tries = tr /\ g.idxs = f.idxs
  BY <1>1, <1>12, NewTries DEF g
<1>15. Formed(P, g, m)
  <2>1. Formed(P, f, m) /\ \A k \in DOMAIN f.tries : GuardOK(P, f, m, f.tries[k])
    BY Zenon DEF Active, Formed
  <2>2. DOMAIN tr = 1 .. Len(f.tries) + 1 /\ DOMAIN f.tries = 1 .. Len(f.tries)
        /\ Len(f.tries) \in Nat
    BY <1>4, <1>12, LenProperties
  <2>3. GuardOK(P, f, m, try)
    <3>1. Known(P, RangeFor(f), f.pc)
      BY <1>1, Zenon DEF Here
    <3> QED BY <1>2, <1>9, <1>10, <3>1, Zenon DEF GuardOK
  <2>4. ASSUME NEW k \in DOMAIN tr PROVE GuardOK(P, g, m, tr[k])
    <3>1. k \in 1 .. Len(f.tries) \/ k = Len(f.tries) + 1
      BY <2>2
    <3>2. GuardOK(P, f, m, tr[k])
      <4>1. CASE k \in 1 .. Len(f.tries)
        BY <1>12, <2>1, <2>2, <4>1
      <4>2. CASE k = Len(f.tries) + 1
        BY <1>12, <2>3, <4>2
      <4> QED BY <3>1, <4>1, <4>2
    <3>3. RangeFor(g) = RangeFor(f) /\ FlowFor(P, g) = FlowFor(P, f) /\ g.base = f.base
      BY <1>14, SameRange DEF Same
    <3>4. GuardAt(P, g, m, tr[k].begin) = GuardAt(P, f, m, tr[k].begin)
      BY <3>3, Zenon DEF GuardAt
    <3> QED BY <3>2, <3>3, <3>4, Zenon DEF GuardOK
  <2> QED BY <1>14, <2>1, <2>4, FormedTries
<1>16. Reaches(P, RangeFor(f), f.pc + 1,
               St(e.depth, Begins(g.fors), Begins(g.switches), Begins(g.tries), e.contexts))
  BY <1>3, <1>7, <1>13, <1>14, Zenon
<1>17. Len(stack) = f.base + e.depth
  BY <1>1 DEF Depth
<1> QED BY <1>1, <1>2, <1>14, <1>15, <1>16, <1>17, GoesBy DEF e

LEMMA TryEndKeeps ==
  ASSUME VmInv, NEW P, NEW M, NEW n, NEW m, NEW f, Active(P, M, n, m, f), TryEnd
  PROVE  VmInv'
<1> DEFINE e == FlowFor(P, f)[f.pc]
           target == P.code[f.pc].target
           shorter == Front(f.tries)
           g == [f EXCEPT !.tries = shorter]
<1>1. /\ Instruction = P.code[f.pc] /\ Top = f /\ stack \in Seq(Nat) /\ f \in Frames
      /\ Here(P, RangeFor(f), f.pc) /\ f.base \in Nat
      /\ e.depth \in Nat /\ Depth = f.base + e.depth /\ P.flow[RangeFor(f)][f.pc] = e
  BY ActiveNow
<1>2. P.code[f.pc].op = "TryEnd" /\ Needs(f.tries, Complete(g, target, stack, lvals))
  BY <1>1, Zenon DEF TryEnd, At, Goto
<1>3. Begins(f.fors) = e.for /\ Begins(f.switches) = e.switch
  BY ActiveContexts
<1>4. /\ f.tries \in Seq(Guards) /\ e.try \in Seq(Nat) /\ Beginning(f.tries, e.try)
  BY ActiveContextLists
<1> HIDE DEF e, target, g, shorter
<1>5. /\ Innermost(e.try) # NoPc
      /\ Reaches(P, RangeFor(f), target, St(e.depth, e.for, e.switch, Front(e.try), e.contexts))
  BY <1>1, <1>2, TryEndLeads DEF target
<1>6. f.tries # <<>>
  BY <1>4, <1>5, OpenMeans
<1>7. Len(stack) = f.base + e.depth
  BY <1>1 DEF Depth
<1>8. Complete(g, target, stack, lvals)
  BY <1>2, <1>6, Zenon DEF Needs
<1>9. shorter \in Seq(Guards) /\ Begins(shorter) = Front(e.try)
  BY <1>4, <1>6, BeginsFront DEF shorter
<1>10. /\ Same(f, g) /\ g.pc = f.pc /\ g.return = f.return /\ g.done = f.done
       /\ g.fors = f.fors /\ g.switches = f.switches /\ g.tries = shorter /\ g.idxs = f.idxs
  BY <1>1, <1>9, NewTries DEF g
<1>11. Formed(P, g, m)
  <2>1. Formed(P, f, m)
    BY Zenon DEF Active
  <2> QED BY <1>1, <1>6, <1>10, <2>1, FrontFormed DEF shorter
<1>12. Reaches(P, RangeFor(f), target,
               St(e.depth, Begins(g.fors), Begins(g.switches), Begins(g.tries), e.contexts))
  BY <1>3, <1>5, <1>9, <1>10, Zenon
<1> QED BY <1>1, <1>7, <1>8, <1>10, <1>11, <1>12, GoesBy DEF e
-----------------------------------------------------------------------------
(* Index and lvalue contexts.                                                 *)
LEMMA GoesIn ==
  ASSUME VmInv, NEW P, NEW M, NEW n, NEW m, NEW f, Active(P, M, n, m, f),
         NEW g, Same(f, g), g.pc = f.pc, g.return = f.return, g.done = f.done,
         g.fors = f.fors, g.switches = f.switches, g.tries = f.tries,
         NEW d \in Nat, NEW c,
         Reaches(P, RangeFor(f), f.pc + 1,
                 St(d, FlowFor(P, f)[f.pc].for, FlowFor(P, f)[f.pc].switch, FlowFor(P, f)[f.pc].try, c)),
         g.idxs = Totals(c.idxs), NEW s2 \in Seq(Nat), Len(s2) = f.base + d,
         NEW l2, Keeps(lvals, l2, m, n), Mark(l2, n + 1, Len(l2)), Len(l2) = m + Len(c.lvals),
         Complete(g, f.pc + 1, s2, l2)
  PROVE  VmInv'
<1>1. ~f.return /\ ~f.done /\ Formed(P, f, m)
  BY Zenon DEF Active
<1>2. /\ Begins(f.fors) = FlowFor(P, f)[f.pc].for /\ Begins(f.switches) = FlowFor(P, f)[f.pc].switch
      /\ Begins(f.tries) = FlowFor(P, f)[f.pc].try
  BY ActiveContexts
<1>3. Reaches(P, RangeFor(f), f.pc + 1, St(d, Begins(g.fors), Begins(g.switches), Begins(g.tries), c))
  BY <1>2, Zenon
<1>4. Holds(P, g, f.pc + 1)
  BY <1>3, HoldsFrom
<1>5. Formed(P, g, m)
  BY <1>1, SameFormed
<1>6. ~g.return /\ ~g.done
  BY <1>1
<1> QED BY <1>3, <1>4, <1>5, <1>6, GoneOn

LEMMA ContextOpens ==
  ASSUME VmInv, NEW P, NEW M, NEW n, NEW m, NEW f, Active(P, M, n, m, f),
         BeginIndexContext \/ BeginLvalueIndexContext
  PROVE  VmInv'
<1> DEFINE e == FlowFor(P, f)[f.pc]
           i == P.code[f.pc]
           more == Append(f.idxs, i.operandCount)
           g == [f EXCEPT !.idxs = more]
<1>1. /\ Instruction = i /\ Top = f /\ stack \in Seq(Nat) /\ f \in Frames
      /\ Here(P, RangeFor(f), f.pc) /\ f.base \in Nat
      /\ e.depth \in Nat /\ Depth = f.base + e.depth /\ P.flow[RangeFor(f)][f.pc] = e
  BY ActiveNow
<1>2. \/ i.op = "BeginIndexContext" /\ Needs(stack, Complete(g, f.pc + 1, stack, lvals))
      \/ i.op = "BeginLvalueIndexContext" /\ Needs(lvals, Complete(g, f.pc + 1, stack, lvals))
  BY <1>1, Zenon DEF BeginIndexContext, BeginLvalueIndexContext, At, Goto
<1>3. f.idxs = Totals(e.contexts.idxs) /\ Len(lvals) = m + Len(e.contexts.lvals)
  BY ActiveContexts
<1>4. /\ m \in Nat /\ lvals \in Seq(Nat) /\ Mark(lvals, n + 1, Len(lvals)) /\ Keeps(lvals, lvals, m, n)
  BY LvalsKept, Zenon DEF Active
<1>5. i.operandCount \in Nat
  <2>1. Instruction \in Instructions
    BY ActiveMade
  <2> QED BY <1>1, <2>1 DEF Instructions
<1>6. f.idxs \in Seq(Nat)
  BY ActiveContextLists
<1> HIDE DEF e, more, g
<1>7. i.op \in {"BeginIndexContext", "BeginLvalueIndexContext"}
  BY <1>2, Zenon
<1>8. /\ e \in FlowStates
      /\ i.op = "BeginIndexContext" => e.depth >= 1
      /\ i.op = "BeginLvalueIndexContext" => e.contexts.lvals # <<>>
      /\ \E c : /\ Reaches(P, RangeFor(f), f.pc + 1, St(e.depth, e.for, e.switch, e.try, c))
                /\ Totals(c.idxs) = Append(Totals(e.contexts.idxs), i.operandCount)
                /\ Len(c.lvals) = Len(e.contexts.lvals)
  <2>1. Here(P, RangeFor(f), f.pc) /\ i.op \in {"BeginIndexContext", "BeginLvalueIndexContext"}
    BY <1>1, <1>7
  <2>2. P.flow[RangeFor(f)][f.pc] = e
    BY <1>1
  <2> QED BY ONLY <2>1, <2>2, OpenedIndexes, SMTT(30)
<1>9. Complete(g, f.pc + 1, stack, lvals)
  <2>1. CASE i.op = "BeginIndexContext"
    <3>1. Len(stack) >= 1
      BY <1>1, <1>8, <2>1 DEF Depth
    <3>2. stack # <<>>
      BY <1>1, <3>1, EmptySeq
    <3>3. Needs(stack, Complete(g, f.pc + 1, stack, lvals))
      BY <1>2, <2>1
    <3> QED BY <3>2, <3>3, Zenon DEF Needs
  <2>2. CASE i.op = "BeginLvalueIndexContext"
    <3>1. e.contexts.lvals \in Seq(Places) /\ e.contexts.lvals # <<>>
      BY <1>8, <2>2 DEF FlowStates
    <3>2. Len(e.contexts.lvals) > 0
      BY <3>1, FrontLength
    <3>3. Len(lvals) > 0
      BY <1>3, <1>4, <3>2
    <3>4. lvals # <<>>
      BY <1>4, <3>3, EmptySeq
    <3>5. Needs(lvals, Complete(g, f.pc + 1, stack, lvals))
      BY <1>2, <2>2
    <3> QED BY <3>4, <3>5, Zenon DEF Needs
  <2> QED BY <1>2, <2>1, <2>2
<1>10. more \in Seq(Nat)
  BY <1>5, <1>6, AppendProperties DEF more
<1>11. /\ Same(f, g) /\ g.pc = f.pc /\ g.return = f.return /\ g.done = f.done
       /\ g.fors = f.fors /\ g.switches = f.switches /\ g.tries = f.tries /\ g.idxs = more
  BY <1>1, <1>10, NewIdxs DEF g
<1>12. PICK c : /\ Reaches(P, RangeFor(f), f.pc + 1, St(e.depth, e.for, e.switch, e.try, c))
                /\ Totals(c.idxs) = Append(Totals(e.contexts.idxs), i.operandCount)
                /\ Len(c.lvals) = Len(e.contexts.lvals)
  BY <1>8, Zenon
<1>13. g.idxs = Totals(c.idxs) /\ Len(lvals) = m + Len(c.lvals)
  BY <1>3, <1>11, <1>12, Zenon DEF more
<1>14. Len(stack) = f.base + e.depth
  BY <1>1 DEF Depth
<1> QED BY <1>1, <1>4, <1>9, <1>11, <1>12, <1>13, <1>14, GoesIn DEF e

LEMMA BeginIndexArgumentKeeps ==
  ASSUME VmInv, NEW P, NEW M, NEW n, NEW m, NEW f, Active(P, M, n, m, f), BeginIndexArgument
  PROVE  VmInv'
<1> DEFINE e == FlowFor(P, f)[f.pc]
<1>1. /\ Instruction = P.code[f.pc] /\ Top = f /\ stack \in Seq(Nat) /\ f \in Frames
      /\ Here(P, RangeFor(f), f.pc) /\ f.base \in Nat
      /\ e.depth \in Nat /\ Depth = f.base + e.depth /\ P.flow[RangeFor(f)][f.pc] = e
  BY ActiveNow
<1>2. P.code[f.pc].op = "BeginIndexArgument" /\ Needs(f.idxs, Complete(f, f.pc + 1, stack, lvals))
  BY <1>1, Zenon DEF BeginIndexArgument, At, Goto
<1>3. f.idxs = Totals(e.contexts.idxs) /\ Len(lvals) = m + Len(e.contexts.lvals)
  BY ActiveContexts
<1>4. /\ Mark(lvals, n + 1, Len(lvals)) /\ Keeps(lvals, lvals, m, n)
  BY LvalsKept, Zenon DEF Active
<1> HIDE DEF e
<1>5. /\ Totals(e.contexts.idxs) # <<>>
      /\ \E c : /\ Reaches(P, RangeFor(f), f.pc + 1, St(e.depth, e.for, e.switch, e.try, c))
                /\ Totals(c.idxs) = Totals(e.contexts.idxs)
                /\ Len(c.lvals) = Len(e.contexts.lvals)
  BY <1>1, <1>2, IndexArgument, SMTT(30)
<1>6. Complete(f, f.pc + 1, stack, lvals)
  BY <1>2, <1>3, <1>5, Zenon DEF Needs
<1>7. PICK c : /\ Reaches(P, RangeFor(f), f.pc + 1, St(e.depth, e.for, e.switch, e.try, c))
               /\ Totals(c.idxs) = Totals(e.contexts.idxs)
               /\ Len(c.lvals) = Len(e.contexts.lvals)
  BY <1>5, Zenon
<1>8. f.idxs = Totals(c.idxs) /\ Len(lvals) = m + Len(c.lvals)
  BY <1>3, <1>7, Zenon
<1>9. Same(f, f) /\ Len(stack) = f.base + e.depth
  BY <1>1, Zenon DEF Same, Depth
<1> QED BY <1>1, <1>4, <1>6, <1>7, <1>8, <1>9, GoesIn DEF e

LEMMA BeginLvalueKeeps ==
  ASSUME VmInv, NEW P, NEW M, NEW n, NEW m, NEW f, Active(P, M, n, m, f), BeginLvalue
  PROVE  VmInv'
<1> DEFINE e == FlowFor(P, f)[f.pc]
           l2 == Append(lvals, n)
<1>1. /\ Instruction = P.code[f.pc] /\ Top = f /\ stack \in Seq(Nat) /\ f \in Frames
      /\ Here(P, RangeFor(f), f.pc) /\ f.base \in Nat
      /\ e.depth \in Nat /\ Depth = f.base + e.depth /\ P.flow[RangeFor(f)][f.pc] = e
  BY ActiveNow
<1>2. n = Len(frames) /\ n \in Nat /\ lvals \in Seq(Nat) /\ Mark(lvals, n + 1, Len(lvals)) /\ m \in Nat
  BY Zenon DEF Active
<1>3. P.code[f.pc].op = "BeginLvalue" /\ Complete(f, f.pc + 1, stack, l2)
  BY <1>1, <1>2, Zenon DEF BeginLvalue, At
<1>4. f.idxs = Totals(e.contexts.idxs) /\ Len(lvals) = m + Len(e.contexts.lvals)
  BY ActiveContexts
<1>5. Keeps(lvals, lvals, m, n)
  BY LvalsKept
<1> HIDE DEF e, l2
<1>6. e \in FlowStates /\
      \E c : /\ Reaches(P, RangeFor(f), f.pc + 1, St(e.depth, e.for, e.switch, e.try, c))
             /\ Totals(c.idxs) = Totals(e.contexts.idxs)
             /\ Len(c.lvals) = Len(e.contexts.lvals) + 1
  <2>1. Here(P, RangeFor(f), f.pc) /\ P.code[f.pc].op = "BeginLvalue"
    BY <1>1, <1>3
  <2>2. P.flow[RangeFor(f)][f.pc] = e
    BY <1>1
  <2> DEFINE R == RangeFor(f)
  <2> HIDE DEF R
  <2>3. /\ P.flow[R][f.pc] \in FlowStates
        /\ \E c : /\ Reaches(P, R, f.pc + 1,
                       St(P.flow[R][f.pc].depth, P.flow[R][f.pc].for, P.flow[R][f.pc].switch,
                          P.flow[R][f.pc].try, c))
                  /\ Totals(c.idxs) = Totals(P.flow[R][f.pc].contexts.idxs)
                  /\ Len(c.lvals) = Len(P.flow[R][f.pc].contexts.lvals) + 1
    <3>1. Here(P, R, f.pc) /\ P.code[f.pc].op = "BeginLvalue"
      BY <2>1, Zenon DEF R
    <3> QED BY ONLY <3>1, LvalueLeads
  <2> QED BY <2>2, <2>3, Zenon DEF R
<1>7. PICK c : /\ Reaches(P, RangeFor(f), f.pc + 1, St(e.depth, e.for, e.switch, e.try, c))
               /\ Totals(c.idxs) = Totals(e.contexts.idxs)
               /\ Len(c.lvals) = Len(e.contexts.lvals) + 1
  BY <1>6, Zenon
<1>8. /\ l2 \in Seq(Nat) /\ Len(l2) = Len(lvals) + 1 /\ l2[Len(lvals) + 1] = n
      /\ \A i \in 1 .. Len(lvals) : l2[i] = lvals[i]
      /\ Len(lvals) \in Nat /\ DOMAIN l2 = 1 .. Len(l2) /\ DOMAIN lvals = 1 .. Len(lvals)
  BY <1>2, AppendProperties, LenProperties DEF l2
<1>9. Keeps(lvals, l2, m, n)
  <2>1. /\ m <= Len(lvals) /\ \A i \in 1 .. Len(lvals) : i > m => lvals[i] >= n
    BY <1>5, Zenon DEF Keeps
  <2>2. m <= Len(l2) /\ \A i \in 1 .. m : l2[i] = lvals[i]
    BY <1>2, <1>8, <2>1
  <2>3. ASSUME NEW i \in 1 .. Len(l2), i > m PROVE l2[i] >= n
    <3>1. CASE i = Len(lvals) + 1
      BY <1>2, <1>8, <3>1
    <3>2. CASE i # Len(lvals) + 1
      <4>1. i \in 1 .. Len(lvals)
        BY <1>8, <3>2
      <4> QED BY <1>8, <2>1, <2>3, <4>1
    <3> QED BY <3>1, <3>2
  <2> QED BY <1>8, <2>2, <2>3, Zenon DEF Keeps
<1>10. Mark(l2, n + 1, Len(l2))
  <2>1. \A i \in 1 .. Len(lvals) : lvals[i] < n + 1
    <3>1. \A i \in DOMAIN lvals : lvals[i] < n + 1 <=> i <= Len(lvals)
      BY <1>2, Zenon DEF Mark
    <3> QED BY <1>8, <3>1
  <2>2. ASSUME NEW i \in DOMAIN l2 PROVE l2[i] < n + 1 /\ i <= Len(l2)
    <3>1. i \in 1 .. Len(lvals) \/ i = Len(lvals) + 1
      BY <1>8
    <3>2. CASE i \in 1 .. Len(lvals)
      <4>1. l2[i] = lvals[i] /\ lvals[i] < n + 1
        BY <1>8, <2>1, <3>2
      <4>2. i <= Len(l2)
        BY <1>8, <3>2
      <4> QED BY <4>1, <4>2
    <3>3. CASE i = Len(lvals) + 1
      BY <1>2, <1>8, <3>3
    <3> QED BY <3>1, <3>2, <3>3
  <2>3. Len(l2) \in 0 .. Len(l2)
    BY <1>8
  <2> QED BY <2>2, <2>3, Zenon DEF Mark
<1>11. f.idxs = Totals(c.idxs) /\ Len(l2) = m + Len(c.lvals)
  <2>1. f.idxs = Totals(c.idxs)
    BY <1>4, <1>7, Zenon
  <2>2. Len(e.contexts.lvals) \in Nat
    <3>1. e.contexts.lvals \in Seq(Places)
      BY <1>6 DEF FlowStates
    <3> QED BY <3>1, LenProperties
  <2>3. Len(l2) = m + Len(c.lvals)
    BY <1>2, <1>4, <1>7, <1>8, <2>2
  <2> QED BY <2>1, <2>3
<1>12. Same(f, f) /\ Len(stack) = f.base + e.depth
  BY <1>1, Zenon DEF Same, Depth
<1> QED BY <1>1, <1>3, <1>7, <1>9, <1>10, <1>11, <1>12, GoesIn DEF e

LEMMA LvalueDescendKeeps ==
  ASSUME VmInv, NEW P, NEW M, NEW n, NEW m, NEW f, Active(P, M, n, m, f), LvalueDescendMember
  PROVE  VmInv'
<1> DEFINE e == FlowFor(P, f)[f.pc]
<1>1. /\ Instruction = P.code[f.pc] /\ Top = f /\ stack \in Seq(Nat) /\ f \in Frames
      /\ Here(P, RangeFor(f), f.pc) /\ f.base \in Nat
      /\ e.depth \in Nat /\ Depth = f.base + e.depth /\ P.flow[RangeFor(f)][f.pc] = e
  BY ActiveNow
<1>2. P.code[f.pc].op = "LvalueDescendMember" /\ Needs(lvals, Complete(f, f.pc + 1, stack, lvals))
  BY <1>1, Zenon DEF LvalueDescendMember, At, Goto
<1>3. f.idxs = Totals(e.contexts.idxs) /\ Len(lvals) = m + Len(e.contexts.lvals)
  BY ActiveContexts
<1>4. /\ m \in Nat /\ lvals \in Seq(Nat) /\ Mark(lvals, n + 1, Len(lvals)) /\ Keeps(lvals, lvals, m, n)
  BY LvalsKept, Zenon DEF Active
<1>5. P.code[f.pc].operandCount = 0
  BY <1>2, ActiveMade, Zenon DEF InstructionMade
<1> HIDE DEF e
<1>6. /\ e \in FlowStates /\ Len(e.contexts.lvals) > 0
      /\ \E c : /\ Reaches(P, RangeFor(f), f.pc + 1, St(e.depth, e.for, e.switch, e.try, c))
                /\ Totals(c.idxs) = Totals(e.contexts.idxs)
                /\ Len(c.lvals) = Len(e.contexts.lvals)
  BY <1>1, <1>2, <1>5, DescendLeads, SMTT(30)
<1>7. lvals # <<>>
  <2>1. Len(lvals) > 0
    <3>1. e.contexts.lvals \in Seq(Places)
      BY <1>6 DEF FlowStates
    <3>2. Len(e.contexts.lvals) \in Nat
      BY <3>1, LenProperties
    <3> QED BY <1>3, <1>4, <1>6, <3>2
  <2> QED BY <1>4, <2>1, EmptySeq
<1>8. Complete(f, f.pc + 1, stack, lvals)
  BY <1>2, <1>7, Zenon DEF Needs
<1>9. PICK c : /\ Reaches(P, RangeFor(f), f.pc + 1, St(e.depth, e.for, e.switch, e.try, c))
               /\ Totals(c.idxs) = Totals(e.contexts.idxs)
               /\ Len(c.lvals) = Len(e.contexts.lvals)
  BY <1>6, Zenon
<1>10. f.idxs = Totals(c.idxs) /\ Len(lvals) = m + Len(c.lvals)
  BY <1>3, <1>9, Zenon
<1>11. Same(f, f) /\ Len(stack) = f.base + e.depth
  BY <1>1, Zenon DEF Same, Depth
<1> QED BY <1>1, <1>4, <1>8, <1>9, <1>10, <1>11, GoesIn DEF e

LEMMA FinishFields ==
  ASSUME NEW f \in Frames, f.idxs # <<>>
  PROVE  LET g == FinishIndexContext(f)
         IN /\ Same(f, g) /\ g.pc = f.pc /\ g.return = f.return /\ g.done = f.done
            /\ g.fors = f.fors /\ g.switches = f.switches /\ g.tries = f.tries
            /\ g.idxs = Front(f.idxs)
<1> DEFINE shorter == Front(f.idxs)
           g == FinishIndexContext(f)
<1>1. g = [f EXCEPT !.idxs = shorter]
  BY Zenon DEF FinishIndexContext
<1>2. shorter \in Seq(Nat)
  <2>1. f.idxs \in Seq(Nat)
    BY DEF Frames
  <2> QED BY <2>1, FrontLength
<1> HIDE DEF g, shorter
<1> QED BY <1>1, <1>2, NewIdxs DEF g, shorter

LEMMA StorePathIndexKeeps ==
  ASSUME VmInv, NEW P, NEW M, NEW n, NEW m, NEW f, Active(P, M, n, m, f), NEW out, StorePathIndex(out)
  PROVE  VmInv'
<1> DEFINE e == FlowFor(P, f)[f.pc]
           k == P.code[f.pc].operandCount + 1
           g == FinishIndexContext(f)
           l2 == Front(lvals)
<1>1. /\ Instruction = P.code[f.pc] /\ Top = f /\ stack \in Seq(Nat) /\ f \in Frames
      /\ Here(P, RangeFor(f), f.pc) /\ f.base \in Nat /\ Depth \in Nat
      /\ e.depth \in Nat /\ Depth = f.base + e.depth /\ P.flow[RangeFor(f)][f.pc] = e
  BY ActiveNow
<1>2. /\ P.code[f.pc].op = "StorePathIndex" /\ out \in Outcomes(Instruction.event)
      /\ Pops(k, Needs(lvals,
           IF out = Raise THEN Fail(Instruction.event, g, Popped(k), l2)
           ELSE Complete(g, g.pc + 1, Popped(k), l2)))
  BY <1>1, Zenon DEF StorePathIndex, At
<1>3. f.idxs = Totals(e.contexts.idxs) /\ Len(lvals) = m + Len(e.contexts.lvals)
  BY ActiveContexts
<1>4. /\ m \in Nat /\ n \in Nat /\ lvals \in Seq(Nat) /\ Mark(lvals, n + 1, Len(lvals))
      /\ Keeps(lvals, lvals, m, n) /\ ~f.return /\ ~f.done /\ Formed(P, f, m)
      /\ Holds(P, f, f.pc)
  BY LvalsKept, Zenon DEF Active, Arrives, Stands
<1>5. /\ Instruction \in Instructions
      /\ (Instruction.event[2] \in Raising => Instruction.event[1] # <<>>)
  BY ActiveMade, Zenon DEF InstructionMade
<1>6. P.code[f.pc].operandCount \in Nat
  BY <1>1, <1>5 DEF Instructions
<1> HIDE DEF e
<1>7. /\ e \in FlowStates /\ e.depth >= P.code[f.pc].operandCount + 1
      /\ Totals(e.contexts.idxs) # <<>> /\ Len(e.contexts.lvals) > 0
      /\ \E c : /\ Reaches(P, RangeFor(f), f.pc + 1,
                     St(e.depth - P.code[f.pc].operandCount - 1, e.for, e.switch, e.try, c))
                /\ Totals(c.idxs) = Front(Totals(e.contexts.idxs))
                /\ Len(c.lvals) = Len(e.contexts.lvals) - 1
  <2> DEFINE R == RangeFor(f)
             pc == f.pc
  <2>1. Here(P, R, pc) /\ P.code[pc].op = "StorePathIndex" /\ P.flow[R][pc] = e
    BY <1>1, <1>2
  <2> HIDE DEF R, pc
  <2>2. LET w == P.flow[R][pc]
            i == P.code[pc]
        IN /\ w \in FlowStates /\ w.depth >= i.operandCount + 1
           /\ Totals(w.contexts.idxs) # <<>>
           /\ Len(w.contexts.lvals) > 0
           /\ \E c : /\ Reaches(P, R, pc + 1,
                          St(w.depth - i.operandCount - 1, w.for, w.switch, w.try, c))
                     /\ Totals(c.idxs) = Front(Totals(w.contexts.idxs))
                     /\ Len(c.lvals) = Len(w.contexts.lvals) - 1
    BY ONLY <2>1, StoreLeads
  <2> QED BY <2>1, <2>2, Zenon DEF R, pc
<1>8. /\ k \in Nat /\ ~(Depth < k) /\ k <= Depth /\ e.depth - k \in Nat
      /\ e.depth - P.code[f.pc].operandCount - 1 = e.depth - k
  <2> DEFINE o == P.code[f.pc].operandCount
  <2>1. o \in Nat /\ e.depth \in Nat /\ e.depth >= o + 1
    BY <1>1, <1>6, <1>7
  <2>2. Depth \in Nat /\ Depth = f.base + e.depth /\ f.base \in Nat
    BY <1>1
  <2> HIDE DEF o
  <2> QED BY <2>1, <2>2 DEF o
<1> HIDE DEF k
<1>9. Len(e.contexts.lvals) \in Nat
  <2>1. e.contexts.lvals \in Seq(Places)
    BY <1>7 DEF FlowStates
  <2> QED BY <2>1, LenProperties
<1>10. Len(lvals) > m /\ lvals # <<>>
  <2>1. Len(lvals) > m /\ Len(lvals) > 0
    BY <1>3, <1>4, <1>7, <1>9, SMTT(30)
  <2> QED BY <1>4, <2>1, EmptySeq
<1>11. f.idxs # <<>>
  BY <1>3, <1>7, Zenon
<1>12. /\ Same(f, g) /\ g.pc = f.pc /\ g.return = f.return /\ g.done = f.done
       /\ g.fors = f.fors /\ g.switches = f.switches /\ g.tries = f.tries
       /\ g.idxs = Front(f.idxs)
  BY <1>1, <1>11, FinishFields
<1>13. /\ l2 \in Seq(Nat) /\ Len(l2) = Len(lvals) - 1 /\ Len(lvals) \in Nat
       /\ \A i \in 1 .. Len(lvals) - 1 : l2[i] = lvals[i]
  BY <1>4, <1>10, FrontLength
<1> HIDE DEF g, l2
<1>14. IF out = Raise THEN Fail(Instruction.event, g, Popped(k), l2)
       ELSE Complete(g, g.pc + 1, Popped(k), l2)
  BY <1>2, <1>8, <1>10, Zenon DEF Pops, Needs
<1>15. Popped(k) \in Seq(Nat) /\ Len(Popped(k)) = f.base + (e.depth - k)
  <2>1. Popped(k) \in Seq(Nat) /\ Len(Popped(k)) = Depth - k
    BY <1>1, <1>8, PoppedOf
  <2> QED BY <1>1, <1>8, <2>1
<1>16. Keeps(lvals, l2, m, n)
  <2>1. \A i \in 1 .. Len(lvals) : i > m => lvals[i] >= n
    BY <1>4, Zenon DEF Keeps
  <2>2. m <= Len(l2) /\ \A i \in 1 .. m : l2[i] = lvals[i]
    BY <1>4, <1>10, <1>13
  <2>3. ASSUME NEW i \in 1 .. Len(l2), i > m PROVE l2[i] >= n
    <3>1. i \in 1 .. Len(lvals) /\ l2[i] = lvals[i]
      BY <1>13
    <3> QED BY <2>1, <2>3, <3>1
  <2> QED BY <1>13, <2>2, <2>3, Zenon DEF Keeps
<1>17. Mark(l2, n + 1, Len(l2))
  <2>1. DOMAIN l2 = 1 .. Len(l2) /\ DOMAIN lvals = 1 .. Len(lvals)
    BY <1>4, <1>13, LenProperties
  <2>2. \A i \in DOMAIN lvals : lvals[i] < n + 1 <=> i <= Len(lvals)
    BY <1>4, Zenon DEF Mark
  <2>3. ASSUME NEW i \in DOMAIN l2 PROVE l2[i] < n + 1 /\ i <= Len(l2)
    <3>1. i \in DOMAIN lvals /\ i <= Len(lvals) /\ i <= Len(l2) /\ l2[i] = lvals[i]
      BY <1>13, <2>1
    <3> QED BY <2>2, <3>1
  <2>4. Len(l2) \in 0 .. Len(l2)
    BY <1>13, <2>1, LenProperties
  <2> QED BY <2>3, <2>4, Zenon DEF Mark
<1>18. CASE out = Raise
  <2>1. Fail(Instruction.event, g, Popped(k), l2)
    BY <1>14, <1>18, Zenon
  <2>2. out \notin Nat
    BY <1>18 DEF Raise
  <2>3. out \in Nat \/ (out = Raise /\ Instruction.event[2] \in Raising)
    BY <1>2, OutcomeOf
  <2>4. Instruction.event \in Sources
    BY <1>5, <2>2, <2>3, EventSource, Zenon
  <2>5. Formed(P, g, m) /\ ~g.return /\ ~g.done
    BY <1>4, <1>12, SameFormed
  <2>6. Holds(P, g, f.pc)
    BY <1>4, <1>12, SameHolds
  <2>7. g.base <= Len(Popped(k))
    <3>1. g.base = f.base
      BY <1>12 DEF Same
    <3> QED BY <1>1, <1>8, <1>15, <3>1
  <2> QED BY <1>12, <1>15, <1>16, <2>1, <2>4, <2>5, <2>6, <2>7, FailedSound
<1>19. CASE out # Raise
  <2>1. Complete(g, f.pc + 1, Popped(k), l2)
    BY <1>12, <1>14, <1>19, Zenon
  <2>2. PICK c : /\ Reaches(P, RangeFor(f), f.pc + 1,
                     St(e.depth - P.code[f.pc].operandCount - 1, e.for, e.switch, e.try, c))
                 /\ Totals(c.idxs) = Front(Totals(e.contexts.idxs))
                 /\ Len(c.lvals) = Len(e.contexts.lvals) - 1
    BY <1>7, Zenon
  <2>3. Reaches(P, RangeFor(f), f.pc + 1, St(e.depth - k, e.for, e.switch, e.try, c))
    BY <1>8, <2>2, Zenon
  <2>4. g.idxs = Totals(c.idxs)
    BY <1>3, <1>12, <2>2, Zenon
  <2>5. Len(l2) = m + Len(c.lvals)
    BY <1>3, <1>4, <1>9, <1>13, <2>2
  <2> QED BY <1>8, <1>12, <1>15, <1>16, <1>17, <2>1, <2>3, <2>4, <2>5, GoesIn DEF e
<1> QED BY <1>18, <1>19
-----------------------------------------------------------------------------
(* Frames pushed and popped.                                                  *)
Fresh(P, g, k) ==
  /\ g \in Frames /\ ~g.done /\ ~g.return /\ g.pc = g.begin /\ g.pc < g.end /\ FrameOK(P, g, k)
  /\ Stands(P, g, g.pc)
  /\ FlowFor(P, g)[g.pc].depth = 0 /\ FlowFor(P, g)[g.pc].contexts.lvals = <<>>

LEMMA FreshFrame ==
  ASSUME NEW P, Prepared(P), NEW kind \in Kinds, NEW begin, NEW end, NEW base \in Nat, NEW k,
         NEW g, g = Frame(kind, begin, end, base), NEW depth,
         depth = IF kind \in {"default", "anonymous"} THEN 1 ELSE 0,
         IsRange(P, Range0(begin, end, depth))
  PROVE  Fresh(P, g, k) /\ g.kind = kind /\ g.base = base
<1>1. /\ g.kind = kind /\ g.pc = begin /\ g.begin = begin /\ g.end = end /\ g.base = base
      /\ g.fors = <<>> /\ g.switches = <<>> /\ g.tries = <<>> /\ g.idxs = <<>>
      /\ g.return = FALSE /\ g.done = FALSE
  BY DEF Frame
<1>2. /\ RangeFor(g).begin = begin /\ RangeFor(g).end = end /\ IsRange(P, RangeFor(g))
  <2>1. RangeFor(g) = Range0(begin, end, depth)
    BY <1>1, Zenon DEF RangeFor, RangeDepth
  <2> QED BY <1>1, <2>1, RangeOfFrame, Zenon
<1>3. begin \in Nat /\ end \in Nat /\ begin < end
  BY <1>2, RangeBounds
<1>4. g \in Frames
  <2>1. /\ <<>> \in Seq(Loops) /\ <<>> \in Seq(Selections) /\ <<>> \in Seq(Guards) /\ <<>> \in Seq(Nat)
    BY EmptySeq
  <2> QED BY <1>3, <2>1, Zenon DEF Frame, Frames
<1> DEFINE e == FlowFor(P, g)[g.pc]
<1>5. e = St(0, <<>>, <<>>, <<>>, NoContexts)
  BY <1>1, <1>2, FlowBegins, Zenon DEF FlowFor
<1> HIDE DEF e
<1>6. /\ e.depth = 0 /\ e.for = <<>> /\ e.switch = <<>> /\ e.try = <<>> /\ e.contexts = NoContexts
      /\ e # None
  BY <1>5, StFields, StKnown
<1>7. e.contexts.lvals = <<>> /\ e.contexts.idxs = <<>>
  BY <1>6 DEF NoContexts
<1>8. Begins(<<>>) = <<>> /\ Totals(<<>>) = <<>>
  <2>1. Begins(<<>>) = <<>>
    <3>1. <<>> \in Seq(Loops) /\ <<>> \in Seq(Nat)
      BY EmptySeq
    <3>2. Len(<<>>) = 0
      BY <3>1, EmptySeq
    <3>3. \A i \in 1 .. Len(<<>>) : <<>>[i] = <<>>[i].begin
      BY <3>2
    <3> QED BY <3>1, <3>3, BeginsIs
  <2>2. Totals(<<>>) = <<>>
    <3>1. <<>> \in Seq(Indexes)
      BY EmptySeq
    <3>2. Totals(<<>>) \in Seq(Nat) /\ Len(Totals(<<>>)) = Len(<<>>) /\ Len(<<>>) = 0
      BY <3>1, TotalsOf, EmptySeq
    <3> QED BY <3>2, EmptySeq
  <2> QED BY <2>1, <2>2
<1>9. begin \in begin .. end
  BY <1>3
<1>10. Stands(P, g, g.pc)
  BY <1>1, <1>6, <1>7, <1>8, <1>9, Zenon DEF Stands, Holds, e
<1>11. FrameOK(P, g, k)
  <2>1. DOMAIN <<>> = {}
    OBVIOUS
  <2>2. Formed(P, g, k)
    BY <1>1, <1>2, <2>1, Zenon DEF Formed
  <2>3. Bounded(g)
    BY <1>1, <2>1, Zenon DEF Bounded
  <2> QED BY <1>1, <1>9, <2>2, <2>3, Zenon DEF FrameOK
<1>12. g.pc < g.end
  BY <1>1, <1>3
<1> QED BY <1>1, <1>4, <1>6, <1>7, <1>10, <1>11, <1>12, Zenon DEF e, Fresh

LEMMA AppendOf ==
  ASSUME NEW S, NEW s \in Seq(S), NEW x \in S, NEW t, t = Append(s, x)
  PROVE  /\ t \in Seq(S) /\ Len(t) = Len(s) + 1 /\ Len(s) \in Nat /\ t[Len(s) + 1] = x
         /\ t # <<>> /\ Uppermost(t) = x
         /\ \A i \in 1 .. Len(s) : t[i] = s[i]
<1>1. /\ t \in Seq(S) /\ Len(t) = Len(s) + 1 /\ Len(s) \in Nat /\ t[Len(s) + 1] = x
      /\ \A i \in 1 .. Len(s) : t[i] = s[i]
  BY AppendProperties, LenProperties
<1>2. t # <<>>
  BY <1>1, EmptySeq
<1> QED BY <1>1, <1>2 DEF Uppermost

LEMMA PushedChain ==
  ASSUME NEW P, NEW fs \in Seq(Frames), fs # <<>>, NEW l, NEW M, Chain(P, fs, l, M),
         NEW g \in Frames, g.kind # "script", NEW k \in Nat, Mark(l, Len(fs) + 1, k), FrameOK(P, g, k),
         Waits(P, Uppermost(fs), g, M[Len(fs)], k)
  PROVE  Chain(P, Append(fs, g), l, Append(M, k))
<1> DEFINE n == Len(fs)
           gs == Append(fs, g)
           N == Append(M, k)
<1>1. /\ M \in Seq(Nat) /\ Len(M) = n
      /\ \A d \in 1 .. n : /\ fs[d].kind = "script" <=> d = 1
                           /\ Mark(l, d, M[d]) /\ FrameOK(P, fs[d], M[d])
      /\ \A d \in 1 .. n - 1 : Waits(P, fs[d], fs[d + 1], M[d], M[d + 1])
  BY Zenon DEF Chain
<1>2. n \in Nat /\ n >= 1
  BY FramesTop
<1>3. /\ Len(gs) = n + 1 /\ gs[n + 1] = g /\ \A i \in 1 .. n : gs[i] = fs[i]
  BY AppendOf
<1>4. /\ N \in Seq(Nat) /\ Len(N) = n + 1 /\ N[n + 1] = k /\ \A i \in 1 .. n : N[i] = M[i]
  BY <1>1, AppendOf
<1>5. Waits(P, fs[n], g, M[n], k) /\ Mark(l, n + 1, k)
  BY Zenon DEF Uppermost
<1> HIDE DEF gs, N, n
<1>6. ASSUME NEW d \in 1 .. n + 1
      PROVE  (gs[d].kind = "script" <=> d = 1) /\ Mark(l, d, N[d]) /\ FrameOK(P, gs[d], N[d])
  <2>1. CASE d = n + 1
    BY <1>2, <1>3, <1>4, <1>5, <2>1
  <2>2. CASE d # n + 1
    <3>1. d \in 1 .. n
      BY <1>2, <2>2
    <3>2. gs[d] = fs[d] /\ N[d] = M[d]
      BY <1>3, <1>4, <3>1
    <3> QED BY <1>1, <3>1, <3>2, Zenon
  <2> QED BY <2>1, <2>2
<1>7. ASSUME NEW d \in 1 .. n PROVE Waits(P, gs[d], gs[d + 1], N[d], N[d + 1])
  <2>1. gs[d] = fs[d] /\ N[d] = M[d]
    BY <1>3, <1>4
  <2>2. CASE d = n
    BY <1>3, <1>4, <1>5, <2>1, <2>2, Zenon
  <2>3. CASE d # n
    <3>1. d \in 1 .. n - 1 /\ d + 1 \in 1 .. n
      BY <1>2, <2>3
    <3>2. gs[d + 1] = fs[d + 1] /\ N[d + 1] = M[d + 1]
      BY <1>3, <1>4, <3>1
    <3> QED BY <1>1, <2>1, <3>1, <3>2, Zenon
  <2> QED BY <2>2, <2>3
<1>8. Len(gs) = n + 1 /\ Len(gs) - 1 = n /\ Len(N) = Len(gs) /\ N \in Seq(Nat)
  BY <1>2, <1>3, <1>4
<1>9. \A d \in 1 .. Len(gs) : (gs[d].kind = "script" <=> d = 1) /\ Mark(l, d, N[d])
                               /\ FrameOK(P, gs[d], N[d])
  BY <1>6, <1>8, Zenon
<1>10. \A d \in 1 .. Len(gs) - 1 : Waits(P, gs[d], gs[d + 1], N[d], N[d + 1])
  BY <1>7, <1>8, Zenon
<1>11. Chain(P, gs, l, N)
  BY <1>8, <1>9, <1>10, Zenon DEF Chain
<1> QED BY <1>11 DEF gs, N

LEMMA PoppedChain ==
  ASSUME NEW P, NEW fs \in Seq(Frames), NEW l, NEW M, Chain(P, fs, l, M), Len(fs) >= 2
  PROVE  /\ Chain(P, Front(fs), l, Front(M)) /\ Front(fs) \in Seq(Frames) /\ Front(fs) # <<>>
         /\ Len(Front(fs)) = Len(fs) - 1 /\ Uppermost(Front(fs)) = fs[Len(fs) - 1]
         /\ Front(M)[Len(fs) - 1] = M[Len(fs) - 1]
<1> DEFINE n == Len(fs)
           gs == Front(fs)
           N == Front(M)
<1>1. /\ M \in Seq(Nat) /\ Len(M) = n
      /\ \A d \in 1 .. n : /\ fs[d].kind = "script" <=> d = 1
                           /\ Mark(l, d, M[d]) /\ FrameOK(P, fs[d], M[d])
      /\ \A d \in 1 .. n - 1 : Waits(P, fs[d], fs[d + 1], M[d], M[d + 1])
  BY Zenon DEF Chain
<1>2. n \in Nat /\ n >= 2 /\ fs # <<>> /\ M # <<>>
  BY <1>1, LenProperties, EmptySeq
<1>3. /\ gs \in Seq(Frames) /\ Len(gs) = n - 1 /\ \A i \in 1 .. n - 1 : gs[i] = fs[i]
  BY <1>2, FrontLength
<1>4. /\ N \in Seq(Nat) /\ Len(N) = n - 1 /\ \A i \in 1 .. n - 1 : N[i] = M[i]
  BY <1>1, <1>2, FrontLength
<1> HIDE DEF gs, N, n
<1>5. ASSUME NEW d \in 1 .. n - 1
      PROVE  (gs[d].kind = "script" <=> d = 1) /\ Mark(l, d, N[d]) /\ FrameOK(P, gs[d], N[d])
  <2>1. d \in 1 .. n /\ gs[d] = fs[d] /\ N[d] = M[d]
    BY <1>2, <1>3, <1>4
  <2> QED BY <1>1, <2>1, Zenon
<1>6. ASSUME NEW d \in 1 .. n - 1 - 1 PROVE Waits(P, gs[d], gs[d + 1], N[d], N[d + 1])
  <2>1. d \in 1 .. n - 1 /\ d + 1 \in 1 .. n - 1
    BY <1>2
  <2>2. gs[d] = fs[d] /\ N[d] = M[d] /\ gs[d + 1] = fs[d + 1] /\ N[d + 1] = M[d + 1]
    BY <1>3, <1>4, <2>1
  <2> QED BY <1>1, <2>1, <2>2, Zenon
<1>7. Chain(P, gs, l, N)
  BY <1>3, <1>4, <1>5, <1>6, Zenon DEF Chain
<1>8. gs # <<>>
  BY <1>2, <1>3, EmptySeq
<1>9. gs[n - 1] = fs[n - 1] /\ N[n - 1] = M[n - 1]
  BY <1>2, <1>3, <1>4
<1> QED BY <1>3, <1>7, <1>8, <1>9 DEF Uppermost, gs, N, n
-----------------------------------------------------------------------------
(* The run is stopped, or a frame has ended.                                  *)
LEMMA StopBeforeKeeps ==
  ASSUME VmInv, NEW P, NEW M, NEW n, NEW m, NEW f, Active(P, M, n, m, f), StopBefore
  PROVE  VmInv'
<1> DEFINE h == [f EXCEPT !.done = TRUE]
           ds2 == Append(diags, StopDiag)
<1>1. /\ P = Text /\ Prepared(P) /\ Chain(P, frames, lvals, M)
      /\ n = Len(frames) /\ m = M[n] /\ f = Uppermost(frames) /\ f \in Frames /\ Top = f
      /\ frames \in Seq(Frames) /\ frames # <<>> /\ stack \in Seq(Nat) /\ lvals \in Seq(Nat)
      /\ diags = <<>> /\ exception \in Sources \cup {NoDiag}
      /\ f.pc \in f.begin .. f.end /\ Formed(P, f, m) /\ Holds(P, f, f.pc)
  BY Zenon DEF Active, Arrives, Stands
<1>2. /\ frames' = Append(Front(frames), h) /\ stack' = stack /\ lvals' = lvals /\ diags' = ds2
      /\ exception' = exception /\ stopped' = TRUE /\ program' = program
  BY <1>1, Zenon DEF StopBefore
<1>3. /\ Same(f, h) /\ h.pc = f.pc /\ h.done = TRUE
      /\ h.fors = f.fors /\ h.switches = f.switches /\ h.tries = f.tries
  <2> DEFINE v == TRUE
  <2>1. f \in Frames /\ v \in BOOLEAN /\ h = [f EXCEPT !.done = v]
    BY <1>1
  <2> HIDE DEF h, v
  <2>2. /\ Same(f, h) /\ h.pc = f.pc /\ h.return = f.return /\ h.done = v
        /\ h.fors = f.fors /\ h.switches = f.switches /\ h.tries = f.tries
    BY ONLY <2>1, NewDone
  <2> QED BY <2>2, Zenon DEF v
<1> HIDE DEF h
<1>4. ds2 \in Seq(Sources) /\ ds2 # <<>>
  <2>1. StopDiag \in Sources /\ diags \in Seq(Sources)
    <3>1. StopDiag \in Sources
      BY Zenon DEF Sources
    <3> QED BY <1>1, <3>1, EmptySeq
  <2> QED BY <2>1, AppendProperties
<1> HIDE DEF ds2
<1>5. FrameOK(P, h, m) /\ h.base = f.base
  <2>1. h.base = f.base /\ h.begin = f.begin /\ h.end = f.end
    BY <1>3 DEF Same
  <2>2. Formed(P, h, m)
    BY <1>1, <1>3, SameFormed
  <2>3. Bounded(h)
    <3>1. Bounded(f)
      BY <1>1, BoundsOf
    <3> QED BY <1>3, <3>1, Zenon DEF Bounded
  <2> QED BY <1>1, <1>3, <2>1, <2>2, <2>3, Zenon DEF FrameOK
<1>6. h.base <= Len(stack)
  BY <1>5, ActiveFacts DEF Depth
<1>7. Keeps(lvals, lvals, m, n)
  BY LvalsKept
<1>8. Sound(P, Append(Front(frames), h), stack, lvals, ds2, exception, TRUE)
  BY <1>1, <1>3, <1>4, <1>5, <1>6, <1>7, ReplacedSound
<1> QED BY <1>1, <1>2, <1>8, Zenon DEF VmInv, Text

Over(P, M, n, m, f) ==
  /\ P = Text /\ Prepared(P) /\ Chain(P, frames, lvals, M)
  /\ n = Len(frames) /\ n \in Nat /\ n >= 1 /\ m = M[n] /\ m \in Nat
  /\ f = Uppermost(frames) /\ Top = f /\ f \in Frames
  /\ frames \in Seq(Frames) /\ frames # <<>> /\ stack \in Seq(Nat) /\ lvals \in Seq(Nat)
  /\ diags \in Seq(Sources) /\ stopped \in BOOLEAN /\ exception \in Sources \cup {NoDiag}
  /\ stopped => diags # <<>>
  /\ f.base <= Len(stack)
  /\ diags = <<>> => Mark(lvals, n + 1, Len(lvals)) /\ Returned(f, stack, lvals, m)

LEMMA EndedTop ==
  ASSUME VmInv, ~Running
  PROVE  \E P, M, n, m, f : Over(P, M, n, m, f)
<1> DEFINE P == Text
           n == Len(frames)
           f == Uppermost(frames)
<1>1. /\ frames \in Seq(Frames) /\ frames # <<>> /\ stack \in Seq(Nat) /\ lvals \in Seq(Nat)
      /\ diags \in Seq(Sources) /\ exception \in Sources \cup {NoDiag} /\ stopped \in BOOLEAN
      /\ stopped => diags # <<>>
      /\ f.base <= Len(stack)
  BY Zenon DEF VmInv, Sound
<1>2. n \in Nat /\ n >= 1 /\ f \in Frames /\ Top = f
  BY <1>1, FramesTop, Zenon DEF Top
<1>3. f.done \/ ~(f.pc < f.end)
  BY <1>1, <1>2, Zenon DEF Running
<1>4. PICK M \in Seq(Nat) : /\ Chain(P, frames, lvals, M)
                            /\ diags = <<>> => /\ Mark(lvals, Len(frames) + 1, Len(lvals))
                                               /\ Ready(P, Uppermost(frames), stack, lvals, M[Len(frames)])
  BY Zenon DEF VmInv, Sound
<1> DEFINE m == M[n]
<1>5. Prepared(P)
  BY TextPrepared, Zenon DEF VmInv
<1>6. FrameOK(P, f, m) /\ m \in Nat
  <2>1. /\ Len(M) = n /\ \A d \in 1 .. n : FrameOK(P, frames[d], M[d])
    BY <1>4, Zenon DEF Chain
  <2>2. n \in 1 .. n
    BY <1>2
  <2>3. m \in Nat
    BY <2>1, <2>2, ElementOfSeq
  <2> QED BY <2>1, <2>2, <2>3, Zenon DEF Uppermost
<1>7. diags = <<>> => Mark(lvals, n + 1, Len(lvals)) /\ Ready(P, f, stack, lvals, m)
  BY <1>4, Zenon
<1> HIDE DEF P, f, m, n
<1>8. Ready(P, f, stack, lvals, m) => Returned(f, stack, lvals, m)
  <2> SUFFICES ASSUME Ready(P, f, stack, lvals, m) PROVE Returned(f, stack, lvals, m)
    OBVIOUS
  <2>1. CASE f.done
    BY <2>1, Zenon DEF Ready
  <2>2. CASE ~f.done
    <3> DEFINE R == RangeFor(f)
    <3>1. Arrives(P, f, f.pc, stack, lvals, m) /\ ~(f.pc < f.end)
      BY <1>3, <2>2, Zenon DEF Ready
    <3>2. /\ P.flow[R][f.pc] # None
          /\ Len(stack) = f.base + P.flow[R][f.pc].depth
          /\ Len(lvals) = m + Len(P.flow[R][f.pc].contexts.lvals)
      BY <3>1, Zenon DEF Arrives, Stands, Holds, FlowFor
    <3>3. f.pc = f.end /\ f.pc \in R.begin .. R.end /\ f.pc = R.end /\ IsRange(P, R)
          /\ R.depth = RangeDepth(f)
      <4>1. R.begin = f.begin /\ R.end = f.end /\ R.depth = RangeDepth(f)
        BY RangeOfFrame
      <4>2. f.pc \in f.begin .. f.end /\ IsRange(P, R)
        BY <1>6, Zenon DEF FrameOK, Formed
      <4>3. f.pc = f.end
        BY <1>2, <3>1, <4>2 DEF Frames
      <4> QED BY <4>1, <4>2, <4>3, Zenon
    <3> HIDE DEF R
    <3>4. P.flow[R][f.pc] = St(R.depth, <<>>, <<>>, <<>>, NoContexts)
      BY <1>5, <3>2, <3>3, FlowAt
    <3>5. P.flow[R][f.pc].depth = R.depth /\ P.flow[R][f.pc].contexts = NoContexts
      BY <3>4, StFields
    <3>6. Len(NoContexts.lvals) = 0 /\ m + 0 = m
      BY <1>6 DEF NoContexts
    <3> QED BY <3>2, <3>3, <3>5, <3>6, Zenon DEF Returned
  <2> QED BY <2>1, <2>2
<1>9. diags = <<>> => Mark(lvals, n + 1, Len(lvals)) /\ Returned(f, stack, lvals, m)
  BY <1>7, <1>8
<1>10. Over(P, M, n, m, f)
  <2>1. Chain(P, frames, lvals, M)
    BY <1>4, Zenon DEF P
  <2> QED BY <1>1, <1>2, <1>5, <1>6, <1>9, <2>1, Zenon DEF Over, P, n, f, m
<1> QED BY <1>10

(* The frame that waits for the one that ended.                               *)
LEMMA KeepsAll ==
  ASSUME NEW l \in Seq(Nat), NEW n \in Nat, NEW m, Mark(l, n, m)
  PROVE  Keeps(l, l, m, n)
<1>1. /\ Len(l) \in Nat /\ m \in 0 .. Len(l)
      /\ \A i \in 1 .. Len(l) : l[i] \in Nat /\ (l[i] < n <=> i <= m)
  BY LenProperties, ElementOfSeq DEF Mark
<1>2. ASSUME NEW i \in 1 .. Len(l), i > m PROVE l[i] >= n
  <2>1. ~(i <= m) /\ l[i] \in Nat /\ (l[i] < n <=> i <= m)
    BY <1>1, <1>2
  <2> QED BY <2>1
<1> QED BY <1>1, <1>2 DEF Keeps

LEMMA WithLastIs ==
  ASSUME NEW S, NEW s \in Seq(S), s # <<>>, NEW x \in S
  PROVE  WithLast(s, x) = Append(Front(s), x)
<1> DEFINE t == WithLast(s, x)
           u == Append(Front(s), x)
           k == Len(s)
<1>1. k \in Nat /\ k > 0 /\ DOMAIN s = 1 .. k
  BY FrontLength, LenProperties
<1>2. /\ Front(s) \in Seq(S) /\ Len(Front(s)) = k - 1 /\ \A i \in 1 .. k - 1 : Front(s)[i] = s[i]
  BY FrontLength
<1>3. /\ u \in Seq(S) /\ Len(u) = k /\ u[k] = x /\ \A i \in 1 .. k - 1 : u[i] = s[i]
  <2>1. /\ u \in Seq(S) /\ Len(u) = Len(Front(s)) + 1 /\ u[Len(Front(s)) + 1] = x
        /\ \A i \in 1 .. Len(Front(s)) : u[i] = Front(s)[i]
    BY <1>2, AppendProperties
  <2>2. k - 1 + 1 = k
    BY <1>1
  <2> QED BY <1>2, <2>1, <2>2
<1>4. t = [s EXCEPT ![k] = x]
  BY DEF WithLast
<1> HIDE DEF t, u, k
<1>5. t \in Seq(S) /\ Len(t) = k /\ \A i \in 1 .. k : t[i] = IF i = k THEN x ELSE s[i]
  <2>1. k \in 1 .. k
    BY <1>1
  <2>2. t \in Seq(S) /\ Len(t) = k
    BY <1>4, <2>1, ExceptSeq DEF k
  <2>3. \A i \in 1 .. k : t[i] = IF i = k THEN x ELSE s[i]
    BY <1>1, <1>4
  <2> QED BY <2>2, <2>3
<1>6. \A i \in 1 .. k : t[i] = u[i]
  <2> TAKE i \in 1 .. k
  <2>1. i = k \/ i \in 1 .. k - 1
    BY <1>1
  <2> QED BY <1>1, <1>3, <1>5, <2>1
<1>7. t = u
  BY <1>3, <1>5, <1>6, SeqEqual
<1> QED BY <1>7 DEF t, u

LEMMA FrontTwice ==
  ASSUME NEW S, NEW s \in Seq(S), Len(s) >= 2
  PROVE  Front(Front(s)) = SubSeq(s, 1, Len(s) - 2)
<1> DEFINE k == Len(s)
           t == Front(s)
           u == Front(t)
           v == SubSeq(s, 1, k - 2)
<1>1. k \in Nat /\ k >= 2 /\ s # <<>>
  BY LenProperties, EmptySeq
<1>2. /\ t \in Seq(S) /\ Len(t) = k - 1 /\ \A i \in 1 .. k - 1 : t[i] = s[i]
  BY <1>1, FrontLength
<1> HIDE DEF t
<1>3. t # <<>>
  BY <1>1, <1>2, EmptySeq
<1>4. /\ u \in Seq(S) /\ Len(u) = Len(t) - 1 /\ \A i \in 1 .. Len(t) - 1 : u[i] = t[i]
  BY <1>2, <1>3, FrontLength
<1>5. k - 2 \in 0 .. Len(s)
  BY <1>1
<1>6. /\ v \in Seq(S) /\ Len(v) = k - 2 /\ \A i \in 1 .. k - 2 : v[i] = s[i]
  BY <1>5, Prefix
<1> HIDE DEF u, v, k
<1>7. Len(u) = k - 2 /\ \A i \in 1 .. k - 2 : u[i] = v[i]
  <2>1. Len(u) = k - 2
    BY <1>1, <1>2, <1>4
  <2>2. ASSUME NEW i \in 1 .. k - 2 PROVE u[i] = v[i]
    <3>1. i \in 1 .. k - 1 /\ i \in 1 .. Len(t) - 1
      BY <1>1, <1>2
    <3> QED BY <1>2, <1>4, <1>6, <3>1
  <2> QED BY <2>1, <2>2
<1>8. u = v
  BY <1>4, <1>6, <1>7, SeqEqual
<1> QED BY <1>8 DEF t, u, v, k

(* fs are the frames below f, and c the uppermost of them.                    *)
Called(P, fs, N, n, m, f, c, k) ==
  /\ n >= 2 /\ Caller = c /\ c \in Frames /\ k \in Nat
  /\ fs = Front(frames) /\ Chain(P, fs, lvals, N) /\ fs \in Seq(Frames) /\ fs # <<>>
  /\ Len(fs) = n - 1 /\ Uppermost(fs) = c /\ N[Len(fs)] = k
  /\ Mark(lvals, n, m) /\ Keeps(lvals, lvals, k, n - 1)
  /\ FrameOK(P, c, k) /\ Waits(P, c, f, k, m)

LEMMA CallerOf ==
  ASSUME NEW P, NEW M, NEW n, NEW m, NEW f, Over(P, M, n, m, f), f.kind # "script"
  PROVE  \E fs, N, c, k : Called(P, fs, N, n, m, f, c, k)
<1> DEFINE fs == Front(frames)
           N == Front(M)
           c == frames[n - 1]
           k == M[n - 1]
<1>1. /\ Chain(P, frames, lvals, M) /\ n = Len(frames) /\ n \in Nat /\ n >= 1 /\ m = M[n]
      /\ f = Uppermost(frames) /\ f \in Frames /\ frames \in Seq(Frames) /\ lvals \in Seq(Nat)
  BY Zenon DEF Over
<1>2. /\ M \in Seq(Nat) /\ Len(M) = n
      /\ \A d \in 1 .. n : /\ frames[d].kind = "script" <=> d = 1
                           /\ Mark(lvals, d, M[d]) /\ FrameOK(P, frames[d], M[d])
      /\ \A d \in 1 .. n - 1 : Waits(P, frames[d], frames[d + 1], M[d], M[d + 1])
  BY <1>1, Zenon DEF Chain
<1>3. f = frames[n]
  BY <1>1, Zenon DEF Uppermost
<1>4. n >= 2
  <2>1. n \in 1 .. n
    BY <1>1
  <2>2. n # 1
    BY <1>2, <1>3, <2>1, Zenon
  <2> QED BY <1>1, <2>2
<1>5. n - 1 \in 1 .. n /\ n \in 1 .. n /\ n - 1 \in 1 .. n - 1 /\ n - 1 + 1 = n /\ n - 1 \in Nat
  BY <1>1, <1>4
<1>6. c \in Frames /\ k \in Nat
  BY <1>1, <1>2, <1>5, ElementOfSeq
<1>7. Mark(lvals, n - 1, k) /\ Mark(lvals, n, m) /\ FrameOK(P, c, k) /\ Waits(P, c, f, k, m)
  BY <1>1, <1>2, <1>3, <1>5, Zenon
<1>8. /\ Chain(P, fs, lvals, N) /\ fs \in Seq(Frames) /\ fs # <<>>
      /\ Len(fs) = Len(frames) - 1 /\ Uppermost(fs) = frames[Len(frames) - 1]
      /\ N[Len(frames) - 1] = M[Len(frames) - 1]
  <2>1. frames \in Seq(Frames) /\ Chain(P, frames, lvals, M) /\ Len(frames) >= 2
    BY <1>1, <1>4
  <2> QED BY ONLY <2>1, PoppedChain
<1>9. Keeps(lvals, lvals, k, n - 1)
  BY <1>1, <1>5, <1>7, KeepsAll
<1>10. Called(P, fs, N, n, m, f, c, k)
  BY <1>1, <1>4, <1>6, <1>7, <1>8, <1>9, Zenon DEF Called, Caller
<1> HIDE DEF fs, N, c, k
<1> QED BY <1>10

(* A default has left its value: the body is entered.                         *)
LEMMA FinishDefaultKeeps ==
  ASSUME VmInv, NEW P, NEW M, NEW n, NEW m, NEW f, Over(P, M, n, m, f), FinishDefault
  PROVE  VmInv'
<1>1. f.kind = "default" /\ Top = f
  BY Zenon DEF FinishDefault, Ended, Over
<1>2. f.kind # "script"
  BY <1>1
<1>3. PICK fs, N, c, k : Called(P, fs, N, n, m, f, c, k)
  BY <1>2, CallerOf, Zenon
<1>4. /\ P = Text /\ Prepared(P) /\ n = Len(frames) /\ n \in Nat /\ f \in Frames
      /\ stack \in Seq(Nat) /\ lvals \in Seq(Nat) /\ m \in Nat
      /\ diags \in Seq(Sources) /\ stopped \in BOOLEAN /\ exception \in Sources \cup {NoDiag}
      /\ (stopped => diags # <<>>) /\ f.base <= Len(stack)
      /\ (diags = <<>> => Mark(lvals, n + 1, Len(lvals)) /\ Returned(f, stack, lvals, m))
  BY Zenon DEF Over
<1>5. /\ n >= 2 /\ Caller = c /\ c \in Frames /\ k \in Nat
      /\ fs = Front(frames) /\ Chain(P, fs, lvals, N) /\ fs \in Seq(Frames) /\ fs # <<>>
      /\ Len(fs) = n - 1 /\ Uppermost(fs) = c /\ N[Len(fs)] = k
      /\ Mark(lvals, n, m) /\ Keeps(lvals, lvals, k, n - 1)
      /\ FrameOK(P, c, k) /\ Waits(P, c, f, k, m)
  BY <1>3, Zenon DEF Called
<1>6. /\ ~c.done /\ ~c.return /\ c.pc < c.end /\ Stands(P, c, c.pc)
      /\ m = k + Len(FlowFor(P, c)[c.pc].contexts.lvals)
      /\ c.pc = c.begin /\ f.base = c.base
  BY <1>1, <1>5, Zenon DEF Waits, Calls
<1>7. f.base \in Nat /\ c.base \in Nat
  BY <1>4, <1>5 DEF Frames
<1>8. FlowFor(P, c)[c.pc].depth = 0 /\ FlowFor(P, c)[c.pc].contexts.lvals = <<>> /\ m = k
  <2> DEFINE e == FlowFor(P, c)[c.pc]
  <2>1. e = St(0, <<>>, <<>>, <<>>, NoContexts)
    <3>1. IsRange(P, RangeFor(c)) /\ RangeFor(c).begin = c.begin
      BY <1>5, RangeOfFrame, Zenon DEF FrameOK, Formed
    <3> QED BY <1>4, <1>6, <3>1, FlowBegins, Zenon DEF FlowFor
  <2>2. e.depth = 0 /\ e.contexts = NoContexts
    BY <2>1, StFields
  <2>3. e.contexts.lvals = <<>>
    BY <2>2 DEF NoContexts
  <2>4. m = k + Len(<<>>)
    BY <1>6, <2>3, Zenon
  <2> HIDE DEF e
  <2>5. m = k
    BY <1>5, <2>4
  <2> QED BY <2>2, <2>3, <2>5 DEF e
<1>9. diags = <<>> => Depth = f.base + 1 /\ Len(lvals) = m
  <2> SUFFICES ASSUME diags = <<>> PROVE Depth = f.base + 1 /\ Len(lvals) = m
    OBVIOUS
  <2>1. Len(stack) = f.base + RangeDepth(f) /\ Len(lvals) = m
    BY <1>4, Zenon DEF Returned
  <2>2. RangeDepth(f) = 1
    BY <1>1 DEF RangeDepth
  <2> QED BY <2>1, <2>2 DEF Depth
<1> DEFINE g == [c EXCEPT !.done = diags # <<>>]
           s2 == SubSeq(stack, 1, f.base)
<1>10. /\ frames' = WithLast(Front(frames), g) /\ stack' = s2 /\ diags' = diags
       /\ UNCHANGED <<program, lvals, exception, stopped>>
  <2>1. ~(diags = <<>> /\ Depth # f.base + 1)
    BY <1>9
  <2>2. Caller = c
    BY <1>5
  <2> QED BY <1>1, <2>1, <2>2, Zenon DEF FinishDefault
<1>11. /\ Same(c, g) /\ g.pc = c.pc /\ g.return = c.return /\ g.done = (diags # <<>>)
       /\ g.fors = c.fors /\ g.switches = c.switches /\ g.tries = c.tries /\ g.idxs = c.idxs
  <2> DEFINE v == diags # <<>>
  <2>1. c \in Frames /\ v \in BOOLEAN
    BY <1>5
  <2>2. g = [c EXCEPT !.done = v]
    BY Zenon
  <2> HIDE DEF v, g
  <2>3. /\ Same(c, g) /\ g.pc = c.pc /\ g.return = c.return /\ g.done = v
        /\ g.fors = c.fors /\ g.switches = c.switches /\ g.tries = c.tries /\ g.idxs = c.idxs
    BY ONLY <2>1, <2>2, NewDone
  <2> QED BY <2>3, Zenon DEF v
<1>12. s2 \in Seq(Nat) /\ Len(s2) = f.base
  <2>1. f.base \in 0 .. Len(stack)
    BY <1>4, <1>7, LenProperties
  <2> QED BY <1>4, <2>1, Prefix
<1> HIDE DEF g, s2
<1>13. g.base = c.base /\ g.base <= Len(s2) /\ g \in Frames
  BY <1>6, <1>7, <1>11, <1>12 DEF Same
<1>14. FrameOK(P, g, k)
  <2>1. g.begin = c.begin /\ g.end = c.end
    BY <1>11 DEF Same
  <2>2. Formed(P, c, k) /\ Bounded(c) /\ c.pc \in c.begin .. c.end
    BY <1>5, Zenon DEF FrameOK
  <2>3. Formed(P, g, k)
    BY <1>11, <2>2, SameFormed
  <2>4. Bounded(g)
    BY <1>11, <2>2, Zenon DEF Bounded
  <2> QED BY <1>11, <2>1, <2>2, <2>3, <2>4, Zenon DEF FrameOK
<1>15. diags = <<>> => Mark(lvals, Len(fs) + 1, Len(lvals)) /\ Ready(P, g, s2, lvals, k)
  <2> SUFFICES ASSUME diags = <<>>
               PROVE  Mark(lvals, Len(fs) + 1, Len(lvals)) /\ Ready(P, g, s2, lvals, k)
    OBVIOUS
  <2>1. Len(fs) + 1 = n /\ Len(lvals) = m
    BY <1>4, <1>5, <1>9
  <2>2. Mark(lvals, Len(fs) + 1, Len(lvals))
    BY <1>5, <2>1, Zenon
  <2>3. ~g.done /\ ~g.return
    BY <1>6, <1>11
  <2>4. FlowFor(P, g) = FlowFor(P, c)
    BY <1>11, SameRange
  <2>5. Stands(P, g, g.pc)
    <3>1. Holds(P, g, c.pc)
      BY <1>6, <1>11, SameHolds, Zenon DEF Stands
    <3> QED BY <1>6, <1>11, <2>4, <3>1, Zenon DEF Stands
  <2>6. /\ Len(s2) = g.base + FlowFor(P, g)[g.pc].depth
        /\ Len(lvals) = k + Len(FlowFor(P, g)[g.pc].contexts.lvals)
    <3>1. Len(s2) = g.base + 0 /\ FlowFor(P, g)[g.pc].depth = 0
      <4>1. Len(s2) = g.base + 0
        BY <1>6, <1>7, <1>12, <1>13
      <4> QED BY <1>8, <1>11, <2>4, <4>1, Zenon
    <3>2. Len(lvals) = k + Len(FlowFor(P, g)[g.pc].contexts.lvals)
      BY <1>6, <1>11, <2>1, <2>4, Zenon
    <3> QED BY <3>1, <3>2, Zenon
  <2> QED BY <2>2, <2>3, <2>5, <2>6, Zenon DEF Ready, Arrives
<1>16. Sound(P, Append(Front(fs), g), s2, lvals, diags, exception, stopped)
  <2>1. Same(Uppermost(fs), g) /\ FrameOK(P, g, N[Len(fs)]) /\ Keeps(lvals, lvals, N[Len(fs)], Len(fs))
    BY <1>5, <1>11, <1>14, Zenon
  <2>2. diags # <<>> => g.done
    BY <1>11
  <2>3. diags = <<>> => Mark(lvals, Len(fs) + 1, Len(lvals)) /\ Ready(P, g, s2, lvals, N[Len(fs)])
    BY <1>5, <1>15, Zenon
  <2>4. /\ fs \in Seq(Frames) /\ fs # <<>> /\ lvals \in Seq(Nat) /\ Chain(P, fs, lvals, N)
        /\ s2 \in Seq(Nat) /\ g.base <= Len(s2) /\ diags \in Seq(Sources)
        /\ exception \in Sources \cup {NoDiag} /\ stopped \in BOOLEAN /\ (stopped => diags # <<>>)
    BY <1>4, <1>5, <1>12, <1>13
  <2> QED BY ONLY <2>1, <2>2, <2>3, <2>4, ReplacedSound
<1>17. frames' = Append(Front(fs), g)
  <2>1. WithLast(fs, g) = Append(Front(fs), g)
    BY <1>5, <1>13, WithLastIs
  <2> QED BY <1>5, <1>10, <2>1, Zenon
<1>18. Sound(P, frames', stack', lvals', diags', exception', stopped') /\ program' = program
  BY <1>10, <1>16, <1>17, Zenon
<1> QED BY <1>4, <1>18, Zenon DEF VmInv, Text

(* The caller goes on behind its call.                                        *)
LEMMA CallSite ==
  ASSUME NEW P, Prepared(P), NEW c \in Frames, NEW k, FrameOK(P, c, k), Stands(P, c, c.pc), c.pc < c.end
  PROVE  /\ Here(P, RangeFor(c), c.pc) /\ c.pc \in Nat
         /\ P.code[c.pc].operandCount \in Nat /\ InstructionMade(P.code, c.pc)
<1>1. Formed(P, c, k) /\ Holds(P, c, c.pc)
  BY Zenon DEF FrameOK, Stands
<1>2. Here(P, RangeFor(c), c.pc)
  BY <1>1, Standing
<1> DEFINE R == RangeFor(c)
<1>3. IsRange(P, R) /\ c.pc \in R.begin .. R.end - 1
  BY <1>2, Zenon DEF Here, Known
<1>4. c.pc \in DOMAIN P.code
  BY <1>3, RangeBounds, Zenon
<1>5. P.code[c.pc] \in Instructions /\ InstructionMade(P.code, c.pc)
  BY <1>4, PreparedCode, Zenon
<1>6. c.pc \in Nat
  BY DEF Frames
<1> QED BY <1>2, <1>5, <1>6 DEF Instructions

LEMMA ResumeKeeps ==
  ASSUME VmInv, NEW P, NEW M, NEW n, NEW m, NEW f, Over(P, M, n, m, f),
         f.kind \in {"function", "anonymous"},
         NEW g, g = IF f.kind = "anonymous" THEN FinishIndexContext(Caller) ELSE Caller,
         NEW s \in Seq(Nat), f.base <= Len(s), diags = <<>> => Len(s) = f.base,
         ResumeCaller(g, s, diags)
  PROVE  VmInv'
<1>1. f.kind # "script" /\ f.kind # "default"
  OBVIOUS
<1>2. PICK fs, N, c, k : Called(P, fs, N, n, m, f, c, k)
  BY <1>1, CallerOf, Zenon
<1>3. /\ P = Text /\ Prepared(P) /\ n = Len(frames) /\ n \in Nat /\ f \in Frames
      /\ frames \in Seq(Frames) /\ lvals \in Seq(Nat) /\ m \in Nat
      /\ diags \in Seq(Sources) /\ stopped \in BOOLEAN /\ exception \in Sources \cup {NoDiag}
      /\ (stopped => diags # <<>>)
      /\ (diags = <<>> => Returned(f, stack, lvals, m))
  BY Zenon DEF Over
<1>4. /\ n >= 2 /\ Caller = c /\ c \in Frames /\ k \in Nat
      /\ fs = Front(frames) /\ Chain(P, fs, lvals, N) /\ fs \in Seq(Frames) /\ fs # <<>>
      /\ Len(fs) = n - 1 /\ Uppermost(fs) = c /\ N[Len(fs)] = k
      /\ Mark(lvals, n, m) /\ Keeps(lvals, lvals, k, n - 1)
      /\ FrameOK(P, c, k) /\ Waits(P, c, f, k, m)
  BY <1>2, Zenon DEF Called
<1> DEFINE e == FlowFor(P, c)[c.pc]
           o == P.code[c.pc].operandCount
           R == RangeFor(c)
<1>5. /\ ~c.done /\ ~c.return /\ c.pc < c.end /\ Stands(P, c, c.pc)
      /\ m = k + Len(e.contexts.lvals)
      /\ P.code[c.pc].op = "CallOrIndex" /\ (P.code[c.pc].context <=> f.kind = "anonymous")
      /\ f.base + o + 1 = c.base + e.depth
  BY <1>1, <1>4, Zenon DEF Waits, Calls
<1>6. /\ Here(P, R, c.pc) /\ c.pc \in Nat /\ o \in Nat /\ P.code[c.pc].results = 1
      /\ P.flow[R][c.pc] = e
  <2>1. Here(P, R, c.pc) /\ c.pc \in Nat /\ o \in Nat /\ InstructionMade(P.code, c.pc)
    BY <1>3, <1>4, <1>5, CallSite
  <2>2. P.code[c.pc].results = 1
    BY <1>5, <2>1, Zenon DEF InstructionMade
  <2> QED BY <2>1, <2>2, Zenon DEF FlowFor
<1>7. f.base \in Nat /\ c.base \in Nat
  BY <1>3, <1>4 DEF Frames
<1>8. /\ c.idxs = Totals(e.contexts.idxs) /\ Holds(P, c, c.pc)
      /\ Begins(c.fors) = e.for /\ Begins(c.switches) = e.switch /\ Begins(c.tries) = e.try
  BY <1>5, Zenon DEF Stands, Holds
<1> HIDE DEF e, o, R
<1>9. /\ e \in FlowStates /\ e.depth >= o + 1
      /\ (P.code[c.pc].context => Totals(e.contexts.idxs) # <<>>)
      /\ \E d : /\ Reaches(P, R, c.pc + 1, St(e.depth - o, e.for, e.switch, e.try, d))
                /\ Totals(d.idxs) = IF P.code[c.pc].context THEN Front(Totals(e.contexts.idxs))
                                                            ELSE Totals(e.contexts.idxs)
                /\ Len(d.lvals) = Len(e.contexts.lvals)
  <2>1. Here(P, R, c.pc) /\ P.code[c.pc].op = "CallOrIndex" /\ P.code[c.pc].results = 1
    BY <1>5, <1>6
  <2>2. /\ P.flow[R][c.pc] \in FlowStates /\ P.flow[R][c.pc].depth >= P.code[c.pc].operandCount + 1
        /\ (P.code[c.pc].context => Totals(P.flow[R][c.pc].contexts.idxs) # <<>>)
        /\ \E d : /\ Reaches(P, R, c.pc + 1,
                       St(P.flow[R][c.pc].depth - P.code[c.pc].operandCount, P.flow[R][c.pc].for,
                          P.flow[R][c.pc].switch, P.flow[R][c.pc].try, d))
                  /\ Totals(d.idxs) = IF P.code[c.pc].context
                                      THEN Front(Totals(P.flow[R][c.pc].contexts.idxs))
                                      ELSE Totals(P.flow[R][c.pc].contexts.idxs)
                  /\ Len(d.lvals) = Len(P.flow[R][c.pc].contexts.lvals)
    BY ONLY <2>1, CallLeads
  <2> QED BY <1>6, <2>2, Zenon DEF o
<1>10. PICK d : /\ Reaches(P, R, c.pc + 1, St(e.depth - o, e.for, e.switch, e.try, d))
                /\ Totals(d.idxs) = IF P.code[c.pc].context THEN Front(Totals(e.contexts.idxs))
                                                            ELSE Totals(e.contexts.idxs)
                /\ Len(d.lvals) = Len(e.contexts.lvals)
  BY <1>9, Zenon
<1>11. /\ Same(c, g) /\ g.pc = c.pc /\ g.return = c.return /\ g.done = c.done
       /\ g.fors = c.fors /\ g.switches = c.switches /\ g.tries = c.tries
       /\ g.idxs = Totals(d.idxs)
  <2>1. CASE f.kind = "anonymous"
    <3>1. g = FinishIndexContext(c) /\ P.code[c.pc].context
      BY <1>4, <1>5, <2>1
    <3>2. c.idxs # <<>>
      BY <1>8, <1>9, <3>1, Zenon
    <3>3. /\ Same(c, FinishIndexContext(c)) /\ FinishIndexContext(c).pc = c.pc
          /\ FinishIndexContext(c).return = c.return /\ FinishIndexContext(c).done = c.done
          /\ FinishIndexContext(c).fors = c.fors /\ FinishIndexContext(c).switches = c.switches
          /\ FinishIndexContext(c).tries = c.tries /\ FinishIndexContext(c).idxs = Front(c.idxs)
      BY <1>4, <3>2, FinishFields
    <3>4. Totals(d.idxs) = Front(c.idxs)
      BY <1>8, <1>10, <3>1, Zenon
    <3> QED BY <3>1, <3>3, <3>4, Zenon
  <2>2. CASE f.kind # "anonymous"
    <3>1. g = c /\ ~P.code[c.pc].context
      BY <1>4, <1>5, <2>2
    <3>2. Totals(d.idxs) = c.idxs
      BY <1>8, <1>10, <3>1, Zenon
    <3> QED BY <1>4, <3>1, <3>2, Zenon DEF Same
  <2> QED BY <2>1, <2>2
<1>12. Formed(P, g, k) /\ Holds(P, g, c.pc) /\ c.pc \in c.begin .. c.end
  <2>1. Formed(P, c, k) /\ c.pc \in c.begin .. c.end
    BY <1>4, Zenon DEF FrameOK
  <2>2. Formed(P, g, k)
    BY <1>11, <2>1, SameFormed
  <2>3. Holds(P, g, c.pc)
    BY <1>8, <1>11, SameHolds
  <2> QED BY <2>1, <2>2, <2>3
<1>13. Stepped(P, c, g, k, c.pc)
  BY <1>5, <1>11, <1>12, Zenon DEF Stepped
<1>14. g.base = c.base /\ g.begin = c.begin /\ g.end = c.end /\ FlowFor(P, g) = FlowFor(P, c)
  <2>1. FlowFor(P, g) = FlowFor(P, c)
    BY <1>11, SameRange
  <2> QED BY <1>11, <2>1 DEF Same
<1> DEFINE s2 == Append(s, 1)
<1>15. s2 \in Seq(Nat) /\ Len(s2) = Len(s) + 1 /\ Len(s) \in Nat
  BY AppendProperties, LenProperties
<1> HIDE DEF s2
<1>16. g.base <= Len(s2) /\ f.base + 1 = c.base + (e.depth - o)
  <2>1. e.depth \in Nat
    BY <1>9, Fields
  <2>2. c.base <= Len(s) + 1 /\ f.base + 1 = c.base + (e.depth - o)
    <3> DEFINE base == f.base
               below == c.base
               depth == e.depth
               length == Len(s)
    <3>1. base \in Nat /\ below \in Nat /\ o \in Nat /\ depth \in Nat /\ length \in Nat
      BY <1>6, <1>7, <1>15, <2>1
    <3>2. base + o + 1 = below + depth /\ depth >= o + 1 /\ base <= length
      BY <1>5, <1>9
    <3> HIDE DEF base, below, depth, length
    <3>3. below <= length + 1 /\ base + 1 = below + (depth - o)
      BY <3>1, <3>2
    <3> QED BY <3>3, Zenon DEF base, below, depth, length
  <2> QED BY <1>14, <1>15, <2>2, Zenon
<1>17. diags = <<>> => /\ Len(lvals) = m
                       /\ Len(s2) = g.base + (e.depth - o)
  <2> SUFFICES ASSUME diags = <<>> PROVE Len(lvals) = m /\ Len(s2) = g.base + (e.depth - o)
    OBVIOUS
  <2>1. Len(s) = f.base /\ Len(lvals) = m
    BY <1>3, Zenon DEF Returned
  <2> QED BY <1>14, <1>15, <1>16, <2>1, Zenon
<1>18. diags = <<>> => Mark(lvals, Len(fs) + 1, Len(lvals))
  <2>1. Len(fs) + 1 = n
    BY <1>3, <1>4
  <2> QED BY <1>4, <1>17, <2>1, Zenon
<1>19. Leaves2(P, g, g.pc + 1, c.pc, s2, lvals, k, diags)
  <2>1. CASE diags # <<>>
    BY <1>5, <1>11, <1>14, <2>1, Zenon DEF Leaves2
  <2>2. CASE diags = <<>>
    <3> DEFINE t == St(e.depth - o, e.for, e.switch, e.try, d)
    <3>1. FlowFor(P, g)[c.pc + 1] = t
      BY <1>10, <1>14, Zenon DEF Reaches, FlowFor, R
    <3>2. t.depth = e.depth - o /\ t.contexts = d
      BY StFields
    <3>3. Reaches(P, RangeFor(c), c.pc + 1,
                  St(e.depth - o, Begins(g.fors), Begins(g.switches), Begins(g.tries), d))
      BY <1>8, <1>10, <1>11, Zenon DEF R
    <3>4. Holds(P, g, c.pc + 1)
      BY <1>11, <3>3, HoldsFrom
    <3> HIDE DEF t
    <3>5. Stands(P, g, c.pc + 1)
      BY <1>11, <3>1, <3>2, <3>4, Zenon DEF Stands
    <3>6. Len(lvals) = k + Len(d.lvals)
      BY <1>5, <1>10, <1>17, <2>2, Zenon
    <3>7. Arrives(P, g, c.pc + 1, s2, lvals, k)
      BY <1>17, <2>2, <3>1, <3>2, <3>5, <3>6, Zenon DEF Arrives
    <3> QED BY <1>5, <1>11, <2>2, <3>7, Zenon DEF Leaves2
  <2> QED BY <2>1, <2>2
<1>20. AfterInstruction(Front(fs), g, g.pc + 1, s2, lvals, diags)
  <2>1. Front(fs) = SubSeq(frames, 1, Len(frames) - 2)
    BY <1>3, <1>4, FrontTwice
  <2> QED BY <2>1, Zenon DEF ResumeCaller, s2
<1>21. Sound(P, frames', stack', lvals', diags', exception', stopped')
  <2>1. /\ Prepared(P) /\ fs \in Seq(Frames) /\ fs # <<>> /\ lvals \in Seq(Nat) /\ Chain(P, fs, lvals, N)
        /\ s2 \in Seq(Nat) /\ g.base <= Len(s2) /\ diags \in Seq(Sources)
        /\ exception \in Sources \cup {NoDiag} /\ stopped \in BOOLEAN /\ (stopped => diags # <<>>)
    BY <1>3, <1>4, <1>15, <1>16
  <2>2. /\ Stepped(P, Uppermost(fs), g, N[Len(fs)], c.pc)
        /\ Keeps(lvals, lvals, N[Len(fs)], Len(fs))
        /\ Leaves2(P, g, g.pc + 1, c.pc, s2, lvals, N[Len(fs)], diags)
    BY <1>4, <1>13, <1>19, Zenon
  <2>3. diags = <<>> => Mark(lvals, Len(fs) + 1, Len(lvals))
    BY <1>18
  <2> QED BY ONLY <1>20, <2>1, <2>2, <2>3, SettledSound
<1>22. program' = program
  BY <1>20, Zenon DEF AfterInstruction
<1> QED BY <1>3, <1>21, <1>22, Zenon DEF VmInv, Text

LEMMA FinishFunctionKeeps ==
  ASSUME VmInv, NEW P, NEW M, NEW n, NEW m, NEW f, Over(P, M, n, m, f), FinishFunction
  PROVE  VmInv'
<1>1. f.kind = "function" /\ ResumeCaller(Caller, stack, diags)
  BY Zenon DEF FinishFunction, Ended, Over
<1>2. /\ stack \in Seq(Nat) /\ f.base <= Len(stack) /\ f \in Frames
      /\ (diags = <<>> => Returned(f, stack, lvals, m))
  BY Zenon DEF Over
<1>3. diags = <<>> => Len(stack) = f.base
  <2>1. RangeDepth(f) = 0
    BY <1>1 DEF RangeDepth
  <2>2. diags = <<>> => Len(stack) = f.base + RangeDepth(f)
    BY <1>2, Zenon DEF Returned
  <2>3. f.base \in Nat
    BY <1>2 DEF Frames
  <2> QED BY <2>1, <2>2, <2>3
<1>4. f.kind \in {"function", "anonymous"}
  BY <1>1
<1>5. Caller = IF f.kind = "anonymous" THEN FinishIndexContext(Caller) ELSE Caller
  BY <1>1, Zenon
<1> QED BY <1>1, <1>2, <1>3, <1>4, <1>5, ResumeKeeps

LEMMA FinishAnonymousKeeps ==
  ASSUME VmInv, NEW P, NEW M, NEW n, NEW m, NEW f, Over(P, M, n, m, f), FinishAnonymous
  PROVE  VmInv'
<1> DEFINE s == Resize(stack, f.base, 0)
<1>1. /\ f.kind = "anonymous"
      /\ ResumeCaller(FinishIndexContext(Caller), s,
                      IF Depth <= f.base /\ diags = <<>> THEN <<Internal("noValue")>> ELSE diags)
  BY Zenon DEF FinishAnonymous, Ended, Over
<1>2. /\ stack \in Seq(Nat) /\ f.base <= Len(stack) /\ f \in Frames
      /\ (diags = <<>> => Returned(f, stack, lvals, m))
  BY Zenon DEF Over
<1>3. f.base \in Nat
  BY <1>2 DEF Frames
<1>4. ~(Depth <= f.base /\ diags = <<>>)
  <2> SUFFICES ASSUME diags = <<>> PROVE ~(Depth <= f.base)
    OBVIOUS
  <2>1. RangeDepth(f) = 1
    BY <1>1 DEF RangeDepth
  <2>2. Len(stack) = f.base + RangeDepth(f)
    BY <1>2, Zenon DEF Returned
  <2> QED BY <1>3, <2>1, <2>2 DEF Depth
<1>5. ResumeCaller(FinishIndexContext(Caller), s, diags)
  BY <1>1, <1>4, Zenon
<1>6. s \in Seq(Nat) /\ Len(s) = f.base
  BY <1>2, <1>3, ResizeCuts
<1> HIDE DEF s
<1>7. f.base <= Len(s)
  BY <1>3, <1>6
<1>8. f.kind \in {"function", "anonymous"}
  BY <1>1
<1>9. FinishIndexContext(Caller) = IF f.kind = "anonymous" THEN FinishIndexContext(Caller) ELSE Caller
  BY <1>1, Zenon
<1> QED BY <1>5, <1>6, <1>7, <1>8, <1>9, ResumeKeeps

-----------------------------------------------------------------------------
(* Calls.                                                                     *)
LEMMA PushedSound ==
  ASSUME NEW P, Prepared(P), NEW fs \in Seq(Frames), fs # <<>>, NEW l \in Seq(Nat), NEW M,
         Chain(P, fs, l, M), Mark(l, Len(fs) + 1, Len(l)), NEW g, Fresh(P, g, Len(l)),
         g.kind # "script", Waits(P, Uppermost(fs), g, M[Len(fs)], Len(l)),
         NEW s2 \in Seq(Nat), Len(s2) = g.base, NEW ex \in Sources \cup {NoDiag}
  PROVE  /\ Sound(P, Append(fs, g), s2, l, <<>>, ex, FALSE)
         /\ Chain(P, Append(fs, g), l, Append(M, Len(l)))
<1> DEFINE k == Len(l)
           gs == Append(fs, g)
           N == Append(M, k)
           n == Len(fs)
<1>1. /\ g \in Frames /\ ~g.done /\ ~g.return /\ FrameOK(P, g, k) /\ Stands(P, g, g.pc)
      /\ FlowFor(P, g)[g.pc].depth = 0 /\ FlowFor(P, g)[g.pc].contexts.lvals = <<>>
  BY Zenon DEF Fresh
<1>2. k \in Nat
  BY LenProperties
<1>3. Chain(P, gs, l, N)
  <2>1. /\ fs \in Seq(Frames) /\ fs # <<>> /\ Chain(P, fs, l, M) /\ g \in Frames /\ g.kind # "script"
        /\ Len(l) \in Nat /\ Mark(l, Len(fs) + 1, Len(l)) /\ FrameOK(P, g, Len(l))
        /\ Waits(P, Uppermost(fs), g, M[Len(fs)], Len(l))
    BY <1>1, <1>2
  <2> QED BY ONLY <2>1, PushedChain
<1>4. M \in Seq(Nat) /\ Len(M) = n
  BY Zenon DEF Chain
<1>5. gs \in Seq(Frames) /\ Len(gs) = n + 1 /\ n \in Nat /\ gs # <<>> /\ Uppermost(gs) = g
  <2>1. g \in Frames
    BY <1>1
  <2>2. gs \in Seq(Frames) /\ Len(gs) = n + 1 /\ n \in Nat /\ gs[n + 1] = g
    BY <2>1, AppendProperties, LenProperties
  <2> HIDE DEF gs, n
  <2>3. gs # <<>>
    BY <2>2, EmptySeq
  <2> QED BY <2>2, <2>3 DEF Uppermost
<1>6. N \in Seq(Nat) /\ N[n + 1] = k
  BY <1>2, <1>4, AppendOf
<1> HIDE DEF gs, N, n
<1>7. Mark(l, Len(gs) + 1, k)
  <2>1. /\ k \in 0 .. k /\ DOMAIN l = 1 .. k
    BY <1>2, LenProperties
  <2>2. \A i \in DOMAIN l : l[i] < n + 1 <=> i <= k
    BY Zenon DEF Mark, n
  <2>3. ASSUME NEW i \in DOMAIN l PROVE l[i] < Len(gs) + 1 /\ i <= k
    <3>1. i <= k /\ l[i] < n + 1 /\ l[i] \in Nat
      BY <2>1, <2>2, ElementOfSeq
    <3> QED BY <1>5, <3>1
  <2> QED BY <2>1, <2>3, Zenon DEF Mark
<1>8. g.base \in Nat
  BY <1>1 DEF Frames
<1>9. Ready(P, g, s2, l, k)
  <2>1. Len(s2) = g.base + FlowFor(P, g)[g.pc].depth
    <3>1. g.base + 0 = g.base
      BY <1>8
    <3> QED BY <1>1, <3>1, Zenon
  <2>2. k = k + Len(FlowFor(P, g)[g.pc].contexts.lvals)
    <3>1. k + 0 = k /\ Len(<<>>) = 0
      BY <1>2
    <3> QED BY <1>1, <3>1, Zenon
  <2> QED BY <1>1, <2>1, <2>2, Zenon DEF Ready, Arrives
<1>10. <<>> \in Seq(Sources) /\ g.base <= Len(s2)
  BY <1>8, EmptySeq
<1>11. N[Len(gs)] = k
  BY <1>5, <1>6, Zenon
<1>12. Sound(P, gs, s2, l, <<>>, ex, FALSE)
  <2>1. \E Q \in Seq(Nat) : /\ Chain(P, gs, l, Q)
                            /\ <<>> = <<>> => /\ Mark(l, Len(gs) + 1, Len(l))
                                              /\ Ready(P, Uppermost(gs), s2, l, Q[Len(gs)])
    BY <1>3, <1>5, <1>6, <1>7, <1>9, <1>11, Zenon
  <2>2. FALSE \in BOOLEAN /\ (FALSE => <<>> # <<>>) /\ Uppermost(gs).base <= Len(s2)
    BY <1>5, <1>10, Zenon
  <2>3. <<>> # <<>> => Uppermost(gs).done
    OBVIOUS
  <2> QED BY <1>5, <1>10, <2>1, <2>2, <2>3, Zenon DEF Sound
<1> QED BY <1>3, <1>12 DEF gs, N

(* The ranges of definitions.                                                 *)
LEMMA DefinitionRanges ==
  ASSUME NEW P, Prepared(P), NEW pc \in DOMAIN P.code
  PROVE  /\ P.code[pc].op = "EnterFunction" =>
              IsRange(P, Range0(pc + 1, ClosedBy(P.code, P.lex, "boundary", pc), 0))
         /\ P.code[pc].op = "EnterArgumentDefault" =>
              IsRange(P, Range0(pc + 1, ClosedBy(P.code, P.lex, "boundary", pc), 1))
         /\ P.code[pc].op = "MakeFunctionHandle" =>
              IsRange(P, Range0(pc + 1, P.code[pc].target, 1))
<1>1. DOMAIN P.flow = ExecutionRanges(P.code, P.lex)
  BY Zenon DEF Prepared, Verified
<1>2. ASSUME P.code[pc].op = "EnterFunction"
      PROVE  IsRange(P, Range0(pc + 1, ClosedBy(P.code, P.lex, "boundary", pc), 0))
  BY <1>1, <1>2, Zenon DEF ExecutionRanges, IsRange
<1>3. ASSUME P.code[pc].op = "EnterArgumentDefault"
      PROVE  IsRange(P, Range0(pc + 1, ClosedBy(P.code, P.lex, "boundary", pc), 1))
  BY <1>1, <1>3, Zenon DEF ExecutionRanges, IsRange
<1>4. ASSUME P.code[pc].op = "MakeFunctionHandle"
      PROVE  IsRange(P, Range0(pc + 1, P.code[pc].target, 1))
  <2>1. /\ P.code[pc].target \in 1 .. Len(P.code) + 1 /\ TargetFits(P.code, P.lex, pc)
        /\ Len(P.code) \in Nat
    <3>1. P.code[pc].op \in Targeted
      BY <1>4 DEF Targeted
    <3> QED BY <3>1, PreparedCode, Zenon
  <2>2. P.code[pc].target > pc + 1
    BY <1>4, <2>1, Zenon DEF TargetFits
  <2>3. P.code[pc].target <= Len(P.code) + 1
    BY <2>1
  <2>4. pc \in AnonymousOwners(P.code)
    BY <1>4, <2>2, <2>3, Zenon DEF AnonymousOwners
  <2> QED BY <1>1, <2>4, Zenon DEF ExecutionRanges, IsRange
<1> QED BY <1>2, <1>3, <1>4

(* The operands of a call lie below the frames it pushes.                     *)
Calling(P, M, n, m, f, below) ==
  /\ P.code[f.pc].op = "CallOrIndex" /\ below \in Nat
  /\ below + P.code[f.pc].operandCount + 1 = f.base + FlowFor(P, f)[f.pc].depth
  /\ SubSeq(stack, 1, below) \in Seq(Nat) /\ Len(SubSeq(stack, 1, below)) = below

LEMMA CallOperands ==
  ASSUME VmInv, NEW P, NEW M, NEW n, NEW m, NEW f, Active(P, M, n, m, f),
         P.code[f.pc].op = "CallOrIndex"
  PROVE  /\ ~(Depth < Instruction.operandCount + 1)
         /\ Calling(P, M, n, m, f, Depth - Instruction.operandCount - 1)
<1> DEFINE e == FlowFor(P, f)[f.pc]
           o == P.code[f.pc].operandCount
           below == Depth - o - 1
<1>1. /\ Instruction = P.code[f.pc] /\ stack \in Seq(Nat)
      /\ Here(P, RangeFor(f), f.pc) /\ f.base \in Nat /\ Depth \in Nat
      /\ e.depth \in Nat /\ Depth = f.base + e.depth /\ P.flow[RangeFor(f)][f.pc] = e
  BY ActiveNow
<1>2. P.code[f.pc].results = 1 /\ o \in Nat
  <2>1. Instruction \in Instructions /\ InstructionMade(P.code, f.pc)
    BY ActiveMade
  <2>2. P.code[f.pc].results = 1
    BY <2>1, Zenon DEF InstructionMade
  <2> QED BY <1>1, <2>1, <2>2 DEF Instructions
<1>3. e.depth >= o + 1
  <2> DEFINE R == RangeFor(f)
  <2>1. Here(P, R, f.pc) /\ P.code[f.pc].op = "CallOrIndex" /\ P.code[f.pc].results = 1
    BY <1>1, <1>2
  <2> HIDE DEF R
  <2>2. P.flow[R][f.pc].depth >= P.code[f.pc].operandCount + 1
    BY ONLY <2>1, CallLeads
  <2> QED BY <1>1, <2>2, Zenon DEF R
<1> HIDE DEF e, o
<1>4. ~(Depth < o + 1) /\ below \in Nat /\ below <= Depth /\ below + o + 1 = f.base + e.depth
  <2> DEFINE base == f.base
             depth == e.depth
  <2>1. base \in Nat /\ depth \in Nat /\ Depth = base + depth /\ o \in Nat /\ depth >= o + 1
    BY <1>1, <1>2, <1>3
  <2> HIDE DEF base, depth
  <2>2. ~(Depth < o + 1) /\ below \in Nat /\ below <= Depth /\ below + o + 1 = base + depth
    BY <2>1
  <2> QED BY <2>2, Zenon DEF base, depth
<1> HIDE DEF below
<1>5. SubSeq(stack, 1, below) \in Seq(Nat) /\ Len(SubSeq(stack, 1, below)) = below
  <2>1. below \in 0 .. Len(stack)
    BY <1>4 DEF Depth
  <2> QED BY <1>1, <2>1, Prefix
<1>6. Calling(P, M, n, m, f, below)
  BY <1>4, <1>5, Zenon DEF Calling, e, o
<1> QED BY <1>1, <1>4, <1>6, Zenon DEF below, o

LEMMA CallAnonymousKeeps ==
  ASSUME VmInv, NEW P, NEW M, NEW n, NEW m, NEW f, Active(P, M, n, m, f), CallAnonymous
  PROVE  VmInv'
<1> DEFINE below == Depth - Instruction.operandCount - 1
           handles == {pc \in 1 .. f.pc : P.code[pc].op = "MakeFunctionHandle"}
           body == Latest(handles)
           g == Frame("anonymous", body + 1, P.code[body].target, below)
           s2 == SubSeq(stack, 1, below)
           k == Len(lvals)
<1>1. /\ P = Text /\ Prepared(P) /\ Chain(P, frames, lvals, M) /\ n = Len(frames) /\ m = M[n]
      /\ f = Uppermost(frames) /\ Top = f /\ f \in Frames
      /\ frames \in Seq(Frames) /\ frames # <<>> /\ lvals \in Seq(Nat)
      /\ diags = <<>> /\ stopped = FALSE /\ exception \in Sources \cup {NoDiag}
      /\ Mark(lvals, n + 1, k) /\ ~f.done /\ ~f.return /\ f.pc < f.end
      /\ Arrives(P, f, f.pc, stack, lvals, m)
  BY Zenon DEF Active
<1>2. Instruction = P.code[f.pc] /\ f.pc \in Nat /\ f.pc \in DOMAIN P.code
  BY ActiveFacts
<1>3. P.code[f.pc].op = "CallOrIndex" /\ P.code[f.pc].context
  BY <1>2, Zenon DEF CallAnonymous, At
<1>4. ~(Depth < Instruction.operandCount + 1) /\ Calling(P, M, n, m, f, below)
  BY <1>3, CallOperands
<1>5. \A pc : Code[pc] = P.code[pc]
  BY <1>1, Zenon DEF Code, Text
<1>6. /\ frames' = Append(frames, g) /\ stack' = s2
      /\ UNCHANGED <<program, lvals, diags, exception, stopped>>
  <2>1. handles = {pc \in 1 .. Top.pc : Code[pc].op = "MakeFunctionHandle"}
    BY <1>1, <1>5, Zenon
  <2> HIDE DEF handles
  <2> QED BY <1>4, <1>5, <2>1, Zenon DEF CallAnonymous, Pops
<1> HIDE DEF below
<1>7. body \in DOMAIN P.code /\ P.code[body].op = "MakeFunctionHandle"
  <2>1. InstructionMade(P.code, f.pc) /\ Instruction \in Instructions
    BY ActiveMade
  <2>2. PICK made \in DOMAIN P.code : P.code[made].op = "MakeFunctionHandle" /\ made < f.pc
    BY <1>3, <2>1, Zenon DEF InstructionMade
  <2>3. Len(P.code) \in Nat /\ DOMAIN P.code = 1 .. Len(P.code)
    BY <1>1, PreparedCode, Zenon
  <2>4. made \in handles
    BY <1>2, <2>2, <2>3
  <2>5. handles \in SUBSET (0 .. f.pc) /\ handles # {}
    BY <2>4
  <2>6. body \in handles
    BY <1>2, <2>5, LatestOf
  <2> HIDE DEF body
  <2> QED BY <1>2, <2>3, <2>6
<1>8. IsRange(P, Range0(body + 1, P.code[body].target, 1))
  BY <1>1, <1>7, DefinitionRanges
<1> HIDE DEF body
<1>9. /\ below \in Nat /\ s2 \in Seq(Nat) /\ Len(s2) = below
      /\ below + P.code[f.pc].operandCount + 1 = f.base + FlowFor(P, f)[f.pc].depth
  BY <1>4, Zenon DEF Calling
<1>10. Fresh(P, g, k) /\ g.kind = "anonymous" /\ g.base = below
  <2> DEFINE kind == "anonymous"
             begin == body + 1
             end == P.code[body].target
             depth == 1
  <2>1. kind \in Kinds /\ depth = IF kind \in {"default", "anonymous"} THEN 1 ELSE 0
    BY DEF Kinds
  <2>2. g = Frame(kind, begin, end, below) /\ IsRange(P, Range0(begin, end, depth)) /\ Prepared(P)
    BY <1>1, <1>8, Zenon
  <2> HIDE DEF g, kind, begin, end, depth
  <2>3. Fresh(P, g, k) /\ g.kind = kind /\ g.base = below
    BY <1>9, <2>1, <2>2, FreshFrame
  <2> QED BY <2>3, Zenon DEF kind
<1> HIDE DEF g, s2
<1>11. Waits(P, f, g, m, k)
  <2>1. Stands(P, f, f.pc) /\ k = m + Len(FlowFor(P, f)[f.pc].contexts.lvals)
    BY <1>1, Zenon DEF Arrives
  <2>2. Calls(P, f, g)
    <3>1. g.kind # "default"
      BY <1>10
    <3> QED BY <1>3, <1>9, <1>10, <3>1, Zenon DEF Calls
  <2> QED BY <1>1, <2>1, <2>2, Zenon DEF Waits
<1>12. Sound(P, Append(frames, g), s2, lvals, <<>>, exception, FALSE)
  <2>1. g.kind # "script" /\ Len(s2) = g.base
    BY <1>9, <1>10
  <2>2. /\ Waits(P, Uppermost(frames), g, M[Len(frames)], Len(lvals)) /\ Fresh(P, g, Len(lvals))
        /\ Mark(lvals, Len(frames) + 1, Len(lvals))
    BY <1>1, <1>10, <1>11, Zenon
  <2> QED BY <1>1, <1>9, <2>1, <2>2, PushedSound
<1>13. Sound(P, frames', stack', lvals', diags', exception', stopped') /\ program' = program
  BY <1>1, <1>6, <1>12, Zenon
<1> QED BY <1>1, <1>13, Zenon DEF VmInv, Text

LEMMA PushedTwice ==
  ASSUME NEW S, NEW s \in Seq(S), NEW a \in S, NEW b \in S
  PROVE  s \o <<a, b>> = Append(Append(s, a), b)
<1> DEFINE t == s \o <<a, b>>
           u == Append(s, a)
           v == Append(u, b)
           k == Len(s)
<1>1. k \in Nat
  BY LenProperties
<1>2. u \in Seq(S) /\ Len(u) = k + 1 /\ u[k + 1] = a /\ \A i \in 1 .. k : u[i] = s[i]
  BY AppendProperties
<1> HIDE DEF u
<1>3. v \in Seq(S) /\ Len(v) = Len(u) + 1 /\ v[Len(u) + 1] = b /\ \A i \in 1 .. Len(u) : v[i] = u[i]
  BY <1>2, AppendProperties
<1>4. <<a, b>> \in Seq(S) /\ Len(<<a, b>>) = 2 /\ <<a, b>>[1] = a /\ <<a, b>>[2] = b
  OBVIOUS
<1> DEFINE p == <<a, b>>
<1> HIDE DEF p
<1>5. /\ s \o p \in Seq(S) /\ Len(s \o p) = k + Len(p)
      /\ \A i \in 1 .. k + Len(p) : (s \o p)[i] = IF i <= k THEN s[i] ELSE p[i - k]
  <2>1. p \in Seq(S)
    BY <1>4 DEF p
  <2> QED BY <2>1, ConcatProperties
<1>6. t = s \o p
  BY DEF p
<1> HIDE DEF t, v, k
<1>7. /\ t \in Seq(S) /\ Len(t) = k + 2
      /\ \A i \in 1 .. k + 2 : t[i] = IF i <= k THEN s[i] ELSE p[i - k]
  <2>1. Len(p) = 2
    BY <1>4 DEF p
  <2> QED BY <1>5, <1>6, <2>1, Zenon
<1>8. p[1] = a /\ p[2] = b
  BY <1>4 DEF p
<1>9. \A i \in 1 .. k + 2 : t[i] = v[i]
  <2> TAKE i \in 1 .. k + 2
  <2>1. CASE i \in 1 .. k
    <3>1. t[i] = s[i] /\ i \in 1 .. Len(u) /\ u[i] = s[i]
      BY <1>1, <1>2, <1>7, <2>1
    <3> QED BY <1>3, <3>1
  <2>2. CASE i = k + 1
    <3>1. t[i] = p[i - k] /\ i - k = 1 /\ i \in 1 .. Len(u) /\ u[i] = a
      BY <1>1, <1>2, <1>7, <2>2
    <3> QED BY <1>3, <1>8, <3>1
  <2>3. CASE i = k + 2
    <3>1. t[i] = p[i - k] /\ i - k = 2 /\ i = Len(u) + 1
      BY <1>1, <1>2, <1>7, <2>3
    <3> QED BY <1>3, <1>8, <3>1
  <2> QED BY <1>1, <2>1, <2>2, <2>3
<1>10. Len(v) = k + 2
  BY <1>1, <1>2, <1>3
<1>11. t = v
  BY <1>3, <1>7, <1>9, <1>10, SeqEqual
<1> QED BY <1>11 DEF t, u, v

LEMMA CallFunctionKeeps ==
  ASSUME VmInv, NEW P, NEW M, NEW n, NEW m, NEW f, Active(P, M, n, m, f), CallFunction
  PROVE  VmInv'
<1> DEFINE below == Depth - Instruction.operandCount - 1
           entry == FunctionEntry
           g == Frame("function", entry + 1, EndOf("boundary", entry), below)
           h == Frame("default", entry + 2, EndOf("boundary", entry + 1), below)
           s2 == SubSeq(stack, 1, below)
           k == Len(lvals)
<1>1. /\ P = Text /\ Prepared(P) /\ Chain(P, frames, lvals, M) /\ n = Len(frames) /\ m = M[n]
      /\ f = Uppermost(frames) /\ Top = f /\ f \in Frames
      /\ frames \in Seq(Frames) /\ frames # <<>> /\ lvals \in Seq(Nat)
      /\ diags = <<>> /\ stopped = FALSE /\ exception \in Sources \cup {NoDiag}
      /\ Mark(lvals, n + 1, k) /\ ~f.done /\ ~f.return /\ f.pc < f.end
      /\ Arrives(P, f, f.pc, stack, lvals, m)
  BY Zenon DEF Active
<1>2. Instruction = P.code[f.pc] /\ f.pc \in Nat /\ f.pc \in DOMAIN P.code
  BY ActiveFacts
<1>3. P.code[f.pc].op = "CallOrIndex" /\ ~P.code[f.pc].context
  BY <1>2, Zenon DEF CallFunction, At
<1>4. ~(Depth < Instruction.operandCount + 1) /\ Calling(P, M, n, m, f, below)
  BY <1>3, CallOperands
<1>5. /\ frames' = frames \o <<g, h>> /\ stack' = s2
      /\ UNCHANGED <<program, lvals, diags, exception, stopped>>
  BY <1>4, Zenon DEF CallFunction, Pops
<1>6. /\ entry \in DOMAIN P.code /\ P.code[entry].op = "EnterFunction" /\ entry \in Nat
      /\ entry + 1 \in DOMAIN P.code /\ P.code[entry + 1].op = "EnterArgumentDefault"
  <2>1. InstructionMade(P.code, f.pc)
    BY ActiveMade
  <2>2. \E made \in DOMAIN P.code : P.code[made].op = "EnterFunction"
    BY <1>3, <2>1, Zenon DEF InstructionMade
  <2>3. Code = P.code
    BY <1>1, Zenon DEF Code, Text
  <2>4. entry \in DOMAIN P.code /\ P.code[entry].op = "EnterFunction"
    BY <2>2, <2>3, Zenon DEF FunctionEntry
  <2> HIDE DEF entry
  <2>5. FunctionMade(P.code, entry) /\ DOMAIN P.code = 1 .. Len(P.code)
    BY <1>1, <2>4, PreparedCode, Zenon
  <2> QED BY <2>4, <2>5 DEF FunctionMade
<1>7. /\ EndOf("boundary", entry) = ClosedBy(P.code, P.lex, "boundary", entry)
      /\ EndOf("boundary", entry + 1) = ClosedBy(P.code, P.lex, "boundary", entry + 1)
  BY <1>1, Zenon DEF EndOf, Code, Text
<1>8. /\ IsRange(P, Range0(entry + 1, EndOf("boundary", entry), 0))
      /\ IsRange(P, Range0(entry + 2, EndOf("boundary", entry + 1), 1))
  <2>1. IsRange(P, Range0(entry + 1, ClosedBy(P.code, P.lex, "boundary", entry), 0))
    BY <1>1, <1>6, DefinitionRanges
  <2>2. IsRange(P, Range0(entry + 1 + 1, ClosedBy(P.code, P.lex, "boundary", entry + 1), 1))
    BY <1>1, <1>6, DefinitionRanges
  <2>3. entry + 1 + 1 = entry + 2
    BY <1>6
  <2> QED BY <1>7, <2>1, <2>2, <2>3, Zenon
<1> HIDE DEF below, entry
<1>9. /\ below \in Nat /\ s2 \in Seq(Nat) /\ Len(s2) = below
      /\ below + P.code[f.pc].operandCount + 1 = f.base + FlowFor(P, f)[f.pc].depth
  BY <1>4, Zenon DEF Calling
<1>10. Fresh(P, g, k) /\ g.kind = "function" /\ g.base = below
  <2> DEFINE kind == "function"
             begin == entry + 1
             end == EndOf("boundary", entry)
             depth == 0
  <2>1. kind \in Kinds /\ depth = IF kind \in {"default", "anonymous"} THEN 1 ELSE 0
    BY DEF Kinds
  <2>2. g = Frame(kind, begin, end, below) /\ IsRange(P, Range0(begin, end, depth)) /\ Prepared(P)
    BY <1>1, <1>8, Zenon
  <2> HIDE DEF g, kind, begin, end, depth
  <2>3. Fresh(P, g, k) /\ g.kind = kind /\ g.base = below
    <3>1. below \in Nat
      BY <1>9
    <3> QED BY ONLY <2>1, <2>2, <3>1, FreshFrame
  <2> QED BY <2>3, Zenon DEF kind
<1>11. Fresh(P, h, k) /\ h.kind = "default" /\ h.base = below
  <2> DEFINE kind == "default"
             begin == entry + 2
             end == EndOf("boundary", entry + 1)
             depth == 1
  <2>1. kind \in Kinds /\ depth = IF kind \in {"default", "anonymous"} THEN 1 ELSE 0
    BY DEF Kinds
  <2>2. h = Frame(kind, begin, end, below) /\ IsRange(P, Range0(begin, end, depth)) /\ Prepared(P)
    BY <1>1, <1>8, Zenon
  <2> HIDE DEF h, kind, begin, end, depth
  <2>3. Fresh(P, h, k) /\ h.kind = kind /\ h.base = below
    <3>1. below \in Nat
      BY <1>9
    <3> QED BY ONLY <2>1, <2>2, <3>1, FreshFrame
  <2> QED BY <2>3, Zenon DEF kind
<1> HIDE DEF g, h, s2
<1>12. Waits(P, f, g, m, k)
  <2>1. Stands(P, f, f.pc) /\ k = m + Len(FlowFor(P, f)[f.pc].contexts.lvals)
    BY <1>1, Zenon DEF Arrives
  <2>2. Calls(P, f, g)
    <3>1. g.kind # "default" /\ g.kind # "anonymous"
      BY <1>10
    <3> QED BY <1>3, <1>9, <1>10, <3>1, Zenon DEF Calls
  <2> QED BY <1>1, <2>1, <2>2, Zenon DEF Waits
<1> DEFINE fs == Append(frames, g)
           N == Append(M, k)
<1>13. Chain(P, fs, lvals, N) /\ Sound(P, fs, s2, lvals, <<>>, exception, FALSE)
  <2>1. g.kind # "script" /\ Len(s2) = g.base
    BY <1>9, <1>10
  <2>2. /\ Waits(P, Uppermost(frames), g, M[Len(frames)], Len(lvals)) /\ Fresh(P, g, Len(lvals))
        /\ Mark(lvals, Len(frames) + 1, Len(lvals))
    BY <1>1, <1>10, <1>12, Zenon
  <2> QED BY <1>1, <1>9, <2>1, <2>2, PushedSound
<1>14. /\ g \in Frames /\ ~g.done /\ ~g.return /\ g.pc = g.begin /\ g.pc < g.end /\ Stands(P, g, g.pc)
       /\ FlowFor(P, g)[g.pc].contexts.lvals = <<>> /\ h \in Frames
  BY <1>10, <1>11, Zenon DEF Fresh
<1>15. fs \in Seq(Frames) /\ fs # <<>> /\ Uppermost(fs) = g /\ Len(fs) = n + 1 /\ n \in Nat
  <2>1. /\ fs \in Seq(Frames) /\ Len(fs) = Len(frames) + 1 /\ fs[Len(frames) + 1] = g
        /\ Len(frames) \in Nat
    BY <1>1, <1>14, AppendProperties, LenProperties
  <2> HIDE DEF fs
  <2>2. fs # <<>>
    BY <2>1, EmptySeq
  <2> QED BY <1>1, <2>1, <2>2 DEF Uppermost
<1>16. N[n + 1] = k /\ k \in Nat
  <2>1. M \in Seq(Nat) /\ Len(M) = n
    BY <1>1, Zenon DEF Chain
  <2>2. k \in Nat
    BY <1>1, LenProperties
  <2> HIDE DEF k
  <2> QED BY <2>1, <2>2, AppendProperties
<1> HIDE DEF fs, N
<1>17. Mark(lvals, Len(fs) + 1, Len(lvals))
  <2>1. Mark(lvals, Len(fs) + 1, Len(lvals))
    BY <1>13, Zenon DEF Sound
  <2> QED BY <2>1
<1>18. Waits(P, g, h, k, k)
  <2>1. k = k + Len(FlowFor(P, g)[g.pc].contexts.lvals)
    <3>1. k + 0 = k /\ Len(<<>>) = 0
      BY <1>16
    <3> QED BY <1>14, <3>1, Zenon
  <2>2. Calls(P, g, h)
    BY <1>10, <1>11, <1>14, Zenon DEF Calls
  <2> QED BY <1>14, <2>1, <2>2, Zenon DEF Waits
<1>19. Sound(P, Append(fs, h), s2, lvals, <<>>, exception, FALSE)
  <2>1. h.kind # "script" /\ Len(s2) = h.base
    BY <1>9, <1>11
  <2>2. /\ Waits(P, Uppermost(fs), h, N[Len(fs)], Len(lvals)) /\ Fresh(P, h, Len(lvals))
        /\ Mark(lvals, Len(fs) + 1, Len(lvals))
    BY <1>11, <1>15, <1>16, <1>17, <1>18, Zenon
  <2> QED BY <1>1, <1>9, <1>13, <1>15, <2>1, <2>2, PushedSound
<1>20. frames' = Append(fs, h)
  <2>1. frames \o <<g, h>> = Append(Append(frames, g), h)
    BY <1>1, <1>14, PushedTwice
  <2> QED BY <1>5, <2>1, Zenon DEF fs
<1>21. Sound(P, frames', stack', lvals', diags', exception', stopped') /\ program' = program
  BY <1>1, <1>5, <1>19, <1>20, Zenon
<1> QED BY <1>1, <1>21, Zenon DEF VmInv, Text

-----------------------------------------------------------------------------
(* The machine starts sound and every step keeps it.                          *)
LEMMA InitSound == VmInit => VmInv
<1> SUFFICES ASSUME VmInit PROVE VmInv
  OBVIOUS
<1> DEFINE P == Text
           g == Frame("script", 1, Len(Code) + 1, 0)
           fs == <<g>>
           M == <<0>>
<1>1. /\ program \in DOMAIN Programs /\ Text.accepted /\ frames = fs
      /\ stack = <<>> /\ lvals = <<>> /\ diags = <<>> /\ exception = NoDiag /\ stopped = FALSE
  BY Zenon DEF VmInit, StartMachine, Text
<1>2. Prepared(P)
  BY <1>1, TextPrepared
<1>3. Fresh(P, g, 0) /\ g.kind = "script" /\ g.base = 0
  <2> DEFINE kind == "script"
             begin == 1
             end == Len(Code) + 1
             depth == 0
             base == 0
  <2>1. kind \in Kinds /\ depth = (IF kind \in {"default", "anonymous"} THEN 1 ELSE 0) /\ base \in Nat
    BY DEF Kinds
  <2>2. IsRange(P, Range0(begin, end, depth))
    <3>1. DOMAIN P.flow = ExecutionRanges(P.code, P.lex)
      BY <1>2, Zenon DEF Prepared, Verified
    <3>2. end = Len(P.code) + 1
      BY Zenon DEF Code, Text
    <3>3. Range0(1, Len(P.code) + 1, 0) \in ExecutionRanges(P.code, P.lex)
      BY Zenon DEF ExecutionRanges
    <3> QED BY <3>1, <3>2, <3>3, Zenon DEF IsRange
  <2>3. g = Frame(kind, begin, end, base)
    BY Zenon
  <2> HIDE DEF g, kind, begin, end, depth, base, P
  <2>4. Fresh(P, g, 0) /\ g.kind = kind /\ g.base = base
    BY ONLY <1>2, <2>1, <2>2, <2>3, FreshFrame
  <2> QED BY <2>4, Zenon DEF kind, base
<1> HIDE DEF g, P
<1>4. /\ g \in Frames /\ ~g.done /\ ~g.return /\ FrameOK(P, g, 0) /\ Stands(P, g, g.pc)
      /\ FlowFor(P, g)[g.pc].depth = 0 /\ FlowFor(P, g)[g.pc].contexts.lvals = <<>>
  BY <1>3, Zenon DEF Fresh
<1>5. /\ fs \in Seq(Frames) /\ Len(fs) = 1 /\ fs[1] = g /\ fs # <<>> /\ Uppermost(fs) = g
      /\ M \in Seq(Nat) /\ Len(M) = 1 /\ M[1] = 0
  <2>1. fs \in Seq(Frames) /\ Len(fs) = 1 /\ fs[1] = g
    BY <1>4
  <2>2. M \in Seq(Nat) /\ Len(M) = 1 /\ M[1] = 0
    OBVIOUS
  <2> HIDE DEF fs
  <2>3. fs # <<>>
    BY <2>1, EmptySeq
  <2> QED BY <2>1, <2>2, <2>3 DEF Uppermost
<1> HIDE DEF fs, M
<1>6. \A d : Mark(<<>>, d, 0)
  <2>1. Len(<<>>) = 0 /\ DOMAIN <<>> = {} /\ 0 \in 0 .. 0
    OBVIOUS
  <2> QED BY <2>1, Zenon DEF Mark
<1>7. Chain(P, fs, <<>>, M)
  <2>1. ASSUME NEW d \in 1 .. 1
        PROVE  (fs[d].kind = "script" <=> d = 1) /\ Mark(<<>>, d, M[d]) /\ FrameOK(P, fs[d], M[d])
    <3>1. d = 1
      OBVIOUS
    <3> QED BY <1>3, <1>4, <1>5, <1>6, <3>1, Zenon
  <2>2. 1 .. Len(fs) - 1 = {}
    BY <1>5
  <2> QED BY <1>5, <2>1, <2>2, Zenon DEF Chain
<1>8. Ready(P, g, <<>>, <<>>, 0)
  <2>1. Len(<<>>) = 0 /\ 0 + 0 = 0
    OBVIOUS
  <2>2. Arrives(P, g, g.pc, <<>>, <<>>, 0)
    BY <1>3, <1>4, <2>1, Zenon DEF Arrives
  <2> QED BY <1>4, <2>2, Zenon DEF Ready
<1>9. Sound(P, fs, <<>>, <<>>, <<>>, NoDiag, FALSE)
  <2>1. \E Q \in Seq(Nat) : /\ Chain(P, fs, <<>>, Q)
                            /\ <<>> = <<>> => /\ Mark(<<>>, Len(fs) + 1, Len(<<>>))
                                              /\ Ready(P, Uppermost(fs), <<>>, <<>>, Q[Len(fs)])
    <3>1. Len(<<>>) = 0
      OBVIOUS
    <3> QED BY <1>5, <1>6, <1>7, <1>8, <3>1, Zenon
  <2>2. /\ <<>> \in Seq(Nat) /\ <<>> \in Seq(Sources) /\ NoDiag \in Sources \cup {NoDiag}
        /\ FALSE \in BOOLEAN /\ (FALSE => <<>> # <<>>)
    BY EmptySeq
  <2>3. Uppermost(fs).base <= Len(<<>>)
    BY <1>3, <1>5
  <2>4. <<>> # <<>> => Uppermost(fs).done
    OBVIOUS
  <2> QED BY <1>5, <2>1, <2>2, <2>3, <2>4, Zenon DEF Sound
<1> QED BY <1>1, <1>9, Zenon DEF VmInv, P

LEMMA EvaluateKeeps ==
  ASSUME VmInv, NEW out, Evaluate(out)
  PROVE  VmInv'
<1>1. Running
  BY Zenon DEF Evaluate, LoadName, StorePathIndex, At
<1>2. PICK P, M, n, m, f : Active(P, M, n, m, f)
  BY <1>1, RunningTop, Zenon
<1>3. CASE LoadName(out)
  BY <1>2, <1>3, LoadNameKeeps
<1>4. CASE StorePathIndex(out)
  BY <1>2, <1>4, StorePathIndexKeeps
<1> QED BY <1>3, <1>4, Zenon DEF Evaluate

LEMMA InstructionKeeps ==
  ASSUME VmInv, Operate \/ Transfer \/ Loop \/ Select \/ Guarded \/ Address
  PROVE  VmInv'
<1>1. Running
  <2>1. CASE Operate
    BY <2>1, Zenon DEF Operate, StoreName, BinaryOp, MakeFunctionHandle, At
  <2>2. CASE Transfer
    BY <2>2, Zenon DEF Transfer, Jump, JumpIfFalse, Return, SkipBoundary, At
  <2>3. CASE Loop
    BY <2>3, Zenon DEF Loop, BeginFor, NextFor, BreakLoop, ContinueLoop, At
  <2>4. CASE Select
    BY <2>4, Zenon DEF Select, SwitchBegin, SwitchCase, SwitchOtherwise, SwitchEnd, At
  <2>5. CASE Guarded
    BY <2>5, Zenon DEF Guarded, TryBegin, TryEnd, At
  <2>6. CASE Address
    BY <2>6, Zenon DEF Address, BeginIndexContext, BeginIndexArgument, BeginLvalue,
         BeginLvalueIndexContext, LvalueDescendMember, At
  <2> QED BY <2>1, <2>2, <2>3, <2>4, <2>5, <2>6
<1>2. PICK P, M, n, m, f : Active(P, M, n, m, f)
  BY <1>1, RunningTop, Zenon
<1>3. CASE Operate
  <2>1. CASE StoreName BY <1>2, <2>1, StoreNameKeeps
  <2>2. CASE BinaryOp BY <1>2, <2>2, BinaryOpKeeps
  <2>3. CASE MakeFunctionHandle BY <1>2, <2>3, MakeFunctionHandleKeeps
  <2> QED BY <1>3, <2>1, <2>2, <2>3 DEF Operate
<1>4. CASE Transfer
  <2>1. CASE Jump BY <1>2, <2>1, JumpKeeps
  <2>2. CASE JumpIfFalse BY <1>2, <2>2, JumpIfFalseKeeps
  <2>3. CASE Return BY <1>2, <2>3, ReturnKeeps
  <2>4. CASE SkipBoundary BY <1>2, <2>4, SkipBoundaryKeeps
  <2> QED BY <1>4, <2>1, <2>2, <2>3, <2>4 DEF Transfer
<1>5. CASE Loop
  <2>1. CASE BeginFor BY <1>2, <2>1, BeginForKeeps
  <2>2. CASE NextFor BY <1>2, <2>2, NextForKeeps
  <2>3. CASE BreakLoop BY <1>2, <2>3, BreakLoopKeeps
  <2>4. CASE ContinueLoop BY <1>2, <2>4, JumpKeeps
  <2> QED BY <1>5, <2>1, <2>2, <2>3, <2>4 DEF Loop
<1>6. CASE Select
  <2>1. CASE SwitchBegin BY <1>2, <2>1, SwitchBeginKeeps
  <2>2. CASE SwitchCase BY <1>2, <2>2, SwitchCaseKeeps
  <2>3. CASE SwitchOtherwise BY <1>2, <2>3, SwitchOtherwiseKeeps
  <2>4. CASE SwitchEnd BY <1>2, <2>4, SwitchEndKeeps
  <2> QED BY <1>6, <2>1, <2>2, <2>3, <2>4 DEF Select
<1>7. CASE Guarded
  <2>1. CASE TryBegin BY <1>2, <2>1, TryBeginKeeps
  <2>2. CASE TryEnd BY <1>2, <2>2, TryEndKeeps
  <2> QED BY <1>7, <2>1, <2>2 DEF Guarded
<1>8. CASE Address
  <2>1. CASE BeginIndexContext \/ BeginLvalueIndexContext BY <1>2, <2>1, ContextOpens
  <2>2. CASE BeginIndexArgument BY <1>2, <2>2, BeginIndexArgumentKeeps
  <2>3. CASE BeginLvalue BY <1>2, <2>3, BeginLvalueKeeps
  <2>4. CASE LvalueDescendMember BY <1>2, <2>4, LvalueDescendKeeps
  <2> QED BY <1>8, <2>1, <2>2, <2>3, <2>4 DEF Address
<1> QED BY <1>3, <1>4, <1>5, <1>6, <1>7, <1>8

LEMMA CallKeeps ==
  ASSUME VmInv, Call
  PROVE  VmInv'
<1>1. CASE CallFunction \/ CallAnonymous
  <2>1. Running
    BY <1>1, Zenon DEF CallFunction, CallAnonymous, At
  <2>2. PICK P, M, n, m, f : Active(P, M, n, m, f)
    BY <2>1, RunningTop, Zenon
  <2>3. CASE CallFunction BY <2>2, <2>3, CallFunctionKeeps
  <2>4. CASE CallAnonymous BY <2>2, <2>4, CallAnonymousKeeps
  <2> QED BY <1>1, <2>3, <2>4
<1>2. CASE FinishDefault \/ FinishFunction \/ FinishAnonymous
  <2>1. ~Running
    BY <1>2, Zenon DEF FinishDefault, FinishFunction, FinishAnonymous, Ended
  <2>2. PICK P, M, n, m, f : Over(P, M, n, m, f)
    BY <2>1, EndedTop, Zenon
  <2>3. CASE FinishDefault BY <2>2, <2>3, FinishDefaultKeeps
  <2>4. CASE FinishFunction BY <2>2, <2>4, FinishFunctionKeeps
  <2>5. CASE FinishAnonymous BY <2>2, <2>5, FinishAnonymousKeeps
  <2> QED BY <1>2, <2>3, <2>4, <2>5
<1> QED BY <1>1, <1>2, Zenon DEF Call

LEMMA NextSound == VmInv /\ [VmNext]_vmVars => VmInv'
<1> SUFFICES ASSUME VmInv, [VmNext]_vmVars PROVE VmInv'
  OBVIOUS
<1>1. ASSUME NEW out, Evaluate(out) PROVE VmInv'
  BY <1>1, EvaluateKeeps
<1>2. CASE Operate \/ Transfer \/ Loop \/ Select \/ Guarded \/ Address
  BY <1>2, InstructionKeeps
<1>3. CASE Call
  BY <1>3, CallKeeps
<1>4. CASE StopBefore
  <2>1. Running
    BY <1>4, Zenon DEF StopBefore
  <2>2. PICK P, M, n, m, f : Active(P, M, n, m, f)
    BY <2>1, RunningTop, Zenon
  <2> QED BY <1>4, <2>2, StopBeforeKeeps
<1>5. CASE UNCHANGED vmVars
  BY <1>5, Zenon DEF vmVars, VmInv, Text
<1>6. CASE Terminated
  BY <1>6, Zenon DEF Terminated, vmVars, VmInv, Text
<1> QED BY <1>1, <1>2, <1>3, <1>4, <1>5, <1>6, Zenon DEF VmNext, Machine

(* The invariant holds in every behaviour.                                    *)
THEOREM VmSound == VmSpec => []VmInv
  BY InitSound, NextSound, PTL DEF VmSpec

-----------------------------------------------------------------------------
(* What the invariant says of the machine.                                    *)
LEMMA OwnLvalues ==
  ASSUME NEW l \in Seq(Nat), NEW n \in Nat, NEW m, Mark(l, n, m), Mark(l, n + 1, Len(l)),
         NEW count \in Nat, Len(l) = m + count
  PROVE  Cardinality({i \in DOMAIN l : l[i] = n}) = count
<1>1. /\ Len(l) \in Nat /\ DOMAIN l = 1 .. Len(l) /\ m \in 0 .. Len(l)
      /\ \A i \in 1 .. Len(l) : /\ l[i] \in Nat /\ (l[i] < n <=> i <= m)
                                /\ (l[i] < n + 1 <=> i <= Len(l))
  BY LenProperties, ElementOfSeq DEF Mark
<1>2. ASSUME NEW i \in 1 .. Len(l) PROVE l[i] = n <=> i \in m + 1 .. Len(l)
  <2>1. l[i] \in Nat /\ (l[i] < n <=> i <= m) /\ l[i] < n + 1
    BY <1>1
  <2>2. l[i] = n <=> ~(i <= m)
    BY <2>1
  <2> QED BY <1>1, <2>2
<1>3. m + 1 .. Len(l) \subseteq 1 .. Len(l)
  BY <1>1
<1>4. {i \in DOMAIN l : l[i] = n} = m + 1 .. Len(l)
  BY <1>1, <1>2, <1>3, Zenon
<1>5. Cardinality(m + 1 .. Len(l)) = count
  <2>1. m + 1 \in Int /\ Len(l) \in Int
    BY <1>1
  <2>2. Cardinality(m + 1 .. Len(l)) = IF m + 1 > Len(l) THEN 0 ELSE Len(l) - (m + 1) + 1
    BY <2>1, FS_Interval
  <2>3. (IF m + 1 > Len(l) THEN 0 ELSE Len(l) - (m + 1) + 1) = count
    BY <1>1
  <2> QED BY <2>2, <2>3, Zenon
<1> QED BY <1>4, <1>5, Zenon

LEMMA InvariantMatches == VmInv => ContextsMatchVerifier
<1> SUFFICES ASSUME VmInv, Running
             PROVE  LET f == Top
                        expected == FlowOf(f)[f.pc]
                        mine == {i \in DOMAIN lvals : lvals[i] = Len(frames)}
                    IN /\ expected # None
                       /\ Len(stack) = f.base + expected.depth
                       /\ Begins(f.fors) = expected.for
                       /\ Begins(f.switches) = expected.switch
                       /\ Begins(f.tries) = expected.try
                       /\ f.idxs = Totals(expected.contexts.idxs)
                       /\ Cardinality(mine) = Len(expected.contexts.lvals)
  BY Zenon DEF ContextsMatchVerifier
<1>1. PICK P, M, n, m, f : Active(P, M, n, m, f)
  BY RunningTop, Zenon
<1> DEFINE e == FlowFor(P, f)[f.pc]
<1>2. /\ P = Text /\ Top = f /\ n = Len(frames) /\ n \in Nat /\ lvals \in Seq(Nat)
      /\ Mark(lvals, n, m) /\ Mark(lvals, n + 1, Len(lvals)) /\ f.pc < f.end
      /\ Arrives(P, f, f.pc, stack, lvals, m) /\ Here(P, RangeFor(f), f.pc)
  BY <1>1, Zenon DEF Active
<1>3. FlowOf(Top)[Top.pc] = e
  BY <1>2, Zenon DEF FlowOf, FlowFor, RangeFor, Text
<1>4. /\ e # None /\ Len(stack) = f.base + e.depth /\ Len(lvals) = m + Len(e.contexts.lvals)
      /\ Begins(f.fors) = e.for /\ Begins(f.switches) = e.switch /\ Begins(f.tries) = e.try
      /\ f.idxs = Totals(e.contexts.idxs)
  BY <1>2, Zenon DEF Arrives, Stands, Holds
<1>5. Len(e.contexts.lvals) \in Nat
  <2>1. P.flow[RangeFor(f)][f.pc] \in FlowStates
    BY <1>2, FlowEdges, Zenon DEF Here
  <2>2. e \in FlowStates
    BY <2>1, Zenon DEF FlowFor
  <2> HIDE DEF e
  <2>3. e.contexts.lvals \in Seq(Places)
    BY <2>2 DEF FlowStates
  <2> QED BY <2>3, LenProperties
<1> HIDE DEF e
<1>6. Cardinality({i \in DOMAIN lvals : lvals[i] = Len(frames)}) = Len(e.contexts.lvals)
  <2>1. Cardinality({i \in DOMAIN lvals : lvals[i] = n}) = Len(e.contexts.lvals)
    BY <1>2, <1>4, <1>5, OwnLvalues
  <2> QED BY <1>2, <2>1, Zenon
<1> QED BY <1>2, <1>3, <1>4, <1>6, Zenon

LEMMA InvariantDiscards == VmInv => RecoveryOnlyDiscards
<1> SUFFICES ASSUME VmInv, NEW i \in DOMAIN Top.tries
             PROVE  LET try == Top.tries[i]
                    IN /\ try.base <= Len(diags) /\ try.stack <= Len(stack)
                       /\ try.fors <= Len(Top.fors) /\ try.idxs <= Len(Top.idxs)
                       /\ try.lvals <= Len(lvals) /\ try.switches <= Len(Top.switches)
  BY Zenon DEF RecoveryOnlyDiscards
<1> DEFINE P == Text
           n == Len(frames)
           f == Uppermost(frames)
           try == f.tries[i]
<1>1. /\ frames \in Seq(Frames) /\ frames # <<>> /\ lvals \in Seq(Nat) /\ diags \in Seq(Sources)
      /\ f.base <= Len(stack)
  BY Zenon DEF VmInv, Sound
<1>2. n \in Nat /\ n >= 1 /\ f \in Frames /\ Top = f
  BY <1>1, FramesTop, Zenon DEF Top
<1>3. PICK M \in Seq(Nat) : Chain(P, frames, lvals, M)
  BY Zenon DEF VmInv, Sound
<1> DEFINE m == M[n]
<1>4. FrameOK(P, f, m) /\ Mark(lvals, n, m)
  <2>1. \A d \in 1 .. n : FrameOK(P, frames[d], M[d]) /\ Mark(lvals, d, M[d])
    BY <1>3, Zenon DEF Chain
  <2>2. n \in 1 .. n
    BY <1>2
  <2> QED BY <2>1, <2>2, Zenon DEF Uppermost
<1>5. i \in DOMAIN f.tries
  BY <1>2, Zenon
<1> HIDE DEF P, n, f, m
<1>6. /\ try = GuardAt(P, f, m, try.begin)
      /\ try.fors <= Len(f.fors) /\ try.switches <= Len(f.switches)
  BY <1>4, <1>5, Zenon DEF FrameOK, Formed, GuardOK, Bounded
<1> DEFINE b == try.begin
<1> HIDE DEF try, b
<1>7. try = GuardAt(P, f, m, b)
  BY <1>6, Zenon DEF b
<1>8. try.base = 0 /\ try.stack = f.base /\ try.idxs = 0 /\ try.lvals = m
  BY ONLY <1>7 DEF GuardAt
<1>9. m <= Len(lvals)
  BY <1>1, <1>4, LenProperties DEF Mark
<1>10. 0 <= Len(diags) /\ 0 <= Len(f.idxs)
  <2>1. Len(diags) \in Nat
    BY <1>1, LenProperties
  <2>2. f.idxs \in Seq(Nat)
    BY <1>2 DEF Frames
  <2>3. Len(f.idxs) \in Nat
    BY <2>2, LenProperties
  <2> QED BY <2>1, <2>3
<1>11. f.base <= Len(stack)
  BY <1>1, Zenon DEF f
<1> QED BY <1>2, <1>6, <1>8, <1>9, <1>10, <1>11, Zenon DEF try

LEMMA InvariantFaultless == VmInv => RunsWithoutFault
<1> SUFFICES ASSUME VmInv PROVE RunsWithoutFault
  OBVIOUS
<1>1. diags \in Seq(Sources) /\ exception \in Sources \cup {NoDiag}
  BY Zenon DEF VmInv, Sound
<1>2. \A d \in Sources : d[1] # <<>> \/ d = StopDiag
  BY Zenon DEF Sources
<1>3. ASSUME NEW i \in DOMAIN diags PROVE diags[i][1] # <<>> \/ diags[i] = StopDiag
  <2>1. i \in 1 .. Len(diags)
    BY <1>1, LenProperties
  <2>2. diags[i] \in Sources
    BY <1>1, <2>1, ElementOfSeq
  <2> QED BY <1>2, <2>2, Zenon
<1>4. exception[1] # <<>> \/ exception \in {NoDiag, StopDiag}
  BY <1>1, <1>2, Zenon
<1> QED BY <1>3, <1>4, Zenon DEF RunsWithoutFault

(* In every accepted program, at every instruction the machine reaches, its   *)
(* operands and contexts are those the verifier found (Verified), recovery    *)
(* only cuts back, and the machine's own diagnostics never appear.            *)
THEOREM MachineRunsAsVerified == VmSpec => []RunsAsVerified
<1>1. VmInv => RunsAsVerified
  BY InvariantMatches, InvariantDiscards, InvariantFaultless, Zenon DEF RunsAsVerified
<1> QED BY <1>1, VmSound, PTL

-----------------------------------------------------------------------------
(* After a stop only the ends of frames remain: the frame below takes over    *)
(* where it stands.                                                           *)
StandsStill == /\ exception' = exception
               /\ Len(frames') <= Len(frames)
               /\ \A i \in DOMAIN frames' : frames'[i].pc = frames[i].pc

LEMMA ShortenedStill ==
  ASSUME frames \in Seq(Frames), NEW fs \in Seq(Frames), fs # <<>>, fs = Front(frames),
         frames # <<>>, NEW h \in Frames, h.pc = Uppermost(fs).pc,
         frames' = Append(Front(fs), h), exception' = exception
  PROVE  StandsStill
<1> DEFINE k == Len(fs)
           gs == Append(Front(fs), h)
<1>1. /\ k \in Nat /\ k >= 1 /\ gs \in Seq(Frames) /\ Len(gs) = k
      /\ gs[k] = h /\ \A i \in 1 .. k - 1 : gs[i] = fs[i]
  <2>1. fs \in Seq(Frames) /\ fs # <<>> /\ h \in Frames
    OBVIOUS
  <2> QED BY ONLY <2>1, TopSeq
<1>2. /\ Len(frames) \in Nat /\ k = Len(frames) - 1
      /\ \A i \in 1 .. Len(frames) - 1 : fs[i] = frames[i]
  BY FrontLength
<1>3. Uppermost(fs) = fs[k]
  BY DEF Uppermost
<1> HIDE DEF gs, k
<1>4. Len(gs) <= Len(frames) /\ DOMAIN gs = 1 .. k
  BY <1>1, <1>2, LenProperties
<1>5. ASSUME NEW i \in 1 .. k PROVE gs[i].pc = frames[i].pc
  <2>1. fs[i] = frames[i]
    BY <1>1, <1>2
  <2>2. CASE i = k
    BY <1>1, <1>3, <2>1, <2>2, Zenon
  <2>3. CASE i # k
    <3>1. i \in 1 .. k - 1
      BY <1>1, <2>3
    <3> QED BY <1>1, <2>1, <3>1, Zenon
  <2> QED BY <2>2, <2>3
<1> QED BY <1>4, <1>5, Zenon DEF StandsStill, gs

LEMMA DefaultStandsStill ==
  ASSUME NEW P, NEW M, NEW n, NEW m, NEW f, Over(P, M, n, m, f), FinishDefault
  PROVE  StandsStill
<1>1. f.kind # "script"
  BY Zenon DEF FinishDefault, Ended, Over
<1>2. PICK fs, N, c, k : Called(P, fs, N, n, m, f, c, k)
  BY <1>1, CallerOf, Zenon
<1>3. frames \in Seq(Frames) /\ frames # <<>>
  BY Zenon DEF Over
<1>4. /\ Caller = c /\ c \in Frames /\ fs = Front(frames) /\ fs \in Seq(Frames) /\ fs # <<>>
      /\ Uppermost(fs) = c
  BY <1>2, Zenon DEF Called
<1> DEFINE ds == IF diags = <<>> /\ Depth # Top.base + 1
                 THEN <<Internal("default")>> ELSE diags
           v == ds # <<>>
           h == [c EXCEPT !.done = v]
<1>5. frames' = WithLast(fs, h) /\ exception' = exception
  BY <1>4, Zenon DEF FinishDefault
<1>6. v \in BOOLEAN
  OBVIOUS
<1> HIDE DEF v
<1>7. h \in Frames /\ h.pc = c.pc
  <2> DEFINE g == h
  <2>1. g = [c EXCEPT !.done = v]
    BY Zenon
  <2> HIDE DEF g, h
  <2>2. Same(c, g) /\ g.pc = c.pc
    BY ONLY <1>4, <1>6, <2>1, NewDone
  <2> QED BY <2>2, Zenon DEF Same, g
<1> HIDE DEF h
<1>8. frames' = Append(Front(fs), h)
  <2>1. WithLast(fs, h) = Append(Front(fs), h)
    BY <1>4, <1>7, WithLastIs
  <2> QED BY <1>5, <2>1, Zenon
<1>9. h.pc = Uppermost(fs).pc
  BY <1>4, <1>7, Zenon
<1> QED BY ONLY <1>3, <1>4, <1>5, <1>7, <1>8, <1>9, ShortenedStill

LEMMA ResumeStandsStill ==
  ASSUME NEW P, NEW M, NEW n, NEW m, NEW f, Over(P, M, n, m, f), f.kind # "script", stopped,
         NEW g \in Frames, g.pc = Caller.pc, NEW s, NEW ds, ds # <<>>, ResumeCaller(g, s, ds)
  PROVE  StandsStill
<1>1. PICK fs, N, c, k : Called(P, fs, N, n, m, f, c, k)
  BY CallerOf, Zenon
<1>2. frames \in Seq(Frames) /\ frames # <<>> /\ n = Len(frames)
  BY Zenon DEF Over
<1>3. /\ n >= 2 /\ Caller = c /\ c \in Frames /\ fs = Front(frames) /\ fs \in Seq(Frames)
      /\ fs # <<>> /\ Uppermost(fs) = c
  BY <1>1, Zenon DEF Called
<1> DEFINE rest == SubSeq(frames, 1, Len(frames) - 2)
           h == [g EXCEPT !.done = TRUE]
<1>4. AfterInstruction(rest, g, g.pc + 1, Append(s, 1), lvals, ds)
  BY Zenon DEF ResumeCaller
<1>5. frames' = Append(rest, h) /\ exception' = exception
  <2>1. Settle(rest, g, g.pc + 1, Append(s, 1), lvals, ds)
    BY <1>4, Zenon DEF AfterInstruction, StopAfter
  <2> QED BY <2>1, Zenon DEF Settle
<1>6. Front(fs) = rest
  BY <1>2, <1>3, FrontTwice
<1>7. h \in Frames /\ h.pc = g.pc
  <2>1. Same(g, h) /\ h.pc = g.pc
    BY NewDone
  <2> QED BY <2>1, Zenon DEF Same
<1> HIDE DEF h, rest
<1>8. frames' = Append(Front(fs), h) /\ h.pc = Uppermost(fs).pc
  BY <1>3, <1>5, <1>6, <1>7, Zenon
<1> QED BY ONLY <1>2, <1>3, <1>5, <1>7, <1>8, ShortenedStill

LEMMA FinishIndexStill ==
  ASSUME NEW f \in Frames
  PROVE  LET g == FinishIndexContext(f) IN Same(f, g) /\ g.pc = f.pc
<1> DEFINE g == FinishIndexContext(f)
<1>1. CASE f.idxs # <<>>
  BY <1>1, FinishFields
<1>2. CASE f.idxs = <<>>
  <2>1. g = f
    BY <1>2 DEF FinishIndexContext, Frames
  <2> QED BY <2>1 DEF Same
<1> QED BY <1>1, <1>2

LEMMA StoppedStandsStill == VmInv /\ stopped /\ VmNext => StandsStill \/ UNCHANGED vmVars
<1> SUFFICES ASSUME VmInv, stopped, VmNext PROVE StandsStill \/ UNCHANGED vmVars
  OBVIOUS
<1>1. ~Running
  <2>1. diags # <<>> /\ frames \in Seq(Frames) /\ frames # <<>> /\ Uppermost(frames).done
    BY Zenon DEF VmInv, Sound
  <2>2. Top = Uppermost(frames)
    BY <2>1, FramesTop, Zenon DEF Top
  <2> QED BY <2>1, <2>2, Zenon DEF Running
<1>2. PICK P, M, n, m, f : Over(P, M, n, m, f)
  BY <1>1, EndedTop, Zenon
<1>3. /\ Top = f /\ diags # <<>> /\ frames \in Seq(Frames)
  BY <1>2, Zenon DEF Over
<1>4. ASSUME f.kind # "script" PROVE Caller \in Frames
  <2>1. PICK fs, N, c, k : Called(P, fs, N, n, m, f, c, k)
    BY <1>2, <1>4, CallerOf, Zenon
  <2> QED BY <2>1, Zenon DEF Called
<1>5. FinishDefault \/ FinishFunction \/ FinishAnonymous \/ Terminated
  <2>1. \A op : ~At(op)
    BY <1>1, Zenon DEF At
  <2>2. ~(Operate \/ Transfer \/ Loop)
    BY <2>1, Zenon DEF Operate, Transfer, Loop, StoreName, BinaryOp, MakeFunctionHandle, Jump,
       JumpIfFalse, Return, SkipBoundary, BeginFor, NextFor, BreakLoop, ContinueLoop
  <2>3. ~(Select \/ Guarded \/ Address)
    BY <2>1, Zenon DEF Select, Guarded, Address, SwitchBegin, SwitchCase, SwitchOtherwise,
       SwitchEnd, TryBegin, TryEnd, BeginIndexContext, BeginIndexArgument, BeginLvalue,
       BeginLvalueIndexContext, LvalueDescendMember
  <2>4. \A out : ~Evaluate(out)
    BY <2>1, Zenon DEF Evaluate, LoadName, StorePathIndex
  <2>5. ~(CallFunction \/ CallAnonymous \/ StopBefore)
    BY <2>1, Zenon DEF CallFunction, CallAnonymous, StopBefore
  <2> QED BY <2>2, <2>3, <2>4, <2>5, Zenon DEF VmNext, Machine, Call
<1>6. CASE FinishDefault
  BY <1>2, <1>6, DefaultStandsStill
<1>7. CASE FinishFunction
  <2>1. f.kind # "script" /\ ResumeCaller(Caller, stack, diags)
    BY <1>3, <1>7, Zenon DEF FinishFunction, Ended
  <2> QED BY <1>2, <1>3, <1>4, <2>1, ResumeStandsStill
<1>8. CASE FinishAnonymous
  <2> DEFINE g == FinishIndexContext(Caller)
             s == Resize(stack, Top.base, 0)
  <2>1. f.kind # "script" /\ ResumeCaller(g, s, diags)
    BY <1>3, <1>8, Zenon DEF FinishAnonymous, Ended
  <2>2. Caller \in Frames
    BY <1>4, <2>1
  <2>3. Same(Caller, g) /\ g.pc = Caller.pc
    BY <2>2, FinishIndexStill
  <2>4. g \in Frames
    BY <2>3, Zenon DEF Same
  <2> HIDE DEF g, s
  <2> QED BY <1>2, <1>3, <2>1, <2>3, <2>4, ResumeStandsStill
<1>9. CASE Terminated
  BY <1>9, Zenon DEF Terminated
<1> QED BY <1>5, <1>6, <1>7, <1>8, <1>9

(* Once a run is stopped, no catch binds an exception and no frame goes on:   *)
(* every frame that is left stays at the instruction it had reached.          *)
THEOREM StopStaysUncaught == VmSpec => StopIsNotCaught
<1> DEFINE Uncaught == [stopped => /\ exception' = exception
                                   /\ Len(frames') <= Len(frames)
                                   /\ \A i \in DOMAIN frames' : frames'[i].pc = frames[i].pc]_vmVars
<1>1. VmInv /\ [VmNext]_vmVars => Uncaught
  BY StoppedStandsStill, Zenon DEF StandsStill
<1> QED BY <1>1, VmSound, PTL DEF VmSpec, StopIsNotCaught

=============================================================================
