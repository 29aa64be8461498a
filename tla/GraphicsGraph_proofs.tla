----------------------- MODULE GraphicsGraph_proofs -----------------------
(***************************************************************************)
(* The graphics graph stays sound, and the names a script gave its lines   *)
(* survive, whatever calls come: proved for any number of nodes and calls. *)
(*                                                                         *)
(* A table is Sound when every node hangs below its parent once (Placed),  *)
(* every reference leads to a live node of the right kind (Refers), a      *)
(* legend lists lines, of its own axes unless it was given a subset        *)
(* (Lists), and no axes has two legends (OneLegend).  Good adds what no    *)
(* operation may break half way: identifiers below the next one, a legend  *)
(* that stands beside its axes (Beside) and has one (Owned).  Each         *)
(* operation of the graph is shown to keep Good and to follow on from the  *)
(* graph before it with the names it does not write; the builtins are      *)
(* compositions of those operations.                                       *)
(***************************************************************************)
EXTENDS GraphicsGraph, TLAPS, WellFoundedInduction, FiniteSetTheorems, SequenceTheorems

-----------------------------------------------------------------------------
(* Lists picked by their positions.                                         *)
Increasing(s) == \A i, j \in DOMAIN s : i < j => s[i] < s[j]
Values(s) == {s[i] : i \in DOMAIN s}

Scan(set, n, f) ==
  f = [i \in 0 .. n |-> IF i = 0 THEN <<>>
                        ELSE IF i \in set THEN Append(f[i - 1], i) ELSE f[i - 1]]

LEMMA LeastNumber ==
  ASSUME NEW S \in SUBSET Nat, S # {}
  PROVE  \E n \in S : \A m \in S : n <= m
<1>1. IsWellFoundedOn(OpToRel(<, Nat), Nat)
  BY NatLessThanWellFounded, Zenon
<1>2. PICK n \in S : \A m \in S : ~(<<m, n>> \in OpToRel(<, Nat))
  <2> DEFINE R == OpToRel(<, Nat)
  <2> HIDE DEF R
  <2>1. IsWellFoundedOn(R, Nat)
    BY <1>1, Zenon DEF R
  <2>2. \E n \in S : \A m \in S : ~(<<m, n>> \in R)
    BY <2>1, WFMin
  <2> QED BY <2>2, Zenon DEF R
<1>3. \A m \in S : n <= m
  <2> SUFFICES ASSUME NEW m \in S, m < n PROVE FALSE
    <3>1. n \in Nat /\ \A m \in S : m \in Nat
      BY <1>2
    <3> QED BY <3>1
  <2>1. <<m, n>> \in OpToRel(<, Nat)
    BY <1>2, Zenon DEF OpToRel
  <2> QED BY <1>2, <2>1, Zenon
<1> QED BY <1>2, <1>3

LEMMA ScanExists == ASSUME NEW set PROVE \A n \in Nat : \E f : Scan(set, n, f)
<1> DEFINE Lacking == {n \in Nat : ~ \E f : Scan(set, n, f)}
<1> SUFFICES ASSUME Lacking # {} PROVE FALSE
  OBVIOUS
<1> HIDE DEF Lacking
<1>1. PICK n \in Lacking : \A m \in Lacking : n <= m
  <2>1. Lacking \in SUBSET Nat
    BY DEF Lacking
  <2> QED BY <2>1, LeastNumber
<1>2. n \in Nat /\ ~ \E f : Scan(set, n, f)
  BY <1>1 DEF Lacking
<1>3. CASE n = 0
  <2>1. Scan(set, 0, [i \in 0 .. 0 |-> <<>>])
    BY DEF Scan
  <2> QED BY <1>2, <1>3, <2>1
<1>4. CASE n # 0
  <2>1. n - 1 \in Nat /\ n - 1 \notin Lacking
    BY <1>1, <1>2, <1>4
  <2>2. PICK f : Scan(set, n - 1, f)
    BY <2>1 DEF Lacking
  <2> DEFINE g == [i \in 0 .. n |-> IF i = n THEN IF n \in set THEN Append(f[n - 1], n) ELSE f[n - 1]
                                    ELSE f[i]]
  <2>3. \A i \in 0 .. n - 1 : f[i] = IF i = 0 THEN <<>>
                                     ELSE IF i \in set THEN Append(f[i - 1], i) ELSE f[i - 1]
    BY <2>2, <1>2, <2>1 DEF Scan
  <2>4. \A i \in 0 .. n - 1 : g[i] = f[i]
    BY <1>2
  <2>5. g[n] = IF n \in set THEN Append(g[n - 1], n) ELSE g[n - 1]
    BY <1>2, <1>4, <2>4
  <2>6. \A i \in 0 .. n : g[i] = IF i = 0 THEN <<>>
                                 ELSE IF i \in set THEN Append(g[i - 1], i) ELSE g[i - 1]
    BY <2>3, <2>4, <2>5, <1>2, <1>4
  <2>7. g = [i \in 0 .. n |-> g[i]]
    OBVIOUS
  <2> HIDE DEF g
  <2>8. Scan(set, n, g)
    BY <2>6, <2>7 DEF Scan
  <2> QED BY <1>2, <2>8
<1> QED BY <1>3, <1>4

LEMMA AppendLonger ==
  ASSUME NEW n \in Nat, NEW p \in Seq(1 .. n), NEW i \in 1 .. n, \A j \in DOMAIN p : p[j] < i,
         Increasing(p)
  PROVE  /\ Append(p, i) \in Seq(1 .. n)
         /\ Increasing(Append(p, i))
         /\ Values(Append(p, i)) = Values(p) \cup {i}
<1> DEFINE q == Append(p, i)
           m == Len(p)
<1>1. /\ q \in Seq(1 .. n) /\ q[m + 1] = i
      /\ \A j \in 1 .. m : q[j] = p[j]
      /\ DOMAIN p = 1 .. m /\ DOMAIN q = 1 .. m + 1 /\ m \in Nat
      /\ \A j \in 1 .. m : p[j] \in 1 .. n
  OBVIOUS
<1> HIDE DEF q, m
<1>2. \A j \in 1 .. m + 1 : j \in 1 .. m \/ j = m + 1
  BY <1>1
<1>3. \A j, k \in 1 .. m + 1 : j < k => j \in 1 .. m
  BY <1>1
<1>4. \A j, k \in 1 .. m + 1 : j < k => q[j] < q[k]
  BY <1>1, <1>2, <1>3 DEF Increasing
<1>5. Values(q) = Values(p) \cup {i}
  <2>1. \A v : (\E j \in 1 .. m + 1 : q[j] = v) <=> (\E j \in 1 .. m : p[j] = v) \/ v = i
    <3> TAKE v
    <3>1. m + 1 \in 1 .. m + 1 /\ \A j \in 1 .. m : j \in 1 .. m + 1
      BY <1>1
    <3> QED BY <1>1, <1>2, <3>1, Zenon
  <2> QED BY <2>1, <1>1 DEF Values
<1> QED BY <1>1, <1>4, <1>5 DEF Increasing, q

(* The three facts everything else uses of Ascending.                         *)
LEMMA AscendingProperties ==
  ASSUME NEW n \in Nat, NEW set \in SUBSET (1 .. n)
  PROVE  /\ Ascending(set, n) \in Seq(1 .. n)
         /\ Increasing(Ascending(set, n))
         /\ Values(Ascending(set, n)) = set
<1> DEFINE f == CHOOSE f : Scan(set, n, f)
<1>1. Scan(set, n, f)
  BY ScanExists
<1>2. Ascending(set, n) = f[n]
  BY DEF Ascending, Scan
<1> HIDE DEF f
<1>3. \A i \in 0 .. n : f[i] = IF i = 0 THEN <<>>
                               ELSE IF i \in set THEN Append(f[i - 1], i) ELSE f[i - 1]
  BY <1>1 DEF Scan
<1>0. \A k \in set : k \in 1 .. n /\ k \in Int
  OBVIOUS
<1> DEFINE Right(i) == /\ f[i] \in Seq(1 .. n)
                       /\ Increasing(f[i])
                       /\ Values(f[i]) = {k \in set : k <= i}
           Wrong == {i \in 0 .. n : ~Right(i)}
<1>4. Wrong = {}
  <2> SUFFICES ASSUME Wrong # {} PROVE FALSE
    OBVIOUS
  <2>1. PICK i \in Wrong : \A m \in Wrong : i <= m
    <3>1. Wrong \in SUBSET Nat
      OBVIOUS
    <3> HIDE DEF Wrong
    <3> QED BY <3>1, LeastNumber
  <2>2. i \in 0 .. n /\ ~Right(i)
    BY <2>1
  <2>3. CASE i = 0
    <3>1. f[0] = <<>>
      BY <1>3
    <3>3. \A k \in set : ~(k <= 0)
      BY <1>0
    <3>2. {k \in set : k <= 0} = {}
      BY <3>3
    <3>4. <<>> \in Seq(1 .. n) /\ Increasing(<<>>) /\ Values(<<>>) = {}
      BY DEF Increasing, Values
    <3>5. f[i] = <<>>
      BY <3>1, <2>3
    <3>6. Right(i)
      BY <3>2, <3>4, <3>5, <2>3
    <3> QED BY <3>6, <2>2
  <2>4. CASE i # 0
    <3>1. i - 1 \in 0 .. n /\ i - 1 \notin Wrong
      <4>1. i \in Nat /\ i - 1 \in 0 .. n /\ ~(i <= i - 1)
        BY <2>2, <2>4
      <4> HIDE DEF Wrong
      <4> QED BY <4>1, <2>1
    <3>5. Right(i - 1)
      BY <3>1
    <3> DEFINE p == f[i - 1]
    <3>2. p \in Seq(1 .. n) /\ Increasing(p) /\ Values(p) = {k \in set : k <= i - 1}
      BY <3>5
    <3> HIDE DEF p
    <3>3. CASE i \notin set
      <4>1. f[i] = p
        BY <1>3, <2>2, <2>4, <3>3 DEF p
      <4>2. \A k \in set : k <= i - 1 <=> k <= i
        BY <1>0, <2>2, <3>3
      <4>3. {k \in set : k <= i - 1} = {k \in set : k <= i}
        BY <4>2
      <4> QED BY <2>2, <3>2, <4>1, <4>3
    <3>4. CASE i \in set
      <4>1. f[i] = Append(p, i)
        BY <1>3, <2>2, <2>4, <3>4 DEF p
      <4>2. \A j \in DOMAIN p : p[j] \in Values(p)
        BY DEF Values
      <4>3. \A j \in DOMAIN p : p[j] < i
        BY <3>2, <4>2, <2>2
      <4>4. {k \in set : k <= i} = {k \in set : k <= i - 1} \cup {i}
        <5>1. \A k \in set : k <= i <=> k <= i - 1 \/ k = i
          BY <1>0, <2>2
        <5> QED BY <5>1, <3>4
      <4>5. /\ Append(p, i) \in Seq(1 .. n) /\ Increasing(Append(p, i))
            /\ Values(Append(p, i)) = Values(p) \cup {i}
        BY <3>2, <3>4, <4>3, AppendLonger
      <4> QED BY <2>2, <3>2, <4>1, <4>4, <4>5
    <3> QED BY <3>3, <3>4
  <2> QED BY <2>3, <2>4
<1>5. Right(n)
  BY <1>4
<1>6. {k \in set : k <= n} = set
  <2>1. \A k \in set : k <= n
    BY <1>0
  <2> QED BY <2>1
<1> QED BY <1>2, <1>5, <1>6

Once(s) == \A i, j \in DOMAIN s : s[i] = s[j] => i = j

LEMMA PickedOf ==
  ASSUME NEW E, NEW s \in Seq(E), NEW indices \in SUBSET DOMAIN s
  PROVE  /\ Picked(s, indices) \in Seq(E)
         /\ ToSet(Picked(s, indices)) = {s[i] : i \in indices}
         /\ Once(s) => Once(Picked(s, indices))
<1> DEFINE order == Ascending(indices, Len(s))
<1>1. Len(s) \in Nat /\ DOMAIN s = 1 .. Len(s)
  OBVIOUS
<1>2. order \in Seq(1 .. Len(s)) /\ Values(order) = indices /\ Increasing(order)
  BY <1>1, AscendingProperties
<1>3. Picked(s, indices) = [k \in DOMAIN order |-> s[order[k]]]
  BY DEF Picked
<1> HIDE DEF order
<1>4. Len(order) \in Nat /\ DOMAIN order = 1 .. Len(order) /\ \A k \in DOMAIN order : order[k] \in DOMAIN s
  BY <1>1, <1>2
<1> DEFINE p == Picked(s, indices)
<1>5. DOMAIN p = DOMAIN order /\ \A k \in DOMAIN order : p[k] = s[order[k]]
  BY <1>3
<1>6. p \in Seq(E)
  BY <1>3, <1>4
<1> HIDE DEF p
<1>7. ToSet(p) = {s[i] : i \in indices}
  <2>1. \A k \in DOMAIN order : order[k] \in indices
    BY <1>2 DEF Values
  <2>2. \A i \in indices : \E k \in DOMAIN order : order[k] = i
    BY <1>2 DEF Values
  <2> QED BY <2>1, <2>2, <1>5 DEF ToSet
<1>8. ASSUME Once(s) PROVE Once(p)
  <2> SUFFICES ASSUME NEW k \in DOMAIN order, NEW m \in DOMAIN order, p[k] = p[m] PROVE k = m
    BY <1>5 DEF Once
  <2>1. order[k] = order[m]
    BY <1>4, <1>5, <1>8 DEF Once
  <2>2. order[k] \in Nat /\ order[m] \in Nat /\ k \in Nat /\ m \in Nat
    BY <1>4, <1>1
  <2>3. ~(k < m) /\ ~(m < k)
    BY <2>1, <2>2, <1>2 DEF Increasing
  <2> QED BY <2>2, <2>3
<1> QED BY <1>6, <1>7, <1>8 DEF p

LEMMA OutsideOf ==
  ASSUME NEW s \in Seq(Nat), NEW gone
  PROVE  /\ Outside(s, gone) \in Seq(Nat)
         /\ ToSet(Outside(s, gone)) = ToSet(s) \ gone
         /\ Once(s) => Once(Outside(s, gone))
         /\ s = <<>> => Outside(s, gone) = <<>>
<1> DEFINE indices == {i \in DOMAIN s : s[i] \notin gone}
<1>1. indices \in SUBSET DOMAIN s
  OBVIOUS
<1>2. Outside(s, gone) = Picked(s, indices)
  BY DEF Outside
<1>3. {s[i] : i \in indices} = ToSet(s) \ gone
  BY DEF ToSet
<1> HIDE DEF indices
<1>4. /\ Picked(s, indices) \in Seq(Nat)
      /\ ToSet(Picked(s, indices)) = {s[i] : i \in indices}
      /\ Once(s) => Once(Picked(s, indices))
  BY <1>1, PickedOf
<1>5. ASSUME s = <<>> PROVE Outside(s, gone) = <<>>
  <2>1. ToSet(s) = {}
    BY <1>5 DEF ToSet
  <2>2. ToSet(Outside(s, gone)) = {}
    BY <2>1, <1>2, <1>3, <1>4
  <2> DEFINE x == Outside(s, gone)
  <2>3. x \in Seq(Nat) /\ ToSet(x) = {}
    BY <2>2, <1>2, <1>4
  <2> HIDE DEF x
  <2>4. Len(x) \in Nat /\ DOMAIN x = 1 .. Len(x)
    BY <2>3
  <2>5. Len(x) = 0
    <3>1. ASSUME 1 \in DOMAIN x PROVE FALSE
      <4>1. x[1] \in ToSet(x)
        BY <3>1 DEF ToSet
      <4> QED BY <4>1, <2>3
    <3> QED BY <3>1, <2>4
  <2>6. x = <<>>
    BY <2>3, <2>5
  <2> QED BY <2>6 DEF x
<1> QED BY <1>2, <1>3, <1>4, <1>5

LEMMA AppendOf ==
  ASSUME NEW s \in Seq(Nat), NEW e \in Nat
  PROVE  /\ Append(s, e) \in Seq(Nat)
         /\ ToSet(Append(s, e)) = ToSet(s) \cup {e}
         /\ Once(s) /\ e \notin ToSet(s) => Once(Append(s, e))
         /\ Append(s, e) # <<>>
<1> DEFINE t == Append(s, e)
           n == Len(s)
<1>1. /\ n \in Nat /\ DOMAIN s = 1 .. n /\ DOMAIN t = 1 .. n + 1 /\ t[n + 1] = e
      /\ \A i \in 1 .. n : t[i] = s[i]
      /\ t \in Seq(Nat)
  OBVIOUS
<1> HIDE DEF t, n
<1>2. \A i : i \in 1 .. n + 1 <=> i \in 1 .. n \/ i = n + 1
  BY <1>1
<1>3. ToSet(t) = ToSet(s) \cup {e}
  BY <1>1, <1>2 DEF ToSet
<1>4. ASSUME Once(s), e \notin ToSet(s) PROVE Once(t)
  <2>1. \A i \in 1 .. n : s[i] # e
    BY <1>1, <1>4 DEF ToSet
  <2> QED BY <1>1, <1>2, <1>4, <2>1 DEF Once
<1>5. t # <<>>
  BY <1>1
<1> QED BY <1>1, <1>3, <1>4, <1>5 DEF t

LEMMA MinOf ==
  ASSUME NEW S \in SUBSET Nat, S # {}
  PROVE  Min(S) \in S
BY LeastNumber DEF Min

LEMMA MaxOf ==
  ASSUME NEW n \in Nat, NEW S \in SUBSET (0 .. n), S # {}
  PROVE  Max(S) \in S
<1> DEFINE R == {n - i : i \in S}
<1>1. R \in SUBSET Nat /\ R # {}
  OBVIOUS
<1>2. PICK r \in R : \A m \in R : r <= m
  BY <1>1, LeastNumber
<1>3. PICK k \in S : r = n - k
  OBVIOUS
<1>4. \A i \in S : k >= i
  <2>1. \A i \in S : n - k <= n - i
    BY <1>2, <1>3
  <2> QED BY <2>1
<1> QED BY <1>3, <1>4 DEF Max

(* nextLegendName finds a name.                                             *)
LEMMA UnusedIsNumber ==
  ASSUME NEW taken, IsFiniteSet(taken)
  PROVE  FirstUnused(taken) \in Nat \ {0} /\ FirstUnused(taken) \notin taken
<1> DEFINE n == Cardinality(taken) + 1
           S == {m \in 1 .. n : m \notin taken}
<1>1. Cardinality(taken) \in Nat
  BY FS_CardinalityType
<1>2. S # {}
  <2> SUFFICES ASSUME S = {} PROVE FALSE
    OBVIOUS
  <2>1. 1 .. n \subseteq taken
    OBVIOUS
  <2>2. Cardinality(1 .. n) <= Cardinality(taken)
    BY <2>1, FS_Subset
  <2>3. Cardinality(1 .. n) = n
    BY <1>1, FS_Interval
  <2> QED BY <2>2, <2>3, <1>1
<1>3. PICK m \in S : \A k \in S : m <= k
  <2>1. S \in SUBSET Nat
    OBVIOUS
  <2> HIDE DEF S
  <2> QED BY <2>1, <1>2, LeastNumber
<1>4. m \in 1 .. n /\ m \notin taken /\ \A k \in 1 .. (m - 1) : k \in taken
  BY <1>3, <1>1
<1>5. \E k \in 1 .. n : k \notin taken /\ \A l \in 1 .. (k - 1) : l \in taken
  BY <1>4
<1>6. FirstUnused(taken) \in 1 .. n /\ FirstUnused(taken) \notin taken
  BY <1>5 DEF FirstUnused
<1> QED BY <1>6, <1>1

-----------------------------------------------------------------------------
(* The parts of the invariant, and what keeps them.                         *)
Kinds == {"Figure", "Axes", "Legend", "Line", "Text"}

Nodes == [kind : Kinds, parent : Nat, children : Seq(Nat), axes : Nat, label : Nat,
          owner : Nat, lines : Seq(Nat), explicit : BOOLEAN, auto : BOOLEAN,
          name : Nat, generated : Nat, hold : BOOLEAN]

Placed(T) ==
  \A id \in DOMAIN T :
    /\ T[id].kind = "Figure" => T[id].parent = 0
    /\ T[id].kind # "Figure" => /\ T[id].parent \in Kind(T, ParentKind(T[id].kind))
                                /\ id \in ToSet(T[T[id].parent].children)
    /\ \A child \in ToSet(T[id].children) : child \in DOMAIN T /\ T[child].parent = id
    /\ Once(T[id].children)

Refers(T) ==
  \A id \in DOMAIN T :
    /\ T[id].axes # 0 => T[id].axes \in Kind(T, "Axes") /\ T[T[id].axes].parent = id
    /\ T[id].label # 0 => T[id].label \in Kind(T, "Text") /\ T[T[id].label].parent = id
    /\ T[id].owner # 0 => T[id].kind = "Legend" /\ T[id].owner \in Kind(T, "Axes")
    /\ T[id].generated # 0 => T[id].generated \in Kind(T, "Legend")

Lists(T) ==
  \A id \in DOMAIN T :
    /\ T[id].kind # "Legend" => T[id].lines = <<>>
    /\ ToSet(T[id].lines) \subseteq Kind(T, "Line")
    /\ ~T[id].explicit => \A line \in ToSet(T[id].lines) : T[line].parent = T[id].owner

OneLegend(T) ==
  \A id, other \in DOMAIN T : T[id].owner # 0 /\ T[other].owner = T[id].owner => other = id

Beside(T) == \A id \in DOMAIN T : T[id].owner # 0 => T[T[id].owner].parent = T[id].parent

Owned(T) == \A id \in DOMAIN T : T[id].kind = "Legend" => T[id].owner # 0

Table(T) == DOMAIN T \subseteq Nat \ {0} /\ T \in [DOMAIN T -> Nodes]

Sound(T) == Table(T) /\ Placed(T) /\ Refers(T) /\ Lists(T) /\ OneLegend(T)

-----------------------------------------------------------------------------
(* Nodes that differ in what they show only.                                *)
SameTree(T, U) ==
  /\ DOMAIN U = DOMAIN T /\ U \in [DOMAIN U -> Nodes]
  /\ \A id \in DOMAIN T :
       /\ U[id].kind = T[id].kind /\ U[id].parent = T[id].parent /\ U[id].children = T[id].children
       /\ U[id].owner = T[id].owner
       /\ \/ U[id].axes \in {0, T[id].axes}
          \/ U[id].axes \in Kind(T, "Axes") /\ T[U[id].axes].parent = id
       /\ \/ U[id].label \in {0, T[id].label}
          \/ U[id].label \in Kind(T, "Text") /\ T[U[id].label].parent = id
       /\ U[id].generated # 0 => U[id].generated \in Kind(T, "Legend")

SameLists(T, U) ==
  \A id \in DOMAIN T : U[id].lines = T[id].lines /\ U[id].explicit = T[id].explicit

LEMMA SameKinds ==
  ASSUME NEW T, NEW U, SameTree(T, U), NEW kind
  PROVE  Kind(U, kind) = Kind(T, kind)
BY DEF SameTree, Kind

LEMMA SameTreeSound ==
  ASSUME NEW T, NEW U, Sound(T), SameTree(T, U), Lists(U)
  PROVE  Sound(U) /\ (Beside(T) => Beside(U)) /\ (Owned(T) => Owned(U))
<1>1. /\ DOMAIN U = DOMAIN T /\ Table(U)
      /\ \A id \in DOMAIN T :
           /\ U[id].kind = T[id].kind /\ U[id].parent = T[id].parent /\ U[id].children = T[id].children
           /\ U[id].owner = T[id].owner
           /\ \/ U[id].axes \in {0, T[id].axes}
              \/ U[id].axes \in Kind(T, "Axes") /\ T[U[id].axes].parent = id
           /\ \/ U[id].label \in {0, T[id].label}
              \/ U[id].label \in Kind(T, "Text") /\ T[U[id].label].parent = id
           /\ U[id].generated # 0 => U[id].generated \in Kind(T, "Legend")
  BY DEF SameTree, Table, Sound
<1>2. \A id, kind : id \in Kind(U, kind) <=> id \in Kind(T, kind)
  BY SameKinds
<1>3. Placed(U)
  <2>1. Placed(T)
    BY DEF Sound
  <2>2. \A id \in DOMAIN T : T[id].kind # "Figure" => T[id].parent \in DOMAIN T
    BY <2>1 DEF Placed, Kind
  <2> SUFFICES ASSUME NEW id \in DOMAIN U
               PROVE  /\ U[id].kind = "Figure" => U[id].parent = 0
                      /\ U[id].kind # "Figure" => /\ U[id].parent \in Kind(U, ParentKind(U[id].kind))
                                                  /\ id \in ToSet(U[U[id].parent].children)
                      /\ \A child \in ToSet(U[id].children) : child \in DOMAIN U /\ U[child].parent = id
                      /\ Once(U[id].children)
    BY DEF Placed
  <2>3. /\ T[id].kind = "Figure" => T[id].parent = 0
        /\ T[id].kind # "Figure" => /\ T[id].parent \in Kind(T, ParentKind(T[id].kind))
                                    /\ id \in ToSet(T[T[id].parent].children)
        /\ \A child \in ToSet(T[id].children) : child \in DOMAIN T /\ T[child].parent = id
        /\ Once(T[id].children)
    BY <2>1, <1>1 DEF Placed
  <2> QED BY <2>2, <2>3, <1>1, <1>2
<1>4. Refers(U)
  <2>1. Refers(T)
    BY DEF Sound
  <2>2. \A id, kind : id \in Kind(T, kind) => id \in DOMAIN T
    BY DEF Kind
  <2> SUFFICES ASSUME NEW id \in DOMAIN U
               PROVE  /\ U[id].axes # 0 => U[id].axes \in Kind(U, "Axes") /\ U[U[id].axes].parent = id
                      /\ U[id].label # 0 => U[id].label \in Kind(U, "Text") /\ U[U[id].label].parent = id
                      /\ U[id].owner # 0 => U[id].kind = "Legend" /\ U[id].owner \in Kind(U, "Axes")
                      /\ U[id].generated # 0 => U[id].generated \in Kind(U, "Legend")
    BY DEF Refers
  <2>3. /\ T[id].axes # 0 => T[id].axes \in Kind(T, "Axes") /\ T[T[id].axes].parent = id
        /\ T[id].label # 0 => T[id].label \in Kind(T, "Text") /\ T[T[id].label].parent = id
        /\ T[id].owner # 0 => T[id].kind = "Legend" /\ T[id].owner \in Kind(T, "Axes")
    BY <2>1, <1>1 DEF Refers
  <2> QED BY <2>2, <2>3, <1>1, <1>2
<1>5. OneLegend(U)
  BY <1>1 DEF Sound, OneLegend
<1>6. ASSUME Beside(T) PROVE Beside(U)
  <2>1. \A id \in DOMAIN T : T[id].owner # 0 => T[id].owner \in DOMAIN T
    BY DEF Sound, Refers, Kind
  <2> QED BY <2>1, <1>6, <1>1 DEF Beside
<1>7. ASSUME Owned(T) PROVE Owned(U)
  BY <1>7, <1>1 DEF Owned
<1> QED BY <1>1, <1>3, <1>4, <1>5, <1>6, <1>7 DEF Sound

LEMMA SameListsSound ==
  ASSUME NEW T, NEW U, Sound(T), SameTree(T, U), SameLists(T, U)
  PROVE  Sound(U) /\ (Beside(T) => Beside(U)) /\ (Owned(T) => Owned(U))
<1>1. Lists(U)
  <2>1. Lists(T) /\ DOMAIN U = DOMAIN T
    BY DEF Sound, SameTree
  <2>2. Kind(U, "Line") = Kind(T, "Line")
    BY SameKinds
  <2> SUFFICES ASSUME NEW id \in DOMAIN T
               PROVE  /\ U[id].kind # "Legend" => U[id].lines = <<>>
                      /\ ToSet(U[id].lines) \subseteq Kind(U, "Line")
                      /\ ~U[id].explicit => \A line \in ToSet(U[id].lines) : U[line].parent = U[id].owner
    BY <2>1 DEF Lists
  <2>3. /\ T[id].kind # "Legend" => T[id].lines = <<>>
        /\ ToSet(T[id].lines) \subseteq Kind(T, "Line")
        /\ ~T[id].explicit => \A line \in ToSet(T[id].lines) : T[line].parent = T[id].owner
    BY <2>1 DEF Lists
  <2>4. \A line \in ToSet(T[id].lines) : line \in DOMAIN T
    BY <2>3 DEF Kind
  <2>5. U[id].lines = T[id].lines /\ U[id].explicit = T[id].explicit
    BY DEF SameLists
  <2>6. /\ U[id].kind = T[id].kind /\ U[id].owner = T[id].owner
        /\ \A n \in DOMAIN T : U[n].parent = T[n].parent
    BY DEF SameTree
  <2> QED BY <2>2, <2>3, <2>4, <2>5, <2>6
<1> QED BY <1>1, SameTreeSound

-----------------------------------------------------------------------------
(* create.                                                                  *)
Sane(g) ==
  /\ g = [nodes |-> g.nodes, next |-> g.next, figure |-> g.figure]
  /\ g.next \in Nat \ {0} /\ DOMAIN g.nodes \subseteq 1 .. (g.next - 1)
  /\ Sound(g.nodes) /\ Beside(g.nodes)
  /\ g.figure \in Nat /\ (g.figure # 0 => g.figure \in Kind(g.nodes, "Figure"))

Good(g) == Sane(g) /\ Owned(g.nodes)

Follows(g, h) ==
  /\ g.next <= h.next
  /\ \A id \in DOMAIN h.nodes :
       id < g.next =>
         /\ id \in DOMAIN g.nodes /\ h.nodes[id].kind = g.nodes[id].kind
         /\ g.nodes[id].name # 0 /\ g.nodes[id].generated = 0 =>
              h.nodes[id].name = g.nodes[id].name /\ h.nodes[id].generated = 0

Created(g, h, kind, parent) ==
  /\ h.next = g.next + 1 /\ DOMAIN h.nodes = DOMAIN g.nodes \cup {g.next}
  /\ h.nodes[g.next].kind = kind /\ h.nodes[g.next].parent = parent
  /\ h.nodes[g.next].owner = 0 /\ h.nodes[g.next].lines = <<>>
  /\ \A id \in DOMAIN g.nodes :
       /\ h.nodes[id].kind = g.nodes[id].kind /\ h.nodes[id].owner = g.nodes[id].owner
       /\ h.nodes[id].parent = g.nodes[id].parent /\ h.nodes[id].label = g.nodes[id].label
  /\ kind = "Figure" => h.figure = g.next
  /\ kind = "Axes" => h.figure = parent /\ h.nodes[parent].axes = g.next
  /\ kind \notin {"Figure", "Axes"} => h.figure = g.figure

LEMMA NamesFinite ==
  ASSUME NEW T, NEW s \in Seq(Nat)
  PROVE  IsFiniteSet(NamesIn(T, s))
<1> DEFINE f == [i \in 1 .. Len(s) |-> T[s[i]].name]
           names == NamesIn(T, s)
<1>1. DOMAIN s = 1 .. Len(s) /\ Len(s) \in Nat
  OBVIOUS
<1>2. f \in Surjection(1 .. Len(s), names)
  <2>1. \A i \in 1 .. Len(s) : T[s[i]].name \in names
    BY <1>1 DEF NamesIn, ToSet
  <2>2. \A name \in names : \E i \in 1 .. Len(s) : T[s[i]].name = name
    BY <1>1 DEF NamesIn, ToSet
  <2> HIDE DEF names
  <2> QED BY <2>1, <2>2 DEF Surjection
<1>3. IsFiniteSet(1 .. Len(s))
  BY <1>1, FS_Interval
<1> HIDE DEF f, names
<1>4. IsFiniteSet(names)
  BY <1>2, <1>3, FS_Surjection
<1> QED BY <1>4 DEF names

(* The legends of an axes that update themselves: one at most.              *)
LEMMA Updaters ==
  ASSUME NEW T, Sound(T), NEW axes, Updating(T, axes) # {}
  PROVE  /\ Min(Updating(T, axes)) \in DOMAIN T
         /\ T[Min(Updating(T, axes))].kind = "Legend" /\ T[Min(Updating(T, axes))].owner = axes
<1>1. \A id \in Updating(T, axes) : id \in DOMAIN T /\ T[id].kind = "Legend" /\ T[id].owner = axes
  BY DEF Updating, LegendOf, Kind
<1>2. Updating(T, axes) \in SUBSET Nat
  BY <1>1 DEF Sound, Table
<1>3. Min(Updating(T, axes)) \in Updating(T, axes)
  BY <1>2, MinOf
<1> QED BY <1>1, <1>3

LEMMA Creates ==
  ASSUME NEW g, Sane(g), NEW kind \in Kinds, NEW parent,
         \/ kind = "Figure" /\ parent = 0
         \/ kind # "Figure" /\ parent \in Kind(g.nodes, ParentKind(kind))
  PROVE  /\ Sane(Create(g, kind, parent))
         /\ Follows(g, Create(g, kind, parent))
         /\ Created(g, Create(g, kind, parent), kind, parent)
         /\ Owned(g.nodes) /\ kind # "Legend" => Owned(Create(g, kind, parent).nodes)
<1> DEFINE T == g.nodes
           n == g.next
           legends == IF kind = "Line" THEN Updating(T, parent) ELSE {}
           name == FirstUnused(NamesIn(T, T[Min(legends)].lines))
           node == IF legends = {} THEN NewNode(kind, parent)
                   ELSE [NewNode(kind, parent) EXCEPT !.name = name, !.generated = Min(legends)]
           U == [id \in DOMAIN T \cup {n} |->
                   IF id = n THEN node
                   ELSE IF id = parent
                   THEN [T[id] EXCEPT !.children = Append(@, n),
                                      !.axes = IF kind = "Axes" THEN n ELSE @]
                   ELSE IF id \in legends THEN [T[id] EXCEPT !.lines = Append(@, n)]
                   ELSE T[id]]
           f == IF kind = "Figure" THEN n ELSE IF kind = "Axes" THEN parent ELSE g.figure
           h == Create(g, kind, parent)
<1>1. h = [nodes |-> U, next |-> n + 1, figure |-> f]
  BY DEF Create
<1>2. Sound(T) /\ Beside(T) /\ n \in Nat \ {0} /\ DOMAIN T \subseteq 1 .. (n - 1)
  BY DEF Sane
<1>3. /\ Table(T) /\ Placed(T) /\ Refers(T) /\ Lists(T) /\ OneLegend(T)
      /\ \A id \in DOMAIN T : T[id] \in Nodes /\ id \in Nat /\ id # 0 /\ id < n
      /\ n \notin DOMAIN T
  BY <1>2 DEF Sound, Table
<1>4. \A id \in legends : id \in DOMAIN T /\ T[id].kind = "Legend" /\ T[id].owner = parent /\ kind = "Line"
  BY DEF Updating, LegendOf, Kind
<1>5. parent \in Nat /\ (kind # "Figure" => parent \in DOMAIN T /\ T[parent].kind = ParentKind(kind))
  BY <1>3 DEF Kind
<1>6. legends # {} => Min(legends) \in legends
  <2>1. legends \in SUBSET Nat
    BY <1>3, <1>4
  <2> HIDE DEF legends
  <2> QED BY <2>1, MinOf
<1> HIDE DEF legends
<1>7. legends # {} => name \in Nat
  <2> SUFFICES ASSUME legends # {} PROVE name \in Nat
    OBVIOUS
  <2>1. T[Min(legends)].lines \in Seq(Nat)
    BY <1>3, <1>4, <1>6 DEF Nodes
  <2>2. IsFiniteSet(NamesIn(T, T[Min(legends)].lines))
    BY <2>1, NamesFinite
  <2> QED BY <2>2, UnusedIsNumber
<1> HIDE DEF name
<1>8. /\ node \in Nodes
      /\ node.kind = kind /\ node.parent = parent /\ node.children = <<>> /\ node.axes = 0
      /\ node.label = 0 /\ node.owner = 0 /\ node.lines = <<>> /\ node.explicit = FALSE
      /\ node.generated # 0 => node.generated \in legends
  <2>1. NewNode(kind, parent) \in Nodes
    BY <1>5 DEF NewNode, Nodes
  <2>2. /\ NewNode(kind, parent).kind = kind /\ NewNode(kind, parent).parent = parent
        /\ NewNode(kind, parent).children = <<>> /\ NewNode(kind, parent).axes = 0
        /\ NewNode(kind, parent).label = 0 /\ NewNode(kind, parent).owner = 0
        /\ NewNode(kind, parent).lines = <<>> /\ NewNode(kind, parent).explicit = FALSE
        /\ NewNode(kind, parent).generated = 0
    BY DEF NewNode
  <2>3. CASE legends = {}
    BY <2>1, <2>2, <2>3
  <2>4. CASE legends # {}
    <3>1. Min(legends) \in Nat
      BY <2>4, <1>6, <1>4, <1>3
    <3> DEFINE r == NewNode(kind, parent)
               m == Min(legends)
    <3> HIDE DEF r, m
    <3>2. node = [r EXCEPT !.name = name, !.generated = m]
      BY <2>4 DEF r, m
    <3>3. r \in Nodes /\ m \in Nat /\ name \in Nat
      BY <2>1, <3>1, <1>7, <2>4 DEF r, m
    <3>4. node \in Nodes
      BY <3>2, <3>3 DEF Nodes
    <3>5. /\ node.kind = r.kind /\ node.parent = r.parent /\ node.children = r.children
          /\ node.axes = r.axes /\ node.label = r.label /\ node.owner = r.owner
          /\ node.lines = r.lines /\ node.explicit = r.explicit /\ node.generated = m
      BY <3>2, <3>3 DEF Nodes
    <3> QED BY <3>4, <3>5, <2>2, <1>6, <2>4 DEF r, m
  <2> QED BY <2>3, <2>4
<1> HIDE DEF node
<1>9. DOMAIN U = DOMAIN T \cup {n} /\ U[n] = node
  OBVIOUS
<1>10. \A id \in DOMAIN T :
         /\ U[id] \in Nodes
         /\ U[id].kind = T[id].kind /\ U[id].parent = T[id].parent /\ U[id].owner = T[id].owner
         /\ U[id].label = T[id].label /\ U[id].explicit = T[id].explicit
         /\ U[id].name = T[id].name /\ U[id].generated = T[id].generated
         /\ U[id].children = IF id = parent THEN Append(T[id].children, n) ELSE T[id].children
         /\ U[id].axes = IF id = parent /\ kind = "Axes" THEN n ELSE T[id].axes
         /\ U[id].lines = IF id \in legends THEN Append(T[id].lines, n) ELSE T[id].lines
  <2> SUFFICES ASSUME NEW id \in DOMAIN T
               PROVE  /\ U[id] \in Nodes
                      /\ U[id].kind = T[id].kind /\ U[id].parent = T[id].parent /\ U[id].owner = T[id].owner
                      /\ U[id].label = T[id].label /\ U[id].explicit = T[id].explicit
                      /\ U[id].name = T[id].name /\ U[id].generated = T[id].generated
                      /\ U[id].children = IF id = parent THEN Append(T[id].children, n) ELSE T[id].children
                      /\ U[id].axes = IF id = parent /\ kind = "Axes" THEN n ELSE T[id].axes
                      /\ U[id].lines = IF id \in legends THEN Append(T[id].lines, n) ELSE T[id].lines
    OBVIOUS
  <2> DEFINE r == T[id]
             u == U[id]
  <2>1. r \in Nodes /\ id # n /\ n \in Nat
    BY <1>3, <1>2
  <2>2. CASE id = parent
    <3>1. u = [r EXCEPT !.children = Append(@, n), !.axes = IF kind = "Axes" THEN n ELSE @]
      BY <2>1, <2>2, <1>9
    <3>2. id \notin legends
      BY <1>4, <1>5, <2>2 DEF ParentKind
    <3>5. Append(r.children, n) \in Seq(Nat) /\ Append(r.lines, n) \in Seq(Nat)
      BY <2>1, AppendOf DEF Nodes
    <3> HIDE DEF u, r
    <3>3. u \in Nodes
      BY <3>1, <3>5, <2>1 DEF Nodes
    <3>4. /\ u.kind = r.kind /\ u.parent = r.parent /\ u.owner = r.owner /\ u.label = r.label
          /\ u.explicit = r.explicit /\ u.name = r.name /\ u.generated = r.generated
          /\ u.children = Append(r.children, n) /\ u.lines = r.lines
          /\ u.axes = IF kind = "Axes" THEN n ELSE r.axes
      BY <3>1, <2>1 DEF Nodes
    <3> QED BY <3>2, <3>3, <3>4, <2>2 DEF u, r
  <2>3. CASE id # parent /\ id \in legends
    <3>1. u = [r EXCEPT !.lines = Append(@, n)]
      BY <2>1, <2>3, <1>9
    <3>5. Append(r.children, n) \in Seq(Nat) /\ Append(r.lines, n) \in Seq(Nat)
      BY <2>1, AppendOf DEF Nodes
    <3> HIDE DEF u, r
    <3>3. u \in Nodes
      BY <3>1, <3>5, <2>1 DEF Nodes
    <3>4. /\ u.kind = r.kind /\ u.parent = r.parent /\ u.owner = r.owner /\ u.label = r.label
          /\ u.explicit = r.explicit /\ u.name = r.name /\ u.generated = r.generated
          /\ u.children = r.children /\ u.lines = Append(r.lines, n) /\ u.axes = r.axes
      BY <3>1, <2>1 DEF Nodes
    <3> QED BY <3>3, <3>4, <2>3 DEF u, r
  <2>4. CASE id # parent /\ id \notin legends
    <3>1. u = r
      BY <2>1, <2>4, <1>9
    <3> QED BY <3>1, <2>1, <2>4
  <2> QED BY <2>2, <2>3, <2>4
<1> HIDE DEF U
<1>11. /\ \A id, k : id \in Kind(U, k) <=> id \in Kind(T, k) \/ (id = n /\ k = kind)
       /\ \A id, k : id \in Kind(T, k) => id \in DOMAIN T
  BY <1>3, <1>8, <1>9, <1>10 DEF Kind
<1>12. Table(U)
  <2>1. \A id \in DOMAIN U : U[id] \in Nodes
    BY <1>8, <1>9, <1>10
  <2>2. U = [id \in DOMAIN U |-> U[id]]
    BY DEF U
  <2>3. DOMAIN U \subseteq Nat \ {0}
    BY <1>2, <1>3, <1>9
  <2> QED BY <2>1, <2>2, <2>3 DEF Table
<1>13. Placed(U)
  <2> SUFFICES ASSUME NEW id \in DOMAIN U
               PROVE  /\ U[id].kind = "Figure" => U[id].parent = 0
                      /\ U[id].kind # "Figure" => /\ U[id].parent \in Kind(U, ParentKind(U[id].kind))
                                                  /\ id \in ToSet(U[U[id].parent].children)
                      /\ \A child \in ToSet(U[id].children) : child \in DOMAIN U /\ U[child].parent = id
                      /\ Once(U[id].children)
    BY DEF Placed
  <2>1. CASE id = n
    <3>1. ToSet(U[n].children) = {} /\ Once(U[n].children)
      BY <1>8, <1>9 DEF ToSet, Once
    <3>2. kind # "Figure" => n \in ToSet(U[parent].children)
      <4>1. ASSUME kind # "Figure" PROVE T[parent].children \in Seq(Nat)
        BY <4>1, <1>5, <1>3 DEF Nodes
      <4> QED BY <4>1, <1>2, <1>5, <1>10, AppendOf
    <3> QED BY <3>1, <3>2, <2>1, <1>8, <1>9, <1>11
  <2>2. CASE id \in DOMAIN T
    <3>1. /\ T[id].kind = "Figure" => T[id].parent = 0
          /\ T[id].kind # "Figure" => /\ T[id].parent \in Kind(T, ParentKind(T[id].kind))
                                      /\ id \in ToSet(T[T[id].parent].children)
          /\ \A child \in ToSet(T[id].children) : child \in DOMAIN T /\ T[child].parent = id
          /\ Once(T[id].children)
      BY <1>3, <2>2 DEF Placed
    <3>2. \A m \in DOMAIN T : T[m].children \in Seq(Nat)
      BY <1>3 DEF Nodes
    <3>3. \A m \in DOMAIN T : ToSet(T[m].children) \subseteq ToSet(U[m].children)
      BY <3>2, <1>2, <1>10, AppendOf
    <3>4. \A child \in ToSet(U[id].children) : child \in ToSet(T[id].children) \/ (child = n /\ id = parent)
      BY <3>2, <2>2, <1>2, <1>10, AppendOf
    <3>5. Once(U[id].children)
      <4>1. n \notin ToSet(T[id].children)
        BY <3>1, <1>3
      <4> QED BY <4>1, <3>1, <3>2, <2>2, <1>2, <1>10, AppendOf
    <3>6. \A child \in ToSet(U[id].children) : child \in DOMAIN U /\ U[child].parent = id
      BY <3>1, <3>4, <1>8, <1>9, <1>10
    <3>7. U[id].kind # "Figure" => /\ U[id].parent \in Kind(U, ParentKind(U[id].kind))
                                   /\ id \in ToSet(U[U[id].parent].children)
      BY <3>1, <3>3, <2>2, <1>10, <1>11
    <3> QED BY <3>1, <3>5, <3>6, <3>7, <2>2, <1>10
  <2> QED BY <2>1, <2>2, <1>9
<1>14. Refers(U)
  <2> SUFFICES ASSUME NEW id \in DOMAIN U
               PROVE  /\ U[id].axes # 0 => U[id].axes \in Kind(U, "Axes") /\ U[U[id].axes].parent = id
                      /\ U[id].label # 0 => U[id].label \in Kind(U, "Text") /\ U[U[id].label].parent = id
                      /\ U[id].owner # 0 => U[id].kind = "Legend" /\ U[id].owner \in Kind(U, "Axes")
                      /\ U[id].generated # 0 => U[id].generated \in Kind(U, "Legend")
    BY DEF Refers
  <2>0. \A m \in legends : m \in Kind(T, "Legend")
    BY <1>4 DEF Kind
  <2>1. CASE id = n
    BY <2>0, <2>1, <1>8, <1>9, <1>11
  <2>2. CASE id \in DOMAIN T
    <3>1. /\ T[id].axes # 0 => T[id].axes \in Kind(T, "Axes") /\ T[T[id].axes].parent = id
          /\ T[id].label # 0 => T[id].label \in Kind(T, "Text") /\ T[T[id].label].parent = id
          /\ T[id].owner # 0 => T[id].kind = "Legend" /\ T[id].owner \in Kind(T, "Axes")
          /\ T[id].generated # 0 => T[id].generated \in Kind(T, "Legend")
      BY <1>3, <2>2 DEF Refers
    <3> QED BY <3>1, <2>2, <1>8, <1>9, <1>10, <1>11
  <2> QED BY <2>1, <2>2, <1>9
<1>15. Lists(U)
  <2> SUFFICES ASSUME NEW id \in DOMAIN U
               PROVE  /\ U[id].kind # "Legend" => U[id].lines = <<>>
                      /\ ToSet(U[id].lines) \subseteq Kind(U, "Line")
                      /\ ~U[id].explicit => \A line \in ToSet(U[id].lines) : U[line].parent = U[id].owner
    BY DEF Lists
  <2>1. CASE id = n
    BY <2>1, <1>8, <1>9 DEF ToSet
  <2>2. CASE id \in DOMAIN T
    <3>1. /\ T[id].kind # "Legend" => T[id].lines = <<>>
          /\ ToSet(T[id].lines) \subseteq Kind(T, "Line")
          /\ ~T[id].explicit => \A line \in ToSet(T[id].lines) : T[line].parent = T[id].owner
      BY <1>3, <2>2 DEF Lists
    <3>2. T[id].lines \in Seq(Nat)
      BY <1>3, <2>2 DEF Nodes
    <3>3. \A line \in ToSet(U[id].lines) : line \in ToSet(T[id].lines) \/ (line = n /\ id \in legends)
      BY <3>2, <2>2, <1>2, <1>10, AppendOf
    <3>4. ToSet(U[id].lines) \subseteq Kind(U, "Line")
      BY <3>1, <3>3, <1>4, <1>11
    <3>5. ~U[id].explicit => \A line \in ToSet(U[id].lines) : U[line].parent = U[id].owner
      BY <3>1, <3>3, <2>2, <1>4, <1>8, <1>9, <1>10, <1>11
    <3> QED BY <3>1, <3>4, <3>5, <2>2, <1>4, <1>10
  <2> QED BY <2>1, <2>2, <1>9
<1>16. OneLegend(U) /\ Beside(U) /\ (Owned(T) /\ kind # "Legend" => Owned(U))
  <2>1. \A id \in DOMAIN T : T[id].owner # 0 => T[id].owner \in DOMAIN T
    BY <1>3 DEF Refers, Kind
  <2>2. OneLegend(U)
    BY <1>3, <1>8, <1>9, <1>10 DEF OneLegend
  <2>3. Beside(U)
    BY <2>1, <1>2, <1>8, <1>9, <1>10 DEF Beside
  <2>4. Owned(T) /\ kind # "Legend" => Owned(U)
    BY <1>8, <1>9, <1>10 DEF Owned
  <2> QED BY <2>2, <2>3, <2>4
<1> HIDE DEF f, h
<1>17. h.nodes = U /\ h.next = n + 1 /\ h.figure = f
  BY <1>1
<1>18. f \in Nat /\ (f # 0 => f \in Kind(U, "Figure"))
  <2>1. kind = "Axes" => parent \in Kind(T, "Figure")
    BY DEF ParentKind
  <2>2. g.figure \in Nat /\ (g.figure # 0 => g.figure \in Kind(T, "Figure"))
    BY DEF Sane
  <2> QED BY <2>1, <2>2, <1>2, <1>5, <1>11 DEF f
<1>19. Sane(h)
  <2>1. DOMAIN U \subseteq 1 .. (n + 1 - 1) /\ n + 1 \in Nat \ {0}
    BY <1>2, <1>9
  <2>2. Sound(U)
    BY <1>12, <1>13, <1>14, <1>15, <1>16 DEF Sound
  <2> QED BY <2>1, <2>2, <1>1, <1>16, <1>17, <1>18 DEF Sane
<1>21. Follows(g, h)
  BY <1>2, <1>3, <1>9, <1>10, <1>17 DEF Follows
<1>22. Created(g, h, kind, parent)
  <2>1. kind = "Axes" => U[parent].axes = n
    BY <1>5, <1>10
  <2> QED BY <2>1, <1>8, <1>9, <1>10, <1>17 DEF Created, f
<1> QED BY <1>16, <1>17, <1>19, <1>21, <1>22 DEF h

-----------------------------------------------------------------------------
(* Nodes that change alone; the figure and axes made when there are none.   *)
LEMMA FollowsOn ==
  ASSUME NEW g, NEW h, NEW k, g.next \in Nat, h.next \in Nat, DOMAIN k.nodes \subseteq Nat,
         Follows(g, h), Follows(h, k), k.next \in Nat
  PROVE  Follows(g, k)
<1>1. g.next <= k.next
  BY DEF Follows
<1>2. ASSUME NEW id \in DOMAIN k.nodes, id < g.next
      PROVE  /\ id \in DOMAIN g.nodes /\ k.nodes[id].kind = g.nodes[id].kind
             /\ g.nodes[id].name # 0 /\ g.nodes[id].generated = 0 =>
                  k.nodes[id].name = g.nodes[id].name /\ k.nodes[id].generated = 0
  <2>1. id < h.next
    BY <1>2 DEF Follows
  <2>2. /\ id \in DOMAIN h.nodes /\ k.nodes[id].kind = h.nodes[id].kind
        /\ h.nodes[id].name # 0 /\ h.nodes[id].generated = 0 =>
             k.nodes[id].name = h.nodes[id].name /\ k.nodes[id].generated = 0
    BY <2>1 DEF Follows
  <2>3. /\ id \in DOMAIN g.nodes /\ h.nodes[id].kind = g.nodes[id].kind
        /\ g.nodes[id].name # 0 /\ g.nodes[id].generated = 0 =>
             h.nodes[id].name = g.nodes[id].name /\ h.nodes[id].generated = 0
    BY <1>2, <2>2 DEF Follows
  <2> QED BY <2>2, <2>3
<1> QED BY <1>1, <1>2 DEF Follows

LEMMA FollowsSane ==
  ASSUME NEW g, NEW h, NEW k, Sane(g), Sane(h), Sane(k), Follows(g, h), Follows(h, k)
  PROVE  Follows(g, k)
<1>1. /\ g.next \in Nat /\ h.next \in Nat /\ k.next \in Nat
      /\ DOMAIN k.nodes \subseteq Nat
  BY DEF Sane
<1> QED BY <1>1, FollowsOn

LEMMA FollowsSelf == ASSUME NEW g, Sane(g) PROVE Follows(g, g)
BY DEF Follows, Sane

SameNames(T, U) ==
  \A id \in DOMAIN T :
    T[id].name # 0 /\ T[id].generated = 0 => U[id].name = T[id].name /\ U[id].generated = 0

NamesBut(T, U, lines) ==
  \A id \in DOMAIN T \ lines :
    T[id].name # 0 /\ T[id].generated = 0 => U[id].name = T[id].name /\ U[id].generated = 0

(* What UserNamesSurvive says of a step from g to h that wrote some names.  *)
NamesKept(g, h, lines) ==
  \A line \in Kind(g.nodes, "Line") :
    g.nodes[line].name # 0 /\ g.nodes[line].generated = 0 /\ line \in DOMAIN h.nodes \ lines =>
      h.nodes[line].name = g.nodes[line].name /\ h.nodes[line].generated = 0

LEMMA TableReplaced ==
  ASSUME NEW g, Sane(g), NEW U, SameTree(g.nodes, U), Lists(U), NEW h, h = [g EXCEPT !.nodes = U]
  PROVE  /\ Sane(h) /\ (Owned(g.nodes) => Owned(h.nodes))
         /\ h.nodes = U /\ h.next = g.next /\ h.figure = g.figure
         /\ SameNames(g.nodes, U) => Follows(g, h)
<1>1. g = [nodes |-> g.nodes, next |-> g.next, figure |-> g.figure]
  BY DEF Sane
<1>2. h = [nodes |-> U, next |-> g.next, figure |-> g.figure]
  BY <1>1
<1>3. h.nodes = U /\ h.next = g.next /\ h.figure = g.figure
  BY <1>2
<1>4. Sound(U) /\ Beside(U) /\ (Owned(g.nodes) => Owned(U))
  BY SameTreeSound DEF Sane
<1>5. Kind(U, "Figure") = Kind(g.nodes, "Figure")
  BY SameKinds
<1>6. Sane(h)
  <2>1. DOMAIN U = DOMAIN g.nodes
    BY DEF SameTree
  <2> QED BY <2>1, <1>2, <1>3, <1>4, <1>5 DEF Sane
<1>7. ASSUME SameNames(g.nodes, U) PROVE Follows(g, h)
  <2>1. g.next <= h.next
    BY <1>3 DEF Sane
  <2>2. DOMAIN U = DOMAIN g.nodes /\ \A id \in DOMAIN U : U[id].kind = g.nodes[id].kind
    BY DEF SameTree
  <2> QED BY <2>1, <2>2, <1>3, <1>7 DEF Follows, SameNames
<1> QED BY <1>3, <1>4, <1>6, <1>7

(* A node that lists the same.                                              *)
Restyled(T, id, node) ==
  /\ node \in Nodes
  /\ node.kind = T[id].kind /\ node.parent = T[id].parent /\ node.children = T[id].children
  /\ node.owner = T[id].owner /\ node.lines = T[id].lines /\ node.explicit = T[id].explicit
  /\ \/ node.axes \in {0, T[id].axes}
     \/ node.axes \in Kind(T, "Axes") /\ T[node.axes].parent = id
  /\ \/ node.label \in {0, T[id].label}
     \/ node.label \in Kind(T, "Text") /\ T[node.label].parent = id
  /\ node.generated # 0 => node.generated \in Kind(T, "Legend")

LEMMA OneRestyled ==
  ASSUME NEW T, Sound(T), NEW id \in DOMAIN T, NEW node, Restyled(T, id, node),
         NEW U, U = [T EXCEPT ![id] = node]
  PROVE  /\ SameTree(T, U) /\ SameLists(T, U) /\ Lists(U) /\ U[id] = node
         /\ \A n \in DOMAIN T \ {id} : U[n] = T[n]
<1>1. T \in [DOMAIN T -> Nodes]
  BY DEF Sound, Table
<1>2. DOMAIN U = DOMAIN T /\ U[id] = node /\ \A n \in DOMAIN T \ {id} : U[n] = T[n]
  BY <1>1
<1>3. node \in Nodes
  BY DEF Restyled
<1>4. U \in [DOMAIN T -> Nodes]
  BY <1>1, <1>3
<1>5. \A n \in DOMAIN T : T[n].generated # 0 => T[n].generated \in Kind(T, "Legend")
  BY DEF Sound, Refers
<1>6. SameTree(T, U)
  BY <1>2, <1>4, <1>5 DEF SameTree, Restyled
<1>7. SameLists(T, U)
  BY <1>2 DEF SameLists, Restyled
<1>8. Lists(U)
  BY <1>6, <1>7, SameListsSound DEF Sound
<1> QED BY <1>2, <1>6, <1>7, <1>8

LEMMA NodeReplaced ==
  ASSUME NEW g, Sane(g), NEW id \in DOMAIN g.nodes, NEW node, Restyled(g.nodes, id, node)
  PROVE  /\ Sane(Changed(g, id, node)) /\ (Owned(g.nodes) => Owned(Changed(g, id, node).nodes))
         /\ Changed(g, id, node).next = g.next /\ Changed(g, id, node).figure = g.figure
         /\ Changed(g, id, node).nodes[id] = node
         /\ DOMAIN Changed(g, id, node).nodes = DOMAIN g.nodes
         /\ \A n \in DOMAIN g.nodes : Changed(g, id, node).nodes[n].kind = g.nodes[n].kind
         /\ \A n \in DOMAIN g.nodes \ {id} : Changed(g, id, node).nodes[n] = g.nodes[n]
         /\ (g.nodes[id].name # 0 /\ g.nodes[id].generated = 0 =>
               node.name = g.nodes[id].name /\ node.generated = 0)
            => Follows(g, Changed(g, id, node))
<1> DEFINE U == [g.nodes EXCEPT ![id] = node]
           h == Changed(g, id, node)
           T == g.nodes
<1>1. Sound(T)
  BY DEF Sane
<1>2. h = [g EXCEPT !.nodes = U]
  BY DEF Changed
<1> HIDE DEF h
<1>3. /\ SameTree(T, U) /\ Lists(U) /\ U[id] = node
      /\ \A n \in DOMAIN T \ {id} : U[n] = T[n]
  <2> HIDE DEF T
  <2>1. Restyled(T, id, node) /\ id \in DOMAIN T
    BY DEF T
  <2>2. U = [T EXCEPT ![id] = node]
    BY DEF T
  <2> HIDE DEF U
  <2> QED BY <1>1, <2>1, <2>2, OneRestyled
<1> HIDE DEF U
<1>4. /\ Sane(h) /\ (Owned(g.nodes) => Owned(h.nodes))
      /\ h.nodes = U /\ h.next = g.next /\ h.figure = g.figure
      /\ SameNames(g.nodes, U) => Follows(g, h)
  BY <1>2, <1>3, TableReplaced
<1>5. DOMAIN U = DOMAIN T /\ \A n \in DOMAIN T : U[n].kind = T[n].kind
  BY <1>3 DEF SameTree
<1>6. (T[id].name # 0 /\ T[id].generated = 0 => node.name = T[id].name /\ node.generated = 0)
      => SameNames(T, U)
  BY <1>3 DEF SameNames
<1> QED BY <1>3, <1>4, <1>5, <1>6 DEF h

-----------------------------------------------------------------------------
LEMMA FigureMade ==
  ASSUME NEW g, Sane(g)
  PROVE  /\ Sane(WithFigure(g)) /\ Follows(g, WithFigure(g))
         /\ (Owned(g.nodes) => Owned(WithFigure(g).nodes))
         /\ WithFigure(g).figure \in Kind(WithFigure(g).nodes, "Figure")
<1>0. g.figure \in Nat /\ (g.figure # 0 => g.figure \in Kind(g.nodes, "Figure")) /\ 0 \notin DOMAIN g.nodes
  BY DEF Sane, Sound, Table
<1>1. CASE g.figure \in DOMAIN g.nodes
  <2>1. WithFigure(g) = g
    BY <1>1 DEF WithFigure
  <2> QED BY <2>1, <1>0, <1>1, FollowsSelf
<1>2. CASE g.figure \notin DOMAIN g.nodes /\ Kind(g.nodes, "Figure") # {}
  <2> DEFINE S == Kind(g.nodes, "Figure")
             m == Max(S)
             h == [g EXCEPT !.figure = m]
  <2>1. WithFigure(g) = h
    BY <1>2 DEF WithFigure
  <2>2. m \in S
    <3>1. g.next \in Nat /\ S \in SUBSET (0 .. g.next)
      BY DEF Sane, Kind
    <3> HIDE DEF S
    <3> QED BY <3>1, <1>2, MaxOf DEF S
  <2>3. m \in Nat
    BY <2>2 DEF Sane, Kind
  <2> HIDE DEF m
  <2>4. h = [nodes |-> g.nodes, next |-> g.next, figure |-> m]
    BY DEF Sane
  <2> HIDE DEF h
  <2>5. h.nodes = g.nodes /\ h.next = g.next /\ h.figure = m
    BY <2>4
  <2>6. Sane(h)
    BY <2>2, <2>3, <2>4, <2>5 DEF Sane
  <2>7. Follows(g, h)
    BY <2>5 DEF Follows, Sane
  <2> QED BY <2>1, <2>2, <2>5, <2>6, <2>7
<1>3. CASE g.figure \notin DOMAIN g.nodes /\ Kind(g.nodes, "Figure") = {}
  <2> DEFINE h == Create(g, "Figure", 0)
  <2>1. WithFigure(g) = h
    BY <1>3 DEF WithFigure
  <2>2. "Figure" \in Kinds
    BY DEF Kinds
  <2>3. /\ Sane(h) /\ Follows(g, h) /\ Created(g, h, "Figure", 0)
        /\ (Owned(g.nodes) => Owned(h.nodes))
    BY <2>2, Creates
  <2>4. h.figure \in Kind(h.nodes, "Figure")
    BY <2>3 DEF Created, Kind
  <2> QED BY <2>1, <2>3, <2>4
<1> QED BY <1>1, <1>2, <1>3

LEMMA AxesMade ==
  ASSUME NEW g, Sane(g)
  PROVE  /\ Sane(WithAxes(g)) /\ Follows(g, WithAxes(g))
         /\ (Owned(g.nodes) => Owned(WithAxes(g).nodes))
         /\ CurrentAxes(WithAxes(g)) \in Kind(WithAxes(g).nodes, "Axes")
<1> DEFINE h == WithFigure(g)
           figure == h.nodes[h.figure]
           own == {i \in DOMAIN figure.children : h.nodes[figure.children[i]].kind = "Axes"}
           last == figure.children[Max(own)]
           node == [figure EXCEPT !.axes = last]
           k == WithAxes(g)
<1>1. k = IF figure.axes \in DOMAIN h.nodes THEN h
          ELSE IF own # {} THEN Changed(h, h.figure, node) ELSE Create(h, "Axes", h.figure)
  BY DEF WithAxes
<1>2. /\ Sane(h) /\ Follows(g, h) /\ (Owned(g.nodes) => Owned(h.nodes))
      /\ h.figure \in Kind(h.nodes, "Figure")
  BY FigureMade
<1> HIDE DEF h, k
<1>3. h.figure \in DOMAIN h.nodes /\ figure.kind = "Figure" /\ figure \in Nodes
  BY <1>2 DEF Kind, Sane, Sound, Table
<1>4. \A child \in ToSet(figure.children) : child \in DOMAIN h.nodes /\ h.nodes[child].parent = h.figure
  BY <1>2, <1>3 DEF Sane, Sound, Placed
<1>5. figure.axes # 0 => figure.axes \in Kind(h.nodes, "Axes")
  BY <1>2, <1>3 DEF Sane, Sound, Refers
<1>6. CASE figure.axes \in DOMAIN h.nodes
  <2>1. k = h
    BY <1>1, <1>6
  <2>2. figure.axes # 0
    BY <1>2, <1>6 DEF Sane, Sound, Table
  <2> QED BY <2>1, <2>2, <1>2, <1>5 DEF CurrentAxes, k
<1>7. CASE figure.axes \notin DOMAIN h.nodes /\ own # {}
  <2>1. k = Changed(h, h.figure, node)
    BY <1>1, <1>7
  <2>2. Max(own) \in own
    <3>1. figure.children \in Seq(Nat)
      BY <1>3 DEF Nodes
    <3>2. DOMAIN figure.children = 1 .. Len(figure.children) /\ Len(figure.children) \in Nat
      BY <3>1
    <3>3. own \in SUBSET (0 .. Len(figure.children))
      BY <3>2
    <3> HIDE DEF own
    <3> QED BY <3>2, <3>3, <1>7, MaxOf
  <2>3. last \in Kind(h.nodes, "Axes") /\ h.nodes[last].parent = h.figure
    <3>1. last \in ToSet(figure.children)
      BY <2>2 DEF ToSet
    <3> QED BY <3>1, <2>2, <1>4 DEF Kind
  <2> HIDE DEF last, own
  <2>4. last \in Nat
    <3>1. last \in DOMAIN h.nodes
      BY <2>3 DEF Kind
    <3>2. DOMAIN h.nodes \subseteq Nat \ {0}
      BY <1>2 DEF Sane, Sound, Table
    <3> QED BY <3>1, <3>2
  <2>5. node \in Nodes
    BY <2>4, <1>3 DEF Nodes
  <2>6. /\ node.kind = figure.kind /\ node.parent = figure.parent /\ node.children = figure.children
        /\ node.owner = figure.owner /\ node.lines = figure.lines /\ node.explicit = figure.explicit
        /\ node.axes = last /\ node.label = figure.label /\ node.name = figure.name
        /\ node.generated = figure.generated
    BY <1>3 DEF Nodes
  <2>7. figure.generated # 0 => figure.generated \in Kind(h.nodes, "Legend")
    BY <1>2, <1>3 DEF Sane, Sound, Refers
  <2> HIDE DEF node
  <2>8. Restyled(h.nodes, h.figure, node)
    BY <2>3, <2>5, <2>6, <2>7 DEF Restyled
  <2> DEFINE c == Changed(h, h.figure, node)
  <2>9. /\ Sane(c) /\ (Owned(h.nodes) => Owned(c.nodes)) /\ c.figure = h.figure
        /\ c.nodes[h.figure] = node /\ DOMAIN c.nodes = DOMAIN h.nodes
        /\ \A n \in DOMAIN h.nodes : c.nodes[n].kind = h.nodes[n].kind
        /\ Follows(h, c)
    BY <2>6, <2>8, <1>2, <1>3, NodeReplaced
  <2> HIDE DEF c
  <2>10. CurrentAxes(c) \in Kind(c.nodes, "Axes")
    BY <2>3, <2>6, <2>9 DEF CurrentAxes, Kind
  <2>11. Follows(g, c)
    BY <2>9, <1>2, FollowsSane
  <2> QED BY <2>1, <2>9, <2>10, <2>11, <1>2 DEF c, k
<1>8. CASE figure.axes \notin DOMAIN h.nodes /\ own = {}
  <2> DEFINE c == Create(h, "Axes", h.figure)
  <2>1. k = c
    BY <1>1, <1>8
  <2>2. "Axes" \in Kinds /\ h.figure \in Kind(h.nodes, ParentKind("Axes"))
    BY <1>2 DEF Kinds, ParentKind
  <2>3. /\ Sane(c) /\ Follows(h, c) /\ Created(h, c, "Axes", h.figure)
        /\ (Owned(h.nodes) => Owned(c.nodes))
    BY <2>2, <1>2, Creates
  <2> HIDE DEF c
  <2>4. CurrentAxes(c) \in Kind(c.nodes, "Axes")
    BY <2>3 DEF Created, Kind, CurrentAxes
  <2>5. Follows(g, c)
    BY <2>3, <1>2, FollowsSane
  <2> QED BY <2>1, <2>3, <2>4, <2>5, <1>2 DEF k
<1> QED BY <1>6, <1>7, <1>8 DEF k

-----------------------------------------------------------------------------
(* refreshLegendName and erase.                                             *)
LEMMA RefreshedNode ==
  ASSUME NEW T, Table(T), Lists(T), NEW line \in DOMAIN T, NEW r, r = Refreshed(T, line)
  PROVE  /\ r \in Nodes
         /\ r.kind = T[line].kind /\ r.parent = T[line].parent /\ r.children = T[line].children
         /\ r.axes = T[line].axes /\ r.label = T[line].label /\ r.owner = T[line].owner
         /\ r.lines = T[line].lines /\ r.explicit = T[line].explicit
         /\ T[line].generated = 0 => r = T[line]
         /\ T[line].generated # 0 /\ r.generated # 0 => r.generated \in Kind(T, "Legend")
<1> DEFINE t == T[line]
           listing == {id \in DOMAIN T : line \in ToSet(T[id].lines)}
           m == Min(listing)
<1>1. t \in Nodes
  BY DEF Table
<1>2. CASE t.generated = 0
  <2>1. r = t
    BY <1>2 DEF Refreshed
  <2> QED BY <2>1, <1>1, <1>2
<1>3. CASE t.generated # 0 /\ listing # {}
  <2>1. r = [t EXCEPT !.generated = m]
    BY <1>3 DEF Refreshed, Claimed
  <2>2. m \in listing
    <3>1. listing \in SUBSET Nat
      BY DEF Table
    <3> HIDE DEF listing
    <3> QED BY <3>1, <1>3, MinOf
  <2>3. m \in Kind(T, "Legend")
    <3>1. m \in DOMAIN T /\ T[m].lines # <<>>
      BY <2>2 DEF ToSet
    <3> QED BY <3>1 DEF Lists, Kind
  <2>4. m \in Nat
    <3> HIDE DEF m
    <3>1. m \in DOMAIN T
      BY <2>3 DEF Kind
    <3> QED BY <3>1 DEF Table
  <2> HIDE DEF m, t
  <2>5. r \in Nodes
    BY <2>1, <2>4, <1>1 DEF Nodes
  <2>6. /\ r.kind = t.kind /\ r.parent = t.parent /\ r.children = t.children
        /\ r.axes = t.axes /\ r.label = t.label /\ r.owner = t.owner
        /\ r.lines = t.lines /\ r.explicit = t.explicit /\ r.generated = m
    BY <2>1, <1>1 DEF Nodes
  <2> QED BY <2>3, <2>5, <2>6, <1>3 DEF t
<1>4. CASE t.generated # 0 /\ listing = {}
  <2> DEFINE z == 0
  <2>1. r = [t EXCEPT !.generated = z, !.name = z]
    BY <1>4 DEF Refreshed, Claimed
  <2>2. z \in Nat /\ z = 0
    OBVIOUS
  <2> HIDE DEF t, z
  <2>5. r \in Nodes
    BY <2>1, <2>2, <1>1 DEF Nodes
  <2>6. /\ r.kind = t.kind /\ r.parent = t.parent /\ r.children = t.children
        /\ r.axes = t.axes /\ r.label = t.label /\ r.owner = t.owner
        /\ r.lines = t.lines /\ r.explicit = t.explicit /\ r.generated = 0
    BY <2>1, <2>2, <1>1 DEF Nodes
  <2> QED BY <2>5, <2>6, <1>4 DEF t
<1> QED BY <1>2, <1>3, <1>4

LEMMA LinesRefreshed ==
  ASSUME NEW T, Sound(T), NEW ids, NEW U, U = AllRefreshed(T, ids)
  PROVE  SameTree(T, U) /\ SameLists(T, U) /\ SameNames(T, U) /\ Lists(U)
<1>1. /\ Table(T) /\ Lists(T)
      /\ \A id \in DOMAIN T : T[id] \in Nodes /\ (T[id].generated # 0 => T[id].generated \in Kind(T, "Legend"))
  BY DEF Sound, Table, Refers
<1>2. U = [id \in DOMAIN T |-> IF id \in ids THEN Refreshed(T, id) ELSE T[id]]
  BY DEF AllRefreshed
<1>3. DOMAIN U = DOMAIN T /\ U = [id \in DOMAIN T |-> U[id]]
  BY <1>2
<1>4. \A id \in DOMAIN T :
        /\ U[id] \in Nodes
        /\ U[id].kind = T[id].kind /\ U[id].parent = T[id].parent /\ U[id].children = T[id].children
        /\ U[id].axes = T[id].axes /\ U[id].label = T[id].label /\ U[id].owner = T[id].owner
        /\ U[id].lines = T[id].lines /\ U[id].explicit = T[id].explicit
        /\ T[id].generated = 0 => U[id] = T[id]
        /\ U[id].generated # 0 => U[id].generated \in Kind(T, "Legend")
  <2> SUFFICES ASSUME NEW id \in DOMAIN T
               PROVE  /\ U[id] \in Nodes
                      /\ U[id].kind = T[id].kind /\ U[id].parent = T[id].parent /\ U[id].children = T[id].children
                      /\ U[id].axes = T[id].axes /\ U[id].label = T[id].label /\ U[id].owner = T[id].owner
                      /\ U[id].lines = T[id].lines /\ U[id].explicit = T[id].explicit
                      /\ T[id].generated = 0 => U[id] = T[id]
                      /\ U[id].generated # 0 => U[id].generated \in Kind(T, "Legend")
    OBVIOUS
  <2>1. CASE id \in ids
    <3>1. U[id] = Refreshed(T, id)
      BY <1>2, <2>1
    <3> DEFINE r == U[id]
    <3>2. r = Refreshed(T, id)
      BY <3>1
    <3> HIDE DEF r
    <3>3. /\ r \in Nodes
          /\ r.kind = T[id].kind /\ r.parent = T[id].parent /\ r.children = T[id].children
          /\ r.axes = T[id].axes /\ r.label = T[id].label /\ r.owner = T[id].owner
          /\ r.lines = T[id].lines /\ r.explicit = T[id].explicit
          /\ T[id].generated = 0 => r = T[id]
          /\ T[id].generated # 0 /\ r.generated # 0 => r.generated \in Kind(T, "Legend")
      BY <3>2, <1>1, RefreshedNode
    <3> QED BY <3>3 DEF r
  <2>2. CASE id \notin ids
    BY <2>2, <1>1, <1>2
  <2> QED BY <2>1, <2>2
<1>5. SameTree(T, U)
  <2>1. U \in [DOMAIN U -> Nodes]
    BY <1>3, <1>4
  <2> HIDE <1>2
  <2> QED BY <2>1, <1>3, <1>4 DEF SameTree
<1>6. SameLists(T, U)
  BY <1>4 DEF SameLists
<1>7. SameNames(T, U)
  BY <1>4 DEF SameNames
<1>8. Lists(U)
  BY <1>5, <1>6, SameListsSound DEF Sound
<1> QED BY <1>5, <1>6, <1>7, <1>8

-----------------------------------------------------------------------------
LEMMA BelowClosed ==
  ASSUME NEW T, Placed(T), NEW id \in DOMAIN T
  PROVE  /\ Below(T, id) \subseteq DOMAIN T /\ id \in Below(T, id)
         /\ ClosedBelow(T, Below(T, id))
<1> DEFINE closed == {ids \in SUBSET DOMAIN T : id \in ids /\ ClosedBelow(T, ids)}
           gone == Below(T, id)
<1>1. gone = {n \in DOMAIN T : \A ids \in closed : n \in ids}
  BY DEF Below
<1>2. \A ids \in closed : id \in ids /\ ClosedBelow(T, ids)
  OBVIOUS
<1> HIDE DEF closed, gone
<1>3. \A n \in gone : \A child \in ToSet(T[n].children) : child \in gone
  <2> SUFFICES ASSUME NEW n \in gone, NEW child \in ToSet(T[n].children) PROVE child \in gone
    OBVIOUS
  <2>1. child \in DOMAIN T
    BY <1>1 DEF Placed
  <2>2. \A ids \in closed : child \in ids
    BY <1>1, <1>2 DEF ClosedBelow
  <2> QED BY <1>1, <2>1, <2>2
<1>4. \A n \in DOMAIN T : T[n].owner \in gone => n \in gone
  BY <1>1, <1>2 DEF ClosedBelow
<1>5. ClosedBelow(T, gone)
  BY <1>3, <1>4 DEF ClosedBelow
<1> QED BY <1>1, <1>2, <1>5 DEF gone

LEMMA BelowLeast ==
  ASSUME NEW T, NEW id \in DOMAIN T, NEW ids \in SUBSET DOMAIN T, id \in ids, ClosedBelow(T, ids)
  PROVE  Below(T, id) \subseteq ids
BY DEF Below

LEMMA Erased ==
  ASSUME NEW g, Sane(g), NEW id, NEW h, h = Erase(g, id)
  PROVE  /\ Sane(h) /\ Follows(g, h) /\ (Owned(g.nodes) => Owned(h.nodes))
         /\ h.next = g.next
         /\ id \in DOMAIN g.nodes => DOMAIN h.nodes = DOMAIN g.nodes \ Below(g.nodes, id)
         /\ \A n \in DOMAIN h.nodes : /\ n \in DOMAIN g.nodes
                                      /\ h.nodes[n].kind = g.nodes[n].kind
                                      /\ h.nodes[n].parent = g.nodes[n].parent
<1>1. CASE id \notin DOMAIN g.nodes
  <2>1. h = g
    BY <1>1 DEF Erase
  <2> QED BY <2>1, <1>1, FollowsSelf
<1>2. CASE id \in DOMAIN g.nodes
  <2> DEFINE T == g.nodes
             gone == Below(T, id)
             D == DOMAIN T \ gone
             rest == [n \in D |->
                       [T[n] EXCEPT !.children = Outside(@, gone),
                                    !.axes = Without(@, gone), !.label = Without(@, gone),
                                    !.lines = LinesWithout(@, gone)]]
             named == {n \in D : rest[n].generated \in gone}
             U == AllRefreshed(rest, named)
             f == Without(g.figure, gone)
  <2>1. h = [nodes |-> U, next |-> g.next, figure |-> f]
    <3>1. DOMAIN rest = D
      OBVIOUS
    <3>2. named = {n \in DOMAIN rest : rest[n].generated \in gone}
      BY <3>1
    <3> QED BY <3>2, <1>2 DEF Erase
  <2>2. /\ Table(T) /\ Placed(T) /\ Refers(T) /\ Lists(T) /\ OneLegend(T) /\ Beside(T)
        /\ \A n \in DOMAIN T : T[n] \in Nodes /\ n \in Nat /\ n # 0
    BY DEF Sane, Sound, Table
  <2>3. gone \subseteq DOMAIN T /\ id \in gone /\ ClosedBelow(T, gone)
    BY <1>2, <2>2, BelowClosed
  <2> HIDE DEF gone
  <2>4. /\ \A n \in gone : \A child \in ToSet(T[n].children) : child \in gone
        /\ \A n \in DOMAIN T : T[n].owner \in gone => n \in gone
        /\ 0 \notin gone
    BY <2>2, <2>3 DEF ClosedBelow
  <2>5. \A n \in D :
          /\ rest[n] \in Nodes
          /\ rest[n].kind = T[n].kind /\ rest[n].parent = T[n].parent /\ rest[n].owner = T[n].owner
          /\ rest[n].explicit = T[n].explicit /\ rest[n].name = T[n].name
          /\ rest[n].generated = T[n].generated
          /\ rest[n].axes = Without(T[n].axes, gone) /\ rest[n].label = Without(T[n].label, gone)
          /\ Once(T[n].children) => Once(rest[n].children)
          /\ ToSet(rest[n].children) = ToSet(T[n].children) \ gone
          /\ ToSet(rest[n].lines) = ToSet(T[n].lines) \ gone
          /\ T[n].lines = <<>> => rest[n].lines = <<>>
    <3> SUFFICES ASSUME NEW n \in D
                 PROVE  /\ rest[n] \in Nodes
                        /\ rest[n].kind = T[n].kind /\ rest[n].parent = T[n].parent /\ rest[n].owner = T[n].owner
                        /\ rest[n].explicit = T[n].explicit /\ rest[n].name = T[n].name
                        /\ rest[n].generated = T[n].generated
                        /\ rest[n].axes = Without(T[n].axes, gone) /\ rest[n].label = Without(T[n].label, gone)
                        /\ Once(T[n].children) => Once(rest[n].children)
                        /\ ToSet(rest[n].children) = ToSet(T[n].children) \ gone
                        /\ ToSet(rest[n].lines) = ToSet(T[n].lines) \ gone
                        /\ T[n].lines = <<>> => rest[n].lines = <<>>
      OBVIOUS
    <3> DEFINE t == T[n]
               r == rest[n]
               children == Outside(t.children, gone)
               lines == Outside(t.lines, gone)
               axes == Without(t.axes, gone)
               label == Without(t.label, gone)
    <3>1. t \in Nodes
      BY <2>2
    <3>2. r = [t EXCEPT !.children = children, !.axes = axes, !.label = label, !.lines = lines]
      BY DEF LinesWithout
    <3> HIDE DEF r, t
    <3>3. t.children \in Seq(Nat) /\ t.lines \in Seq(Nat) /\ t.axes \in Nat /\ t.label \in Nat
      BY <3>1 DEF Nodes
    <3>4. /\ children \in Seq(Nat) /\ lines \in Seq(Nat)
          /\ ToSet(children) = ToSet(t.children) \ gone
          /\ ToSet(lines) = ToSet(t.lines) \ gone
          /\ (t.lines = <<>> => lines = <<>>) /\ (Once(t.children) => Once(children))
      BY <3>3, OutsideOf
    <3>5. axes \in Nat /\ label \in Nat
      BY <3>3 DEF Without
    <3> HIDE DEF axes, label, children, lines
    <3>6. r \in Nodes
      BY <3>1, <3>2, <3>4, <3>5 DEF Nodes
    <3>7. /\ r.kind = t.kind /\ r.parent = t.parent /\ r.owner = t.owner
          /\ r.explicit = t.explicit /\ r.name = t.name /\ r.generated = t.generated
          /\ r.axes = axes /\ r.label = label /\ r.children = children /\ r.lines = lines
      BY <3>1, <3>2 DEF Nodes
    <3> QED BY <3>4, <3>6, <3>7 DEF r, t, axes, label
  <2>6. DOMAIN rest = D /\ rest = [n \in D |-> rest[n]]
    OBVIOUS
  <2> HIDE DEF rest
  <2>7. Table(rest)
    BY <2>2, <2>5, <2>6 DEF Table
  <2>8. \A n, k : n \in Kind(rest, k) <=> n \in Kind(T, k) /\ n \notin gone
    BY <2>5, <2>6 DEF Kind
  <2>9. Lists(rest)
    <3> SUFFICES ASSUME NEW n \in D
                 PROVE  /\ rest[n].kind # "Legend" => rest[n].lines = <<>>
                        /\ ToSet(rest[n].lines) \subseteq Kind(rest, "Line")
                        /\ ~rest[n].explicit =>
                             \A line \in ToSet(rest[n].lines) : rest[line].parent = rest[n].owner
      BY <2>6 DEF Lists
    <3>1. /\ T[n].kind # "Legend" => T[n].lines = <<>>
          /\ ToSet(T[n].lines) \subseteq Kind(T, "Line")
          /\ ~T[n].explicit => \A line \in ToSet(T[n].lines) : T[line].parent = T[n].owner
      BY <2>2 DEF Lists
    <3>2. \A line \in ToSet(rest[n].lines) : line \in D /\ line \in ToSet(T[n].lines)
      BY <2>5, <3>1 DEF Kind
    <3> QED BY <3>1, <3>2, <2>5, <2>8
  <2>10. DOMAIN U = D /\ U = [n \in D |-> U[n]]
         /\ \A n \in D : U[n] = IF n \in named THEN Refreshed(rest, n) ELSE rest[n]
    BY <2>6 DEF AllRefreshed
  <2> HIDE DEF U
  <2>11. \A n \in D :
           /\ U[n] \in Nodes
           /\ U[n].kind = T[n].kind /\ U[n].parent = T[n].parent /\ U[n].owner = T[n].owner
           /\ U[n].explicit = rest[n].explicit /\ U[n].lines = rest[n].lines
           /\ U[n].children = rest[n].children
           /\ U[n].axes = Without(T[n].axes, gone) /\ U[n].label = Without(T[n].label, gone)
           /\ T[n].generated = 0 => U[n].name = T[n].name /\ U[n].generated = 0
           /\ U[n].generated # 0 => U[n].generated \in Kind(rest, "Legend")
    <3> SUFFICES ASSUME NEW n \in D
                 PROVE  /\ U[n] \in Nodes
                        /\ U[n].kind = T[n].kind /\ U[n].parent = T[n].parent /\ U[n].owner = T[n].owner
                        /\ U[n].explicit = rest[n].explicit /\ U[n].lines = rest[n].lines
                        /\ U[n].children = rest[n].children
                        /\ U[n].axes = Without(T[n].axes, gone) /\ U[n].label = Without(T[n].label, gone)
                        /\ T[n].generated = 0 => U[n].name = T[n].name /\ U[n].generated = 0
                        /\ U[n].generated # 0 => U[n].generated \in Kind(rest, "Legend")
      OBVIOUS
    <3> DEFINE r == U[n]
    <3>1. CASE n \in named
      <4>1. r = Refreshed(rest, n) /\ n \in DOMAIN rest
        BY <2>6, <2>10, <3>1
      <4> HIDE DEF r
      <4>2. /\ r \in Nodes
            /\ r.kind = rest[n].kind /\ r.parent = rest[n].parent /\ r.children = rest[n].children
            /\ r.axes = rest[n].axes /\ r.label = rest[n].label /\ r.owner = rest[n].owner
            /\ r.lines = rest[n].lines /\ r.explicit = rest[n].explicit
            /\ rest[n].generated = 0 => r = rest[n]
            /\ rest[n].generated # 0 /\ r.generated # 0 => r.generated \in Kind(rest, "Legend")
        BY <4>1, <2>7, <2>9, RefreshedNode
      <4> QED BY <4>2, <2>5 DEF r
    <3>2. CASE n \notin named
      <4>1. r = rest[n]
        BY <2>10, <3>2
      <4>2. T[n].generated \notin gone
        BY <2>5, <3>2
      <4>3. T[n].generated # 0 => T[n].generated \in Kind(T, "Legend")
        BY <2>2 DEF Refers
      <4> QED BY <4>1, <4>2, <4>3, <2>5, <2>8
    <3> QED BY <3>1, <3>2
  <2> HIDE DEF named
  <2>12. \A n, k : n \in Kind(U, k) <=> n \in Kind(rest, k)
    <3>1. \A n \in D : U[n].kind = rest[n].kind
      BY <2>5, <2>11
    <3>2. DOMAIN U = D /\ DOMAIN rest = D
      BY <2>6, <2>10
    <3> QED BY <3>1, <3>2, Zenon DEF Kind
  <2>13. Table(U)
    BY <2>2, <2>10, <2>11 DEF Table
  <2>14. Placed(U)
    <3> SUFFICES ASSUME NEW n \in D
                 PROVE  /\ U[n].kind = "Figure" => U[n].parent = 0
                        /\ U[n].kind # "Figure" => /\ U[n].parent \in Kind(U, ParentKind(U[n].kind))
                                                    /\ n \in ToSet(U[U[n].parent].children)
                        /\ \A child \in ToSet(U[n].children) : child \in DOMAIN U /\ U[child].parent = n
                        /\ Once(U[n].children)
      BY <2>10 DEF Placed
    <3>1. /\ T[n].kind = "Figure" => T[n].parent = 0
          /\ T[n].kind # "Figure" => /\ T[n].parent \in Kind(T, ParentKind(T[n].kind))
                                     /\ n \in ToSet(T[T[n].parent].children)
          /\ \A child \in ToSet(T[n].children) : child \in DOMAIN T /\ T[child].parent = n
          /\ Once(T[n].children)
      BY <2>2 DEF Placed
    <3>2. T[n].kind # "Figure" => T[n].parent \in D
      BY <3>1, <2>4 DEF Kind
    <3>3. U[n].kind # "Figure" => /\ U[n].parent \in Kind(U, ParentKind(U[n].kind))
                                  /\ n \in ToSet(U[U[n].parent].children)
      BY <3>1, <3>2, <2>5, <2>8, <2>11, <2>12
    <3>4. \A child \in ToSet(U[n].children) : child \in D /\ U[child].parent = n
      BY <3>1, <2>5, <2>11
    <3> QED BY <3>1, <3>3, <3>4, <2>5, <2>10, <2>11
  <2>15. Refers(U)
    <3> SUFFICES ASSUME NEW n \in D
                 PROVE  /\ U[n].axes # 0 => U[n].axes \in Kind(U, "Axes") /\ U[U[n].axes].parent = n
                        /\ U[n].label # 0 => U[n].label \in Kind(U, "Text") /\ U[U[n].label].parent = n
                        /\ U[n].owner # 0 => U[n].kind = "Legend" /\ U[n].owner \in Kind(U, "Axes")
                        /\ U[n].generated # 0 => U[n].generated \in Kind(U, "Legend")
      BY <2>10 DEF Refers
    <3>1. /\ T[n].axes # 0 => T[n].axes \in Kind(T, "Axes") /\ T[T[n].axes].parent = n
          /\ T[n].label # 0 => T[n].label \in Kind(T, "Text") /\ T[T[n].label].parent = n
          /\ T[n].owner # 0 => T[n].kind = "Legend" /\ T[n].owner \in Kind(T, "Axes")
      BY <2>2 DEF Refers
    <3>2. \A m, k : m \in Kind(U, k) <=> m \in Kind(T, k) /\ m \notin gone
      BY <2>8, <2>12
    <3>3. \A m, k : m \in Kind(T, k) => m \in DOMAIN T
      BY DEF Kind
    <3>4. T[n].owner \notin gone
      BY <2>4
    <3> QED BY <3>1, <3>2, <3>3, <3>4, <2>11, <2>12 DEF Without
  <2>16. Lists(U)
    <3>1. \A n \in D : \A line \in ToSet(rest[n].lines) : line \in D
      BY <2>6, <2>9 DEF Lists, Kind
    <3>2. \A n \in D : rest[n].kind = U[n].kind /\ rest[n].parent = U[n].parent /\ rest[n].owner = U[n].owner
      BY <2>5, <2>11
    <3>3. \A n \in D : U[n].explicit = rest[n].explicit /\ U[n].lines = rest[n].lines
      BY <2>11
    <3> SUFFICES ASSUME NEW n \in D
                 PROVE  /\ U[n].kind # "Legend" => U[n].lines = <<>>
                        /\ ToSet(U[n].lines) \subseteq Kind(U, "Line")
                        /\ ~U[n].explicit => \A line \in ToSet(U[n].lines) : U[line].parent = U[n].owner
      BY <2>10 DEF Lists
    <3>4. /\ rest[n].kind # "Legend" => rest[n].lines = <<>>
          /\ ToSet(rest[n].lines) \subseteq Kind(rest, "Line")
          /\ ~rest[n].explicit => \A line \in ToSet(rest[n].lines) : rest[line].parent = rest[n].owner
      BY <2>6, <2>9 DEF Lists
    <3> QED BY <3>1, <3>2, <3>3, <3>4, <2>12
  <2>17. OneLegend(U) /\ Beside(U) /\ (Owned(T) => Owned(U))
    <3>1. \A n \in D : T[n].owner # 0 => T[n].owner \in D
      BY <2>2, <2>4 DEF Refers, Kind
    <3>2. OneLegend(U)
      <4>1. \A n \in D : n \in DOMAIN T /\ U[n].owner = T[n].owner
        BY <2>11
      <4>2. OneLegend(T) /\ DOMAIN U = D
        BY <2>2, <2>10
      <4> QED BY <4>1, <4>2 DEF OneLegend
    <3>3. Beside(U)
      <4>1. \A n \in D : T[n].owner # 0 => T[T[n].owner].parent = T[n].parent
        BY <2>2 DEF Beside
      <4>2. \A n \in D : U[n].owner # 0 => U[U[n].owner].parent = U[n].parent
        BY <4>1, <3>1, <2>11
      <4> QED BY <4>2, <2>10 DEF Beside
    <3>4. Owned(T) => Owned(U)
      BY <2>10, <2>11 DEF Owned
    <3> QED BY <3>2, <3>3, <3>4
  <2>18. f \in Nat /\ (f # 0 => f \in Kind(U, "Figure"))
    BY <2>8, <2>12 DEF Sane, Without
  <2> HIDE DEF f
  <2>19. h.nodes = U /\ h.next = g.next /\ h.figure = f
    BY <2>1
  <2>20. Sane(h)
    <3>1. Sound(U)
      BY <2>13, <2>14, <2>15, <2>16, <2>17 DEF Sound
    <3>2. g.next \in Nat \ {0} /\ D \subseteq 1 .. (g.next - 1)
      BY DEF Sane
    <3> QED BY <3>1, <3>2, <2>1, <2>10, <2>17, <2>18, <2>19 DEF Sane
  <2>21. Follows(g, h)
    <3>1. g.next <= h.next
      BY <2>19 DEF Sane
    <3> QED BY <3>1, <2>10, <2>11, <2>19 DEF Follows
  <2> QED BY <2>10, <2>11, <2>17, <2>19, <2>20, <2>21 DEF gone
<1> QED BY <1>1, <1>2

-----------------------------------------------------------------------------
(* plotLines.                                                               *)
Clears(g, ids, n, f) ==
  f = [i \in 0 .. n |-> IF i = 0 THEN g ELSE Erase(f[i - 1], ids[i])]

LEMMA ClearsExists == ASSUME NEW g, NEW ids PROVE \A n \in Nat : \E f : Clears(g, ids, n, f)
<1> DEFINE Lacking == {n \in Nat : ~ \E f : Clears(g, ids, n, f)}
<1> SUFFICES ASSUME Lacking # {} PROVE FALSE
  OBVIOUS
<1> HIDE DEF Lacking
<1>1. PICK n \in Lacking : \A m \in Lacking : n <= m
  <2>1. Lacking \in SUBSET Nat
    BY DEF Lacking
  <2> QED BY <2>1, LeastNumber
<1>2. n \in Nat /\ ~ \E f : Clears(g, ids, n, f)
  BY <1>1 DEF Lacking
<1>3. CASE n = 0
  <2>1. Clears(g, ids, 0, [i \in 0 .. 0 |-> g])
    BY DEF Clears
  <2> QED BY <1>2, <1>3, <2>1
<1>4. CASE n # 0
  <2>1. n - 1 \in Nat /\ n - 1 \notin Lacking
    BY <1>1, <1>2, <1>4
  <2>2. PICK f : Clears(g, ids, n - 1, f)
    BY <2>1 DEF Lacking
  <2> DEFINE c == [i \in 0 .. n |-> IF i = n THEN Erase(f[n - 1], ids[n]) ELSE f[i]]
  <2>3. \A i \in 0 .. n - 1 : f[i] = IF i = 0 THEN g ELSE Erase(f[i - 1], ids[i])
    BY <2>2, <1>2, <2>1 DEF Clears
  <2>4. \A i \in 0 .. n - 1 : c[i] = f[i]
    BY <1>2
  <2>5. c[n] = Erase(c[n - 1], ids[n])
    BY <1>2, <1>4, <2>4
  <2>6. \A i \in 0 .. n : c[i] = IF i = 0 THEN g ELSE Erase(c[i - 1], ids[i])
    BY <2>3, <2>4, <2>5, <1>2, <1>4
  <2>7. c = [i \in 0 .. n |-> c[i]]
    OBVIOUS
  <2> HIDE DEF c
  <2>8. Clears(g, ids, n, c)
    BY <2>6, <2>7 DEF Clears
  <2> QED BY <1>2, <2>8
<1> QED BY <1>3, <1>4

(* Nothing hangs on a line or a text.                                       *)
LEMMA OnlyItself ==
  ASSUME NEW g, Sane(g), NEW id \in DOMAIN g.nodes, g.nodes[id].kind \in {"Line", "Text"}
  PROVE  Below(g.nodes, id) \subseteq {id}
<1> DEFINE T == g.nodes
<1>1. Placed(T) /\ Refers(T)
  BY DEF Sane, Sound
<1>2. \A n \in DOMAIN T : T[n].kind # "Figure" => T[T[n].parent].kind \in {"Figure", "Axes"}
  BY <1>1 DEF Placed, Kind, ParentKind
<1>3. 0 \notin DOMAIN T
  BY DEF Sane
<1>4. ToSet(T[id].children) = {}
  <2> SUFFICES ASSUME NEW child \in ToSet(T[id].children) PROVE FALSE
    OBVIOUS
  <2>1. child \in DOMAIN T /\ T[child].parent = id
    BY <1>1 DEF Placed
  <2>2. T[child].kind # "Figure"
    BY <2>1, <1>1, <1>3 DEF Placed
  <2> QED BY <2>1, <2>2, <1>2
<1>5. \A n \in DOMAIN T : T[n].owner # id
  BY <1>1, <1>3 DEF Refers, Kind
<1>6. ClosedBelow(T, {id})
  BY <1>4, <1>5 DEF ClosedBelow
<1> QED BY <1>6, BelowLeast

LEMMA AllCleared ==
  ASSUME NEW g, Sane(g), NEW axes \in Kind(g.nodes, "Axes"), NEW ids \in Seq(Nat),
         \A id \in ToSet(ids) : id \in DOMAIN g.nodes /\ g.nodes[id].kind \in {"Line", "Text"}
  PROVE  /\ Sane(Cleared(g, ids)) /\ Follows(g, Cleared(g, ids))
         /\ (Owned(g.nodes) => Owned(Cleared(g, ids).nodes))
         /\ axes \in Kind(Cleared(g, ids).nodes, "Axes")
<1> DEFINE f == CHOOSE f : Clears(g, ids, Len(ids), f)
<1>0. Len(ids) \in Nat /\ DOMAIN ids = 1 .. Len(ids)
  OBVIOUS
<1>1. Clears(g, ids, Len(ids), f)
  BY <1>0, ClearsExists
<1>2. Cleared(g, ids) = f[Len(ids)]
  BY DEF Cleared, Clears
<1> HIDE DEF f
<1>3. \A i \in 0 .. Len(ids) : f[i] = IF i = 0 THEN g ELSE Erase(f[i - 1], ids[i])
  BY <1>1 DEF Clears
<1> DEFINE Right(h) == /\ Sane(h) /\ Follows(g, h) /\ h.next = g.next
                       /\ (Owned(g.nodes) => Owned(h.nodes))
                       /\ axes \in Kind(h.nodes, "Axes")
           Wrong == {i \in 0 .. Len(ids) : ~Right(f[i])}
<1>4. Wrong = {}
  <2> SUFFICES ASSUME Wrong # {} PROVE FALSE
    OBVIOUS
  <2>1. PICK i \in Wrong : \A m \in Wrong : i <= m
    <3>1. Wrong \in SUBSET Nat
      OBVIOUS
    <3> HIDE DEF Wrong
    <3> QED BY <3>1, LeastNumber
  <2>2. i \in 0 .. Len(ids) /\ ~Right(f[i])
    BY <2>1
  <2>3. CASE i = 0
    <3>1. f[0] = g
      BY <1>3, <1>0
    <3> QED BY <2>2, <2>3, <3>1, FollowsSelf
  <2>4. CASE i # 0
    <3>1. i - 1 \in 0 .. Len(ids) /\ i - 1 \notin Wrong
      <4>1. i \in Nat /\ i - 1 \in 0 .. Len(ids) /\ ~(i <= i - 1)
        BY <2>2, <2>4, <1>0
      <4> HIDE DEF Wrong
      <4> QED BY <4>1, <2>1
    <3> DEFINE h == f[i - 1]
               k == f[i]
               id == ids[i]
    <3>2. Right(h)
      BY <3>1
    <3>3. k = Erase(h, id)
      BY <1>3, <2>2, <2>4
    <3>4. id \in ToSet(ids)
      BY <1>0, <2>2, <2>4 DEF ToSet
    <3> HIDE DEF h, k, id
    <3>5. /\ Sane(k) /\ Follows(h, k) /\ (Owned(h.nodes) => Owned(k.nodes))
          /\ k.next = h.next
          /\ id \in DOMAIN h.nodes => DOMAIN k.nodes = DOMAIN h.nodes \ Below(h.nodes, id)
          /\ \A n \in DOMAIN k.nodes : n \in DOMAIN h.nodes /\ k.nodes[n].kind = h.nodes[n].kind
      BY <3>2, <3>3, Erased
    <3>6. axes \in DOMAIN h.nodes /\ h.nodes[axes].kind = "Axes"
      BY <3>2 DEF Kind
    <3>7. axes \in Kind(k.nodes, "Axes")
      <4>1. CASE id \notin DOMAIN h.nodes
        <5>1. k = h
          BY <3>3, <4>1 DEF Erase
        <5> QED BY <5>1, <3>2
      <4>2. CASE id \in DOMAIN h.nodes
        <5>1. id < g.next
          BY <3>4 DEF Sane
        <5>2. h.nodes[id].kind = g.nodes[id].kind
          BY <5>1, <4>2, <3>2 DEF Follows
        <5>3. h.nodes[id].kind \in {"Line", "Text"}
          BY <5>2, <3>4
        <5>4. Below(h.nodes, id) \subseteq {id}
          BY <5>3, <4>2, <3>2, OnlyItself
        <5>5. axes \in DOMAIN k.nodes
          BY <5>3, <5>4, <4>2, <3>5, <3>6
        <5> QED BY <5>5, <3>5, <3>6 DEF Kind
      <4> QED BY <4>1, <4>2
    <3>8. Follows(g, k)
      BY <3>2, <3>5, FollowsSane
    <3>9. Right(k)
      BY <3>2, <3>5, <3>7, <3>8
    <3> QED BY <3>9, <2>2 DEF k
  <2> QED BY <2>3, <2>4
<1>5. Right(f[Len(ids)])
  BY <1>4, <1>0
<1> QED BY <1>2, <1>5

Plot(g, id) ==
  Create(IF g.nodes[id].hold THEN g ELSE Cleared(g, Outside(g.nodes[id].children, {g.nodes[id].label})),
         "Line", id)
PlotTwo(g, id) == Create(Plot(g, id), "Line", id)

LEMMA Plotted ==
  ASSUME NEW g, Sane(g), NEW id \in Kind(g.nodes, "Axes")
  PROVE  /\ Sane(Plot(g, id)) /\ Follows(g, Plot(g, id)) /\ (Owned(g.nodes) => Owned(Plot(g, id).nodes))
         /\ Sane(PlotTwo(g, id)) /\ Follows(g, PlotTwo(g, id)) /\ (Owned(g.nodes) => Owned(PlotTwo(g, id).nodes))
<1> DEFINE h == Plot(g, id)
           k == PlotTwo(g, id)
           ids == Outside(g.nodes[id].children, {g.nodes[id].label})
           c == IF g.nodes[id].hold THEN g ELSE Cleared(g, ids)
<1>1. "Line" \in Kinds /\ "Line" # "Figure" /\ "Line" # "Legend" /\ ParentKind("Line") = "Axes"
  BY DEF Kinds, ParentKind
<1>2. /\ Sane(c) /\ Follows(g, c) /\ (Owned(g.nodes) => Owned(c.nodes))
      /\ id \in Kind(c.nodes, "Axes")
  <2>1. CASE g.nodes[id].hold
    BY <2>1, FollowsSelf
  <2>2. CASE ~g.nodes[id].hold
    <3>1. id \in DOMAIN g.nodes /\ g.nodes[id].kind = "Axes" /\ g.nodes[id] \in Nodes
      BY DEF Kind, Sane, Sound, Table
    <3>2. g.nodes[id].children \in Seq(Nat)
      BY <3>1 DEF Nodes
    <3>3. ids \in Seq(Nat) /\ ToSet(ids) \subseteq ToSet(g.nodes[id].children)
      BY <3>2, OutsideOf
    <3>4. \A n \in DOMAIN g.nodes : g.nodes[n].kind \in Kinds
      BY DEF Sane, Sound, Table, Nodes
    <3>5. \A n \in ToSet(ids) : n \in DOMAIN g.nodes /\ g.nodes[n].kind \in {"Line", "Text"}
      <4> SUFFICES ASSUME NEW n \in ToSet(ids)
                   PROVE  n \in DOMAIN g.nodes /\ g.nodes[n].kind \in {"Line", "Text"}
        OBVIOUS
      <4>1. n \in DOMAIN g.nodes /\ g.nodes[n].parent = id
        BY <3>1, <3>3 DEF Sane, Sound, Placed
      <4>2. g.nodes[n].kind # "Figure"
        BY <4>1, <3>1 DEF Sane, Sound, Placed, Table
      <4>3. ParentKind(g.nodes[n].kind) = "Axes"
        BY <4>1, <4>2, <3>1 DEF Sane, Sound, Placed, Kind
      <4> QED BY <4>1, <4>2, <4>3, <3>4 DEF Kinds, ParentKind
    <3> HIDE DEF ids
    <3> QED BY <3>3, <3>5, <2>2, AllCleared
  <2> QED BY <2>1, <2>2
<1>3. h = Create(c, "Line", id) /\ k = Create(h, "Line", id)
  BY DEF Plot, PlotTwo
<1> HIDE DEF c, h, k
<1>4. /\ Sane(h) /\ Follows(c, h) /\ Created(c, h, "Line", id)
      /\ (Owned(c.nodes) => Owned(h.nodes))
  BY <1>1, <1>2, <1>3, Creates
<1>5. id \in Kind(h.nodes, "Axes")
  BY <1>2, <1>4 DEF Created, Kind
<1>6. /\ Sane(k) /\ Follows(h, k) /\ (Owned(h.nodes) => Owned(k.nodes))
  BY <1>1, <1>3, <1>4, <1>5, Creates
<1>7. Follows(g, h)
  BY <1>2, <1>4, FollowsSane
<1>8. Follows(g, k)
  BY <1>7, <1>4, <1>6, FollowsSane
<1> QED BY <1>2, <1>4, <1>6, <1>7, <1>8 DEF h, k

-----------------------------------------------------------------------------
(* The legend of an axes.                                                   *)
(* What becomes of a table when legend n gets its axes.                     *)
Adopted(T, U, n, axes) ==
  /\ Table(U) /\ DOMAIN U = DOMAIN T
  /\ \A id \in DOMAIN T :
       /\ U[id].kind = T[id].kind /\ U[id].parent = T[id].parent /\ U[id].children = T[id].children
       /\ U[id].axes = T[id].axes /\ U[id].label = T[id].label
       /\ U[id].lines = T[id].lines /\ U[id].explicit = T[id].explicit
       /\ U[id].generated = T[id].generated /\ U[id].name = T[id].name
       /\ id # n => U[id].owner = T[id].owner
  /\ U[n].owner = axes

Adopting(T, n, axes) ==
  /\ n \in DOMAIN T /\ T[n].kind = "Legend" /\ T[n].lines = <<>>
  /\ axes \in Kind(T, "Axes") /\ T[axes].parent = T[n].parent
  /\ \A id \in DOMAIN T : T[id].owner # axes
  /\ \A id \in DOMAIN T \ {n} : T[id].kind = "Legend" => T[id].owner # 0

LEMMA OwnerSet ==
  ASSUME NEW T, Table(T), NEW n \in DOMAIN T, NEW axes \in DOMAIN T
  PROVE  Adopted(T, [T EXCEPT ![n] = [T[n] EXCEPT !.owner = axes]], n, axes)
<1> DEFINE t == T[n]
           u == [t EXCEPT !.owner = axes]
           U == [T EXCEPT ![n] = u]
<1>1. T \in [DOMAIN T -> Nodes] /\ axes \in Nat /\ t \in Nodes /\ DOMAIN T \subseteq Nat \ {0}
  BY DEF Table
<1>3. DOMAIN U = DOMAIN T /\ U[n] = u /\ \A id \in DOMAIN T \ {n} : U[id] = T[id]
  BY <1>1
<1>2. u \in Nodes => U \in [DOMAIN T -> Nodes]
  BY <1>1
<1> HIDE DEF t
<1>4. u \in Nodes
  BY <1>1 DEF Nodes
<1>5. /\ u.kind = t.kind /\ u.parent = t.parent /\ u.children = t.children
      /\ u.axes = t.axes /\ u.label = t.label /\ u.owner = axes
      /\ u.lines = t.lines /\ u.explicit = t.explicit /\ u.generated = t.generated /\ u.name = t.name
  BY <1>1 DEF Nodes
<1>6. Table(U)
  BY <1>1, <1>2, <1>3, <1>4 DEF Table
<1> HIDE DEF u, U
<1>7. Adopted(T, U, n, axes)
  BY <1>3, <1>5, <1>6 DEF Adopted, t
<1> QED BY <1>7 DEF U, u, t

LEMMA AdoptedSound ==
  ASSUME NEW T, Sound(T), Beside(T), NEW n, NEW axes, Adopting(T, n, axes), NEW U, Adopted(T, U, n, axes)
  PROVE  Sound(U) /\ Beside(U) /\ Owned(U) /\ \A k : Kind(U, k) = Kind(T, k)
<1>1. /\ Table(T) /\ Placed(T) /\ Refers(T) /\ Lists(T) /\ OneLegend(T)
      /\ axes \in DOMAIN T /\ T[axes].kind = "Axes" /\ axes # 0
  BY DEF Sound, Table, Kind, Adopting
<1>2. /\ n \in DOMAIN T /\ T[n].kind = "Legend" /\ T[n].lines = <<>>
      /\ axes \in Kind(T, "Axes") /\ T[axes].parent = T[n].parent
      /\ \A id \in DOMAIN T : T[id].owner # axes
      /\ \A id \in DOMAIN T \ {n} : T[id].kind = "Legend" => T[id].owner # 0
  BY DEF Adopting
<1>3. /\ Table(U) /\ DOMAIN U = DOMAIN T /\ U[n].owner = axes
  BY DEF Adopted
<1>7. \A id \in DOMAIN T :
        /\ U[id].kind = T[id].kind /\ U[id].parent = T[id].parent /\ U[id].children = T[id].children
        /\ U[id].axes = T[id].axes /\ U[id].label = T[id].label
        /\ id # n => U[id].owner = T[id].owner
        /\ U[id].lines = T[id].lines /\ U[id].explicit = T[id].explicit
        /\ U[id].generated = T[id].generated /\ U[id].name = T[id].name
  BY DEF Adopted
<1>8. \A id, k : id \in Kind(U, k) <=> id \in Kind(T, k)
  BY <1>3, <1>7 DEF Kind
<1>9. Placed(U)
  <2>1. \A id \in DOMAIN T : T[id].kind # "Figure" => T[id].parent \in DOMAIN T
    BY <1>1 DEF Placed, Kind
  <2> SUFFICES ASSUME NEW id \in DOMAIN T
               PROVE  /\ U[id].kind = "Figure" => U[id].parent = 0
                      /\ U[id].kind # "Figure" => /\ U[id].parent \in Kind(U, ParentKind(U[id].kind))
                                                  /\ id \in ToSet(U[U[id].parent].children)
                      /\ \A child \in ToSet(U[id].children) : child \in DOMAIN U /\ U[child].parent = id
                      /\ Once(U[id].children)
    BY <1>3 DEF Placed
  <2>2. /\ T[id].kind = "Figure" => T[id].parent = 0
        /\ T[id].kind # "Figure" => /\ T[id].parent \in Kind(T, ParentKind(T[id].kind))
                                    /\ id \in ToSet(T[T[id].parent].children)
        /\ \A child \in ToSet(T[id].children) : child \in DOMAIN T /\ T[child].parent = id
        /\ Once(T[id].children)
    BY <1>1 DEF Placed
  <2> QED BY <2>1, <2>2, <1>3, <1>7, <1>8
<1>10. Refers(U)
  <2>1. \A id, k : id \in Kind(T, k) => id \in DOMAIN T
    BY DEF Kind
  <2> SUFFICES ASSUME NEW id \in DOMAIN T
               PROVE  /\ U[id].axes # 0 => U[id].axes \in Kind(U, "Axes") /\ U[U[id].axes].parent = id
                      /\ U[id].label # 0 => U[id].label \in Kind(U, "Text") /\ U[U[id].label].parent = id
                      /\ U[id].owner # 0 => U[id].kind = "Legend" /\ U[id].owner \in Kind(U, "Axes")
                      /\ U[id].generated # 0 => U[id].generated \in Kind(U, "Legend")
    BY <1>3 DEF Refers
  <2>2. /\ T[id].axes # 0 => T[id].axes \in Kind(T, "Axes") /\ T[T[id].axes].parent = id
        /\ T[id].label # 0 => T[id].label \in Kind(T, "Text") /\ T[T[id].label].parent = id
        /\ T[id].owner # 0 => T[id].kind = "Legend" /\ T[id].owner \in Kind(T, "Axes")
        /\ T[id].generated # 0 => T[id].generated \in Kind(T, "Legend")
    BY <1>1 DEF Refers
  <2> QED BY <2>1, <2>2, <1>2, <1>3, <1>7, <1>8
<1>11. Lists(U)
  <2> SUFFICES ASSUME NEW id \in DOMAIN T
               PROVE  /\ U[id].kind # "Legend" => U[id].lines = <<>>
                      /\ ToSet(U[id].lines) \subseteq Kind(U, "Line")
                      /\ ~U[id].explicit => \A line \in ToSet(U[id].lines) : U[line].parent = U[id].owner
    BY <1>3 DEF Lists
  <2>1. /\ T[id].kind # "Legend" => T[id].lines = <<>>
        /\ ToSet(T[id].lines) \subseteq Kind(T, "Line")
        /\ ~T[id].explicit => \A line \in ToSet(T[id].lines) : T[line].parent = T[id].owner
    BY <1>1 DEF Lists
  <2>2. \A line \in ToSet(T[id].lines) : line \in DOMAIN T
    BY <2>1 DEF Kind
  <2>3. CASE id = n
    <3>1. U[n].lines = <<>> /\ U[n].kind = "Legend"
      BY <1>2, <1>7
    <3>2. ToSet(U[n].lines) = {}
      BY <3>1 DEF ToSet
    <3> QED BY <2>3, <3>1, <3>2
  <2>4. CASE id # n
    BY <2>1, <2>2, <2>4, <1>7, <1>8
  <2> QED BY <2>3, <2>4
<1>12. OneLegend(U)
  BY <1>1, <1>2, <1>3, <1>7 DEF OneLegend
<1>13. Beside(U)
  <2>1. \A id \in DOMAIN T : T[id].owner # 0 => T[id].owner \in DOMAIN T /\ T[T[id].owner].parent = T[id].parent
    BY <1>1 DEF Refers, Kind, Beside
  <2> QED BY <2>1, <1>1, <1>2, <1>3, <1>7 DEF Beside
<1>14. Owned(U)
  BY <1>1, <1>2, <1>3, <1>7 DEF Owned
<1>15. \A k : Kind(U, k) = Kind(T, k)
  BY <1>8
<1> QED BY <1>3, <1>9, <1>10, <1>11, <1>12, <1>13, <1>14, <1>15 DEF Sound

LEMMA LegendMade ==
  ASSUME NEW g, Good(g), NEW axes \in Kind(g.nodes, "Axes"), NEW h, h = WithLegend(g, axes)
  PROVE  /\ Good(h) /\ Follows(g, h) /\ LegendOf(h.nodes, axes) # {}
         /\ DOMAIN g.nodes \subseteq DOMAIN h.nodes
         /\ \A id \in DOMAIN g.nodes : h.nodes[id].kind = g.nodes[id].kind
<1>1. CASE LegendOf(g.nodes, axes) # {}
  <2>1. h = g
    BY <1>1 DEF WithLegend
  <2> QED BY <2>1, <1>1, FollowsSelf DEF Good
<1>2. CASE LegendOf(g.nodes, axes) = {}
  <2> DEFINE parent == g.nodes[axes].parent
             c == Create(g, "Legend", parent)
             n == g.next
             U == [c.nodes EXCEPT ![n] = [c.nodes[n] EXCEPT !.owner = axes]]
  <2>1. h = [c EXCEPT !.nodes = U]
    BY <1>2 DEF WithLegend, Changed
  <2>2. /\ Sane(g) /\ Owned(g.nodes) /\ axes \in DOMAIN g.nodes /\ g.nodes[axes].kind = "Axes"
        /\ Placed(g.nodes) /\ Refers(g.nodes) /\ axes # 0 /\ n \notin DOMAIN g.nodes /\ n \in Nat
        /\ DOMAIN g.nodes \subseteq Nat
    BY DEF Good, Sane, Sound, Kind, Table
  <2>3. parent \in Kind(g.nodes, ParentKind("Legend"))
    BY <2>2 DEF Placed, ParentKind
  <2>4. "Legend" \in Kinds /\ "Legend" # "Figure"
    BY DEF Kinds
  <2>5. Sane(c) /\ Follows(g, c) /\ Created(g, c, "Legend", parent)
    BY <2>2, <2>3, <2>4, Creates
  <2> HIDE DEF c
  <2>6. /\ DOMAIN c.nodes = DOMAIN g.nodes \cup {n} /\ c.nodes[n].kind = "Legend"
        /\ c.nodes[n].parent = parent /\ c.nodes[n].owner = 0 /\ c.nodes[n].lines = <<>>
        /\ \A id \in DOMAIN g.nodes : /\ c.nodes[id].kind = g.nodes[id].kind
                                      /\ c.nodes[id].owner = g.nodes[id].owner
                                      /\ c.nodes[id].parent = g.nodes[id].parent
    BY <2>5 DEF Created
  <2>7. axes \in Kind(c.nodes, "Axes") /\ c.nodes[axes].parent = c.nodes[n].parent
    BY <2>2, <2>6 DEF Kind
  <2>8. \A id \in DOMAIN g.nodes : g.nodes[id].owner # axes
    BY <1>2, <2>2 DEF LegendOf, Kind, Refers
  <2>9. \A id \in DOMAIN c.nodes : c.nodes[id].owner # axes
    BY <2>2, <2>6, <2>8
  <2>10. \A id \in DOMAIN c.nodes \ {n} : c.nodes[id].kind = "Legend" => c.nodes[id].owner # 0
    BY <2>2, <2>6 DEF Owned
  <2>11. Sound(c.nodes) /\ Beside(c.nodes) /\ n \in DOMAIN c.nodes
    BY <2>5, <2>6 DEF Sane
  <2>12. U = [c.nodes EXCEPT ![n] = [c.nodes[n] EXCEPT !.owner = axes]]
    OBVIOUS
  <2> HIDE DEF U, n
  <2>13. /\ Sound(U) /\ Beside(U) /\ Owned(U) /\ DOMAIN U = DOMAIN c.nodes /\ U[n].owner = axes
         /\ \A k : Kind(U, k) = Kind(c.nodes, k)
         /\ \A id \in DOMAIN c.nodes :
              /\ U[id].kind = c.nodes[id].kind /\ U[id].name = c.nodes[id].name
              /\ U[id].generated = c.nodes[id].generated
    <3> DEFINE T == c.nodes
    <3>1. Sound(T) /\ Beside(T) /\ Table(T) /\ n \in DOMAIN T /\ axes \in DOMAIN T
      BY <2>2, <2>6, <2>11 DEF Sound
    <3>2. Adopting(T, n, axes)
      BY <2>6, <2>7, <2>9, <2>10, <2>11 DEF Adopting
    <3>3. U = [T EXCEPT ![n] = [T[n] EXCEPT !.owner = axes]]
      BY <2>12
    <3> HIDE DEF T
    <3>4. Adopted(T, U, n, axes)
      BY <3>1, <3>3, OwnerSet
    <3>5. Sound(U) /\ Beside(U) /\ Owned(U) /\ \A k : Kind(U, k) = Kind(T, k)
      BY <3>1, <3>2, <3>4, AdoptedSound
    <3> QED BY <3>4, <3>5 DEF T, Adopted
  <2>14. c = [nodes |-> c.nodes, next |-> c.next, figure |-> c.figure]
    BY <2>5 DEF Sane
  <2>15. h = [nodes |-> U, next |-> c.next, figure |-> c.figure]
    BY <2>1, <2>14
  <2>16. h.nodes = U /\ h.next = c.next /\ h.figure = c.figure
    BY <2>15
  <2>17. Sane(h)
    BY <2>5, <2>13, <2>15, <2>16 DEF Sane
  <2>18. Follows(c, h)
    BY <2>5, <2>13, <2>16 DEF Follows, Sane
  <2>19. Follows(g, h)
    BY <2>2, <2>5, <2>17, <2>18, FollowsSane
  <2>20. n \in LegendOf(U, axes)
    BY <2>6, <2>11, <2>13 DEF LegendOf, Kind
  <2> QED BY <2>2, <2>6, <2>13, <2>16, <2>17, <2>19, <2>20 DEF Good
<1> QED BY <1>1, <1>2

-----------------------------------------------------------------------------
(* configureLegend: the names it gives.                                     *)
(* Nodes that differ in their names only.                                   *)
OnlyNames(T, M) ==
  /\ DOMAIN M = DOMAIN T /\ M \in [DOMAIN M -> Nodes]
  /\ \A id \in DOMAIN T :
       /\ M[id].kind = T[id].kind /\ M[id].parent = T[id].parent /\ M[id].children = T[id].children
       /\ M[id].axes = T[id].axes /\ M[id].label = T[id].label /\ M[id].owner = T[id].owner
       /\ M[id].lines = T[id].lines /\ M[id].explicit = T[id].explicit
       /\ M[id].generated # 0 => M[id].generated \in Kind(T, "Legend")

LEMMA OnlyNamesSelf == ASSUME NEW T, Sound(T) PROVE OnlyNames(T, T)
BY DEF OnlyNames, Sound, Table, Refers

LEMMA NamedNode ==
  ASSUME NEW t \in Nodes, NEW name \in Nat, NEW legend \in Nat
  PROVE  LET u == Named(t, name, legend)
         IN  /\ u \in Nodes /\ u.name = name /\ u.generated = legend
             /\ u.kind = t.kind /\ u.parent = t.parent /\ u.children = t.children
             /\ u.axes = t.axes /\ u.label = t.label /\ u.owner = t.owner
             /\ u.lines = t.lines /\ u.explicit = t.explicit
<1> DEFINE u == Named(t, name, legend)
<1>1. u = [t EXCEPT !.name = name, !.generated = legend]
  BY DEF Named
<1> HIDE DEF u
<1>2. u \in Nodes
  BY <1>1 DEF Nodes
<1>3. /\ u.name = name /\ u.generated = legend
      /\ u.kind = t.kind /\ u.parent = t.parent /\ u.children = t.children
      /\ u.axes = t.axes /\ u.label = t.label /\ u.owner = t.owner
      /\ u.lines = t.lines /\ u.explicit = t.explicit
  BY <1>1 DEF Nodes
<1> QED BY <1>2, <1>3 DEF u

LEMMA NamingOne ==
  ASSUME NEW T, NEW M, OnlyNames(T, M), NEW line \in DOMAIN T, NEW name \in Nat, NEW legend \in Nat,
         legend # 0 => legend \in Kind(T, "Legend"),
         NEW N, N = [M EXCEPT ![line] = Named(M[line], name, legend)]
  PROVE  /\ OnlyNames(T, N) /\ N[line].name = name /\ N[line].generated = legend
         /\ \A id \in DOMAIN T \ {line} : N[id] = M[id]
<1> DEFINE t == M[line]
           u == Named(t, name, legend)
<1>1. M \in [DOMAIN T -> Nodes] /\ t \in Nodes /\ DOMAIN M = DOMAIN T
  BY DEF OnlyNames
<1>2. N = [M EXCEPT ![line] = u]
  OBVIOUS
<1> HIDE DEF t
<1>3. /\ u \in Nodes /\ u.name = name /\ u.generated = legend
      /\ u.kind = t.kind /\ u.parent = t.parent /\ u.children = t.children
      /\ u.axes = t.axes /\ u.label = t.label /\ u.owner = t.owner
      /\ u.lines = t.lines /\ u.explicit = t.explicit
  BY <1>1, NamedNode
<1> HIDE DEF u
<1>4. DOMAIN N = DOMAIN T /\ N[line] = u /\ \A id \in DOMAIN T \ {line} : N[id] = M[id]
  BY <1>1, <1>2
<1>5. N \in [DOMAIN N -> Nodes]
  BY <1>1, <1>2, <1>3
<1>6. OnlyNames(T, N)
  <2>1. \A id \in DOMAIN T :
          /\ M[id].kind = T[id].kind /\ M[id].parent = T[id].parent /\ M[id].children = T[id].children
          /\ M[id].axes = T[id].axes /\ M[id].label = T[id].label /\ M[id].owner = T[id].owner
          /\ M[id].lines = T[id].lines /\ M[id].explicit = T[id].explicit
          /\ M[id].generated # 0 => M[id].generated \in Kind(T, "Legend")
    BY DEF OnlyNames
  <2>2. \A id \in DOMAIN T :
          /\ N[id].kind = T[id].kind /\ N[id].parent = T[id].parent /\ N[id].children = T[id].children
          /\ N[id].axes = T[id].axes /\ N[id].label = T[id].label /\ N[id].owner = T[id].owner
          /\ N[id].lines = T[id].lines /\ N[id].explicit = T[id].explicit
          /\ N[id].generated # 0 => N[id].generated \in Kind(T, "Legend")
    <3> SUFFICES ASSUME NEW id \in DOMAIN T
                 PROVE  /\ N[id].kind = T[id].kind /\ N[id].parent = T[id].parent /\ N[id].children = T[id].children
                        /\ N[id].axes = T[id].axes /\ N[id].label = T[id].label /\ N[id].owner = T[id].owner
                        /\ N[id].lines = T[id].lines /\ N[id].explicit = T[id].explicit
                        /\ N[id].generated # 0 => N[id].generated \in Kind(T, "Legend")
      OBVIOUS
    <3>1. CASE id = line
      BY <3>1, <2>1, <1>3, <1>4 DEF t
    <3>2. CASE id # line
      BY <3>2, <2>1, <1>4
    <3> QED BY <3>1, <3>2
  <2> QED BY <2>2, <1>4, <1>5 DEF OnlyNames
<1> QED BY <1>3, <1>4, <1>6

-----------------------------------------------------------------------------
(* What the loop of configureLegend has made of the first candidates.       *)
Step(T, legend, candidates, labels, unnamed, made, i) ==
  IF i = 0 THEN [table |-> T, lines |-> <<>>, used |-> {}]
  ELSE IF labels = <<>> THEN ListedNext(made[i - 1], candidates[i], 0, legend, unnamed)
  ELSE IF i > Len(labels) \/ labels[i] = 0 THEN made[i - 1]
  ELSE ListedNext(made[i - 1], candidates[i], labels[i], legend, unnamed)

Makes(T, legend, candidates, labels, unnamed, n, f) ==
  f = [i \in 0 .. n |-> Step(T, legend, candidates, labels, unnamed, f, i)]

LEMMA MakesExists ==
  ASSUME NEW T, NEW legend, NEW candidates, NEW labels, NEW unnamed
  PROVE  \A n \in Nat : \E f : Makes(T, legend, candidates, labels, unnamed, n, f)
<1> DEFINE Lacking == {n \in Nat : ~ \E f : Makes(T, legend, candidates, labels, unnamed, n, f)}
<1> SUFFICES ASSUME Lacking # {} PROVE FALSE
  OBVIOUS
<1> HIDE DEF Lacking
<1>1. PICK n \in Lacking : \A m \in Lacking : n <= m
  <2>1. Lacking \in SUBSET Nat
    BY DEF Lacking
  <2> QED BY <2>1, LeastNumber
<1>2. n \in Nat /\ ~ \E f : Makes(T, legend, candidates, labels, unnamed, n, f)
  BY <1>1 DEF Lacking
<1>3. CASE n = 0
  <2> DEFINE f == [i \in 0 .. 0 |-> [table |-> T, lines |-> <<>>, used |-> {}]]
  <2>1. \A i \in 0 .. 0 : Step(T, legend, candidates, labels, unnamed, f, i)
                          = [table |-> T, lines |-> <<>>, used |-> {}]
    BY DEF Step
  <2>2. Makes(T, legend, candidates, labels, unnamed, 0, f)
    BY <2>1 DEF Makes
  <2> QED BY <1>2, <1>3, <2>2
<1>4. CASE n # 0
  <2>1. n - 1 \in Nat /\ n - 1 \notin Lacking
    BY <1>1, <1>2, <1>4
  <2>2. PICK f : Makes(T, legend, candidates, labels, unnamed, n - 1, f)
    BY <2>1 DEF Lacking
  <2> DEFINE c == [i \in 0 .. n |-> IF i = n THEN Step(T, legend, candidates, labels, unnamed, f, n) ELSE f[i]]
  <2>3. \A i \in 0 .. n - 1 : f[i] = Step(T, legend, candidates, labels, unnamed, f, i)
    BY <2>2, <1>2, <2>1 DEF Makes
  <2>4. \A i \in 0 .. n - 1 : c[i] = f[i]
    BY <1>2
  <2>5. c[n] = Step(T, legend, candidates, labels, unnamed, f, n)
    BY <1>2
  <2>6. c = [i \in 0 .. n |-> c[i]]
    OBVIOUS
  <2> HIDE DEF c
  <2>7. \A i \in 0 .. n : Step(T, legend, candidates, labels, unnamed, c, i)
                          = Step(T, legend, candidates, labels, unnamed, f, i)
    <3>1. \A i \in 0 .. n : i # 0 => c[i - 1] = f[i - 1]
      BY <2>4, <1>2
    <3> QED BY <3>1 DEF Step
  <2>8. \A i \in 0 .. n : c[i] = Step(T, legend, candidates, labels, unnamed, c, i)
    BY <2>3, <2>4, <2>5, <2>7, <1>2
  <2>9. Makes(T, legend, candidates, labels, unnamed, n, c)
    BY <2>6, <2>8 DEF Makes
  <2> QED BY <1>2, <2>9
<1> QED BY <1>3, <1>4

(* What holds of it.                                                        *)
Halfway(T, candidates, labels, m) ==
  /\ m = [table |-> m.table, lines |-> m.lines, used |-> m.used]
  /\ OnlyNames(T, m.table) /\ NamesBut(T, m.table, LabelledLines(candidates, labels))
  /\ m.lines \in Seq(Nat) /\ ToSet(m.lines) \subseteq ToSet(candidates)
  /\ IsFiniteSet(m.used)

LEMMA NextHalfway ==
  ASSUME NEW T, Sound(T), NEW legend \in Kind(T, "Legend"), NEW candidates, NEW labels, NEW unnamed,
         \A id \in unnamed : T[id].name = 0,
         NEW m, Halfway(T, candidates, labels, m),
         NEW line \in ToSet(candidates), line \in DOMAIN T, NEW label \in Nat,
         label # 0 => line \in LabelledLines(candidates, labels),
         NEW k, k = ListedNext(m, line, label, legend, unnamed)
  PROVE  Halfway(T, candidates, labels, k)
<1> DEFINE name == FirstUnused(m.used \cup NamesIn(m.table, m.lines))
           one == Append(m.lines, line)
           M == m.table
           W == LabelledLines(candidates, labels)
<1>1. /\ m = [table |-> m.table, lines |-> m.lines, used |-> m.used]
      /\ OnlyNames(T, M) /\ NamesBut(T, M, W)
      /\ m.lines \in Seq(Nat) /\ ToSet(m.lines) \subseteq ToSet(candidates)
      /\ IsFiniteSet(m.used)
  BY DEF Halfway
<1>2. line \in Nat /\ legend \in Nat
  BY DEF Sound, Table, Kind
<1>3. one \in Seq(Nat) /\ ToSet(one) \subseteq ToSet(candidates)
  BY <1>1, <1>2, AppendOf
<1>4. name \in Nat
  <2>1. IsFiniteSet(NamesIn(m.table, m.lines))
    BY <1>1, NamesFinite
  <2>2. IsFiniteSet(m.used \cup NamesIn(m.table, m.lines))
    BY <2>1, <1>1, FS_Union
  <2> QED BY <2>2, UnusedIsNumber
<1>5. CASE label # 0
  <2> DEFINE N == [M EXCEPT ![line] = Named(M[line], label, 0)]
  <2>1. k = [table |-> N, lines |-> one, used |-> m.used]
    BY <1>5 DEF ListedNext
  <2>2. OnlyNames(T, N) /\ \A id \in DOMAIN T \ {line} : N[id] = M[id]
    <3>1. 0 \in Nat
      OBVIOUS
    <3> HIDE DEF N, M
    <3>2. N = [M EXCEPT ![line] = Named(M[line], label, 0)]
      BY DEF N
    <3>3. line \in DOMAIN T /\ OnlyNames(T, M) /\ label \in Nat
      BY <1>1
    <3>4. 0 # 0 => 0 \in Kind(T, "Legend")
      OBVIOUS
    <3>5. OnlyNames(T, N)
      BY <3>1, <3>2, <3>3, <3>4, NamingOne, Zenon
    <3>6. M \in [DOMAIN T -> Nodes]
      BY <3>3 DEF OnlyNames
    <3>7. \A id \in DOMAIN T \ {line} : N[id] = M[id]
      BY <3>2, <3>6
    <3> QED BY <3>5, <3>7
  <2> HIDE DEF N, one
  <2>3. k.table = N /\ k.lines = one /\ k.used = m.used
    BY <2>1
  <2>4. line \in W
    BY <1>5
  <2> HIDE DEF W
  <2>5. NamesBut(T, N, W)
    BY <2>2, <2>4, <1>1 DEF NamesBut
  <2> QED BY <2>1, <2>2, <2>3, <2>5, <1>1, <1>3 DEF Halfway, W
<1>6. CASE label = 0 /\ line \in unnamed
  <2> DEFINE N == [M EXCEPT ![line] = Named(M[line], name, legend)]
  <2>1. k = [table |-> N, lines |-> one, used |-> m.used \cup {name}]
    BY <1>6 DEF ListedNext
  <2> HIDE DEF name
  <2>2. OnlyNames(T, N) /\ \A id \in DOMAIN T \ {line} : N[id] = M[id]
    <3>1. OnlyNames(T, M) /\ name \in Nat /\ legend \in Nat /\ (legend # 0 => legend \in Kind(T, "Legend"))
      BY <1>1, <1>2, <1>4
    <3>2. M \in [DOMAIN T -> Nodes]
      BY <3>1 DEF OnlyNames
    <3>3. N = [M EXCEPT ![line] = Named(M[line], name, legend)]
      OBVIOUS
    <3> HIDE DEF N, M, one
    <3>4. OnlyNames(T, N)
      BY <3>1, <3>3, NamingOne
    <3>5. \A id \in DOMAIN T \ {line} : N[id] = M[id]
      BY <3>2, <3>3
    <3> QED BY <3>4, <3>5
  <2> HIDE DEF N, one
  <2>3. k.table = N /\ k.lines = one /\ k.used = m.used \cup {name}
    BY <2>1
  <2>4. IsFiniteSet(m.used \cup {name})
    BY <1>1, FS_AddElement
  <2>5. T[line].name = 0
    BY <1>6
  <2> HIDE DEF W
  <2>6. NamesBut(T, N, W)
    BY <2>2, <2>5, <1>1 DEF NamesBut
  <2> QED BY <2>1, <2>2, <2>3, <2>4, <2>6, <1>3 DEF Halfway, W
<1>7. CASE label = 0 /\ line \notin unnamed
  <2>1. k = [m EXCEPT !.lines = one]
    BY <1>7 DEF ListedNext
  <2> HIDE DEF one
  <2>2. k = [table |-> m.table, lines |-> one, used |-> m.used]
    BY <2>1, <1>1
  <2>3. k.table = m.table /\ k.lines = one /\ k.used = m.used
    BY <2>2
  <2> QED BY <2>2, <2>3, <1>1, <1>3 DEF Halfway
<1> QED BY <1>5, <1>6, <1>7

LEMMA Listed ==
  ASSUME NEW T, Sound(T), NEW legend \in Kind(T, "Legend"), NEW candidates \in Seq(DOMAIN T),
         NEW labels \in Seq(Nat)
  PROVE  Halfway(T, candidates, labels, Listing(T, legend, candidates, labels))
<1> DEFINE unnamed == {line \in ToSet(candidates) : T[line].name = 0}
           n == Len(candidates)
           f == CHOOSE f : Makes(T, legend, candidates, labels, unnamed, n, f)
<1>0. n \in Nat /\ DOMAIN candidates = 1 .. n /\ \A i \in 1 .. n : candidates[i] \in DOMAIN T
  OBVIOUS
<1>1. Makes(T, legend, candidates, labels, unnamed, n, f)
  BY <1>0, MakesExists
<1>2. Listing(T, legend, candidates, labels) = f[n]
  BY DEF Listing, Makes, Step
<1>9. \A id \in unnamed : T[id].name = 0
  OBVIOUS
<1> HIDE DEF f, unnamed
<1>3. \A i \in 0 .. n : f[i] = Step(T, legend, candidates, labels, unnamed, f, i)
  BY <1>1 DEF Makes
<1> HIDE DEF n
<1> DEFINE Wrong == {i \in 0 .. n : ~Halfway(T, candidates, labels, f[i])}
<1>4. Wrong = {}
  <2> SUFFICES ASSUME Wrong # {} PROVE FALSE
    OBVIOUS
  <2>1. PICK i \in Wrong : \A m \in Wrong : i <= m
    <3>1. Wrong \in SUBSET Nat
      OBVIOUS
    <3> HIDE DEF Wrong
    <3> QED BY <3>1, LeastNumber
  <2>2. i \in 0 .. n /\ ~Halfway(T, candidates, labels, f[i])
    BY <2>1
  <2>3. CASE i = 0
    <3> DEFINE m == [table |-> T, lines |-> <<>>, used |-> {}]
    <3>1. f[i] = m
      BY <1>3, <2>2, <2>3 DEF Step
    <3>2. m.table = T /\ m.lines = <<>> /\ m.used = {} /\ m = [table |-> m.table, lines |-> m.lines, used |-> m.used]
      OBVIOUS
    <3>3. /\ OnlyNames(T, T) /\ NamesBut(T, T, LabelledLines(candidates, labels))
          /\ <<>> \in Seq(Nat) /\ ToSet(<<>>) = {}
      BY OnlyNamesSelf DEF NamesBut, ToSet
    <3>4. IsFiniteSet({})
      BY FS_EmptySet
    <3> HIDE DEF m
    <3>5. Halfway(T, candidates, labels, m)
      BY <3>2, <3>3, <3>4 DEF Halfway
    <3> QED BY <3>1, <3>5, <2>2
  <2>4. CASE i # 0
    <3>1. i - 1 \in 0 .. n /\ i - 1 \notin Wrong
      <4>1. i \in Nat /\ i - 1 \in 0 .. n /\ ~(i <= i - 1)
        BY <2>2, <2>4, <1>0
      <4> HIDE DEF Wrong
      <4> QED BY <4>1, <2>1
    <3> DEFINE m == f[i - 1]
               k == f[i]
               line == candidates[i]
    <3>2. Halfway(T, candidates, labels, m)
      BY <3>1
    <3>3. line \in ToSet(candidates) /\ line \in DOMAIN T
      BY <1>0, <2>2, <2>4 DEF ToSet
    <3>4. k = IF labels = <<>> THEN ListedNext(m, line, 0, legend, unnamed)
              ELSE IF i > Len(labels) \/ labels[i] = 0 THEN m
              ELSE ListedNext(m, line, labels[i], legend, unnamed)
      BY <1>3, <2>2, <2>4 DEF Step
    <3> HIDE DEF m, k, line
    <3>5. CASE labels = <<>>
      <4>1. k = ListedNext(m, line, 0, legend, unnamed) /\ 0 \in Nat
        BY <3>4, <3>5
      <4> QED BY <4>1, <3>2, <3>3, <1>9, <2>2, NextHalfway DEF k
    <3>6. CASE labels # <<>> /\ (i > Len(labels) \/ labels[i] = 0)
      BY <3>2, <3>4, <3>6, <2>2 DEF k
    <3>7. CASE labels # <<>> /\ ~(i > Len(labels) \/ labels[i] = 0)
      <4> DEFINE label == labels[i]
      <4>1. k = ListedNext(m, line, label, legend, unnamed)
        BY <3>4, <3>7
      <4>2. label \in Nat /\ line \in LabelledLines(candidates, labels)
        BY <3>7, <2>2, <2>4, <1>0 DEF LabelledLines, line
      <4> HIDE DEF label
      <4>3. Halfway(T, candidates, labels, k)
        BY <4>1, <4>2, <3>2, <3>3, <1>9, NextHalfway
      <4> QED BY <4>3, <2>2 DEF k
    <3> QED BY <3>5, <3>6, <3>7
  <2> QED BY <2>3, <2>4
<1>5. Halfway(T, candidates, labels, f[n])
  BY <1>4, <1>0
<1> QED BY <1>2, <1>5 DEF n

-----------------------------------------------------------------------------
(* configureLegend: what the legend lists.                                  *)
LEMMA OnlyNamesTree ==
  ASSUME NEW T, NEW M, OnlyNames(T, M)
  PROVE  SameTree(T, M) /\ SameLists(T, M)
BY DEF OnlyNames, SameTree, SameLists

(* The legend of an axes.                                                   *)
LEMMA TheLegend ==
  ASSUME NEW T, Table(T), NEW axes, LegendOf(T, axes) # {}
  PROVE  /\ Min(LegendOf(T, axes)) \in Kind(T, "Legend") /\ Min(LegendOf(T, axes)) \in DOMAIN T
         /\ T[Min(LegendOf(T, axes))].owner = axes
<1>1. LegendOf(T, axes) \in SUBSET Nat
  BY DEF LegendOf, Kind, Table
<1>2. Min(LegendOf(T, axes)) \in LegendOf(T, axes)
  BY <1>1, MinOf
<1> QED BY <1>2 DEF LegendOf, Kind

(* A table whose legend lists other lines.                                  *)
Relists(T, M, legend, lines, explicit, R) ==
  /\ DOMAIN R = DOMAIN T /\ R \in [DOMAIN R -> Nodes]
  /\ \A id \in DOMAIN T :
       /\ R[id].kind = M[id].kind /\ R[id].parent = M[id].parent /\ R[id].children = M[id].children
       /\ R[id].axes = M[id].axes /\ R[id].label = M[id].label /\ R[id].owner = M[id].owner
       /\ R[id].name = M[id].name /\ R[id].generated = M[id].generated
       /\ id # legend => R[id].lines = M[id].lines /\ R[id].explicit = M[id].explicit
  /\ R[legend].lines = lines /\ R[legend].explicit = explicit

LEMMA Relisted ==
  ASSUME NEW T, NEW M, DOMAIN M = DOMAIN T, M \in [DOMAIN M -> Nodes], NEW legend \in DOMAIN T,
         NEW lines \in Seq(Nat), NEW explicit \in BOOLEAN,
         NEW R, R = [M EXCEPT ![legend] = [M[legend] EXCEPT !.lines = lines, !.explicit = explicit]]
  PROVE  Relists(T, M, legend, lines, explicit, R)
<1> DEFINE t == M[legend]
           u == [t EXCEPT !.lines = lines, !.explicit = explicit]
<1>1. t \in Nodes
  OBVIOUS
<1>2. R = [M EXCEPT ![legend] = u]
  OBVIOUS
<1> HIDE DEF t
<1>3. u \in Nodes
  BY <1>1 DEF Nodes
<1>4. /\ u.kind = t.kind /\ u.parent = t.parent /\ u.children = t.children
      /\ u.axes = t.axes /\ u.label = t.label /\ u.owner = t.owner
      /\ u.lines = lines /\ u.explicit = explicit /\ u.name = t.name /\ u.generated = t.generated
  BY <1>1 DEF Nodes
<1> HIDE DEF u
<1>5. DOMAIN R = DOMAIN T /\ R[legend] = u /\ \A id \in DOMAIN T \ {legend} : R[id] = M[id]
  BY <1>2
<1>6. R \in [DOMAIN R -> Nodes]
  BY <1>2, <1>3
<1>7. \A id \in DOMAIN T :
       /\ R[id].kind = M[id].kind /\ R[id].parent = M[id].parent /\ R[id].children = M[id].children
       /\ R[id].axes = M[id].axes /\ R[id].label = M[id].label /\ R[id].owner = M[id].owner
       /\ R[id].name = M[id].name /\ R[id].generated = M[id].generated
  BY <1>4, <1>5 DEF t
<1> QED BY <1>4, <1>5, <1>6, <1>7 DEF Relists

LEMMA RelistedSound ==
  ASSUME NEW T, Sound(T), NEW M, OnlyNames(T, M), NEW legend \in Kind(T, "Legend"),
         NEW lines, ToSet(lines) \subseteq Kind(T, "Line"), NEW explicit,
         ~explicit => \A line \in ToSet(lines) : T[line].parent = T[legend].owner,
         NEW R, Relists(T, M, legend, lines, explicit, R)
  PROVE  SameTree(T, R) /\ Lists(R)
<1>1. legend \in DOMAIN T /\ T[legend].kind = "Legend" /\ Lists(T)
  BY DEF Kind, Sound
<1>2. /\ DOMAIN R = DOMAIN T /\ R \in [DOMAIN R -> Nodes]
      /\ \A id \in DOMAIN T :
           /\ R[id].kind = T[id].kind /\ R[id].parent = T[id].parent /\ R[id].children = T[id].children
           /\ R[id].axes = T[id].axes /\ R[id].label = T[id].label /\ R[id].owner = T[id].owner
           /\ R[id].generated # 0 => R[id].generated \in Kind(T, "Legend")
           /\ id # legend => R[id].lines = T[id].lines /\ R[id].explicit = T[id].explicit
      /\ R[legend].lines = lines /\ R[legend].explicit = explicit
  BY DEF Relists, OnlyNames
<1>3. SameTree(T, R)
  BY <1>2 DEF SameTree
<1>4. \A k, id : id \in Kind(R, k) <=> id \in Kind(T, k)
  BY <1>3, SameKinds
<1>5. Lists(R)
  <2> SUFFICES ASSUME NEW id \in DOMAIN T
               PROVE  /\ R[id].kind # "Legend" => R[id].lines = <<>>
                      /\ ToSet(R[id].lines) \subseteq Kind(R, "Line")
                      /\ ~R[id].explicit => \A line \in ToSet(R[id].lines) : R[line].parent = R[id].owner
    BY <1>2 DEF Lists
  <2>1. CASE id = legend
    <3>1. \A line \in ToSet(lines) : line \in DOMAIN T
      BY DEF Kind
    <3> QED BY <3>1, <2>1, <1>1, <1>2, <1>4
  <2>2. CASE id # legend
    <3>1. /\ T[id].kind # "Legend" => T[id].lines = <<>>
          /\ ToSet(T[id].lines) \subseteq Kind(T, "Line")
          /\ ~T[id].explicit => \A line \in ToSet(T[id].lines) : T[line].parent = T[id].owner
      BY <1>1 DEF Lists
    <3>2. \A line \in ToSet(T[id].lines) : line \in DOMAIN T
      BY <3>1 DEF Kind
    <3> QED BY <3>1, <3>2, <2>2, <1>2, <1>4
  <2> QED BY <2>1, <2>2
<1> QED BY <1>3, <1>5

LEMMA SequenceWithin ==
  ASSUME NEW S, NEW s \in Seq(S), NEW D, \A i \in DOMAIN s : s[i] \in D
  PROVE  s \in Seq(D)
<1>1. Len(s) \in Nat /\ s \in [1 .. Len(s) -> D]
  OBVIOUS
<1> QED BY <1>1

(* What configureRuntimeLegend is called with: axes that have a legend.     *)
Configurable(g, axes, lines, labels) ==
  /\ Good(g) /\ axes \in Kind(g.nodes, "Axes") /\ LegendOf(g.nodes, axes) # {}
  /\ lines \in Seq(Kind(g.nodes, "Line")) /\ labels \in Seq(Nat)

LEMMA Configured ==
  ASSUME NEW g, NEW axes, NEW lines, NEW labels, NEW existing, NEW h,
         Configurable(g, axes, lines, labels), h = ConfigureLegend(g, axes, lines, labels, existing)
  PROVE  /\ Good(h) /\ DOMAIN h.nodes = DOMAIN g.nodes
         /\ NamesKept(g, h, LabelledLines(Candidates(g.nodes, axes, lines), labels))
<1> DEFINE T == g.nodes
           legend == Min(LegendOf(T, axes))
           children == T[axes].children
           candidates == Candidates(T, axes, lines)
           W == LabelledLines(candidates, labels)
           listing == Listing(T, legend, candidates, labels)
           explicit == lines # <<>> \/ labels # <<>>
           M == listing.table
           shown == [M EXCEPT ![legend] = [M[legend] EXCEPT !.lines = listing.lines, !.explicit = explicit]]
           rebuilt == IF existing /\ lines = <<>> /\ labels = <<>> THEN T ELSE shown
           before == ToSet(T[legend].lines)
           V == AllRefreshed(rebuilt, before)
<1>0. /\ Good(g) /\ axes \in Kind(g.nodes, "Axes") /\ LegendOf(g.nodes, axes) # {}
      /\ lines \in Seq(Kind(g.nodes, "Line")) /\ labels \in Seq(Nat)
  BY DEF Configurable
<1> USE <1>0
<1>1. h = [g EXCEPT !.nodes = V]
  BY DEF ConfigureLegend
<1>2. /\ Sane(g) /\ Sound(T) /\ Table(T) /\ Placed(T) /\ Refers(T) /\ Owned(T)
      /\ axes \in DOMAIN T /\ T[axes].kind = "Axes" /\ T[axes] \in Nodes
  BY DEF Good, Sane, Sound, Table, Kind
<1> HIDE DEF T
<1>3. legend \in Kind(T, "Legend") /\ legend \in DOMAIN T /\ T[legend].owner = axes
  BY <1>2, TheLegend DEF T
<1> HIDE DEF legend
<1>4. /\ candidates \in Seq(DOMAIN T) /\ ToSet(candidates) \subseteq Kind(T, "Line")
      /\ lines = <<>> => \A line \in ToSet(candidates) : T[line].parent = axes
  <2>1. CASE lines # <<>>
    <3>1. candidates = lines
      BY <2>1 DEF Candidates
    <3>2. \A i \in DOMAIN lines : lines[i] \in Kind(T, "Line")
      BY DEF T
    <3>3. lines \in Seq(DOMAIN T)
      BY <3>2 DEF Kind
    <3> QED BY <3>1, <3>2, <3>3, <2>1 DEF ToSet
  <2>2. CASE lines = <<>>
    <3> DEFINE own == {i \in DOMAIN children : T[children[i]].kind = "Line"}
    <3>1. candidates = Picked(children, own)
      BY <2>2 DEF Candidates
    <3>2. children \in Seq(Nat)
      BY <1>2 DEF Nodes
    <3>3. \A i \in DOMAIN children : children[i] \in DOMAIN T /\ T[children[i]].parent = axes
      BY <1>2 DEF Placed, ToSet
    <3>5. own \in SUBSET DOMAIN children /\ \A i \in own : children[i] \in Kind(T, "Line")
      BY <3>3 DEF Kind
    <3> HIDE DEF own, children
    <3>4. children \in Seq(DOMAIN T)
      BY <3>2, <3>3, SequenceWithin
    <3>6. Picked(children, own) \in Seq(DOMAIN T) /\ ToSet(Picked(children, own)) = {children[i] : i \in own}
      BY <3>4, <3>5, PickedOf
    <3> HIDE DEF candidates
    <3>7. candidates \in Seq(DOMAIN T)
      BY <3>1, <3>6
    <3>8. ToSet(candidates) = {children[i] : i \in own}
      BY <3>1, <3>6
    <3>9. ToSet(candidates) \subseteq Kind(T, "Line") /\ \A line \in ToSet(candidates) : T[line].parent = axes
      BY <3>3, <3>5, <3>8
    <3> QED BY <3>7, <3>9
  <2> QED BY <2>1, <2>2
<1> HIDE DEF candidates
<1>5. Halfway(T, candidates, labels, listing)
  BY <1>2, <1>3, <1>4, Listed
<1> HIDE DEF listing
<1>6. /\ OnlyNames(T, M) /\ NamesBut(T, M, W)
      /\ listing.lines \in Seq(Nat) /\ ToSet(listing.lines) \subseteq ToSet(candidates)
  BY <1>5 DEF Halfway
<1>7. explicit \in BOOLEAN
  OBVIOUS
<1>8. Relists(T, M, legend, listing.lines, explicit, shown)
  <2> DEFINE x == explicit
             l == listing.lines
  <2>1. shown = [M EXCEPT ![legend] = [M[legend] EXCEPT !.lines = l, !.explicit = x]]
    OBVIOUS
  <2>2. x \in BOOLEAN /\ l \in Seq(Nat) /\ DOMAIN M = DOMAIN T /\ M \in [DOMAIN M -> Nodes]
    BY <1>6 DEF OnlyNames
  <2> HIDE DEF x, l, shown, M
  <2>3. Relists(T, M, legend, l, x, shown)
    BY <2>1, <2>2, <1>3, Relisted
  <2> QED BY <2>3 DEF x, l
<1>9. SameTree(T, shown) /\ Lists(shown)
  <2> DEFINE x == explicit
             l == listing.lines
  <2>1. ToSet(l) \subseteq Kind(T, "Line")
    BY <1>4, <1>6
  <2>2. ~x => \A line \in ToSet(l) : T[line].parent = T[legend].owner
    BY <1>3, <1>4, <1>6
  <2>3. Relists(T, M, legend, l, x, shown)
    BY <1>8
  <2> HIDE DEF x, l, shown, M
  <2> QED BY <2>1, <2>2, <2>3, <1>2, <1>3, <1>6, RelistedSound
<1> HIDE DEF W
<1>10. NamesBut(T, shown, W)
  BY <1>6, <1>8 DEF NamesBut, Relists
<1> HIDE DEF M, shown, explicit
<1>11. SameTree(T, rebuilt) /\ Lists(rebuilt) /\ NamesBut(T, rebuilt, W)
  <2>1. SameTree(T, T) /\ NamesBut(T, T, W) /\ Lists(T)
    BY <1>2 DEF SameTree, NamesBut, Table, Refers, Sound
  <2> QED BY <2>1, <1>9, <1>10
<1> HIDE DEF rebuilt
<1>12. Sound(rebuilt)
  BY <1>2, <1>11, SameTreeSound
<1>13. SameTree(rebuilt, V) /\ SameNames(rebuilt, V) /\ Lists(V)
  BY <1>12, LinesRefreshed
<1> HIDE DEF V, before
<1> DEFINE k == [g EXCEPT !.nodes = rebuilt]
<1>14. Sane(k) /\ (Owned(T) => Owned(k.nodes)) /\ k.nodes = rebuilt
  BY <1>2, <1>11, TableReplaced DEF T
<1>15. h = [k EXCEPT !.nodes = V]
  BY <1>1, <1>2 DEF Sane
<1> HIDE DEF k
<1>16. Sane(h) /\ (Owned(k.nodes) => Owned(h.nodes)) /\ h.nodes = V
  BY <1>13, <1>14, <1>15, TableReplaced
<1>17. NamesKept(g, h, W)
  <2>1. \A id \in DOMAIN T : id \notin W /\ T[id].name # 0 /\ T[id].generated = 0
           => V[id].name = T[id].name /\ V[id].generated = 0
    <3>1. DOMAIN rebuilt = DOMAIN T
      BY <1>11 DEF SameTree
    <3> QED BY <3>1, <1>11, <1>13 DEF NamesBut, SameNames
  <2> QED BY <2>1, <1>16 DEF NamesKept, Kind, T
<1>18. DOMAIN h.nodes = DOMAIN T
  BY <1>11, <1>13, <1>16 DEF SameTree
<1> QED BY <1>2, <1>14, <1>16, <1>17, <1>18 DEF Good, W, candidates, T

-----------------------------------------------------------------------------
(* Labels, hold, AutoUpdate, the chosen axes and DisplayName.               *)
LEMMA FollowsKeeps ==
  ASSUME NEW g, Sane(g), NEW h, Follows(g, h), NEW lines
  PROVE  NamesKept(g, h, lines)
<1>1. \A id \in Kind(g.nodes, "Line") : id < g.next
  BY DEF Sane, Kind
<1> QED BY <1>1 DEF Follows, NamesKept, Kind

LEMMA Styled ==
  ASSUME NEW T, Sound(T), NEW id \in DOMAIN T, NEW on \in BOOLEAN
  PROVE  /\ Restyled(T, id, [T[id] EXCEPT !.hold = on])
         /\ Restyled(T, id, [T[id] EXCEPT !.auto = on])
         /\ [T[id] EXCEPT !.hold = on].name = T[id].name
         /\ [T[id] EXCEPT !.hold = on].generated = T[id].generated
         /\ [T[id] EXCEPT !.auto = on].name = T[id].name
         /\ [T[id] EXCEPT !.auto = on].generated = T[id].generated
<1> DEFINE t == T[id]
           u == [t EXCEPT !.hold = on]
           v == [t EXCEPT !.auto = on]
<1>1. t \in Nodes /\ (t.generated # 0 => t.generated \in Kind(T, "Legend"))
  BY DEF Sound, Table, Refers
<1> HIDE DEF t
<1>2. u \in Nodes /\ v \in Nodes
  BY <1>1 DEF Nodes
<1>3. /\ u.kind = t.kind /\ u.parent = t.parent /\ u.children = t.children
      /\ u.axes = t.axes /\ u.label = t.label /\ u.owner = t.owner
      /\ u.lines = t.lines /\ u.explicit = t.explicit /\ u.name = t.name /\ u.generated = t.generated
  BY <1>1 DEF Nodes
<1>4. /\ v.kind = t.kind /\ v.parent = t.parent /\ v.children = t.children
      /\ v.axes = t.axes /\ v.label = t.label /\ v.owner = t.owner
      /\ v.lines = t.lines /\ v.explicit = t.explicit /\ v.name = t.name /\ v.generated = t.generated
  BY <1>1 DEF Nodes
<1> HIDE DEF u, v
<1>5. Restyled(T, id, u) /\ Restyled(T, id, v)
  BY <1>1, <1>2, <1>3, <1>4 DEF Restyled, t
<1> QED BY <1>3, <1>4, <1>5 DEF u, v, t

(* hold, and a legend's AutoUpdate.                                         *)
LEMMA Switched ==
  ASSUME NEW g, Good(g), NEW id \in DOMAIN g.nodes, NEW h,
         \/ h = Changed(g, id, [g.nodes[id] EXCEPT !.hold = ~@])
         \/ h = Changed(g, id, [g.nodes[id] EXCEPT !.auto = ~@])
  PROVE  Good(h) /\ Follows(g, h)
<1>1. Sane(g) /\ Sound(g.nodes) /\ Owned(g.nodes)
  BY DEF Good, Sane
<1>2. \E on \in BOOLEAN : \/ h = Changed(g, id, [g.nodes[id] EXCEPT !.hold = on])
                          \/ h = Changed(g, id, [g.nodes[id] EXCEPT !.auto = on])
  OBVIOUS
<1>3. PICK on \in BOOLEAN : \/ h = Changed(g, id, [g.nodes[id] EXCEPT !.hold = on])
                            \/ h = Changed(g, id, [g.nodes[id] EXCEPT !.auto = on])
  BY <1>2
<1> DEFINE u == [g.nodes[id] EXCEPT !.hold = on]
           v == [g.nodes[id] EXCEPT !.auto = on]
<1>4. /\ Restyled(g.nodes, id, u) /\ u.name = g.nodes[id].name /\ u.generated = g.nodes[id].generated
      /\ Restyled(g.nodes, id, v) /\ v.name = g.nodes[id].name /\ v.generated = g.nodes[id].generated
  BY <1>1, Styled
<1>5. h = Changed(g, id, u) \/ h = Changed(g, id, v)
  BY <1>3
<1> HIDE DEF u, v
<1>6. CASE h = Changed(g, id, u)
  BY <1>1, <1>4, <1>6, NodeReplaced DEF Good
<1>7. CASE h = Changed(g, id, v)
  BY <1>1, <1>4, <1>7, NodeReplaced DEF Good
<1> QED BY <1>5, <1>6, <1>7

LEMMA Labelled ==
  ASSUME NEW g, Good(g), NEW axes \in Kind(g.nodes, "Axes"), NEW c, c = Create(g, "Text", axes),
         NEW h, h = Changed(c, axes, [c.nodes[axes] EXCEPT !.label = g.next])
  PROVE  Good(h) /\ Follows(g, h)
<1>1. "Text" \in Kinds /\ "Text" # "Figure" /\ "Text" # "Legend" /\ ParentKind("Text") = "Axes"
  BY DEF Kinds, ParentKind
<1>2. Sane(g) /\ Owned(g.nodes) /\ g.next \in Nat
  BY DEF Good, Sane
<1>3. Sane(c) /\ Follows(g, c) /\ Created(g, c, "Text", axes) /\ Owned(c.nodes)
  BY <1>1, <1>2, Creates
<1>4. axes \in DOMAIN c.nodes /\ g.next \in Kind(c.nodes, "Text") /\ c.nodes[g.next].parent = axes
  BY <1>3 DEF Created, Kind
<1> DEFINE t == c.nodes[axes]
           n == g.next
           u == [t EXCEPT !.label = n]
<1>5. t \in Nodes /\ (t.generated # 0 => t.generated \in Kind(c.nodes, "Legend"))
  BY <1>3, <1>4 DEF Sane, Sound, Table, Refers
<1>6. n \in Nat /\ n \in Kind(c.nodes, "Text") /\ c.nodes[n].parent = axes
  BY <1>2, <1>4
<1>0. h = Changed(c, axes, u)
  OBVIOUS
<1> HIDE DEF t, n
<1>7. u \in Nodes
  BY <1>5, <1>6 DEF Nodes
<1>8. /\ u.kind = t.kind /\ u.parent = t.parent /\ u.children = t.children
      /\ u.axes = t.axes /\ u.label = n /\ u.owner = t.owner
      /\ u.lines = t.lines /\ u.explicit = t.explicit /\ u.name = t.name /\ u.generated = t.generated
  BY <1>5, <1>6 DEF Nodes
<1> HIDE DEF u
<1>9. Restyled(c.nodes, axes, u)
  BY <1>5, <1>6, <1>7, <1>8 DEF Restyled, t
<1>10. Sane(h) /\ Owned(h.nodes) /\ Follows(c, h)
  BY <1>0, <1>3, <1>4, <1>8, <1>9, NodeReplaced DEF t
<1> QED BY <1>2, <1>3, <1>10, FollowsSane DEF Good

(* axes(h).                                                                 *)
LEMMA AxesChosen ==
  ASSUME NEW g, Good(g), NEW id \in Kind(g.nodes, "Axes"), NEW h,
         h = [Changed(g, g.nodes[id].parent, [g.nodes[g.nodes[id].parent] EXCEPT !.axes = id])
                EXCEPT !.figure = g.nodes[id].parent]
  PROVE  Good(h) /\ Follows(g, h)
<1> DEFINE f == g.nodes[id].parent
           t == g.nodes[f]
           u == [t EXCEPT !.axes = id]
           c == Changed(g, f, u)
<1>1. h = [c EXCEPT !.figure = f]
  OBVIOUS
<1>2. Sane(g) /\ Sound(g.nodes) /\ Owned(g.nodes) /\ Placed(g.nodes) /\ Table(g.nodes) /\ Refers(g.nodes)
  BY DEF Good, Sane, Sound
<1>3. id \in DOMAIN g.nodes /\ g.nodes[id].kind = "Axes" /\ id \in Nat
  BY <1>2 DEF Kind, Table
<1>4. ParentKind("Axes") = "Figure" /\ "Axes" # "Figure"
  BY DEF ParentKind
<1>5. f \in Kind(g.nodes, "Figure")
  BY <1>2, <1>3, <1>4 DEF Placed
<1>6. f \in DOMAIN g.nodes /\ f \in Nat /\ g.nodes[id].parent = f
  BY <1>2, <1>5 DEF Kind, Table
<1>7. t \in Nodes /\ (t.generated # 0 => t.generated \in Kind(g.nodes, "Legend"))
  BY <1>2, <1>6 DEF Table, Refers
<1> HIDE DEF f
<1> HIDE DEF t
<1>8. u \in Nodes
  BY <1>3, <1>7 DEF Nodes
<1>9. /\ u.kind = t.kind /\ u.parent = t.parent /\ u.children = t.children
      /\ u.axes = id /\ u.label = t.label /\ u.owner = t.owner
      /\ u.lines = t.lines /\ u.explicit = t.explicit /\ u.name = t.name /\ u.generated = t.generated
  BY <1>3, <1>7 DEF Nodes
<1> HIDE DEF u
<1>10. Restyled(g.nodes, f, u)
  BY <1>6, <1>7, <1>8, <1>9 DEF Restyled, t
<1>11. /\ Sane(c) /\ Owned(c.nodes) /\ Follows(g, c) /\ DOMAIN c.nodes = DOMAIN g.nodes
       /\ \A n \in DOMAIN g.nodes : c.nodes[n].kind = g.nodes[n].kind
  BY <1>2, <1>6, <1>9, <1>10, NodeReplaced DEF t
<1>12. f \in Kind(c.nodes, "Figure")
  BY <1>5, <1>11 DEF Kind
<1> HIDE DEF c
<1>13. h = [nodes |-> c.nodes, next |-> c.next, figure |-> f]
  BY <1>1, <1>11 DEF Sane
<1>14. h.nodes = c.nodes /\ h.next = c.next /\ h.figure = f
  BY <1>13
<1>15. Sane(h)
  BY <1>6, <1>11, <1>12, <1>13, <1>14 DEF Sane
<1>16. Follows(g, h)
  <2>1. Follows(g, c)
    BY <1>11
  <2> QED BY <2>1, <1>14 DEF Follows
<1> QED BY <1>11, <1>14, <1>15, <1>16 DEF Good

LEMMA FigureChosen ==
  ASSUME NEW g, Good(g), NEW id \in Kind(g.nodes, "Figure"), NEW h, h = [g EXCEPT !.figure = id]
  PROVE  Good(h) /\ Follows(g, h)
<1>1. id \in Nat
  BY DEF Good, Sane, Kind
<1>2. h = [nodes |-> g.nodes, next |-> g.next, figure |-> id]
  BY DEF Good, Sane
<1>3. h.nodes = g.nodes /\ h.next = g.next /\ h.figure = id
  BY <1>2
<1>4. Sane(h)
  BY <1>1, <1>2, <1>3 DEF Good, Sane
<1>5. Follows(g, h)
  BY <1>3 DEF Follows, Good, Sane
<1> QED BY <1>3, <1>4, <1>5 DEF Good

LEMMA NameSet ==
  ASSUME NEW g, Good(g), NEW line \in DOMAIN g.nodes, NEW name \in Nat, NEW h,
         h = Changed(g, line, Named(g.nodes[line], name, 0))
  PROVE  Good(h) /\ NamesKept(g, h, {line})
<1> DEFINE t == g.nodes[line]
           z == 0
           u == Named(t, name, z)
<1>1. Sane(g) /\ Owned(g.nodes) /\ t \in Nodes /\ z \in Nat
  BY DEF Good, Sane, Sound, Table
<1>2. h = Changed(g, line, u) /\ z = 0
  OBVIOUS
<1> HIDE DEF t, z
<1>3. /\ u \in Nodes /\ u.name = name /\ u.generated = z
      /\ u.kind = t.kind /\ u.parent = t.parent /\ u.children = t.children
      /\ u.axes = t.axes /\ u.label = t.label /\ u.owner = t.owner
      /\ u.lines = t.lines /\ u.explicit = t.explicit
  BY <1>1, NamedNode
<1> HIDE DEF u
<1>4. Restyled(g.nodes, line, u)
  BY <1>2, <1>3 DEF Restyled, t
<1>5. /\ Sane(h) /\ Owned(h.nodes) /\ \A n \in DOMAIN g.nodes \ {line} : h.nodes[n] = g.nodes[n]
  BY <1>1, <1>2, <1>4, NodeReplaced
<1>6. NamesKept(g, h, {line})
  BY <1>5 DEF NamesKept, Kind
<1> QED BY <1>5, <1>6 DEF Good

-----------------------------------------------------------------------------
(* A legend's String.                                                       *)
(* Legends that list less.                                                  *)
FewerLines(T, U) ==
  \A id \in DOMAIN T :
    /\ U[id].explicit = T[id].explicit /\ ToSet(U[id].lines) \subseteq ToSet(T[id].lines)
    /\ T[id].kind # "Legend" => U[id].lines = T[id].lines

LEMMA FewerLinesListed ==
  ASSUME NEW T, Lists(T), NEW U, SameTree(T, U), FewerLines(T, U)
  PROVE  Lists(U)
<1>1. DOMAIN U = DOMAIN T
  BY DEF SameTree
<1>2. Kind(U, "Line") = Kind(T, "Line")
  BY SameKinds
<1> SUFFICES ASSUME NEW id \in DOMAIN T
             PROVE  /\ U[id].kind # "Legend" => U[id].lines = <<>>
                    /\ ToSet(U[id].lines) \subseteq Kind(U, "Line")
                    /\ ~U[id].explicit => \A line \in ToSet(U[id].lines) : U[line].parent = U[id].owner
  BY <1>1 DEF Lists
<1>3. /\ T[id].kind # "Legend" => T[id].lines = <<>>
      /\ ToSet(T[id].lines) \subseteq Kind(T, "Line")
      /\ ~T[id].explicit => \A line \in ToSet(T[id].lines) : T[line].parent = T[id].owner
  BY DEF Lists
<1>4. \A line \in ToSet(T[id].lines) : line \in DOMAIN T
  BY <1>3 DEF Kind
<1>5. /\ U[id].explicit = T[id].explicit /\ ToSet(U[id].lines) \subseteq ToSet(T[id].lines)
      /\ T[id].kind # "Legend" => U[id].lines = T[id].lines
  BY DEF FewerLines
<1>6. /\ U[id].kind = T[id].kind /\ U[id].owner = T[id].owner
      /\ \A n \in DOMAIN T : U[n].parent = T[n].parent
  BY DEF SameTree
<1> QED BY <1>2, <1>3, <1>4, <1>5, <1>6

LEMMA ShorterOf ==
  ASSUME NEW s \in Seq(Nat), NEW n \in Nat
  PROVE  LET kept == SubSeq(s, 1, Min({n, Len(s)}))
         IN  /\ kept \in Seq(Nat) /\ Len(kept) <= n /\ DOMAIN kept = 1 .. Len(kept) /\ Len(kept) \in Nat
             /\ ToSet(kept) \subseteq ToSet(s)
<1> DEFINE b == Len(s)
           k == Min({n, b})
           kept == SubSeq(s, 1, k)
<1>1. b \in Nat /\ DOMAIN s = 1 .. b /\ \A i \in 1 .. b : s[i] \in Nat
  OBVIOUS
<1>2. k \in Nat /\ k <= n /\ k <= b
  <2>1. CASE n <= b
    <3>1. n \in {n, b} /\ \A m \in {n, b} : n <= m
      BY <1>1, <2>1
    <3>2. k \in {n, b} /\ \A m \in {n, b} : k <= m
      BY <3>1 DEF Min
    <3> QED BY <1>1, <3>2
  <2>2. CASE ~(n <= b)
    <3>1. b \in {n, b} /\ \A m \in {n, b} : b <= m
      BY <1>1, <2>2
    <3>2. k \in {n, b} /\ \A m \in {n, b} : k <= m
      BY <3>1 DEF Min
    <3> QED BY <1>1, <3>2
  <2> QED BY <2>1, <2>2
<1> HIDE DEF k
<1>3. kept = [i \in 1 .. k |-> s[i]]
  BY <1>1, <1>2
<1> HIDE DEF b, kept
<1>4. \A i \in 1 .. k : s[i] \in Nat /\ i \in DOMAIN s
  BY <1>1, <1>2
<1>5. kept \in Seq(Nat) /\ Len(kept) = k /\ DOMAIN kept = 1 .. k
  BY <1>2, <1>3, <1>4
<1>6. ToSet(kept) \subseteq ToSet(s)
  BY <1>3, <1>4 DEF ToSet
<1> QED BY <1>2, <1>5, <1>6 DEF kept, k, b

(* A legend's String.                                                       *)
LabelFor(labels, kept, line) == labels[Max({i \in DOMAIN kept : kept[i] = line})]

Strung(T, legend, kept, labels) ==
  [id \in DOMAIN T |->
     IF id = legend THEN [T[id] EXCEPT !.lines = kept]
     ELSE IF id \in ToSet(kept) THEN Named(T[id], LabelFor(labels, kept, id), 0) ELSE T[id]]

LEMMA LabelIsNumber ==
  ASSUME NEW labels \in Seq(Nat), NEW kept \in Seq(Nat), Len(kept) <= Len(labels), NEW line \in ToSet(kept)
  PROVE  LabelFor(labels, kept, line) \in Nat
<1> DEFINE S == {i \in DOMAIN kept : kept[i] = line}
           k == Len(kept)
<1>1. k \in Nat /\ DOMAIN kept = 1 .. k /\ Len(labels) \in Nat
  OBVIOUS
<1>2. S # {} /\ S \in SUBSET (0 .. k) /\ S \in SUBSET (1 .. k)
  <2> HIDE DEF k
  <2> QED BY <1>1 DEF ToSet
<1>3. LabelFor(labels, kept, line) = labels[Max(S)]
  BY DEF LabelFor
<1> HIDE DEF S
<1>4. Max(S) \in 1 .. k
  <2> HIDE DEF k
  <2> QED BY <1>1, <1>2, MaxOf
<1> QED BY <1>1, <1>3, <1>4

Strings(T, U, legend, kept) ==
  \A id \in DOMAIN T :
    /\ U[id] \in Nodes
    /\ U[id].kind = T[id].kind /\ U[id].parent = T[id].parent /\ U[id].children = T[id].children
    /\ U[id].axes = T[id].axes /\ U[id].label = T[id].label /\ U[id].owner = T[id].owner
    /\ U[id].explicit = T[id].explicit /\ U[id].lines = (IF id = legend THEN kept ELSE T[id].lines)
    /\ id \in ToSet(kept) => U[id].generated = 0
    /\ id \notin ToSet(kept) => U[id].name = T[id].name /\ U[id].generated = T[id].generated

LEMMA StringsOf ==
  ASSUME NEW T, NEW legend \in DOMAIN T, \A id \in DOMAIN T : T[id] \in Nodes,
         NEW kept \in Seq(Nat), NEW labels \in Seq(Nat), Len(kept) <= Len(labels), legend \notin ToSet(kept)
  PROVE  Strings(T, Strung(T, legend, kept, labels), legend, kept)
<1> DEFINE t == T[legend]
           u == [t EXCEPT !.lines = kept]
           U == Strung(T, legend, kept, labels)
<1>1. t \in Nodes
  OBVIOUS
<1>2. U[legend] = u
  BY DEF Strung
<1>3. \A id \in DOMAIN T : id # legend /\ id \notin ToSet(kept) => U[id] = T[id]
  BY DEF Strung
<1>4. \A id \in DOMAIN T : id # legend /\ id \in ToSet(kept) =>
        U[id] = Named(T[id], LabelFor(labels, kept, id), 0)
  BY DEF Strung
<1>5. u \in Nodes
  <2> HIDE DEF t
  <2> QED BY <1>1 DEF Nodes
<1>6. /\ u.kind = t.kind /\ u.parent = t.parent /\ u.children = t.children
      /\ u.axes = t.axes /\ u.label = t.label /\ u.owner = t.owner
      /\ u.lines = kept /\ u.explicit = t.explicit /\ u.name = t.name /\ u.generated = t.generated
  <2> HIDE DEF t
  <2> QED BY <1>1 DEF Nodes
<1> HIDE DEF u, U
<1> SUFFICES ASSUME NEW id \in DOMAIN T
             PROVE  /\ U[id] \in Nodes
                    /\ U[id].kind = T[id].kind /\ U[id].parent = T[id].parent /\ U[id].children = T[id].children
                    /\ U[id].axes = T[id].axes /\ U[id].label = T[id].label /\ U[id].owner = T[id].owner
                    /\ U[id].explicit = T[id].explicit /\ U[id].lines = (IF id = legend THEN kept ELSE T[id].lines)
                    /\ id \in ToSet(kept) => U[id].generated = 0
                    /\ id \notin ToSet(kept) => U[id].name = T[id].name /\ U[id].generated = T[id].generated
  BY DEF Strings, U
<1>7. CASE id = legend
  BY <1>2, <1>5, <1>6, <1>7
<1>8. CASE id # legend /\ id \in ToSet(kept)
  <2> DEFINE r == T[id]
             name == LabelFor(labels, kept, id)
             z == 0
             v == Named(r, name, z)
  <2>0. z = 0
    OBVIOUS
  <2>1. r \in Nodes /\ name \in Nat /\ z \in Nat
    BY <1>8, LabelIsNumber
  <2>2. U[id] = v
    BY <1>4, <1>8
  <2> HIDE DEF r, name, z
  <2>3. /\ v \in Nodes /\ v.name = name /\ v.generated = z
        /\ v.kind = r.kind /\ v.parent = r.parent /\ v.children = r.children
        /\ v.axes = r.axes /\ v.label = r.label /\ v.owner = r.owner
        /\ v.lines = r.lines /\ v.explicit = r.explicit
    BY <2>1, NamedNode
  <2> HIDE DEF v
  <2> QED BY <2>0, <2>1, <2>2, <2>3, <1>8 DEF r
<1>9. CASE id # legend /\ id \notin ToSet(kept)
  BY <1>3, <1>9
<1> QED BY <1>7, <1>8, <1>9

LEMMA StringSet ==
  ASSUME NEW g, Good(g), NEW legend \in Kind(g.nodes, "Legend"), NEW labels \in Seq(Nat),
         NEW kept, kept = SubSeq(g.nodes[legend].lines, 1, Min({Len(labels), Len(g.nodes[legend].lines)})),
         NEW U, U = Strung(g.nodes, legend, kept, labels), NEW h, h = [g EXCEPT !.nodes = U]
  PROVE  Good(h) /\ NamesKept(g, h, ToSet(kept))
<1> DEFINE T == g.nodes
           s == T[legend].lines
<1>0. U = Strung(T, legend, kept, labels)
  OBVIOUS
<1>1. /\ Sane(g) /\ Sound(T) /\ Owned(T) /\ Lists(T) /\ Refers(T)
      /\ legend \in DOMAIN T /\ T[legend].kind = "Legend" /\ \A id \in DOMAIN T : T[id] \in Nodes
  BY DEF Good, Sane, Sound, Table, Kind
<1>2. s \in Seq(Nat) /\ Len(labels) \in Nat
  BY <1>1 DEF Nodes
<1>3. /\ kept \in Seq(Nat) /\ Len(kept) <= Len(labels) /\ ToSet(kept) \subseteq ToSet(s)
  <2> DEFINE n == Len(labels)
  <2>1. kept = SubSeq(s, 1, Min({n, Len(s)}))
    OBVIOUS
  <2>2. n \in Nat
    BY <1>2
  <2> HIDE DEF s, n
  <2>3. kept \in Seq(Nat) /\ Len(kept) <= n /\ ToSet(kept) \subseteq ToSet(s)
    BY <2>1, <2>2, <1>2, ShorterOf
  <2> QED BY <2>3 DEF n
<1>4. ToSet(s) \subseteq Kind(T, "Line")
  BY <1>1 DEF Lists
<1>5. legend \notin ToSet(kept)
  BY <1>1, <1>3, <1>4 DEF Kind
<1> HIDE DEF T
<1>6. Strings(T, U, legend, kept)
  BY <1>0, <1>1, <1>3, <1>5, StringsOf
<1>7. DOMAIN U = DOMAIN T /\ U = [id \in DOMAIN U |-> U[id]]
  BY <1>0 DEF Strung
<1>8. U \in [DOMAIN U -> Nodes]
  BY <1>6, <1>7 DEF Strings
<1>9. SameTree(T, U)
  <2>1. \A id \in DOMAIN T : T[id].generated # 0 => T[id].generated \in Kind(T, "Legend")
    BY <1>1 DEF Refers
  <2>2. \A id \in DOMAIN T :
          /\ U[id].kind = T[id].kind /\ U[id].parent = T[id].parent /\ U[id].children = T[id].children
          /\ U[id].axes = T[id].axes /\ U[id].label = T[id].label /\ U[id].owner = T[id].owner
          /\ id \in ToSet(kept) => U[id].generated = 0
          /\ id \notin ToSet(kept) => U[id].generated = T[id].generated
    BY <1>6 DEF Strings
  <2> QED BY <2>1, <2>2, <1>7, <1>8 DEF SameTree
<1>10. FewerLines(T, U)
  BY <1>3, <1>6, <1>1 DEF FewerLines, Strings, s
<1>11. Lists(U)
  BY <1>1, <1>9, <1>10, FewerLinesListed
<1>12. Sane(h) /\ Owned(h.nodes) /\ h.nodes = U
  <2>1. Sane(g) /\ SameTree(g.nodes, U) /\ Owned(g.nodes)
    BY <1>1, <1>9 DEF T
  <2> QED BY <2>1, <1>11, TableReplaced
<1>13. NamesKept(g, h, ToSet(kept))
  <2>1. \A id \in DOMAIN T : id \notin ToSet(kept) =>
          h.nodes[id].name = g.nodes[id].name /\ h.nodes[id].generated = g.nodes[id].generated
    <3>1. \A id \in DOMAIN T : id \notin ToSet(kept) =>
            U[id].name = T[id].name /\ U[id].generated = T[id].generated
      BY <1>6 DEF Strings
    <3>2. h.nodes = U /\ g.nodes = T
      BY <1>12 DEF T
    <3> QED BY <3>1, <3>2
  <2>2. \A line \in Kind(g.nodes, "Line") : line \in DOMAIN T
    BY DEF Kind, T
  <2> QED BY <2>1, <2>2 DEF NamesKept
<1> QED BY <1>12, <1>13 DEF Good

-----------------------------------------------------------------------------
(* reparent: the node moves.                                                *)
(* What becomes of a table when a node gets another parent.                 *)
MovedTo(T, U, id, parent) ==
  /\ Table(U) /\ DOMAIN U = DOMAIN T
  /\ \A n \in DOMAIN T :
       /\ U[n].kind = T[n].kind /\ U[n].owner = T[n].owner
       /\ U[n].lines = T[n].lines /\ U[n].explicit = T[n].explicit
       /\ U[n].generated = T[n].generated /\ U[n].name = T[n].name
       /\ U[n].parent = IF n = id THEN parent ELSE T[n].parent
       /\ U[n].children = IF n = parent THEN Append(T[n].children, id)
                          ELSE IF n = T[id].parent THEN Outside(T[n].children, {id}) ELSE T[n].children
       /\ U[n].axes = IF n = T[id].parent THEN Without(T[n].axes, {id}) ELSE T[n].axes
       /\ U[n].label = IF n = T[id].parent THEN LabelLeft(T[n].label, id) ELSE T[n].label

LEMMA MovedFacts ==
  ASSUME NEW T, Table(T), NEW id \in DOMAIN T, NEW parent \in DOMAIN T, id # parent,
         T[id].parent # id, T[id].parent # parent
  PROVE  MovedTo(T, Moved(T, id, parent), id, parent)
<1> DEFINE U == Moved(T, id, parent)
           old == T[id].parent
<1>1. DOMAIN T \subseteq Nat \ {0} /\ \A n \in DOMAIN T : T[n] \in Nodes
  BY DEF Table
<1>2. id \in Nat /\ parent \in Nat /\ old # id /\ old # parent /\ id # parent
  BY <1>1
<1>3. DOMAIN U = DOMAIN T /\ U = [n \in DOMAIN U |-> U[n]]
  BY DEF Moved
<1>4. U[id] = [T[id] EXCEPT !.parent = parent]
  BY DEF Moved
<1>5. U[parent] = [T[parent] EXCEPT !.children = Append(T[parent].children, id)]
  BY <1>2 DEF Moved
<1>6. old \in DOMAIN T => U[old] = [T[old] EXCEPT !.children = Outside(T[old].children, {id}),
                                                 !.axes = Without(T[old].axes, {id}),
                                                 !.label = LabelLeft(T[old].label, id)]
  BY <1>2 DEF Moved
<1>7. \A n \in DOMAIN T : n # id /\ n # parent /\ n # old => U[n] = T[n]
  BY DEF Moved
<1> HIDE DEF U
<1> DEFINE Right(n) ==
       /\ U[n] \in Nodes
       /\ U[n].kind = T[n].kind /\ U[n].owner = T[n].owner
       /\ U[n].lines = T[n].lines /\ U[n].explicit = T[n].explicit
       /\ U[n].generated = T[n].generated /\ U[n].name = T[n].name
       /\ U[n].parent = IF n = id THEN parent ELSE T[n].parent
       /\ U[n].children = IF n = parent THEN Append(T[n].children, id)
                          ELSE IF n = old THEN Outside(T[n].children, {id}) ELSE T[n].children
       /\ U[n].axes = IF n = old THEN Without(T[n].axes, {id}) ELSE T[n].axes
       /\ U[n].label = IF n = old THEN LabelLeft(T[n].label, id) ELSE T[n].label
<1>8. Right(id)
  <2> DEFINE r == T[id]
             u == [r EXCEPT !.parent = parent]
  <2>1. r \in Nodes /\ U[id] = u
    BY <1>1, <1>4
  <2> HIDE DEF r
  <2>2. u \in Nodes
    BY <2>1, <1>2 DEF Nodes
  <2>3. /\ u.kind = r.kind /\ u.parent = parent /\ u.children = r.children
        /\ u.axes = r.axes /\ u.label = r.label /\ u.owner = r.owner
        /\ u.lines = r.lines /\ u.explicit = r.explicit /\ u.name = r.name /\ u.generated = r.generated
    BY <2>1 DEF Nodes
  <2> HIDE DEF u, old
  <2> QED BY <2>1, <2>2, <2>3, <1>2 DEF r
<1>9. Right(parent)
  <2> DEFINE r == T[parent]
             c == Append(r.children, id)
             u == [r EXCEPT !.children = c]
  <2>1. r \in Nodes /\ U[parent] = u
    BY <1>1, <1>5
  <2> HIDE DEF r
  <2>2. c \in Seq(Nat)
    <3>1. r.children \in Seq(Nat)
      BY <2>1 DEF Nodes
    <3> QED BY <3>1, <1>2, AppendOf
  <2> HIDE DEF c
  <2>3. u \in Nodes
    BY <2>1, <2>2 DEF Nodes
  <2>4. /\ u.kind = r.kind /\ u.parent = r.parent /\ u.children = c
        /\ u.axes = r.axes /\ u.label = r.label /\ u.owner = r.owner
        /\ u.lines = r.lines /\ u.explicit = r.explicit /\ u.name = r.name /\ u.generated = r.generated
    BY <2>1 DEF Nodes
  <2> HIDE DEF u, old
  <2> QED BY <2>1, <2>3, <2>4, <1>2 DEF r, c
<1>10. ASSUME old \in DOMAIN T PROVE Right(old)
  <2> DEFINE r == T[old]
             c == Outside(r.children, {id})
             a == Without(r.axes, {id})
             l == LabelLeft(r.label, id)
             u == [r EXCEPT !.children = c, !.axes = a, !.label = l]
  <2>1. r \in Nodes /\ U[old] = u
    BY <1>10, <1>1, <1>6
  <2> HIDE DEF r
  <2>2. c \in Seq(Nat)
    <3>1. r.children \in Seq(Nat)
      BY <2>1 DEF Nodes
    <3> QED BY <3>1, OutsideOf
  <2>3. a \in Nat /\ l \in Nat
    <3>1. r.axes \in Nat /\ r.label \in Nat
      BY <2>1 DEF Nodes
    <3> QED BY <3>1 DEF Without, LabelLeft
  <2> HIDE DEF c, a, l
  <2>4. u \in Nodes
    BY <2>1, <2>2, <2>3 DEF Nodes
  <2>5. /\ u.kind = r.kind /\ u.parent = r.parent /\ u.children = c
        /\ u.axes = a /\ u.label = l /\ u.owner = r.owner
        /\ u.lines = r.lines /\ u.explicit = r.explicit /\ u.name = r.name /\ u.generated = r.generated
    BY <2>1 DEF Nodes
  <2> HIDE DEF u, old
  <2> QED BY <2>1, <2>4, <2>5, <1>2 DEF r, c, a, l
<1>11. ASSUME NEW n \in DOMAIN T, n # id, n # parent, n # old PROVE Right(n)
  <2> HIDE DEF old
  <2> QED BY <1>1, <1>7, <1>11
<1>12. \A n \in DOMAIN T : Right(n)
  <2> HIDE DEF Right
  <2> QED BY <1>8, <1>9, <1>10, <1>11
<1>13. Table(U)
  BY <1>1, <1>3, <1>12 DEF Table
<1>14. MovedTo(T, U, id, parent)
  BY <1>3, <1>12, <1>13 DEF MovedTo
<1> QED BY <1>14 DEF U

(* A node may move below a node of the same kind as its parent's.           *)
Moves(T, id, parent) ==
  /\ id \in DOMAIN T /\ T[id].kind # "Figure" /\ parent \in Kind(T, ParentKind(T[id].kind))
  /\ T[id].parent # parent
  /\ \A n \in DOMAIN T : ~T[n].explicit => id \notin ToSet(T[n].lines)

LEMMA MovesApart ==
  ASSUME NEW T, Sound(T), NEW id, NEW parent, Moves(T, id, parent)
  PROVE  /\ parent \in DOMAIN T /\ id # parent /\ T[id].parent \in DOMAIN T /\ T[id].parent # id
         /\ MovedTo(T, Moved(T, id, parent), id, parent)
<1>1. /\ Placed(T) /\ Table(T) /\ id \in DOMAIN T /\ T[id].kind # "Figure"
      /\ parent \in DOMAIN T /\ T[parent].kind = ParentKind(T[id].kind) /\ T[id].parent # parent
  BY DEF Moves, Sound, Kind
<1>2. T[id].parent \in DOMAIN T /\ T[T[id].parent].kind = ParentKind(T[id].kind)
  BY <1>1 DEF Placed, Kind
<1>3. ParentKind(T[id].kind) # T[id].kind
  BY <1>1 DEF ParentKind
<1>4. id # parent /\ T[id].parent # id
  BY <1>1, <1>2, <1>3
<1> QED BY <1>1, <1>2, <1>4, MovedFacts

LEMMA MovedSound ==
  ASSUME NEW T, Sound(T), NEW id, NEW parent, Moves(T, id, parent), NEW U, MovedTo(T, U, id, parent)
  PROVE  Sound(U) /\ \A k : Kind(U, k) = Kind(T, k)
<1> DEFINE old == T[id].parent
<1>1. /\ Table(T) /\ Placed(T) /\ Refers(T) /\ Lists(T) /\ OneLegend(T)
      /\ id \in DOMAIN T /\ T[id].kind # "Figure" /\ parent \in Kind(T, ParentKind(T[id].kind))
      /\ \A n \in DOMAIN T : ~T[n].explicit => id \notin ToSet(T[n].lines)
  BY DEF Sound, Moves
<1>2. parent \in DOMAIN T /\ id # parent /\ old \in DOMAIN T /\ old # id /\ old # parent
  BY MovesApart DEF Moves
<1>3. T[id].parent = old /\ Table(U) /\ DOMAIN U = DOMAIN T /\ id \in Nat
  BY <1>1 DEF MovedTo, Table
<1>4. \A n \in DOMAIN T :
       /\ U[n].kind = T[n].kind /\ U[n].owner = T[n].owner
       /\ U[n].lines = T[n].lines /\ U[n].explicit = T[n].explicit
       /\ U[n].generated = T[n].generated
       /\ U[n].parent = IF n = id THEN parent ELSE T[n].parent
  BY DEF MovedTo
<1>5. \A n \in DOMAIN T :
       /\ U[n].children = IF n = parent THEN Append(T[n].children, id)
                          ELSE IF n = old THEN Outside(T[n].children, {id}) ELSE T[n].children
       /\ U[n].axes = IF n = old THEN Without(T[n].axes, {id}) ELSE T[n].axes
       /\ U[n].label = IF n = old THEN LabelLeft(T[n].label, id) ELSE T[n].label
  BY DEF MovedTo
<1> HIDE DEF old
<1>6. \A n, k : n \in Kind(U, k) <=> n \in Kind(T, k)
  BY <1>3, <1>4 DEF Kind
<1>7. Placed(U)
  <2>0. \A n \in DOMAIN T : T[n].children \in Seq(Nat)
    BY <1>1 DEF Table, Nodes
  <2>1. \A n \in DOMAIN T :
          /\ n # parent /\ n # old => ToSet(U[n].children) = ToSet(T[n].children) /\ (Once(T[n].children) => Once(U[n].children))
          /\ n = parent => ToSet(U[n].children) = ToSet(T[n].children) \cup {id}
          /\ n = parent /\ id \notin ToSet(T[n].children) => (Once(T[n].children) => Once(U[n].children))
          /\ n = old => ToSet(U[n].children) = ToSet(T[n].children) \ {id} /\ (Once(T[n].children) => Once(U[n].children))
    <3> SUFFICES ASSUME NEW n \in DOMAIN T
                 PROVE  /\ n # parent /\ n # old => ToSet(U[n].children) = ToSet(T[n].children) /\ (Once(T[n].children) => Once(U[n].children))
                        /\ n = parent => ToSet(U[n].children) = ToSet(T[n].children) \cup {id}
                        /\ n = parent /\ id \notin ToSet(T[n].children) => (Once(T[n].children) => Once(U[n].children))
                        /\ n = old => ToSet(U[n].children) = ToSet(T[n].children) \ {id} /\ (Once(T[n].children) => Once(U[n].children))
      OBVIOUS
    <3>1. CASE n = parent
      BY <3>1, <2>0, <1>2, <1>3, <1>5, AppendOf
    <3>2. CASE n = old
      BY <3>2, <2>0, <1>2, <1>5, OutsideOf
    <3>3. CASE n # parent /\ n # old
      BY <3>3, <1>5
    <3> QED BY <3>1, <3>2, <3>3
  <2>2. \A n \in DOMAIN T :
          /\ T[n].kind = "Figure" => T[n].parent = 0
          /\ T[n].kind # "Figure" => /\ T[n].parent \in Kind(T, ParentKind(T[n].kind))
                                     /\ n \in ToSet(T[T[n].parent].children)
          /\ \A child \in ToSet(T[n].children) : child \in DOMAIN T /\ T[child].parent = n
          /\ Once(T[n].children)
    BY <1>1 DEF Placed
  <2>3. \A n \in DOMAIN T : T[n].kind # "Figure" => T[n].parent \in DOMAIN T
    BY <2>2 DEF Kind
  <2> SUFFICES ASSUME NEW n \in DOMAIN T
               PROVE  /\ U[n].kind = "Figure" => U[n].parent = 0
                      /\ U[n].kind # "Figure" => /\ U[n].parent \in Kind(U, ParentKind(U[n].kind))
                                                 /\ n \in ToSet(U[U[n].parent].children)
                      /\ \A child \in ToSet(U[n].children) : child \in DOMAIN U /\ U[child].parent = n
                      /\ Once(U[n].children)
    BY <1>3 DEF Placed
  <2>4. U[n].kind = "Figure" => U[n].parent = 0
    BY <2>2, <1>1, <1>4
  <2>5. U[n].kind # "Figure" => /\ U[n].parent \in Kind(U, ParentKind(U[n].kind))
                                /\ n \in ToSet(U[U[n].parent].children)
    <3>1. CASE n = id
      BY <3>1, <2>1, <1>1, <1>2, <1>4, <1>6
    <3>2. ASSUME n # id, T[n].kind # "Figure" PROVE n \in ToSet(U[T[n].parent].children)
      <4>1. T[n].parent \in DOMAIN T /\ n \in ToSet(T[T[n].parent].children)
        BY <3>2, <2>2, <2>3
      <4>2. CASE T[n].parent = parent
        BY <4>1, <4>2, <2>1
      <4>3. CASE T[n].parent = old
        BY <3>2, <4>1, <4>3, <2>1
      <4>4. CASE T[n].parent # parent /\ T[n].parent # old
        BY <4>1, <4>4, <2>1
      <4> QED BY <4>2, <4>3, <4>4
    <3>3. CASE n # id
      BY <3>2, <3>3, <2>2, <1>4, <1>6
    <3> QED BY <3>1, <3>3
  <2>6. \A child \in ToSet(U[n].children) : child \in DOMAIN U /\ U[child].parent = n
    <3> SUFFICES ASSUME NEW child \in ToSet(U[n].children) PROVE child \in DOMAIN U /\ U[child].parent = n
      OBVIOUS
    <3>1. CASE child = id
      <4>1. ASSUME n # parent PROVE FALSE
        <5>1. n # old => id \in ToSet(T[n].children)
          BY <4>1, <3>1, <2>1
        <5>2. n # old => T[id].parent = n
          BY <5>1, <2>2
        <5>3. n = old => id \in ToSet(T[n].children) \ {id}
          BY <3>1, <2>1
        <5> QED BY <5>2, <5>3, <1>3
      <4> QED BY <4>1, <3>1, <1>1, <1>3, <1>4
    <3>2. CASE child # id
      <4>1. child \in ToSet(T[n].children)
        BY <3>2, <2>1, <1>2
      <4> QED BY <4>1, <3>2, <2>2, <1>3, <1>4
    <3> QED BY <3>1, <3>2
  <2>7. Once(U[n].children)
    <3>1. n = parent => id \notin ToSet(T[n].children)
      BY <2>2, <1>2, <1>3
    <3> QED BY <3>1, <2>1, <2>2
  <2> QED BY <2>4, <2>5, <2>6, <2>7
<1>8. Refers(U)
  <2>1. \A n, k : n \in Kind(T, k) => n \in DOMAIN T
    BY DEF Kind
  <2> SUFFICES ASSUME NEW n \in DOMAIN T
               PROVE  /\ U[n].axes # 0 => U[n].axes \in Kind(U, "Axes") /\ U[U[n].axes].parent = n
                      /\ U[n].label # 0 => U[n].label \in Kind(U, "Text") /\ U[U[n].label].parent = n
                      /\ U[n].owner # 0 => U[n].kind = "Legend" /\ U[n].owner \in Kind(U, "Axes")
                      /\ U[n].generated # 0 => U[n].generated \in Kind(U, "Legend")
    BY <1>3 DEF Refers
  <2>2. /\ T[n].axes # 0 => T[n].axes \in Kind(T, "Axes") /\ T[T[n].axes].parent = n
        /\ T[n].label # 0 => T[n].label \in Kind(T, "Text") /\ T[T[n].label].parent = n
        /\ T[n].owner # 0 => T[n].kind = "Legend" /\ T[n].owner \in Kind(T, "Axes")
        /\ T[n].generated # 0 => T[n].generated \in Kind(T, "Legend")
    BY <1>1 DEF Refers
  <2>3. /\ U[n].axes # 0 => U[n].axes = T[n].axes /\ U[n].axes # id
        /\ U[n].label # 0 => U[n].label = T[n].label /\ U[n].label # id
    <3>1. CASE n = old
      BY <3>1, <1>5 DEF Without, LabelLeft
    <3>2. CASE n # old
      <4>1. U[n].axes = T[n].axes /\ U[n].label = T[n].label
        BY <3>2, <1>5
      <4> QED BY <4>1, <3>2, <2>2, <1>3
    <3> QED BY <3>1, <3>2
  <2> QED BY <2>1, <2>2, <2>3, <1>4, <1>6
<1>9. Lists(U)
  <2> SUFFICES ASSUME NEW n \in DOMAIN T
               PROVE  /\ U[n].kind # "Legend" => U[n].lines = <<>>
                      /\ ToSet(U[n].lines) \subseteq Kind(U, "Line")
                      /\ ~U[n].explicit => \A line \in ToSet(U[n].lines) : U[line].parent = U[n].owner
    BY <1>3 DEF Lists
  <2>1. /\ T[n].kind # "Legend" => T[n].lines = <<>>
        /\ ToSet(T[n].lines) \subseteq Kind(T, "Line")
        /\ ~T[n].explicit => \A line \in ToSet(T[n].lines) : T[line].parent = T[n].owner
        /\ ~T[n].explicit => id \notin ToSet(T[n].lines)
    BY <1>1 DEF Lists
  <2>2. \A line \in ToSet(T[n].lines) : line \in DOMAIN T
    BY <2>1 DEF Kind
  <2> QED BY <2>1, <2>2, <1>4, <1>6
<1>10. OneLegend(U)
  BY <1>1, <1>3, <1>4 DEF OneLegend
<1>11. \A k : Kind(U, k) = Kind(T, k)
  BY <1>6
<1> QED BY <1>3, <1>7, <1>8, <1>9, <1>10, <1>11 DEF Sound

-----------------------------------------------------------------------------
(* reparent: an axes and its legend.                                        *)
(* What set(h, 'Parent', p) promises of the table.                          *)
Rehung(T, V) ==
  /\ Sound(V) /\ Beside(V) /\ (Owned(T) => Owned(V))
  /\ DOMAIN V = DOMAIN T /\ (\A k : Kind(V, k) = Kind(T, k)) /\ SameNames(T, V)

LEMMA NotListed ==
  ASSUME NEW T, Sound(T), NEW id \in DOMAIN T, T[id].kind # "Line"
  PROVE  \A n \in DOMAIN T : id \notin ToSet(T[n].lines)
<1>1. \A n \in DOMAIN T : ToSet(T[n].lines) \subseteq Kind(T, "Line")
  BY DEF Sound, Lists
<1> QED BY <1>1 DEF Kind

LEMMA AxesRehung ==
  ASSUME NEW T, Sound(T), Beside(T), NEW axes \in Kind(T, "Axes"), NEW parent \in Kind(T, "Figure"),
         T[axes].parent # parent, NEW V, V = AxesMoved(T, axes, parent)
  PROVE  Rehung(T, V)
<1> DEFINE M == Moved(T, axes, parent)
           t == M[parent]
           u == [t EXCEPT !.axes = axes]
           C == [M EXCEPT ![parent] = u]
           legends == LegendOf(T, axes)
           legend == Min(legends)
           F == Moved(C, legend, parent)
<1>1. V = IF legends = {} THEN C ELSE F
  BY DEF AxesMoved
<1>2. /\ Table(T) /\ Refers(T) /\ OneLegend(T) /\ axes \in DOMAIN T /\ parent \in DOMAIN T
      /\ T[axes].kind = "Axes" /\ T[parent].kind = "Figure" /\ axes \in Nat
  BY DEF Sound, Table, Kind
<1>3. Moves(T, axes, parent)
  <2>1. ParentKind("Axes") = "Figure"
    BY DEF ParentKind
  <2>2. \A n \in DOMAIN T : axes \notin ToSet(T[n].lines)
    BY <1>2, NotListed
  <2> QED BY <2>1, <2>2, <1>2 DEF Moves
<1>4. MovedTo(T, M, axes, parent) /\ axes # parent
  BY <1>3, MovesApart
<1>5. Sound(M) /\ \A k : Kind(M, k) = Kind(T, k)
  BY <1>3, <1>4, MovedSound
<1>6. /\ DOMAIN M = DOMAIN T
      /\ \A n \in DOMAIN T :
           /\ M[n].kind = T[n].kind /\ M[n].owner = T[n].owner
           /\ M[n].generated = T[n].generated /\ M[n].name = T[n].name
           /\ M[n].parent = IF n = axes THEN parent ELSE T[n].parent
  BY <1>4 DEF MovedTo
<1> HIDE DEF M
<1>7. t \in Nodes /\ (t.generated # 0 => t.generated \in Kind(M, "Legend"))
  BY <1>2, <1>5, <1>6 DEF Sound, Table, Refers
<1>8. axes \in Kind(M, "Axes") /\ M[axes].parent = parent
  BY <1>2, <1>5, <1>6
<1>9. C = [M EXCEPT ![parent] = u]
  OBVIOUS
<1> HIDE DEF t
<1>10. u \in Nodes
  BY <1>2, <1>7 DEF Nodes
<1>11. /\ u.kind = t.kind /\ u.parent = t.parent /\ u.children = t.children
       /\ u.axes = axes /\ u.label = t.label /\ u.owner = t.owner
       /\ u.lines = t.lines /\ u.explicit = t.explicit /\ u.name = t.name /\ u.generated = t.generated
  BY <1>2, <1>7 DEF Nodes
<1> HIDE DEF u
<1>12. Restyled(M, parent, u)
  BY <1>7, <1>8, <1>10, <1>11 DEF Restyled, t
<1> HIDE DEF C
<1>13. SameTree(M, C) /\ SameLists(M, C) /\ C[parent] = u /\ \A n \in DOMAIN M \ {parent} : C[n] = M[n]
  BY <1>2, <1>5, <1>6, <1>9, <1>12, OneRestyled
<1>14. Sound(C) /\ \A k : Kind(C, k) = Kind(T, k)
  BY <1>5, <1>13, SameListsSound, SameKinds
<1>15. /\ DOMAIN C = DOMAIN T
       /\ \A n \in DOMAIN T :
            /\ C[n].kind = T[n].kind /\ C[n].owner = T[n].owner
            /\ C[n].generated = T[n].generated /\ C[n].name = T[n].name
            /\ C[n].parent = IF n = axes THEN parent ELSE T[n].parent
  <2>1. DOMAIN C = DOMAIN T
    BY <1>6, <1>13 DEF SameTree
  <2>2. C[parent].name = M[parent].name /\ C[parent].generated = M[parent].generated
    BY <1>11, <1>13 DEF t
  <2>3. \A n \in DOMAIN T : /\ C[n].kind = M[n].kind /\ C[n].owner = M[n].owner /\ C[n].parent = M[n].parent
                            /\ C[n].name = M[n].name /\ C[n].generated = M[n].generated
    BY <2>2, <1>6, <1>13 DEF SameTree
  <2> QED BY <2>1, <2>3, <1>6
<1>16. \A n \in DOMAIN T : T[n].owner # 0 =>
         /\ T[n].kind = "Legend" /\ T[n].owner \in DOMAIN T /\ T[T[n].owner].kind = "Axes"
         /\ T[T[n].owner].parent = T[n].parent
  BY <1>2 DEF Refers, Kind, Beside
<1>17. \A n \in DOMAIN T : n \in legends <=> T[n].kind = "Legend" /\ T[n].owner = axes
  BY DEF LegendOf, Kind
<1>18. CASE legends = {}
  <2>1. V = C
    BY <1>1, <1>18
  <2>2. axes # 0
    BY <1>2 DEF Table
  <2>3. Beside(C)
    BY <1>2, <1>15, <1>16, <1>17, <1>18 DEF Beside
  <2>4. Owned(T) => Owned(C)
    BY <1>15 DEF Owned
  <2>5. SameNames(T, C)
    BY <1>15 DEF SameNames
  <2> QED BY <2>1, <2>3, <2>4, <2>5, <1>14, <1>15 DEF Rehung
<1>19. CASE legends # {}
  <2>1. V = F
    BY <1>1, <1>19
  <2>2. legend \in DOMAIN T /\ T[legend].kind = "Legend" /\ T[legend].owner = axes /\ axes # 0
    BY <1>2, <1>19, TheLegend DEF Kind, Table
  <2> HIDE DEF legend
  <2>3. Moves(C, legend, parent)
    <3>1. ParentKind("Legend") = "Figure"
      BY DEF ParentKind
    <3>2. \A n \in DOMAIN C : legend \notin ToSet(C[n].lines)
      BY <2>2, <1>14, <1>15, NotListed
    <3>3. C[legend].parent # parent
      BY <2>2, <1>2, <1>15, <1>16
    <3> QED BY <3>1, <3>2, <3>3, <2>2, <1>14, <1>15 DEF Moves
  <2>4. MovedTo(C, F, legend, parent)
    BY <2>3, <1>14, MovesApart
  <2>5. Sound(F) /\ \A k : Kind(F, k) = Kind(C, k)
    BY <2>3, <2>4, <1>14, MovedSound
  <2> HIDE DEF F
  <2>6. /\ DOMAIN F = DOMAIN T
        /\ \A n \in DOMAIN T :
             /\ F[n].kind = T[n].kind /\ F[n].owner = T[n].owner
             /\ F[n].generated = T[n].generated /\ F[n].name = T[n].name
             /\ F[n].parent = IF n = legend \/ n = axes THEN parent ELSE T[n].parent
    BY <2>4, <1>15 DEF MovedTo
  <2>7. Beside(F)
    <3> SUFFICES ASSUME NEW n \in DOMAIN T, T[n].owner # 0
                 PROVE  F[T[n].owner].parent = F[n].parent
      BY <2>6 DEF Beside
    <3>1. CASE n = legend
      BY <3>1, <2>2, <2>6, <1>2
    <3>2. CASE n # legend
      <4>1. T[n].owner # axes
        BY <3>2, <2>2, <1>2 DEF OneLegend
      <4> QED BY <4>1, <3>2, <2>2, <2>6, <1>2, <1>16
    <3> QED BY <3>1, <3>2
  <2>8. Owned(T) => Owned(F)
    BY <2>6 DEF Owned
  <2>9. SameNames(T, F)
    BY <2>6 DEF SameNames
  <2> QED BY <2>1, <2>5, <2>6, <2>7, <2>8, <2>9, <1>14 DEF Rehung
<1> QED BY <1>18, <1>19

-----------------------------------------------------------------------------
(* reparent: the legends a line leaves and joins.                           *)
(* Neither a line nor a text has or is a legend's axes.                     *)
LEMMA LeafRehung ==
  ASSUME NEW T, Sound(T), Beside(T), NEW id, NEW parent, Moves(T, id, parent),
         T[id].kind \in {"Line", "Text"}
  PROVE  Rehung(T, Moved(T, id, parent))
<1> DEFINE M == Moved(T, id, parent)
<1>1. MovedTo(T, M, id, parent)
  BY MovesApart
<1> HIDE DEF M
<1>2. Sound(M) /\ \A k : Kind(M, k) = Kind(T, k)
  BY <1>1, MovedSound
<1>3. /\ DOMAIN M = DOMAIN T
      /\ \A n \in DOMAIN T :
           /\ M[n].kind = T[n].kind /\ M[n].owner = T[n].owner
           /\ M[n].generated = T[n].generated /\ M[n].name = T[n].name
           /\ M[n].parent = IF n = id THEN parent ELSE T[n].parent
  BY <1>1 DEF MovedTo
<1>4. \A n \in DOMAIN T : T[n].owner # 0 =>
         /\ T[n].kind = "Legend" /\ T[n].owner \in DOMAIN T /\ T[T[n].owner].kind = "Axes"
         /\ T[T[n].owner].parent = T[n].parent
  BY DEF Sound, Refers, Kind, Beside
<1>5. Beside(M)
  BY <1>3, <1>4 DEF Beside
<1>6. Owned(T) => Owned(M)
  BY <1>3 DEF Owned
<1>7. SameNames(T, M)
  BY <1>3 DEF SameNames
<1> QED BY <1>2, <1>3, <1>5, <1>6, <1>7 DEF Rehung, M

(* The legends that select lines by their axes drop the line.               *)
Leaves(T, line, parent) ==
  [n \in DOMAIN T |->
     IF ~T[n].explicit /\ T[n].owner # parent
     THEN [T[n] EXCEPT !.lines = LinesWithout(@, {line})] ELSE T[n]]

LEMMA LineLeaves ==
  ASSUME NEW T, Sound(T), NEW line \in DOMAIN T, NEW parent, T[line].parent # parent,
         NEW U, U = Leaves(T, line, parent)
  PROVE  /\ SameTree(T, U) /\ FewerLines(T, U)
         /\ \A n \in DOMAIN T : /\ U[n].name = T[n].name /\ U[n].generated = T[n].generated
                                /\ ~U[n].explicit => line \notin ToSet(U[n].lines)
<1>1. /\ Table(T) /\ Lists(T) /\ Refers(T) /\ \A n \in DOMAIN T : T[n] \in Nodes
  BY DEF Sound, Table
<1>2. DOMAIN U = DOMAIN T /\ U = [n \in DOMAIN U |-> U[n]]
  BY DEF Leaves
<1>3. \A n \in DOMAIN T :
        U[n] = IF ~T[n].explicit /\ T[n].owner # parent
               THEN [T[n] EXCEPT !.lines = Outside(T[n].lines, {line})] ELSE T[n]
  BY DEF Leaves, LinesWithout
<1> DEFINE Right(n) ==
       /\ U[n] \in Nodes
       /\ U[n].kind = T[n].kind /\ U[n].parent = T[n].parent /\ U[n].children = T[n].children
       /\ U[n].axes = T[n].axes /\ U[n].label = T[n].label /\ U[n].owner = T[n].owner
       /\ U[n].explicit = T[n].explicit /\ U[n].name = T[n].name /\ U[n].generated = T[n].generated
       /\ U[n].lines = IF ~T[n].explicit /\ T[n].owner # parent THEN Outside(T[n].lines, {line}) ELSE T[n].lines
<1>4. ASSUME NEW n \in DOMAIN T PROVE Right(n)
  <2> DEFINE t == T[n]
             l == Outside(t.lines, {line})
             u == [t EXCEPT !.lines = l]
  <2>1. t \in Nodes
    BY <1>1
  <2>2. CASE ~(~T[n].explicit /\ T[n].owner # parent)
    <3>1. U[n] = T[n]
      BY <2>2, <1>3
    <3> QED BY <3>1, <2>1, <2>2
  <2>3. CASE ~T[n].explicit /\ T[n].owner # parent
    <3>1. U[n] = u
      BY <2>3, <1>3
    <3> HIDE DEF t
    <3>2. l \in Seq(Nat)
      <4>1. t.lines \in Seq(Nat)
        BY <2>1 DEF Nodes
      <4> QED BY <4>1, OutsideOf
    <3> HIDE DEF l
    <3>3. u \in Nodes
      BY <2>1, <3>2 DEF Nodes
    <3>4. /\ u.kind = t.kind /\ u.parent = t.parent /\ u.children = t.children
          /\ u.axes = t.axes /\ u.label = t.label /\ u.owner = t.owner
          /\ u.lines = l /\ u.explicit = t.explicit /\ u.name = t.name /\ u.generated = t.generated
      BY <2>1 DEF Nodes
    <3> HIDE DEF u
    <3> QED BY <3>1, <3>3, <3>4, <2>3 DEF t, l
  <2> QED BY <2>2, <2>3
<1>5. U \in [DOMAIN U -> Nodes]
  BY <1>2, <1>4
<1>6. SameTree(T, U)
  <2>1. \A n \in DOMAIN T : T[n].generated # 0 => T[n].generated \in Kind(T, "Legend")
    BY <1>1 DEF Refers
  <2>2. \A n \in DOMAIN T :
          /\ U[n].kind = T[n].kind /\ U[n].parent = T[n].parent /\ U[n].children = T[n].children
          /\ U[n].axes = T[n].axes /\ U[n].label = T[n].label /\ U[n].owner = T[n].owner
          /\ U[n].generated = T[n].generated
    BY <1>4
  <2> QED BY <2>1, <2>2, <1>2, <1>5 DEF SameTree
<1>7. ASSUME NEW n \in DOMAIN T
      PROVE  /\ U[n].explicit = T[n].explicit /\ ToSet(U[n].lines) \subseteq ToSet(T[n].lines)
             /\ T[n].kind # "Legend" => U[n].lines = T[n].lines
             /\ ~U[n].explicit => line \notin ToSet(U[n].lines)
  <2>1. /\ T[n].lines \in Seq(Nat) /\ (T[n].kind # "Legend" => T[n].lines = <<>>)
        /\ ~T[n].explicit => \A m \in ToSet(T[n].lines) : T[m].parent = T[n].owner
    BY <1>1 DEF Lists, Nodes
  <2>2. /\ ToSet(Outside(T[n].lines, {line})) = ToSet(T[n].lines) \ {line}
        /\ T[n].lines = <<>> => Outside(T[n].lines, {line}) = <<>>
    BY <2>1, OutsideOf
  <2>3. /\ U[n].explicit = T[n].explicit
        /\ U[n].lines = IF ~T[n].explicit /\ T[n].owner # parent THEN Outside(T[n].lines, {line}) ELSE T[n].lines
    BY <1>4
  <2> QED BY <2>1, <2>2, <2>3
<1>8. FewerLines(T, U)
  BY <1>7 DEF FewerLines
<1>9. \A n \in DOMAIN T : U[n].name = T[n].name /\ U[n].generated = T[n].generated
  BY <1>4
<1> QED BY <1>6, <1>7, <1>8, <1>9

LEMMA SameTreeRehung ==
  ASSUME NEW T, Sound(T), Beside(T), NEW U, SameTree(T, U), Lists(U), SameNames(T, U)
  PROVE  Rehung(T, U)
<1>1. Sound(U) /\ Beside(U) /\ (Owned(T) => Owned(U))
  BY SameTreeSound
<1>2. \A k : Kind(U, k) = Kind(T, k)
  BY SameKinds
<1>3. DOMAIN U = DOMAIN T
  BY DEF SameTree
<1> QED BY <1>1, <1>2, <1>3 DEF Rehung

LEMMA RehungOn ==
  ASSUME NEW T, NEW U, NEW V, Rehung(T, U), Rehung(U, V)
  PROVE  Rehung(T, V)
<1>1. SameNames(T, V)
  BY DEF Rehung, SameNames
<1> QED BY <1>1 DEF Rehung

(* The legend of the new axes lists the line.                               *)
Joined(T, legend, line) == [T EXCEPT ![legend] = [T[legend] EXCEPT !.lines = Append(@, line)]]

LEMMA LineJoins ==
  ASSUME NEW T, Sound(T), Beside(T), NEW legend \in Kind(T, "Legend"), NEW line \in Kind(T, "Line"),
         T[line].parent = T[legend].owner
  PROVE  /\ Rehung(T, Joined(T, legend, line))
         /\ \A n \in DOMAIN T : /\ Joined(T, legend, line)[n].name = T[n].name
                                /\ Joined(T, legend, line)[n].generated = T[n].generated
<1> DEFINE R == Joined(T, legend, line)
           t == T[legend]
           l == Append(t.lines, line)
           x == t.explicit
           u == [t EXCEPT !.lines = l]
           v == [t EXCEPT !.lines = l, !.explicit = x]
<1>1. /\ legend \in DOMAIN T /\ line \in DOMAIN T /\ Table(T) /\ Lists(T) /\ line \in Nat
      /\ T \in [DOMAIN T -> Nodes] /\ t \in Nodes
  BY DEF Kind, Sound, Table
<1>2. /\ l \in Seq(Nat) /\ ToSet(l) = ToSet(t.lines) \cup {line} /\ x \in BOOLEAN
  <2> HIDE DEF t
  <2>1. t.lines \in Seq(Nat) /\ x \in BOOLEAN
    BY <1>1 DEF Nodes
  <2> QED BY <2>1, <1>1, AppendOf
<1>3. R = [T EXCEPT ![legend] = u]
  BY DEF Joined
<1>4. u = v
  <2> HIDE DEF t, l
  <2> QED BY <1>1, <1>2 DEF Nodes
<1>5. R = [T EXCEPT ![legend] = [T[legend] EXCEPT !.lines = l, !.explicit = x]]
  BY <1>3, <1>4
<1>6. /\ ToSet(t.lines) \subseteq Kind(T, "Line")
      /\ ~x => \A m \in ToSet(t.lines) : T[m].parent = T[legend].owner
  BY <1>1 DEF Lists
<1>7. ToSet(l) \subseteq Kind(T, "Line") /\ (~x => \A m \in ToSet(l) : T[m].parent = T[legend].owner)
  BY <1>2, <1>6
<1> HIDE DEF R, t, l, x, u, v
<1>8. Relists(T, T, legend, l, x, R)
  BY <1>1, <1>2, <1>5, Relisted
<1>9. OnlyNames(T, T)
  BY OnlyNamesSelf
<1>10. SameTree(T, R) /\ Lists(R)
  BY <1>7, <1>8, <1>9, RelistedSound
<1>11. \A n \in DOMAIN T : R[n].name = T[n].name /\ R[n].generated = T[n].generated
  BY <1>8 DEF Relists
<1>12. SameNames(T, R)
  BY <1>11 DEF SameNames
<1>13. Rehung(T, R)
  BY <1>10, <1>12, SameTreeRehung
<1> QED BY <1>11, <1>13 DEF R

-----------------------------------------------------------------------------
(* reparent: a line.                                                        *)
RefreshedIn(T, line) == [T EXCEPT ![line] = Refreshed(T, line)]

LEMMA OneRefreshed ==
  ASSUME NEW T, Sound(T), Beside(T), NEW line \in DOMAIN T
  PROVE  Rehung(T, RefreshedIn(T, line))
<1> DEFINE V == AllRefreshed(T, {line})
<1>1. T = [id \in DOMAIN T |-> T[id]]
  BY DEF Sound, Table
<1>2. V = RefreshedIn(T, line)
  BY <1>1 DEF AllRefreshed, RefreshedIn
<1> HIDE DEF V
<1>3. SameTree(T, V) /\ SameNames(T, V) /\ Lists(V)
  <2>1. V = AllRefreshed(T, {line})
    BY DEF V
  <2> QED BY <2>1, LinesRefreshed
<1>4. Rehung(T, V)
  BY <1>3, SameTreeRehung
<1> QED BY <1>2, <1>4

(* A line without a name of its own gets one of the legend's.               *)
NamedIn(T, line, name, legend) == [T EXCEPT ![line] = Named(T[line], name, legend)]

LEMMA OneNamed ==
  ASSUME NEW T, Sound(T), Beside(T), NEW line \in DOMAIN T, NEW name \in Nat, NEW legend \in Kind(T, "Legend"),
         T[line].name = 0 \/ T[line].generated # 0
  PROVE  Rehung(T, NamedIn(T, line, name, legend))
<1> DEFINE N == NamedIn(T, line, name, legend)
<1>1. OnlyNames(T, T) /\ legend \in Nat
  BY OnlyNamesSelf DEF Kind, Sound, Table
<1>2. N = [T EXCEPT ![line] = Named(T[line], name, legend)]
  BY DEF NamedIn
<1> HIDE DEF N
<1>3. OnlyNames(T, N)
  BY <1>1, <1>2, NamingOne
<1>4. \A id \in DOMAIN T \ {line} : N[id] = T[id]
  BY <1>1, <1>2, NamingOne
<1>5. SameTree(T, N) /\ SameLists(T, N)
  BY <1>3, OnlyNamesTree
<1>6. Sound(N) /\ Beside(N) /\ (Owned(T) => Owned(N))
  BY <1>5, SameListsSound
<1>7. SameNames(T, N)
  BY <1>4 DEF SameNames
<1>8. Lists(N)
  BY <1>6 DEF Sound
<1>9. Rehung(T, N)
  BY <1>5, <1>7, <1>8, SameTreeRehung
<1> QED BY <1>9 DEF N

LEMMA LineRehung ==
  ASSUME NEW T, Sound(T), Beside(T), NEW line \in Kind(T, "Line"), NEW parent \in Kind(T, "Axes"),
         T[line].parent # parent, NEW V, V = LineMoved(T, line, parent)
  PROVE  Rehung(T, V)
<1> DEFINE legends == Updating(T, parent)
           left == Leaves(T, line, parent)
           moved == Moved(left, line, parent)
           legend == Min(legends)
           listed == IF legends = {} \/ line \in ToSet(moved[legend].lines) THEN moved
                     ELSE Joined(moved, legend, line)
           name == FirstUnused(NamesIn(T, T[legend].lines))
           named == IF legends = {} \/ ~Renamed(T, line) THEN listed
                    ELSE NamedIn(listed, line, name, legend)
<1>1. V = RefreshedIn(named, line)
  BY DEF LineMoved, Leaves, Joined, NamedIn, RefreshedIn
<1>2. /\ line \in DOMAIN T /\ T[line].kind = "Line" /\ parent \in DOMAIN T /\ T[parent].kind = "Axes"
      /\ Table(T) /\ Lists(T)
  BY DEF Kind, Sound
<1>3. /\ SameTree(T, left) /\ FewerLines(T, left)
      /\ \A n \in DOMAIN T : left[n].name = T[n].name /\ left[n].generated = T[n].generated
      /\ \A n \in DOMAIN T : ~left[n].explicit => line \notin ToSet(left[n].lines)
  BY <1>2, LineLeaves
<1> HIDE DEF left
<1>4. Rehung(T, left)
  <2>1. Lists(left)
    BY <1>2, <1>3, FewerLinesListed
  <2>2. SameNames(T, left)
    BY <1>3 DEF SameNames
  <2> QED BY <2>1, <2>2, <1>3, SameTreeRehung
<1>5. Sound(left) /\ Beside(left) /\ DOMAIN left = DOMAIN T /\ \A k : Kind(left, k) = Kind(T, k)
  BY <1>4 DEF Rehung
<1>6. \A n \in DOMAIN T : left[n].kind = T[n].kind /\ left[n].parent = T[n].parent /\ left[n].owner = T[n].owner
  BY <1>3 DEF SameTree
<1>7. Moves(left, line, parent) /\ left[line].kind \in {"Line", "Text"}
  <2>1. ParentKind("Line") = "Axes"
    BY DEF ParentKind
  <2> QED BY <2>1, <1>2, <1>3, <1>5, <1>6 DEF Moves
<1>8. MovedTo(left, moved, line, parent) /\ Rehung(left, moved)
  BY <1>5, <1>7, MovesApart, LeafRehung
<1> HIDE DEF moved
<1>9. /\ DOMAIN moved = DOMAIN T
      /\ \A n \in DOMAIN T : moved[n].name = T[n].name /\ moved[n].generated = T[n].generated
      /\ \A n \in DOMAIN T : moved[n].owner = T[n].owner
      /\ moved[line].parent = parent
  BY <1>2, <1>3, <1>5, <1>6, <1>8 DEF MovedTo
<1>10. Sound(moved) /\ Beside(moved) /\ \A k : Kind(moved, k) = Kind(T, k)
  BY <1>5, <1>8 DEF Rehung
<1>11. legends # {} => legend \in Kind(T, "Legend") /\ legend \in DOMAIN T /\ T[legend].owner = parent
  <2>1. legends # {} => legend \in DOMAIN T /\ T[legend].kind = "Legend" /\ T[legend].owner = parent
    BY Updaters
  <2> QED BY <2>1 DEF Kind
<1>12. legends # {} => name \in Nat
  <2> SUFFICES ASSUME legends # {} PROVE name \in Nat
    OBVIOUS
  <2> HIDE DEF legend
  <2>1. T[legend].lines \in Seq(Nat)
    BY <1>2, <1>11 DEF Table, Nodes
  <2>2. IsFiniteSet(NamesIn(T, T[legend].lines))
    BY <2>1, NamesFinite
  <2> QED BY <2>2, UnusedIsNumber
<1> HIDE DEF legends, legend, name
<1>13. /\ Rehung(moved, listed)
       /\ \A n \in DOMAIN T : listed[n].name = T[n].name /\ listed[n].generated = T[n].generated
  <2>1. CASE legends = {} \/ line \in ToSet(moved[legend].lines)
    <3>1. listed = moved
      BY <2>1
    <3>2. Rehung(moved, moved)
      BY <1>10 DEF Rehung, SameNames
    <3> QED BY <3>1, <3>2, <1>9
  <2>2. CASE ~(legends = {} \/ line \in ToSet(moved[legend].lines))
    <3>1. listed = Joined(moved, legend, line)
      BY <2>2
    <3>2. legend \in Kind(moved, "Legend") /\ line \in Kind(moved, "Line") /\ moved[line].parent = moved[legend].owner
      BY <2>2, <1>9, <1>10, <1>11
    <3>3. /\ Rehung(moved, Joined(moved, legend, line))
          /\ \A n \in DOMAIN moved : /\ Joined(moved, legend, line)[n].name = moved[n].name
                                      /\ Joined(moved, legend, line)[n].generated = moved[n].generated
      BY <3>2, <1>10, LineJoins
    <3> QED BY <3>1, <3>3, <1>9
  <2> QED BY <2>1, <2>2
<1> HIDE DEF listed
<1>14. /\ Sound(listed) /\ Beside(listed) /\ DOMAIN listed = DOMAIN T
       /\ \A k : Kind(listed, k) = Kind(T, k)
  BY <1>9, <1>10, <1>13 DEF Rehung
<1>15. Rehung(listed, named)
  <2>1. CASE legends = {} \/ ~Renamed(T, line)
    <3>1. named = listed
      BY <2>1
    <3> QED BY <3>1, <1>14 DEF Rehung, SameNames
  <2>2. CASE ~(legends = {} \/ ~Renamed(T, line))
    <3>1. named = NamedIn(listed, line, name, legend)
      BY <2>2
    <3>2. listed[line].name = 0 \/ listed[line].generated # 0
      BY <2>2, <1>2, <1>13 DEF Renamed
    <3> QED BY <3>1, <3>2, <2>2, <1>2, <1>11, <1>12, <1>14, OneNamed
  <2> QED BY <2>1, <2>2
<1> HIDE DEF named
<1>16. Rehung(T, named)
  <2>1. Rehung(T, moved)
    BY <1>4, <1>8, RehungOn
  <2>2. Rehung(T, listed)
    BY <2>1, <1>13, RehungOn
  <2> QED BY <2>2, <1>15, RehungOn
<1>17. Rehung(named, V)
  <2>1. Sound(named) /\ Beside(named) /\ line \in DOMAIN named
    BY <1>2, <1>16 DEF Rehung
  <2> QED BY <2>1, <1>1, OneRefreshed
<1> QED BY <1>16, <1>17, RehungOn

-----------------------------------------------------------------------------
(* reparent, in the graph.                                                  *)
LEMMA RehungGraph ==
  ASSUME NEW g, Good(g), NEW U, Rehung(g.nodes, U), NEW h, h = [g EXCEPT !.nodes = U]
  PROVE  Good(h) /\ Follows(g, h)
<1>1. Sane(g) /\ Owned(g.nodes) /\ g = [nodes |-> g.nodes, next |-> g.next, figure |-> g.figure]
  BY DEF Good, Sane
<1>2. h = [nodes |-> U, next |-> g.next, figure |-> g.figure]
  BY <1>1
<1>3. h.nodes = U /\ h.next = g.next /\ h.figure = g.figure
  BY <1>2
<1>4. /\ Sound(U) /\ Beside(U) /\ Owned(U) /\ DOMAIN U = DOMAIN g.nodes
      /\ (\A k : Kind(U, k) = Kind(g.nodes, k)) /\ SameNames(g.nodes, U)
  BY <1>1 DEF Rehung
<1>5. Sane(h)
  BY <1>1, <1>2, <1>3, <1>4 DEF Sane
<1>6. \A id \in DOMAIN U : U[id].kind = g.nodes[id].kind
  BY <1>4 DEF Kind
<1>7. Follows(g, h)
  <2>1. g.next <= h.next
    BY <1>1, <1>3 DEF Sane
  <2> QED BY <2>1, <1>3, <1>4, <1>6 DEF Follows, SameNames
<1> QED BY <1>3, <1>4, <1>5, <1>7 DEF Good

LEMMA Parented ==
  ASSUME NEW g, Good(g), NEW id \in DOMAIN g.nodes, NEW parent \in DOMAIN g.nodes,
         MayMove(g.nodes, id, parent), NEW h, h = [g EXCEPT !.nodes = Reparented(g.nodes, id, parent)]
  PROVE  Good(h) /\ Follows(g, h)
<1> DEFINE T == g.nodes
           U == Reparented(T, id, parent)
<1>1. /\ Sound(T) /\ Beside(T) /\ Owned(T) /\ Table(T)
      /\ T[parent].kind \in Kinds /\ T[id].kind \in Kinds
      /\ T[id].kind # "Legend" => T[id].owner = 0
  BY DEF Good, Sane, Sound, Refers, Table, Nodes
<1>2. /\ T[parent].kind = ParentKind(T[id].kind) /\ T[id].parent # parent
      /\ T[id].owner # 0 => T[T[id].owner].parent = parent
  BY DEF MayMove
<1>3. T[id].kind # "Figure" /\ parent \in Kind(T, ParentKind(T[id].kind))
  BY <1>1, <1>2 DEF ParentKind, Kinds, Kind
<1>4. T[id].kind # "Legend"
  BY <1>1, <1>2 DEF Owned, Beside
<1>5. T[id].kind \in {"Line", "Axes", "Text"}
  BY <1>1, <1>3, <1>4 DEF Kinds
<1>6. h = [g EXCEPT !.nodes = U]
  OBVIOUS
<1> HIDE DEF U
<1>7. ASSUME T[id].kind = "Line" PROVE Rehung(T, U)
  <2>1. U = LineMoved(T, id, parent)
    BY <1>7 DEF U, Reparented
  <2>2. id \in Kind(T, "Line") /\ parent \in Kind(T, "Axes")
    BY <1>7, <1>3 DEF Kind, ParentKind
  <2>3. Rehung(T, U)
    BY <2>1, <2>2, <1>1, <1>2, LineRehung
  <2> QED BY <2>3
<1>8. ASSUME T[id].kind = "Axes" PROVE Rehung(T, U)
  <2>1. U = AxesMoved(T, id, parent)
    BY <1>8 DEF U, Reparented
  <2>2. id \in Kind(T, "Axes") /\ parent \in Kind(T, "Figure")
    BY <1>8, <1>3 DEF Kind, ParentKind
  <2>3. Rehung(T, U)
    BY <2>1, <2>2, <1>1, <1>2, AxesRehung
  <2> QED BY <2>3
<1>9. ASSUME T[id].kind = "Text" PROVE Rehung(T, U)
  <2>1. U = Moved(T, id, parent)
    BY <1>9 DEF U, Reparented
  <2>2. Moves(T, id, parent)
    <3>1. \A n \in DOMAIN T : id \notin ToSet(T[n].lines)
      BY <1>1, <1>9, NotListed
    <3> QED BY <3>1, <1>2, <1>3 DEF Moves
  <2>3. Rehung(T, U)
    BY <2>1, <2>2, <1>1, <1>9, LeafRehung
  <2> QED BY <2>3
<1>10. Rehung(g.nodes, U)
  BY <1>5, <1>7, <1>8, <1>9
<1> QED BY <1>6, <1>10, RehungGraph

-----------------------------------------------------------------------------
(* The builtins, as steps of the graph.                                     *)
LEMMA EraseGood ==
  ASSUME NEW g, Good(g), NEW id, NEW h, h = Erase(g, id)
  PROVE  Good(h) /\ Follows(g, h)
BY Erased DEF Good

(* legend: the axes it is for are made, then its legend.                    *)
Opened(g, axes, lines) == IF axes = 0 /\ lines = <<>> THEN WithAxes(g) ELSE g
Target(g, axes, lines) == LegendTarget(Opened(g, axes, lines), axes, lines)
Dressed(g, axes, lines) == WithLegend(Opened(g, axes, lines), Target(g, axes, lines))
LegendSet(g, axes, lines, labels, existing) ==
  ConfigureLegend(Dressed(g, axes, lines), Target(g, axes, lines), lines, labels, existing)

LEMMA LegendCalled ==
  ASSUME NEW g, Good(g), NEW axes \in {0} \cup Kind(g.nodes, "Axes"), NEW lines \in Seq(Kind(g.nodes, "Line")),
         NEW labels \in Seq(Nat), NEW existing
  PROVE  /\ Good(LegendSet(g, axes, lines, labels, existing))
         /\ NamesKept(g, LegendSet(g, axes, lines, labels, existing),
                      LabelledLines(Candidates(Dressed(g, axes, lines).nodes, Target(g, axes, lines), lines),
                                    labels))
<1> DEFINE c == Opened(g, axes, lines)
           target == Target(g, axes, lines)
           h == Dressed(g, axes, lines)
           k == LegendSet(g, axes, lines, labels, existing)
           W == LabelledLines(Candidates(h.nodes, target, lines), labels)
<1>0. /\ c = (IF axes = 0 /\ lines = <<>> THEN WithAxes(g) ELSE g)
      /\ target = LegendTarget(c, axes, lines) /\ h = WithLegend(c, target)
      /\ k = ConfigureLegend(h, target, lines, labels, existing)
  BY DEF Opened, Target, Dressed, LegendSet
<1> HIDE DEF c, target, h, k
<1>1. Sane(g) /\ Owned(g.nodes) /\ Sound(g.nodes) /\ Placed(g.nodes) /\ Table(g.nodes)
  BY DEF Good, Sane, Sound
<1>2. /\ Good(c) /\ Follows(g, c) /\ target \in Kind(c.nodes, "Axes")
      /\ lines \in Seq(Kind(c.nodes, "Line"))
  <2>1. CASE axes = 0 /\ lines = <<>>
    <3>1. c = WithAxes(g)
      BY <1>0, <2>1
    <3>2. target = CurrentAxes(c)
      BY <1>0, <2>1 DEF LegendTarget
    <3>3. Good(c) /\ Follows(g, c) /\ CurrentAxes(c) \in Kind(c.nodes, "Axes")
      BY <3>1, <1>1, AxesMade DEF Good
    <3> QED BY <3>2, <3>3, <2>1
  <2>2. CASE axes # 0
    <3>1. c = g /\ target = axes
      BY <1>0, <2>2 DEF LegendTarget
    <3> QED BY <3>1, <2>2, <1>1, FollowsSelf
  <2>3. CASE axes = 0 /\ lines # <<>>
    <3>1. c = g /\ target = g.nodes[lines[1]].parent
      BY <1>0, <2>3 DEF LegendTarget
    <3>2. lines[1] \in Kind(g.nodes, "Line")
      BY <2>3
    <3>3. ParentKind("Line") = "Axes"
      BY DEF ParentKind
    <3>4. g.nodes[lines[1]].parent \in Kind(g.nodes, "Axes")
      BY <3>2, <3>3, <1>1 DEF Placed, Kind
    <3> QED BY <3>1, <3>4, <1>1, FollowsSelf
  <2> QED BY <2>1, <2>2, <2>3
<1>3. /\ Good(h) /\ Follows(c, h) /\ LegendOf(h.nodes, target) # {}
      /\ DOMAIN c.nodes \subseteq DOMAIN h.nodes
      /\ \A id \in DOMAIN c.nodes : h.nodes[id].kind = c.nodes[id].kind
  BY <1>0, <1>2, LegendMade
<1>4. Kind(c.nodes, "Line") \subseteq Kind(h.nodes, "Line") /\ target \in Kind(h.nodes, "Axes")
  BY <1>2, <1>3 DEF Kind
<1>5. lines \in Seq(Kind(h.nodes, "Line"))
  BY <1>2, <1>4
<1>6. Good(k) /\ DOMAIN k.nodes = DOMAIN h.nodes /\ NamesKept(h, k, W)
  <2>1. Configurable(h, target, lines, labels) /\ k = ConfigureLegend(h, target, lines, labels, existing)
    BY <1>0, <1>3, <1>4, <1>5 DEF Configurable
  <2> QED BY ONLY <2>1, Configured
<1>7. Follows(g, h)
  BY <1>1, <1>2, <1>3, FollowsSane DEF Good
<1> HIDE DEF W
<1>8. NamesKept(g, k, W)
  <2>1. \A id \in DOMAIN g.nodes : id < g.next
    BY <1>1 DEF Sane
  <2> QED BY <2>1, <1>6, <1>7 DEF NamesKept, Follows, Kind
<1> QED BY <1>6, <1>8 DEF k, W, h, target

-----------------------------------------------------------------------------
Kept == NamesKept(Graph, Graph', written')

(* What a call does: the graph stays good and the names it did not write.   *)
Served == Good(Graph') /\ Kept

LEMMA GraphOf ==
  /\ Graph.nodes = nodes /\ Graph.next = nextId /\ Graph.figure = currentFigure
  /\ Axes = Kind(Graph.nodes, "Axes") /\ Lines = Kind(Graph.nodes, "Line")
  /\ Figures = Kind(Graph.nodes, "Figure") /\ Legends = Kind(Graph.nodes, "Legend")
BY DEF Graph, Axes, Lines, Figures, Legends

LEMMA ServedBy ==
  ASSUME NEW h, Good(h), Becomes(h), NamesKept(Graph, h, written')
  PROVE  Served
<1>1. nodes' = h.nodes /\ nextId' = h.next /\ currentFigure' = h.figure
  BY DEF Becomes
<1>2. h = [nodes |-> h.nodes, next |-> h.next, figure |-> h.figure]
  BY DEF Good, Sane
<1>3. Graph' = h
  BY <1>1, <1>2 DEF Graph
<1> QED BY <1>3 DEF Served, Kept

LEMMA ServedFollowing ==
  ASSUME NEW h, Good(Graph), Good(h), Follows(Graph, h), Becomes(h)
  PROVE  Served
<1>1. NamesKept(Graph, h, written')
  BY FollowsKeeps DEF Good
<1> QED BY <1>1, ServedBy

LEMMA FigureOrAxesServed == ASSUME Good(Graph), FigureOrAxes PROVE Served
<1>1. Sane(Graph) /\ Owned(Graph.nodes)
  BY DEF Good
<1>2. CASE Becomes(Create(Graph, "Figure", 0))
  <2>1. "Figure" \in Kinds
    BY DEF Kinds
  <2> DEFINE h == Create(Graph, "Figure", 0)
  <2>2. Good(h) /\ Follows(Graph, h)
    BY <2>1, <1>1, Creates DEF Good
  <2>3. Becomes(h)
    BY <1>2
  <2> HIDE DEF h
  <2> QED BY <2>2, <2>3, ServedFollowing
<1>3. CASE LET g == WithFigure(Graph) IN Becomes(Create(g, "Axes", g.figure))
  <2> DEFINE g == WithFigure(Graph)
             h == Create(g, "Axes", g.figure)
  <2>1. Sane(g) /\ Owned(g.nodes) /\ Follows(Graph, g) /\ g.figure \in Kind(g.nodes, "Figure")
    BY <1>1, FigureMade
  <2>2. "Axes" \in Kinds /\ "Axes" # "Figure" /\ "Axes" # "Legend" /\ ParentKind("Axes") = "Figure"
    BY DEF Kinds, ParentKind
  <2>3. Becomes(h)
    BY <1>3
  <2> HIDE DEF g
  <2>4. Sane(h) /\ Owned(h.nodes) /\ Follows(g, h)
    BY <2>1, <2>2, Creates
  <2> HIDE DEF h
  <2>5. Good(h) /\ Follows(Graph, h)
    BY <2>1, <2>4, <1>1, FollowsSane DEF Good
  <2> QED BY <2>3, <2>5, ServedFollowing
<1>4. CASE Becomes(WithFigure(Graph))
  <2> DEFINE h == WithFigure(Graph)
  <2>1. Good(h) /\ Follows(Graph, h)
    BY <1>1, FigureMade DEF Good
  <2>2. Becomes(h)
    BY <1>4
  <2> HIDE DEF h
  <2> QED BY <2>1, <2>2, ServedFollowing
<1>5. CASE Becomes(WithAxes(Graph))
  <2> DEFINE h == WithAxes(Graph)
  <2>1. Good(h) /\ Follows(Graph, h)
    BY <1>1, AxesMade DEF Good
  <2>2. Becomes(h)
    BY <1>5
  <2> HIDE DEF h
  <2> QED BY <2>1, <2>2, ServedFollowing
<1>6. CASE \E id \in Figures : Becomes([Graph EXCEPT !.figure = id])
  <2>1. PICK id \in Figures : Becomes([Graph EXCEPT !.figure = id])
    BY <1>6
  <2> DEFINE h == [Graph EXCEPT !.figure = id]
  <2>2. Becomes(h)
    BY <2>1
  <2>3. id \in Kind(Graph.nodes, "Figure") /\ h = [Graph EXCEPT !.figure = id]
    BY GraphOf
  <2> HIDE DEF h
  <2>4. Good(h) /\ Follows(Graph, h)
    BY <2>3, FigureChosen
  <2> QED BY <2>2, <2>4, ServedFollowing
<1>7. CASE \E id \in Axes :
             LET figure == nodes[id].parent
             IN Becomes([Changed(Graph, figure, [nodes[figure] EXCEPT !.axes = id]) EXCEPT !.figure = figure])
  <2>1. PICK id \in Axes :
               LET figure == nodes[id].parent
               IN Becomes([Changed(Graph, figure, [nodes[figure] EXCEPT !.axes = id]) EXCEPT !.figure = figure])
    BY <1>7
  <2> DEFINE figure == Graph.nodes[id].parent
             h == [Changed(Graph, figure, [Graph.nodes[figure] EXCEPT !.axes = id]) EXCEPT !.figure = figure]
  <2>2. Becomes(h)
    BY <2>1, GraphOf
  <2>3. /\ id \in Kind(Graph.nodes, "Axes")
        /\ h = [Changed(Graph, Graph.nodes[id].parent, [Graph.nodes[Graph.nodes[id].parent] EXCEPT !.axes = id])
                  EXCEPT !.figure = Graph.nodes[id].parent]
    BY GraphOf
  <2> HIDE DEF h
  <2>4. Good(h) /\ Follows(Graph, h)
    BY <2>3, AxesChosen
  <2> QED BY <2>2, <2>4, ServedFollowing
<1> QED BY <1>2, <1>3, <1>4, <1>5, <1>6, <1>7 DEF FigureOrAxes

LEMMA PlotLinesServed == ASSUME Good(Graph), PlotLines PROVE Served
<1> DEFINE g == WithAxes(Graph)
           id == CurrentAxes(g)
           one == Plot(g, id)
           two == PlotTwo(g, id)
<1>1. Becomes(one) \/ Becomes(two)
  BY DEF PlotLines, CurrentAxes, Plot, PlotTwo
<1>2. Sane(g) /\ Owned(g.nodes) /\ Follows(Graph, g) /\ id \in Kind(g.nodes, "Axes") /\ Sane(Graph)
  BY AxesMade DEF Good
<1> HIDE DEF g, id
<1>3. /\ Sane(one) /\ Follows(g, one) /\ Owned(one.nodes)
      /\ Sane(two) /\ Follows(g, two) /\ Owned(two.nodes)
  BY <1>2, Plotted
<1> HIDE DEF one, two
<1>4. Follows(Graph, one) /\ Follows(Graph, two)
  BY <1>2, <1>3, FollowsSane
<1> QED BY <1>1, <1>3, <1>4, ServedFollowing DEF Good

LEMMA HoldServed == ASSUME Good(Graph), Hold PROVE Served
<1>1. PICK axes \in Axes : Becomes(Changed(Graph, axes, [nodes[axes] EXCEPT !.hold = ~@]))
  BY DEF Hold
<1> DEFINE h == Changed(Graph, axes, [Graph.nodes[axes] EXCEPT !.hold = ~@])
<1>2. Becomes(h) /\ axes \in DOMAIN Graph.nodes
  BY <1>1, GraphOf DEF Kind
<1>3. h = Changed(Graph, axes, [Graph.nodes[axes] EXCEPT !.hold = ~@])
  OBVIOUS
<1> HIDE DEF h
<1>4. Good(h) /\ Follows(Graph, h)
  BY <1>2, <1>3, Switched
<1> QED BY <1>2, <1>4, ServedFollowing

LEMMA AutoUpdateServed == ASSUME Good(Graph), AutoUpdate PROVE Served
<1>1. PICK legend \in Legends : Becomes(Changed(Graph, legend, [nodes[legend] EXCEPT !.auto = ~@]))
  BY DEF AutoUpdate
<1> DEFINE h == Changed(Graph, legend, [Graph.nodes[legend] EXCEPT !.auto = ~@])
<1>2. Becomes(h) /\ legend \in DOMAIN Graph.nodes
  BY <1>1, GraphOf DEF Kind
<1>3. h = Changed(Graph, legend, [Graph.nodes[legend] EXCEPT !.auto = ~@])
  OBVIOUS
<1> HIDE DEF h
<1>4. Good(h) /\ Follows(Graph, h)
  BY <1>2, <1>3, Switched
<1> QED BY <1>2, <1>4, ServedFollowing

LEMMA SetLabelServed == ASSUME Good(Graph), SetLabel PROVE Served
<1>1. PICK axes \in Axes :
        LET made == Create(Graph, "Text", axes)
        IN Becomes(Changed(made, axes, [made.nodes[axes] EXCEPT !.label = nextId]))
  BY DEF SetLabel
<1> DEFINE c == Create(Graph, "Text", axes)
           h == Changed(c, axes, [c.nodes[axes] EXCEPT !.label = Graph.next])
<1>2. Becomes(h) /\ axes \in Kind(Graph.nodes, "Axes")
  BY <1>1, GraphOf
<1>3. c = Create(Graph, "Text", axes) /\ h = Changed(c, axes, [c.nodes[axes] EXCEPT !.label = Graph.next])
  OBVIOUS
<1> HIDE DEF c, h
<1>4. Good(h) /\ Follows(Graph, h)
  BY <1>2, <1>3, Labelled
<1> QED BY <1>2, <1>4, ServedFollowing

LEMMA LabelsAreSequences ==
  \A labels \in Labels : labels \in Seq(Nat)
<1> SUFFICES ASSUME NEW labels \in Labels PROVE labels \in Seq(Nat)
  OBVIOUS
<1>1. PICK n \in 0 .. 2 : labels \in [1 .. n -> {0, UserName}]
  BY DEF Labels
<1>2. UserName \in Nat
  BY GraphicsAssumption
<1> QED BY <1>1, <1>2

LEMMA SubsetsAreSequences ==
  \A lines \in Subsets : lines \in Seq(Lines)
<1> SUFFICES ASSUME NEW lines \in Subsets PROVE lines \in Seq(Lines)
  OBVIOUS
<1>1. CASE lines = <<>>
  BY <1>1
<1>2. CASE \E line \in Lines : lines = <<line>>
  BY <1>2
<1>3. CASE \E line, other \in Lines : lines = <<line, other>>
  BY <1>3
<1> QED BY <1>1, <1>2, <1>3 DEF Subsets

LEMMA LegendServed == ASSUME Good(Graph), Legend PROVE Served
<1>1. PICK axes \in {0} \cup Axes, lines \in Subsets, labels \in Labels :
        \E g \in {IF axes = 0 /\ lines = <<>> THEN WithAxes(Graph) ELSE Graph} :
        \E target \in {LegendTarget(g, axes, lines)} :
        \E h \in {WithLegend(g, target)} :
          /\ Becomes(ConfigureLegend(h, target, lines, labels, h = g))
          /\ written' = LabelledLines(Candidates(h.nodes, target, lines), labels)
  BY DEF Legend
<1> DEFINE g == Opened(Graph, axes, lines)
           h == Dressed(Graph, axes, lines)
           same == (h = g)
           k == LegendSet(Graph, axes, lines, labels, same)
           W == LabelledLines(Candidates(h.nodes, Target(Graph, axes, lines), lines), labels)
<1>2. Becomes(k) /\ written' = W
  BY <1>1 DEF Opened, Target, Dressed, LegendSet
<1>3. /\ axes \in {0} \cup Kind(Graph.nodes, "Axes") /\ lines \in Seq(Kind(Graph.nodes, "Line"))
      /\ labels \in Seq(Nat)
  BY <1>1, GraphOf, LabelsAreSequences, SubsetsAreSequences
<1> HIDE DEF same
<1>6. Good(k) /\ NamesKept(Graph, k, W)
  BY <1>3, LegendCalled
<1> HIDE DEF k, W
<1>7. NamesKept(Graph, k, written')
  BY <1>2, <1>6
<1> QED BY <1>2, <1>6, <1>7, ServedBy

LEMMA SetDisplayNameServed == ASSUME Good(Graph), SetDisplayName PROVE Served
<1>1. PICK line \in Lines, name \in {0, UserName} :
        Becomes(Changed(Graph, line, Named(nodes[line], name, 0))) /\ written' = {line}
  BY DEF SetDisplayName
<1> DEFINE h == Changed(Graph, line, Named(Graph.nodes[line], name, 0))
<1>2. Becomes(h) /\ line \in DOMAIN Graph.nodes /\ name \in Nat
  BY <1>1, GraphOf, GraphicsAssumption DEF Kind
<1>3. h = Changed(Graph, line, Named(Graph.nodes[line], name, 0))
  OBVIOUS
<1> HIDE DEF h
<1>4. Good(h) /\ NamesKept(Graph, h, {line})
  BY <1>2, <1>3, NameSet
<1> QED BY <1>1, <1>2, <1>4, ServedBy

LEMMA SetStringServed == ASSUME Good(Graph), SetString PROVE Served
<1>1. PICK legend \in Legends, labels \in Labels \ {<<>>} :
       LET kept == SubSeq(nodes[legend].lines, 1, Min({Len(labels), Len(nodes[legend].lines)}))
           label(line) == labels[Max({i \in DOMAIN kept : kept[i] = line})]
       IN /\ Becomes([Graph EXCEPT !.nodes =
               [id \in DOMAIN nodes |->
                  IF id = legend THEN [nodes[id] EXCEPT !.lines = kept]
                  ELSE IF id \in ToSet(kept) THEN Named(nodes[id], label(id), 0) ELSE nodes[id]]])
          /\ written' = ToSet(kept)
  BY DEF SetString
<1> DEFINE kept == SubSeq(nodes[legend].lines, 1, Min({Len(labels), Len(nodes[legend].lines)}))
           U == Strung(nodes, legend, kept, labels)
           h == [Graph EXCEPT !.nodes = U]
<1>2. Becomes(h) /\ written' = ToSet(kept)
  BY <1>1 DEF Strung, LabelFor
<1>3. /\ legend \in Kind(Graph.nodes, "Legend") /\ labels \in Seq(Nat)
      /\ kept = SubSeq(Graph.nodes[legend].lines, 1, Min({Len(labels), Len(Graph.nodes[legend].lines)}))
      /\ U = Strung(Graph.nodes, legend, kept, labels)
  BY <1>1, GraphOf, LabelsAreSequences
<1>4. h = [Graph EXCEPT !.nodes = U]
  OBVIOUS
<1> HIDE DEF kept, U, h
<1>5. Good(h) /\ NamesKept(Graph, h, ToSet(kept))
  BY <1>3, <1>4, StringSet
<1> QED BY <1>2, <1>5, ServedBy

LEMMA SetParentServed == ASSUME Good(Graph), SetParent PROVE Served
<1>1. PICK id \in DOMAIN nodes, parent \in DOMAIN nodes :
        MayMove(nodes, id, parent) /\ Becomes([Graph EXCEPT !.nodes = Reparented(@, id, parent)])
  BY DEF SetParent
<1> DEFINE h == [Graph EXCEPT !.nodes = Reparented(Graph.nodes, id, parent)]
<1>2. /\ Becomes(h) /\ id \in DOMAIN Graph.nodes /\ parent \in DOMAIN Graph.nodes
      /\ MayMove(Graph.nodes, id, parent)
  BY <1>1, GraphOf
<1>3. h = [Graph EXCEPT !.nodes = Reparented(Graph.nodes, id, parent)]
  OBVIOUS
<1> HIDE DEF h
<1>4. Good(h) /\ Follows(Graph, h)
  BY <1>2, <1>3, Parented
<1> QED BY <1>2, <1>4, ServedFollowing

LEMMA DeleteOrCloseServed == ASSUME Good(Graph), DeleteOrClose PROVE Served
<1>1. CASE \E id \in DOMAIN nodes : Becomes(Erase(Graph, id))
  <2>1. PICK id \in DOMAIN nodes : Becomes(Erase(Graph, id))
    BY <1>1
  <2> DEFINE h == Erase(Graph, id)
  <2>2. Good(h) /\ Follows(Graph, h)
    BY EraseGood
  <2> HIDE DEF h
  <2> QED BY <2>1, <2>2, ServedFollowing DEF h
<1>2. CASE LET g == WithFigure(Graph) IN Becomes(Erase(g, g.figure))
  <2> DEFINE g == WithFigure(Graph)
             h == Erase(g, g.figure)
  <2>1. Becomes(h)
    BY <1>2
  <2>2. Good(g) /\ Follows(Graph, g)
    BY FigureMade DEF Good
  <2> HIDE DEF g
  <2>3. Good(h) /\ Follows(g, h)
    BY <2>2, EraseGood
  <2> HIDE DEF h
  <2>4. Follows(Graph, h)
    BY <2>2, <2>3, FollowsSane DEF Good
  <2> QED BY <2>1, <2>3, <2>4, ServedFollowing
<1> QED BY <1>1, <1>2 DEF DeleteOrClose

LEMMA GraphInitially == GraphicsInit => Good(Graph)
<1> SUFFICES ASSUME GraphicsInit PROVE Good(Graph)
  OBVIOUS
<1>1. nodes = <<>> /\ nextId = 1 /\ currentFigure = 0 /\ DOMAIN nodes = {}
  BY DEF GraphicsInit
<1>2. Graph.nodes = nodes /\ Graph.next = 1 /\ Graph.figure = 0
  BY <1>1, GraphOf
<1>3. nodes \in [DOMAIN nodes -> Nodes]
  BY <1>1
<1>4. Sound(nodes) /\ Beside(nodes) /\ Owned(nodes)
  BY <1>1, <1>3 DEF Sound, Table, Placed, Refers, Lists, OneLegend, Beside, Owned
<1>5. Graph = [nodes |-> Graph.nodes, next |-> Graph.next, figure |-> Graph.figure]
  BY DEF Graph
<1> QED BY <1>1, <1>2, <1>4, <1>5 DEF Good, Sane

LEMMA GraphServed == ASSUME Good(Graph), [GraphicsNext]_graphicsVars PROVE Served
<1>1. CASE GraphicsNext
  BY <1>1, FigureOrAxesServed, PlotLinesServed, HoldServed, SetLabelServed, LegendServed, AutoUpdateServed,
     SetDisplayNameServed, SetStringServed, SetParentServed, DeleteOrCloseServed DEF GraphicsNext
<1>2. CASE UNCHANGED graphicsVars
  <2>1. Graph' = Graph
    BY <1>2 DEF graphicsVars, Graph
  <2>2. NamesKept(Graph, Graph, written')
    BY FollowsSelf, FollowsKeeps DEF Good
  <2> QED BY <2>1, <2>2 DEF Served, Kept
<1> QED BY <1>1, <1>2

LEMMA GraphIsGood == GraphicsSpec => []Good(Graph)
<1>1. GraphicsInit => Good(Graph)
  BY GraphInitially
<1>2. Good(Graph) /\ [GraphicsNext]_graphicsVars => Good(Graph)'
  BY GraphServed DEF Served
<1> QED BY <1>1, <1>2, PTL DEF GraphicsSpec

-----------------------------------------------------------------------------
(* What the graph promises.                                                 *)
LEMMA ObjectsAreAccepted ==
  ASSUME Good(Graph), NEW id \in DOMAIN nodes
  PROVE  SerializerAccepts(id)
<1> DEFINE node == nodes[id]
<1>1. Placed(nodes) /\ Refers(nodes) /\ Lists(nodes) /\ Beside(nodes)
  BY GraphOf DEF Good, Sane, Sound
<1>2. /\ nodes[id].kind = "Figure" => nodes[id].parent = 0
      /\ nodes[id].kind # "Figure" => /\ nodes[id].parent \in Kind(nodes, ParentKind(nodes[id].kind))
                                      /\ id \in ToSet(nodes[nodes[id].parent].children)
      /\ \A child \in ToSet(nodes[id].children) : child \in DOMAIN nodes /\ nodes[child].parent = id
      /\ Once(nodes[id].children)
  BY <1>1 DEF Placed
<1>3. /\ nodes[id].label # 0 => nodes[id].label \in Kind(nodes, "Text") /\ nodes[nodes[id].label].parent = id
      /\ nodes[id].owner # 0 => nodes[id].owner \in Kind(nodes, "Axes")
  BY <1>1 DEF Refers
<1>4. nodes[id].owner # 0 => nodes[nodes[id].owner].parent = nodes[id].parent
  BY <1>1 DEF Beside
<1>5. ToSet(nodes[id].lines) \subseteq Kind(nodes, "Line")
  BY <1>1 DEF Lists
<1>6. \A i \in DOMAIN node.children :
        node.children[i] \in DOMAIN nodes /\ nodes[node.children[i]].parent = id
  <2>1. \A i \in DOMAIN node.children : node.children[i] \in ToSet(node.children)
    BY DEF ToSet
  <2> QED BY <2>1, <1>2
<1>7. IsInjective(node.children)
  BY <1>2 DEF IsInjective, Once
<1>8. IF node.kind = "Figure" THEN node.parent = 0
      ELSE /\ node.parent \in Kind(nodes, ParentKind(node.kind))
           /\ id \in ToSet(nodes[node.parent].children)
  BY <1>2
<1>9. /\ node.label # 0 => node.label \in Kind(nodes, "Text") /\ nodes[node.label].parent = id
      /\ node.owner # 0 => node.owner \in Axes /\ nodes[node.owner].parent = node.parent
      /\ ToSet(node.lines) \subseteq Lines
  BY <1>3, <1>4, <1>5 DEF Axes, Lines
<1> HIDE DEF node
<1>10. node = nodes[id]
  BY DEF node
<1> QED BY <1>6, <1>7, <1>8, <1>9, <1>10 DEF SerializerAccepts

LEMMA GoodIsSound == Good(Graph) => GraphIsSound
<1> SUFFICES ASSUME Good(Graph) PROVE GraphIsSound
  OBVIOUS
<1>1. /\ Table(nodes) /\ Placed(nodes) /\ Refers(nodes) /\ Lists(nodes) /\ OneLegend(nodes) /\ Owned(nodes)
      /\ currentFigure # 0 => currentFigure \in Kind(nodes, "Figure")
  BY GraphOf DEF Good, Sane, Sound
<1>2. ASSUME NEW id \in DOMAIN nodes
      PROVE  /\ SerializerAccepts(id)
             /\ nodes[id].axes # 0 => nodes[id].axes \in Axes /\ nodes[nodes[id].axes].parent = id
             /\ nodes[id].generated # 0 => nodes[id].generated \in Legends
  BY <1>1, ObjectsAreAccepted DEF Refers, Axes, Legends
<1>3. ASSUME NEW id \in Legends
      PROVE  /\ LegendOf(nodes, nodes[id].owner) = {id}
             /\ ~nodes[id].explicit =>
                  \A line \in ToSet(nodes[id].lines) : nodes[line].parent = nodes[id].owner
  <2>1. id \in DOMAIN nodes /\ nodes[id].kind = "Legend" /\ nodes[id].owner # 0
    BY <1>1 DEF Legends, Kind, Owned
  <2>2. \A other \in DOMAIN nodes : nodes[other].owner = nodes[id].owner => other = id
    BY <2>1, <1>1 DEF OneLegend
  <2>3. LegendOf(nodes, nodes[id].owner) = {id}
    BY <2>1, <2>2 DEF LegendOf, Kind
  <2>4. ~nodes[id].explicit =>
          \A line \in ToSet(nodes[id].lines) : nodes[line].parent = nodes[id].owner
    BY <2>1, <1>1 DEF Lists
  <2> QED BY <2>3, <2>4
<1>4. currentFigure # 0 => currentFigure \in Figures
  BY <1>1 DEF Figures
<1> QED BY <1>2, <1>3, <1>4 DEF GraphIsSound

(* After any calls every object can be serialised, the other references    *)
(* are live, an axes has one legend, and a legend without an explicit      *)
(* subset lists lines of its own axes only: GraphIsSound.                  *)
THEOREM GraphStaysSound == GraphicsSpec => []GraphIsSound
BY GraphIsGood, GoodIsSound, PTL

(* A name a script gave a line survives every call that does not write     *)
(* that line's name, whatever legends come, go or list it:                 *)
(* UserNamesSurvive.                                                       *)
THEOREM ScriptNamesSurvive == GraphicsSpec => UserNamesSurvive
<1> DEFINE A == \A line \in Lines :
       nodes[line].name # 0 /\ nodes[line].generated = 0 /\ line \in DOMAIN nodes' \ written' =>
         nodes'[line].name = nodes[line].name /\ nodes'[line].generated = 0
<1>1. Good(Graph) /\ [GraphicsNext]_graphicsVars => [A]_graphicsVars
  <2> SUFFICES ASSUME Good(Graph), [GraphicsNext]_graphicsVars PROVE A
    OBVIOUS
  <2>1. NamesKept(Graph, Graph', written')
    BY GraphServed DEF Served, Kept
  <2>2. Graph.nodes = nodes /\ Graph'.nodes = nodes' /\ Lines = Kind(Graph.nodes, "Line")
    BY DEF Graph, Lines
  <2> QED BY <2>1, <2>2 DEF NamesKept
<1> HIDE DEF A
<1>2. GraphicsSpec => [][A]_graphicsVars
  BY <1>1, GraphIsGood, PTL DEF GraphicsSpec
<1> QED BY <1>2 DEF UserNamesSurvive, A

=============================================================================
